----------------------- MODULE SharedRingChannel_proofs -----------------------
(***************************************************************************)
(* The ring implements its channel, for every capacity, modulus and set of *)
(* contents: the frames in it are those committed and not yet released, in *)
(* order, and every step is a step of RingChannel or none.  All of it up   *)
(* to the step in which a normalization hits an open transaction.          *)
(***************************************************************************)
EXTENDS SharedRingChannel, SharedRingOccupancy_proofs, WellFoundedInduction

(* Offsets: the modulus of the sequence numbers is a multiple of the       *)
(* capacity, so wrapping around moves no unit to another place.            *)
LEMMA ModFacts ==
    ASSUME NEW a \in Int
    PROVE  /\ a = Capacity * (a \div Capacity) + (a % Capacity)
           /\ Capacity * (a \div Capacity) = a - (a % Capacity)
           /\ a % Capacity \in 0 .. Capacity - 1 /\ a \div Capacity \in Int
BY RingAssumption

LEMMA ModUnique ==
    ASSUME NEW q \in Int, NEW r \in 0 .. Capacity - 1
    PROVE  (Capacity * q + r) % Capacity = r
<1> DEFINE a == Capacity * q + r
<1>1. Capacity \in Nat /\ Capacity > 0 /\ a \in Int
  BY RingAssumption
<1>2. /\ a = Capacity * (a \div Capacity) + (a % Capacity)
      /\ a % Capacity \in 0 .. Capacity - 1 /\ a \div Capacity \in Int
  BY <1>1, ModFacts
<1> DEFINE d == q - (a \div Capacity)
<1>3. d \in Int /\ Capacity * d = (a % Capacity) - r
  BY <1>1, <1>2, Z3
<1>4. d = 0
  <2>1. CASE d >= 1
    <3>1. Capacity * d >= Capacity
      BY <1>1, <1>3, <2>1, Z3
    <3> QED
      BY <1>1, <1>2, <1>3, <3>1
  <2>2. CASE d <= -1
    <3>1. Capacity * d <= -Capacity
      BY <1>1, <1>3, <2>2, Z3
    <3> QED
      BY <1>1, <1>2, <1>3, <3>1
  <2> QED
    BY <1>3, <2>1, <2>2
<1>5. Capacity * d = 0
  BY <1>1, <1>4
<1> QED
  BY <1>1, <1>2, <1>3, <1>5

LEMMA ModShift ==
    ASSUME NEW a \in Int, NEW k \in Int
    PROVE  (a + Capacity * k) % Capacity = a % Capacity
<1>1. /\ a = Capacity * (a \div Capacity) + (a % Capacity)
      /\ a % Capacity \in 0 .. Capacity - 1 /\ a \div Capacity \in Int
  BY ModFacts
<1>2. Capacity \in Nat
  BY RingAssumption
<1>3. a + Capacity * k = Capacity * ((a \div Capacity) + k) + (a % Capacity)
  BY <1>1, <1>2, Z3
<1> QED
  BY <1>1, <1>3, ModUnique

LEMMA OffsetAdvance ==
    ASSUME NEW s \in Seqs, NEW n \in 0 .. Capacity
    PROVE  toOffset(Advance(s, n)) = (s + n) % Capacity
<1>1. /\ s \in Int /\ n \in Int /\ Capacity \in Nat /\ SeqModulus \in Nat
  BY RingAssumption DEF Seqs
<1>2. SeqModulus = Capacity * (SeqModulus \div Capacity) /\ SeqModulus \div Capacity \in Int
  BY ModFacts, RingAssumption
<1>3. CASE s + n >= SeqModulus
  <2> DEFINE x == s + n
             k == - (SeqModulus \div Capacity)
  <2>1. x \in Int /\ k \in Int /\ s + n - SeqModulus = x + Capacity * k
    BY <1>1, <1>2, Z3
  <2>2. (x + Capacity * k) % Capacity = x % Capacity
    BY ONLY <2>1, ModShift
  <2> QED
    BY <1>3, <2>1, <2>2 DEF toOffset, Advance
<1>4. CASE ~(s + n >= SeqModulus)
  BY <1>4 DEF toOffset, Advance
<1> QED
  BY <1>3, <1>4

(* Two places a given number of units from the same one are as far apart   *)
(* in the data area, counted around it.                                    *)
LEMMA OffsetDistance ==
    ASSUME NEW s \in Seqs, NEW n \in 0 .. Capacity, NEW m \in 0 .. Capacity
    PROVE  (toOffset(Advance(s, n)) - toOffset(Advance(s, m))) % Capacity = (n - m) % Capacity
<1> DEFINE a == s + n
           b == s + m
<1>1. a \in Int /\ b \in Int /\ n - m = a - b /\ n - m \in Int
  BY RingAssumption DEF Seqs
<1>2. a = Capacity * (a \div Capacity) + (a % Capacity) /\ a \div Capacity \in Int /\ a % Capacity \in Int
  BY <1>1, ModFacts
<1>3. b = Capacity * (b \div Capacity) + (b % Capacity) /\ b \div Capacity \in Int /\ b % Capacity \in Int
  BY <1>1, ModFacts
<1> DEFINE k == (b \div Capacity) - (a \div Capacity)
<1>4. (a % Capacity) - (b % Capacity) = (n - m) + Capacity * k /\ k \in Int
  <2>1. Capacity * k = Capacity * (b \div Capacity) - Capacity * (a \div Capacity)
    BY <1>2, <1>3, RingAssumption
  <2>2. /\ Capacity * (b \div Capacity) = b - (b % Capacity)
        /\ Capacity * (a \div Capacity) = a - (a % Capacity)
    BY <1>1, ModFacts
  <2> QED
    BY <1>1, <1>2, <1>3, <2>1, <2>2
<1>5. ((a % Capacity) - (b % Capacity)) % Capacity = (n - m) % Capacity
  BY <1>1, <1>4, ModShift
<1> QED
  BY <1>5, OffsetAdvance

(* What the writer stores behind WRITE_SEQ touches no unit that is in use. *)
LEMMA OffsetBeyond ==
    ASSUME NEW s \in Seqs, NEW n \in 0 .. Capacity, NEW m \in 0 .. Capacity, n < m
    PROVE  (toOffset(Advance(s, n)) - toOffset(Advance(s, m))) % Capacity = n - m + Capacity
<1>1. n - m = Capacity * (-1) + (n - m + Capacity) /\ n - m + Capacity \in 0 .. Capacity - 1
  BY RingAssumption
<1> QED
  BY <1>1, OffsetDistance, ModUnique

LEMMA OffsetWithin ==
    ASSUME NEW s \in Seqs, NEW n \in 0 .. Capacity - 1
    PROVE  (toOffset(Advance(s, n)) - toOffset(s)) % Capacity = n
<1>1. Advance(s, 0) = s
  BY RingAssumption DEF Advance, Seqs
<1>2. n - 0 = Capacity * 0 + n /\ n \in 0 .. Capacity /\ 0 \in 0 .. Capacity
  BY RingAssumption
<1> QED
  BY <1>1, <1>2, OffsetDistance, ModUnique

LEMMA AdvanceUsed ==
    ASSUME NEW a \in Seqs, NEW b \in Seqs
    PROVE  Advance(a, Used(a, b)) = b
BY RingAssumption DEF Seqs, Used, Advance

LEMMA AdvanceTwice ==
    ASSUME NEW a \in Seqs, NEW n \in Nat, NEW i \in Nat, n + i <= Capacity
    PROVE  Advance(Advance(a, n), i) = Advance(a, n + i)
BY RingAssumption DEF Seqs, Advance

-----------------------------------------------------------------------------
(* The data area m holds the frames of q, the first of them at r and the   *)
(* place of the next one at w; pos says how far from r each begins.        *)
Holds(pos, q, m, r, w) ==
    /\ pos \in [1 .. Len(q) + 1 -> 0 .. Capacity]
    /\ pos[1] = 0 /\ pos[Len(q) + 1] = Used(r, w)
    /\ \A k \in 1 .. Len(q) : pos[k + 1] = pos[k] + q[k].size
    /\ \A j, k \in 1 .. Len(q) + 1 : j <= k => pos[j] <= pos[k]
    /\ \A k \in 1 .. Len(q) : \A i \in 0 .. q[k].size - 1 :
          m[toOffset(Advance(r, pos[k] + i))] = CellOf(q[k], i)

(* One frame alone, at w.                                                  *)
FrameAt(m, w, f) == \A i \in 0 .. f.size - 1 : m[toOffset(Advance(w, i))] = CellOf(f, i)

LEMMA FrameFacts ==
    ASSUME NEW f \in Frames
    PROVE  f.size \in Nat /\ f.size > 0 /\ f.size <= Capacity
BY FrameSize, RingAssumption

LEMMA HoldsNothing ==
    ASSUME NEW m, NEW r \in Seqs
    PROVE  Holds([k \in {1} |-> 0], <<>>, m, r, r)
<1>1. Used(r, r) = 0
  BY UsedNone
<1>2. Len(<<>>) = 0
  OBVIOUS
<1> QED
  BY <1>1, <1>2, RingAssumption DEF Holds

LEMMA HoldsSome ==
    ASSUME NEW pos, NEW q, q \in Seq(Frames), NEW m, NEW r \in Seqs, NEW w \in Seqs,
           Holds(pos, q, m, r, w)
    PROVE  /\ q = <<>> <=> Used(r, w) = 0
           /\ q # <<>> => /\ m[toOffset(r)] = CellOf(Head(q), 0)
                          /\ Head(q) = q[1] /\ q[1] \in Frames /\ pos[2] = q[1].size
<1>0. Len(q) \in Nat /\ (q = <<>> <=> Len(q) = 0)
  OBVIOUS
<1>1. ASSUME q = <<>> PROVE Used(r, w) = 0
  BY <1>0, <1>1 DEF Holds
<1>2. ASSUME q # <<>>
      PROVE  /\ Used(r, w) # 0
             /\ m[toOffset(r)] = CellOf(Head(q), 0) /\ Head(q) = q[1]
             /\ q[1] \in Frames /\ pos[2] = q[1].size
  <2>1. Len(q) > 0 /\ 1 \in 1 .. Len(q) /\ 2 \in 1 .. Len(q) + 1 /\ Len(q) + 1 \in 1 .. Len(q) + 1
    BY <1>0, <1>2
  <2>2. q[1] \in Frames /\ Head(q) = q[1]
    BY <1>2, <2>1
  <2>3. q[1].size \in Nat /\ q[1].size > 0
    BY <2>2, FrameFacts
  <2>4. pos[2] = pos[1] + q[1].size /\ pos[1] = 0
    BY <2>1 DEF Holds
  <2>5. pos[2] <= pos[Len(q) + 1] /\ pos[Len(q) + 1] = Used(r, w)
    BY <1>0, <2>1 DEF Holds
  <2>6. m[toOffset(Advance(r, pos[1] + 0))] = CellOf(q[1], 0)
    <3>1. 0 \in 0 .. q[1].size - 1
      BY <2>3
    <3> QED
      BY <2>1, <3>1 DEF Holds
  <2>7. Advance(r, pos[1] + 0) = r
    BY <2>4, RingAssumption DEF Advance, Seqs
  <2> QED
    BY <2>2, <2>3, <2>4, <2>5, <2>6, <2>7
<1> QED
  BY <1>1, <1>2

(* A place inside a frame of the queue lies before w.                      *)
LEMMA HoldsBelow ==
    ASSUME NEW pos, NEW q, q \in Seq(Frames), NEW m, NEW r \in Seqs, NEW w \in Seqs,
           Holds(pos, q, m, r, w),
           NEW k, k \in 1 .. Len(q), NEW i, i \in 0 .. q[k].size - 1
    PROVE  /\ k \in 1 .. Len(q) + 1 /\ k + 1 \in 1 .. Len(q) + 1
           /\ pos[k] \in 0 .. Capacity /\ i \in Nat
           /\ pos[k] + i < Used(r, w) /\ Used(r, w) \in 0 .. Capacity
           /\ q[k] \in Frames /\ q[k].size \in Nat /\ q[k].size > 0
<1>1. Len(q) \in Nat /\ q[k] \in Frames
  OBVIOUS
<1>2. q[k].size \in Nat /\ q[k].size > 0
  BY <1>1, FrameFacts
<1>3. /\ k \in 1 .. Len(q) + 1 /\ k + 1 \in 1 .. Len(q) + 1
      /\ Len(q) + 1 \in 1 .. Len(q) + 1 /\ k + 1 <= Len(q) + 1
  BY <1>1
<1>4. pos[k] \in 0 .. Capacity /\ pos[k + 1] \in 0 .. Capacity /\ pos[Len(q) + 1] \in 0 .. Capacity
  BY <1>3 DEF Holds
<1>5. pos[k + 1] = pos[k] + q[k].size /\ pos[k + 1] <= pos[Len(q) + 1] /\ pos[Len(q) + 1] = Used(r, w)
  BY <1>3 DEF Holds
<1>6. i \in Nat /\ i < q[k].size
  BY <1>2
<1>7. Used(r, w) \in 0 .. Capacity /\ pos[k] \in Nat /\ pos[k] + q[k].size <= Used(r, w)
  <2>1. pos[k + 1] <= Used(r, w) /\ pos[Len(q) + 1] = Used(r, w)
    BY <1>5
  <2>2. pos[k] + q[k].size <= Used(r, w)
    BY <1>5, <2>1
  <2> QED
    BY <1>4, <2>1, <2>2
<1>8. pos[k] + i < Used(r, w)
  <2>1. Used(r, w) \in Int
    BY <1>7, RingAssumption
  <2> QED
    BY ONLY <1>2, <1>6, <1>7, <2>1
<1> QED
  BY <1>1, <1>2, <1>3, <1>4, <1>6, <1>7, <1>8

(* writeFrame: the queue is untouched, the new frame lies behind it.       *)
Stored(m, w, f) ==
    [o \in 0 .. Capacity - 1 |->
        LET i == (o - toOffset(w)) % Capacity
        IN  IF i < f.size THEN [kind |-> IF i = 0 THEN "head" ELSE "body", frame |-> f] ELSE m[o]]

LEMMA HoldsStore ==
    ASSUME NEW pos, NEW q, q \in Seq(Frames), NEW m, NEW r \in Seqs, NEW w \in Seqs,
           Holds(pos, q, m, r, w),
           NEW f \in Frames, Used(r, w) + f.size <= Capacity
    PROVE  Holds(pos, q, Stored(m, w, f), r, w) /\ FrameAt(Stored(m, w, f), w, f)
<1> DEFINE n == Stored(m, w, f)
<1>h. Holds(pos, q, m, r, w)
  OBVIOUS
<1>0. /\ f.size \in Nat /\ f.size > 0 /\ f.size <= Capacity /\ Capacity \in Nat
      /\ Used(r, w) + f.size <= Capacity
  BY FrameFacts, RingAssumption
<1>1. ASSUME NEW k, k \in 1 .. Len(q), NEW i, i \in 0 .. q[k].size - 1
      PROVE  n[toOffset(Advance(r, pos[k] + i))] = m[toOffset(Advance(r, pos[k] + i))]
  <2> DEFINE o == toOffset(Advance(r, pos[k] + i))
  <2>1. /\ pos[k] \in 0 .. Capacity /\ i \in Nat /\ pos[k] + i < Used(r, w) /\ Used(r, w) \in 0 .. Capacity
        /\ pos[k] + i \in 0 .. Capacity
    <3>1. /\ pos[k] \in 0 .. Capacity /\ i \in Nat /\ pos[k] + i < Used(r, w)
          /\ Used(r, w) \in 0 .. Capacity
      BY <1>1, HoldsBelow
    <3> QED
      BY ONLY <1>0, <3>1
  <2>2. Advance(r, pos[k] + i) \in Seqs
    BY <1>1, <2>1, AdvanceType
  <2>3. o \in 0 .. Capacity - 1
    BY <1>1, <2>2, OffsetType DEF toOffset, Seqs
  <2>4. (o - toOffset(w)) % Capacity = (pos[k] + i) - Used(r, w) + Capacity
    BY <1>1, <2>1, OffsetBeyond, AdvanceUsed
  <2>5. (pos[k] + i) - Used(r, w) + Capacity >= f.size
    BY ONLY <1>0, <2>1
  <2>6. ~((o - toOffset(w)) % Capacity < f.size)
    BY ONLY <1>0, <2>1, <2>4, <2>5
  <2> QED
    BY <1>1, <2>3, <2>6 DEF Stored
<1>2. Holds(pos, q, n, r, w)
  BY ONLY <1>1, <1>h DEF Holds
<1>3. ASSUME NEW i \in 0 .. f.size - 1 PROVE n[toOffset(Advance(w, i))] = CellOf(f, i)
  <2>1. i \in 0 .. Capacity - 1 /\ i \in 0 .. Capacity /\ i < f.size
    BY <1>0
  <2>2. Advance(w, i) \in Seqs
    BY <2>1, AdvanceType
  <2>3. toOffset(Advance(w, i)) \in 0 .. Capacity - 1
    BY <2>2, OffsetType DEF toOffset, Seqs
  <2>4. (toOffset(Advance(w, i)) - toOffset(w)) % Capacity = i
    BY <2>1, OffsetWithin
  <2> QED
    BY <2>1, <2>3, <2>4 DEF CellOf, Stored
<1> QED
  BY ONLY <1>2, <1>3 DEF FrameAt

(* commitWrite: the frame behind the queue becomes its last.               *)
LEMMA HoldsAppend ==
    ASSUME NEW pos, NEW q, q \in Seq(Frames), NEW m, NEW r \in Seqs, NEW w \in Seqs,
           Holds(pos, q, m, r, w),
           NEW f \in Frames, Used(r, w) + f.size <= Capacity, FrameAt(m, w, f)
    PROVE  \E p : Holds(p, Append(q, f), m, r, Advance(w, f.size))
<1> DEFINE L == Len(q)
           q1 == Append(q, f)
           p == [k \in 1 .. L + 2 |-> IF k = L + 2 THEN Used(r, w) + f.size ELSE pos[k]]
<1>0. /\ L \in Nat /\ Len(q1) = L + 1 /\ q1 \in Seq(Frames) /\ q1[L + 1] = f
      /\ \A k \in 1 .. L : q1[k] = q[k]
  OBVIOUS
<1>1. /\ f.size \in Nat /\ f.size > 0 /\ Capacity \in Nat /\ Used(r, w) \in Nat
      /\ Used(r, w) + f.size <= Capacity
  BY FrameFacts, RingAssumption, UsedType
<1>2. Used(r, Advance(w, f.size)) = Used(r, w) + f.size
  BY <1>1, UsedGrows
<1>3. \A k \in 1 .. L + 1 : pos[k] \in 0 .. Capacity /\ pos[k] <= Used(r, w)
  <2>1. TAKE k \in 1 .. L + 1
  <2>2. L + 1 \in 1 .. L + 1 /\ k <= L + 1
    BY <1>0
  <2> QED
    BY <2>2 DEF Holds
<1>4. p \in [1 .. Len(q1) + 1 -> 0 .. Capacity]
  <2>1. ASSUME NEW k \in 1 .. L + 2 PROVE p[k] \in 0 .. Capacity
    <3>1. CASE k = L + 2
      BY <1>0, <1>1, <3>1
    <3>2. CASE k # L + 2
      <4>1. k \in 1 .. L + 1
        BY <1>0, <3>2
      <4> QED
        BY <1>3, <3>2, <4>1
    <3> QED
      BY <3>1, <3>2
  <2> QED
    BY <1>0, <2>1
<1>5. p[1] = 0 /\ p[Len(q1) + 1] = Used(r, Advance(w, f.size))
  <2>1. 1 \in 1 .. L + 2 /\ 1 # L + 2 /\ L + 2 \in 1 .. L + 2 /\ Len(q1) + 1 = L + 2
    BY <1>0
  <2>2. pos[1] = 0
    BY DEF Holds
  <2> QED
    BY <1>2, <2>1, <2>2
<1>6. ASSUME NEW k \in 1 .. Len(q1) PROVE p[k + 1] = p[k] + q1[k].size
  <2>1. k \in 1 .. L + 1 /\ k \in 1 .. L + 2 /\ k + 1 \in 1 .. L + 2 /\ k # L + 2
    BY <1>0
  <2>2. CASE k = L + 1
    <3>1. pos[L + 1] = Used(r, w)
      BY DEF Holds
    <3> QED
      BY <1>0, <2>1, <2>2, <3>1
  <2>3. CASE k # L + 1
    <3>1. k \in 1 .. L /\ k + 1 # L + 2
      BY <1>0, <2>3
    <3>2. pos[k + 1] = pos[k] + q[k].size
      BY <3>1 DEF Holds
    <3> QED
      BY <1>0, <2>1, <3>1, <3>2
  <2> QED
    BY <2>2, <2>3
<1>7. ASSUME NEW j \in 1 .. Len(q1) + 1, NEW k \in 1 .. Len(q1) + 1, j <= k PROVE p[j] <= p[k]
  <2>1. j \in 1 .. L + 2 /\ k \in 1 .. L + 2
    BY <1>0
  <2>2. CASE k = L + 2
    <3>1. CASE j = L + 2
      BY <1>1, <2>1, <2>2, <3>1
    <3>2. CASE j # L + 2
      <4>1. j \in 1 .. L + 1
        BY <1>0, <2>1, <3>2
      <4> QED
        BY <1>1, <1>3, <2>1, <2>2, <3>2, <4>1
    <3> QED
      BY <3>1, <3>2
  <2>3. CASE k # L + 2
    <3>1. j \in 1 .. L + 1 /\ k \in 1 .. L + 1 /\ j # L + 2
      BY <1>0, <1>7, <2>1, <2>3
    <3>2. pos[j] <= pos[k]
      BY <1>7, <3>1 DEF Holds
    <3> QED
      BY <2>1, <2>3, <3>1, <3>2
  <2> QED
    BY <2>2, <2>3
<1>8. ASSUME NEW k, k \in 1 .. Len(q1), NEW i, i \in 0 .. q1[k].size - 1
      PROVE  m[toOffset(Advance(r, p[k] + i))] = CellOf(q1[k], i)
  <2>1. k \in 1 .. L + 1 /\ k \in 1 .. L + 2 /\ k # L + 2 /\ p[k] = pos[k]
    BY <1>8, <1>0
  <2>2. CASE k = L + 1
    <3>1. pos[k] = Used(r, w) /\ q1[k] = f /\ i \in 0 .. f.size - 1
      BY <1>8, <1>0, <1>1, <2>2 DEF Holds
    <3>2. i \in Nat /\ Used(r, w) + i <= Capacity
      BY ONLY <1>1, <3>1
    <3>3. Advance(r, Used(r, w) + i) = Advance(w, i)
      BY <1>8, <1>1, <3>1, <3>2, AdvanceTwice, AdvanceUsed
    <3> QED
      BY <1>8, <2>1, <3>1, <3>3 DEF FrameAt
  <2>3. CASE k # L + 1
    <3>1. k \in 1 .. L /\ q1[k] = q[k]
      BY <1>8, <1>0, <2>1, <2>3
    <3> QED
      BY <1>8, <2>1, <3>1 DEF Holds
  <2> QED
    BY <1>8, <2>2, <2>3
<1> HIDE DEF p, q1
<1>9. Holds(p, q1, m, r, Advance(w, f.size))
  BY <1>4, <1>5, <1>6, <1>7, <1>8 DEF Holds
<1> QED
  BY <1>9 DEF q1

(* commitRead: the first frame leaves, the next one is the first.          *)
LEMMA HoldsTail ==
    ASSUME NEW pos, NEW q, q \in Seq(Frames), NEW m, NEW r \in Seqs, NEW w \in Seqs,
           Holds(pos, q, m, r, w),
           q # <<>>
    PROVE  \E p : Holds(p, Tail(q), m, Advance(r, Head(q).size), w)
<1> DEFINE L == Len(q)
           q1 == Tail(q)
           s == Head(q).size
           p == [k \in 1 .. L |-> pos[k + 1] - s]
<1>0. /\ L \in Nat /\ L > 0 /\ Len(q1) = L - 1 /\ q1 \in Seq(Frames) /\ Head(q) = q[1] /\ q[1] \in Frames
      /\ \A k \in 1 .. L - 1 : q1[k] = q[k + 1]
  OBVIOUS
<1>1. s \in Nat /\ s > 0 /\ s <= Capacity /\ Capacity \in Nat /\ pos[2] = s
  BY <1>0, FrameFacts, RingAssumption, HoldsSome
<1>2. \A k \in 1 .. L : /\ pos[k + 1] \in 0 .. Capacity /\ s <= pos[k + 1] /\ p[k] = pos[k + 1] - s
                        /\ k + 1 \in 1 .. L + 1
  <2>1. TAKE k \in 1 .. L
  <2>2. 2 \in 1 .. L + 1 /\ k + 1 \in 1 .. L + 1 /\ 2 <= k + 1
    BY <1>0
  <2>3. pos[2] <= pos[k + 1] /\ pos[k + 1] \in 0 .. Capacity
    BY <2>2 DEF Holds
  <2> QED
    BY <1>1, <2>2, <2>3
<1>3. p \in [1 .. Len(q1) + 1 -> 0 .. Capacity]
  <2>1. ASSUME NEW k \in 1 .. L PROVE p[k] \in 0 .. Capacity
    BY <1>1, <1>2
  <2> QED
    BY <1>0, <2>1
<1>4. p[1] = 0
  BY <1>0, <1>1, <1>2
<1>5. p[Len(q1) + 1] = Used(Advance(r, s), w) /\ Used(r, w) \in Nat /\ Used(r, w) <= Capacity /\ s <= Used(r, w)
  <2>1. L \in 1 .. L /\ Len(q1) + 1 = L /\ pos[L + 1] = Used(r, w)
    BY <1>0 DEF Holds
  <2>2. p[L] = Used(r, w) - s /\ s <= Used(r, w) /\ Used(r, w) \in Nat /\ Used(r, w) <= Capacity
    BY <1>1, <1>2, <2>1, UsedType
  <2>3. Used(Advance(r, s), w) = Used(r, w) - s
    BY <1>1, <2>2, UsedShrinks
  <2> QED
    BY <2>1, <2>2, <2>3
<1>6. ASSUME NEW k \in 1 .. Len(q1) PROVE p[k + 1] = p[k] + q1[k].size
  <2>1. k \in 1 .. L - 1 /\ k \in 1 .. L /\ k + 1 \in 1 .. L /\ q1[k] = q[k + 1]
    BY <1>0
  <2>2. pos[k + 1 + 1] = pos[k + 1] + q[k + 1].size
    BY <2>1 DEF Holds
  <2>3. q[k + 1].size \in Nat
    BY <2>1, FrameFacts
  <2> QED
    BY <1>1, <1>2, <2>1, <2>2, <2>3
<1>7. ASSUME NEW j \in 1 .. Len(q1) + 1, NEW k \in 1 .. Len(q1) + 1, j <= k PROVE p[j] <= p[k]
  <2>1. j \in 1 .. L /\ k \in 1 .. L /\ j + 1 <= k + 1
    BY <1>0, <1>7
  <2>2. pos[j + 1] <= pos[k + 1]
    BY <1>2, <2>1 DEF Holds
  <2> QED
    BY <1>1, <1>2, <2>1, <2>2
<1> HIDE DEF p
<1>8. ASSUME NEW k, k \in 1 .. Len(q1), NEW i, i \in 0 .. q1[k].size - 1
      PROVE  m[toOffset(Advance(Advance(r, s), p[k] + i))] = CellOf(q1[k], i)
  <2>1. k \in 1 .. L - 1 /\ k \in 1 .. L /\ k + 1 \in 1 .. L /\ q1[k] = q[k + 1]
    BY <1>8, <1>0
  <2>2. i \in 0 .. q[k + 1].size - 1 /\ m[toOffset(Advance(r, pos[k + 1] + i))] = CellOf(q[k + 1], i)
    BY <1>8, <2>1 DEF Holds
  <2>3. i \in Nat /\ pos[k + 1] + i < Used(r, w)
    BY <1>8, <2>1, <2>2, HoldsBelow
  <2>4. /\ p[k] = pos[k + 1] - s /\ pos[k + 1] \in Nat /\ s <= pos[k + 1]
        /\ Used(r, w) \in Nat /\ Used(r, w) <= Capacity
    BY <1>1, <1>2, <1>5, <2>1
  <2>5. p[k] + i \in Nat /\ s + (p[k] + i) = pos[k + 1] + i /\ s + (p[k] + i) <= Capacity
    BY ONLY <1>1, <2>3, <2>4
  <2>6. Advance(Advance(r, s), p[k] + i) = Advance(r, s + (p[k] + i))
    BY <1>8, <1>1, <2>5, AdvanceTwice
  <2> QED
    BY <1>8, <2>1, <2>2, <2>5, <2>6
<1> HIDE DEF q1, s
<1>9. Holds(p, q1, m, Advance(r, s), w)
  BY <1>3, <1>4, <1>5, <1>6, <1>7, <1>8 DEF Holds
<1> QED
  BY <1>9 DEF q1, s

-----------------------------------------------------------------------------
(* The frames committed and not yet released lie in the data area, the one *)
(* being stored behind them, and the view is the first of them.            *)
Contents ==
    ~overlap =>
        /\ IF Rewinds THEN queue = <<>> ELSE \E pos : Holds(pos, queue, mem, readSeq, writeSeq)
        /\ pc[Writer] = "store" => FrameAt(mem, writeSeq, frame)
        /\ Views => queue # <<>> /\ view = Head(queue)

(* A granted read has a header before it.                                  *)
LEMMA GrantedIsThere ==
    ASSUME RingInv, ~overlap, pc[Reader] = "granted"
    PROVE  Used(readSeq, writeSeq) # 0
<1>1. Used(readSeq, ws[Reader]) <= Used(readSeq, writeSeq) /\ Used(readSeq, ws[Reader]) >= HeaderSize
  BY DEF RingInv, Occupancy, ReaderOccupancy
<1>2. Used(readSeq, writeSeq) \in Nat /\ Used(readSeq, ws[Reader]) \in Nat
  BY UsedType, ThreadFacts DEF RingInv, IType, TypeOK
<1> QED
  BY <1>1, <1>2, RingAssumption

LEMMA ContentsStep ==
    ASSUME RingInv, Contents, [Next]_vars, ~overlap'
    PROVE  Contents'
<1>1. ~overlap
  BY OverlapStays DEF RingInv
<1>2. /\ RewindsAlone /\ WriterOccupancy /\ ReaderOccupancy /\ Returns /\ NormalizeMutex
      /\ pc \in [Threads -> Points] /\ ret \in [Threads -> {"idle", "top", "expect", "holding", "sampleRead"}]
      /\ readSeq \in Seqs /\ writeSeq \in Seqs /\ queue \in Seq(Frames)
  BY <1>1 DEF RingInv, Occupancy, IType, TypeOK
<1>3. CommitWrite => ~Rewinds /\ \E pos : Holds(pos, queue', mem', readSeq', writeSeq')
  <2> SUFFICES ASSUME CommitWrite PROVE ~Rewinds /\ \E pos : Holds(pos, queue', mem', readSeq', writeSeq')
    OBVIOUS
  <2>1. pc[Writer] = "store" /\ ~Rewinds
    BY <1>2 DEF CommitWrite, At, RewindsAlone, Rewinds, Relies
  <2>2. PICK pos : Holds(pos, queue, mem, readSeq, writeSeq)
    BY <1>1, <2>1 DEF Contents
  <2>3. FrameAt(mem, writeSeq, frame)
    BY <1>1, <2>1 DEF Contents
  <2>4. /\ frame \in Frames /\ Used(readSeq, writeSeq) + frame.size <= Capacity
        /\ writeSeq' = Advance(writeSeq, frame.size)
    BY <1>1, CommitWriteFits
  <2>5. \E p : Holds(p, Append(queue, frame), mem, readSeq, Advance(writeSeq, frame.size))
    BY ONLY <1>2, <2>2, <2>3, <2>4, HoldsAppend
  <2> QED
    BY <1>1, <2>1, <2>4, <2>5 DEF CommitWrite
<1>4. CommitRead => queue # <<>> /\ \E pos : Holds(pos, queue', mem', readSeq', writeSeq')
  <2> SUFFICES ASSUME CommitRead PROVE queue # <<>> /\ \E pos : Holds(pos, queue', mem', readSeq', writeSeq')
    OBVIOUS
  <2>1. pc[Reader] = "holding" /\ ~Rewinds
    BY <1>2 DEF CommitRead, At, RewindsAlone, Rewinds, Relies
  <2>2. PICK pos : Holds(pos, queue, mem, readSeq, writeSeq)
    BY <1>1, <2>1 DEF Contents
  <2>3. queue # <<>> /\ view = Head(queue)
    BY <1>1, <2>1 DEF Contents, Views
  <2>4. readSeq' = Advance(readSeq, view.size)
    BY <1>1, CommitReadFits
  <2>5. \E p : Holds(p, Tail(queue), mem, Advance(readSeq, Head(queue).size), writeSeq)
    BY ONLY <1>2, <2>2, <2>3, HoldsTail
  <2> QED
    BY <1>1, <2>3, <2>4, <2>5 DEF CommitRead
<1>5. WriteFrame => /\ ~Rewinds /\ \E pos : Holds(pos, queue', mem', readSeq', writeSeq')
                    /\ FrameAt(mem', writeSeq', frame')
  <2> SUFFICES ASSUME WriteFrame
               PROVE  /\ ~Rewinds /\ \E pos : Holds(pos, queue', mem', readSeq', writeSeq')
                      /\ FrameAt(mem', writeSeq', frame')
    OBVIOUS
  <2>1. pc[Writer] = "granted" /\ ~Rewinds
    BY <1>2 DEF WriteFrame, At, RewindsAlone, Rewinds, Relies
  <2>2. PICK pos : Holds(pos, queue, mem, readSeq, writeSeq)
    BY <1>1, <2>1 DEF Contents
  <2>3. frame \in Frames /\ ws[Writer] = writeSeq /\ Used(readSeq, writeSeq) + frame.size <= Capacity
    BY <1>1, <2>1, GrantFits
  <2>4. mem' = Stored(mem, writeSeq, frame)
    BY <2>3 DEF WriteFrame, Stored
  <2>5. /\ Holds(pos, queue, Stored(mem, writeSeq, frame), readSeq, writeSeq)
        /\ FrameAt(Stored(mem, writeSeq, frame), writeSeq, frame)
    BY ONLY <1>2, <2>2, <2>3, HoldsStore
  <2>6. UNCHANGED <<readSeq, writeSeq, queue, frame>>
    BY DEF WriteFrame, seqVars
  <2> QED
    BY <2>1, <2>4, <2>5, <2>6
<1>6. ReadHeader => pc'[Reader] = "idle" \/ (queue # <<>> /\ view' = Head(queue))
  <2> SUFFICES ASSUME ReadHeader, pc'[Reader] # "idle" PROVE queue # <<>> /\ view' = Head(queue)
    OBVIOUS
  <2>1. pc[Reader] = "granted" /\ ~Rewinds /\ rs[Reader] = readSeq
    BY <1>2 DEF ReadHeader, At, RewindsAlone, Rewinds, Relies, ReaderOccupancy
  <2>2. PICK pos : Holds(pos, queue, mem, readSeq, writeSeq)
    BY <1>1, <2>1 DEF Contents
  <2>3. Used(readSeq, writeSeq) # 0
    BY <1>1, <2>1, GrantedIsThere
  <2>4. queue # <<>> /\ mem[toOffset(readSeq)] = CellOf(Head(queue), 0)
    BY ONLY <1>2, <2>2, <2>3, HoldsSome
  <2>5. view' = mem[toOffset(readSeq)].frame
    BY <1>2, <2>1, ThreadFacts DEF ReadHeader, ThrowErrored, EndOperation, Goto
  <2> QED
    BY <2>4, <2>5 DEF CellOf
<1>7. \A t \in Threads : NormalizeZeroRead(t) => queue = <<>> /\ ~Rewinds
  <2> SUFFICES ASSUME NEW t \in Threads, NormalizeZeroRead(t) PROVE queue = <<>> /\ ~Rewinds
    OBVIOUS
  <2>1. ~Rewinds /\ readSeq = writeSeq
    BY <1>2, ThreadFacts DEF NormalizeZeroRead, At, Rewinds, NormalizeMutex, Normalizing
  <2>2. PICK pos : Holds(pos, queue, mem, readSeq, writeSeq)
    BY <1>1, <2>1 DEF Contents
  <2>3. Used(readSeq, writeSeq) = 0
    BY <1>2, <2>1, UsedNone
  <2>4. queue = <<>> <=> Used(readSeq, writeSeq) = 0
    BY ONLY <1>2, <2>2, HoldsSome
  <2> QED
    BY <2>1, <2>3, <2>4
<1>8. \A t \in Threads : NormalizeZeroWrite(t) =>
         /\ queue' = <<>> /\ ~Rewinds' /\ ~Relies(Other(t))
         /\ \E pos : Holds(pos, queue', mem', readSeq', writeSeq')
  <2> SUFFICES ASSUME NEW t \in Threads, NormalizeZeroWrite(t)
               PROVE  /\ queue' = <<>> /\ ~Rewinds' /\ ~Relies(Other(t))
                      /\ \E pos : Holds(pos, queue', mem', readSeq', writeSeq')
    OBVIOUS
  <2>1. Rewinds /\ ~Rewinds' /\ readSeq = 0 /\ ~Relies(Other(t))
    BY <1>2, ThreadFacts
    DEF NormalizeZeroWrite, At, Goto, Rewinds, NormalizeMutex, Normalizing, RewindsAlone, Other
  <2>2. queue' = <<>> /\ readSeq' = 0 /\ writeSeq' = 0
    BY <1>1, <2>1 DEF Contents, NormalizeZeroWrite, dataVars
  <2>3. Holds([k \in {1} |-> 0], <<>>, mem', 0, 0)
    BY ValueFacts, HoldsNothing
  <2> QED
    BY <2>1, <2>2, <2>3
<1> HIDE DEF Contents
<1>9. /\ IF Rewinds THEN queue = <<>> ELSE \E pos : Holds(pos, queue, mem, readSeq, writeSeq)
      /\ pc[Writer] = "store" => FrameAt(mem, writeSeq, frame)
      /\ Views => queue # <<>> /\ view = Head(queue)
  BY <1>1 DEF Contents
<1> USE <1>1, <1>2, <1>9, ThreadFacts DEF Relies, Views, Rewinds, Returns, SamplePoints,
        NormalPoints, At, Goto, seqVars, localVars, waitVars, callVars, dataVars, Other, Contents
<1>10. ASSUME NEW t \in Threads, Rests(t) PROVE Contents'
  BY <1>10 DEF Rests, LocalsKept, QuietPoints, Other
<1>11. ASSUME NEW t \in Threads, SampleRead(t) PROVE Contents'
  BY <1>11 DEF SampleRead
<1>12. ASSUME NEW t \in Threads, SampleWrite(t) PROVE Contents'
  BY <1>12 DEF SampleWrite, SampleDone, EndOperation
<1>13. ASSUME NEW t \in Threads, SampleLock(t) PROVE Contents'
  BY <1>13 DEF SampleLock, SampleDone, EndOperation
<1>14. ASSUME NEW t \in Threads, NormalizeZeroRead(t) PROVE Contents'
  BY <1>14, <1>7 DEF NormalizeZeroRead
<1>15. ASSUME NEW t \in Threads, NormalizeZeroWrite(t) PROVE Contents'
  BY <1>15, <1>8 DEF NormalizeZeroWrite
<1>16. ASSUME NEW t \in Threads, NormalizeUnlock(t) PROVE Contents'
  BY <1>16 DEF NormalizeUnlock, NormalizeReturn
<1>17. ASSUME NEW t \in Threads, CheckLockBefore(t) PROVE Contents'
  BY <1>17 DEF CheckLockBefore, Retry
<1>18. ASSUME NEW t \in Threads, LoadReadSeq(t) PROVE Contents'
  BY <1>18 DEF LoadReadSeq
<1>19. ASSUME NEW t \in Threads, LoadWriteSeq(t) PROVE Contents'
  BY <1>19 DEF LoadWriteSeq
<1>20. ASSUME NEW t \in Threads, CheckLockAfter(t) PROVE Contents'
  BY <1>20 DEF CheckLockAfter, Retry
<1>21. ASSUME NEW t \in Threads, Acquire(t) PROVE Contents'
  BY <1>21 DEF Acquire, ThrowErrored, EndOperation
<1>22. CASE WriteFrame
  BY <1>22, <1>5 DEF WriteFrame
<1>23. CASE CommitWrite
  BY <1>23, <1>3 DEF CommitWrite
<1>24. CASE ReadHeader
  BY <1>24, <1>6 DEF ReadHeader, ThrowErrored, EndOperation
<1>25. CASE CommitRead
  BY <1>25, <1>4 DEF CommitRead
<1> QED
  BY RestsOrBusy, <1>10, <1>11, <1>12, <1>13, <1>14, <1>15, <1>16, <1>17, <1>18, <1>19, <1>20,
     <1>21, <1>22, <1>23, <1>24, <1>25 DEF Busy, RingInv

LEMMA ContentsInvariant == Spec => [](RingInv /\ Contents)
<1>1. Init => Contents
  <2> SUFFICES ASSUME Init PROVE Contents
    OBVIOUS
  <2>1. Holds([k \in {1} |-> 0], <<>>, mem, 0, 0)
    BY ValueFacts, HoldsNothing
  <2> QED
    BY <2>1, ThreadFacts DEF Init, Contents, Views
<1>2. RingInv /\ Contents /\ [Next]_vars => Contents'
  <2>1. ASSUME overlap' PROVE Contents'
    BY <2>1 DEF Contents
  <2> QED
    BY <2>1, ContentsStep
<1> QED
  BY OccupancyInit, OccupancyStep, <1>1, <1>2, PTL DEF Spec

-----------------------------------------------------------------------------
(* The recursive function Starts: there is one such function, and it is    *)
(* the pos of the invariant.  Induction over the natural numbers is        *)
(* derived from their being well founded.                                  *)
Below == {p \in Nat \X Nat : p[1] < p[2]}

LEMMA SetInduction ==
    ASSUME NEW T, 0 \in T, \A n \in Nat : n \in T => n + 1 \in T
    PROVE  Nat \subseteq T
<1>1. IsWellFoundedOn(Below, Nat)
  <2>1. Below = OpToRel(<, Nat)
    BY DEF OpToRel, Below
  <2> QED
    BY <2>1, NatLessThanWellFounded, Zenon
<1> SUFFICES ASSUME Nat \ T # {} PROVE FALSE
  OBVIOUS
<1>2. PICK x \in Nat \ T : \A y \in Nat \ T : ~(<<y, x>> \in Below)
  BY <1>1, WFMin
<1>3. \A y \in Nat \ T : ~(y < x)
  BY <1>2 DEF Below
<1>4. x # 0 /\ x - 1 \in Nat /\ x - 1 \in T
  BY <1>2, <1>3
<1> QED
  BY <1>2, <1>4

LEMMA StartsAre ==
    ASSUME NEW pos, queue \in Seq(Frames), Holds(pos, queue, mem, readSeq, writeSeq)
    PROVE  \A k \in 1 .. Len(queue) + 1 : Starts[k] = pos[k]
<1> DEFINE L == Len(queue)
<1>0. L \in Nat
  OBVIOUS
<1>1. pos = [k \in 1 .. L + 1 |-> IF k = 1 THEN 0 ELSE pos[k - 1] + queue[k - 1].size]
  <2>1. pos \in [1 .. L + 1 -> 0 .. Capacity] /\ pos[1] = 0
    BY DEF Holds
  <2>2. ASSUME NEW k \in 1 .. L + 1, k # 1 PROVE pos[k] = pos[k - 1] + queue[k - 1].size
    <3>1. k - 1 \in 1 .. L /\ (k - 1) + 1 = k
      BY <1>0, <2>2
    <3> QED
      BY <3>1 DEF Holds
  <2> QED
    BY <2>1, <2>2
<1>2. Starts = [k \in 1 .. L + 1 |-> IF k = 1 THEN 0 ELSE Starts[k - 1] + queue[k - 1].size]
  BY <1>1 DEF Starts
<1> DEFINE T == {n \in Nat : n + 1 \in 1 .. L + 1 => Starts[n + 1] = pos[n + 1]}
<1>3. 0 \in T
  BY <1>0, <1>1, <1>2
<1>4. ASSUME NEW n \in Nat, n \in T PROVE n + 1 \in T
  <2>1. ASSUME (n + 1) + 1 \in 1 .. L + 1 PROVE Starts[(n + 1) + 1] = pos[(n + 1) + 1]
    <3>1. n + 1 \in 1 .. L + 1 /\ (n + 1) + 1 # 1 /\ ((n + 1) + 1) - 1 = n + 1
      BY <1>0, <2>1
    <3>2. Starts[n + 1] = pos[n + 1]
      BY <1>4, <3>1
    <3>3. /\ Starts[(n + 1) + 1] = Starts[n + 1] + queue[n + 1].size
          /\ pos[(n + 1) + 1] = pos[n + 1] + queue[n + 1].size
      BY <1>1, <1>2, <2>1, <3>1
    <3> QED
      BY <3>2, <3>3
  <2> QED
    BY <2>1
<1> HIDE DEF T
<1>5. Nat \subseteq T
  BY <1>3, <1>4, SetInduction
<1>6. ASSUME NEW k \in 1 .. L + 1 PROVE Starts[k] = pos[k]
  <2>1. k - 1 \in Nat /\ (k - 1) + 1 = k
    BY <1>0
  <2> QED
    BY <1>5, <2>1 DEF T
<1> QED
  BY <1>6

LEMMA RewindsIs == Rewinding <=> Rewinds
BY ThreadFacts DEF Rewinding, Rewinds

(* commitWrite, commitRead and the stores between them: what lies between  *)
(* READ_SEQ and WRITE_SEQ is the frames committed and not yet released, in *)
(* order and whole, and the FrameReadView is the oldest of them.           *)
THEOREM RingHoldsItsQueue == Spec => []RingHoldsQueue
<1>1. RingInv /\ Contents => RingHoldsQueue
  <2> SUFFICES ASSUME RingInv, Contents, ~overlap, ~Rewinding PROVE RingHoldsQueue
    BY DEF RingHoldsQueue
  <2>1. queue \in Seq(Frames) /\ readSeq \in Seqs /\ writeSeq \in Seqs /\ Len(queue) \in Nat
    BY DEF RingInv, IType, TypeOK
  <2>2. PICK pos : Holds(pos, queue, mem, readSeq, writeSeq)
    BY RewindsIs DEF Contents
  <2>3. \A k \in 1 .. Len(queue) + 1 : Starts[k] = pos[k]
    BY <2>1, <2>2, StartsAre
  <2>4. Used(readSeq, writeSeq) = Starts[Len(queue) + 1]
    <3>1. Len(queue) + 1 \in 1 .. Len(queue) + 1
      BY <2>1
    <3> QED
      BY <2>2, <2>3, <3>1 DEF Holds
  <2>5. ASSUME NEW k \in 1 .. Len(queue), NEW i \in 0 .. queue[k].size - 1
        PROVE  mem[toOffset(Advance(readSeq, Starts[k] + i))] = CellOf(queue[k], i)
    <3>1. k \in 1 .. Len(queue) + 1
      BY <2>1
    <3>2. Starts[k] = pos[k]
      BY <2>3, <3>1
    <3> QED
      BY <2>2, <3>2 DEF Holds
  <2>6. pc[Reader] \in {"granted", "holding"} => queue # <<>>
    <3>1. pc[Reader] = "holding" => queue # <<>>
      BY DEF Contents, Views
    <3>2. ASSUME pc[Reader] = "granted" PROVE queue # <<>>
      BY <3>2, GrantedIsThere, <2>1, <2>2, HoldsSome
    <3> QED
      BY <3>1, <3>2
  <2>7. pc[Reader] = "holding" => view = Head(queue)
    BY DEF Contents, Views
  <2> QED
    BY <2>4, <2>5, <2>6, <2>7 DEF RingHoldsQueue
<1> QED
  BY ContentsInvariant, <1>1, PTL

-----------------------------------------------------------------------------
(* The refinement mapping: how much is in the channel, and what its sender *)
(* may publish.                                                            *)
Occupied == IF Rewinding THEN 0 ELSE Used(readSeq, writeSeq)
Admitted == IF pc[Writer] \in {"granted", "store"} THEN frame ELSE NoFrame

(* waitForWritable granted: the send is admitted.                          *)
LEMMA AcquireAdmits ==
    ASSUME RingInv, ~overlap, Acquire(Writer), pc'[Writer] = "granted"
    PROVE  /\ state = 0 /\ ~Rewinding /\ frame \in Frames
           /\ Used(readSeq, writeSeq) + frame.size <= Capacity
<1>1. /\ frame \in Frames /\ rs[Writer] \in Seqs /\ readSeq \in Seqs /\ writeSeq \in Seqs
      /\ pc[Writer] = "acquire" /\ pc \in [Threads -> Points]
  BY ThreadFacts DEF RingInv, IType, TypeOK, Acquire, At
<1>2. frame.size \in Nat
  BY <1>1, FrameSize, RingAssumption
<1>3. ws[Writer] = writeSeq /\ Behind(rs[Writer], readSeq, writeSeq) /\ ~Rewinds
  BY <1>1 DEF RingInv, Occupancy, WriterOccupancy, RewindsAlone, Rewinds, Relies
<1>4. /\ Used(rs[Writer], ws[Writer]) <= Capacity
      /\ ~Fails(Writer, Used(rs[Writer], ws[Writer]))
      /\ Fits(Writer, Used(rs[Writer], ws[Writer]))
  BY <1>1, ThreadFacts DEF Acquire, ThrowErrored, EndOperation, Goto
<1>5. state = 0 /\ Capacity - Used(rs[Writer], writeSeq) >= frame.size
  BY <1>3, <1>4 DEF Fails, Fits, Open
<1>6. Used(readSeq, writeSeq) \in Nat /\ Used(rs[Writer], writeSeq) \in Nat
  BY <1>1, UsedType
<1>7. Used(readSeq, writeSeq) <= Used(rs[Writer], writeSeq)
  BY <1>1, <1>3, BehindNow
<1>8. Used(readSeq, writeSeq) + frame.size <= Capacity
  BY <1>2, <1>5, <1>6, <1>7, RingAssumption
<1> QED
  BY <1>1, <1>3, <1>5, <1>8, RewindsIs

(* Every step maps to a step of the channel or to none.                    *)
LEMMA ChannelStep ==
    ASSUME RingInv, Contents, [Next]_vars, ~overlap', state' \in TransportState
    PROVE  \/ \E f \in Frames : state = 0 /\ Admitted = NoFrame /\ Occupied + f.size <= Capacity
                                /\ Admitted' = f /\ UNCHANGED <<queue, Occupied, state>>
           \/ /\ Admitted # NoFrame
              /\ queue' = Append(queue, Admitted) /\ Occupied' = Occupied + Admitted.size
              /\ Admitted' = NoFrame /\ UNCHANGED state
           \/ /\ queue # <<>>
              /\ queue' = Tail(queue) /\ Occupied' = Occupied - Head(queue).size
              /\ UNCHANGED <<Admitted, state>>
           \/ \E s \in 1 .. 3 : s > state /\ state' = s /\ UNCHANGED <<queue, Occupied, Admitted>>
           \/ UNCHANGED <<queue, Occupied, Admitted, state>>
<1> DEFINE Admits    == \E f \in Frames : /\ state = 0 /\ Admitted = NoFrame
                                          /\ Occupied + f.size <= Capacity
                                          /\ Admitted' = f /\ UNCHANGED <<queue, Occupied, state>>
           Publishes == /\ Admitted # NoFrame
                        /\ queue' = Append(queue, Admitted) /\ Occupied' = Occupied + Admitted.size
                        /\ Admitted' = NoFrame /\ UNCHANGED state
           Releases  == /\ queue # <<>>
                        /\ queue' = Tail(queue) /\ Occupied' = Occupied - Head(queue).size
                        /\ UNCHANGED <<Admitted, state>>
           Ends      == \E s \in 1 .. 3 : s > state /\ state' = s /\ UNCHANGED <<queue, Occupied, Admitted>>
           Stays     == UNCHANGED <<queue, Occupied, Admitted>>
           Goal      == Admits \/ Publishes \/ Releases \/ Ends \/ (Stays /\ UNCHANGED state)
<1>1. ~overlap
  BY OverlapStays DEF RingInv
<1>2. /\ RewindsAlone /\ Returns /\ NormalizeMutex
      /\ pc \in [Threads -> Points] /\ ret \in [Threads -> {"idle", "top", "expect", "holding", "sampleRead"}]
      /\ readSeq \in Seqs /\ writeSeq \in Seqs
  BY <1>1 DEF RingInv, Occupancy, IType, TypeOK
<1>3. Rewinding = Rewinds /\ Rewinding' = Rewinds'
  BY RewindsIs, ThreadFacts DEF Rewinding, Rewinds
<1>4. ASSUME NEW t \in Threads, NormalizeZeroRead(t) PROVE UNCHANGED Occupied /\ queue' = queue
  <2>1. ~Rewinds /\ readSeq = writeSeq
    BY <1>1, <1>2, <1>4, ThreadFacts DEF NormalizeZeroRead, At, Rewinds, NormalizeMutex, Normalizing
  <2>2. Rewinds'
    BY <1>2, <1>4, ThreadFacts DEF NormalizeZeroRead, At, Goto, Rewinds
  <2>3. Used(readSeq, writeSeq) = 0
    BY <1>2, <2>1, UsedNone
  <2> QED
    BY <1>3, <1>4, <2>1, <2>2, <2>3 DEF Occupied, NormalizeZeroRead
<1>5. ASSUME NEW t \in Threads, NormalizeZeroWrite(t) PROVE UNCHANGED Occupied
  <2>1. Rewinds /\ ~Rewinds' /\ readSeq = 0
    BY <1>2, <1>5, ThreadFacts
    DEF NormalizeZeroWrite, At, Goto, Rewinds, NormalizeMutex, Normalizing, RewindsAlone
  <2>2. Used(0, 0) = 0 /\ readSeq' = 0 /\ writeSeq' = 0
    BY <1>5, <2>1, ValueFacts, UsedNone DEF NormalizeZeroWrite
  <2> QED
    BY <1>3, <2>1, <2>2 DEF Occupied
<1>6. CommitWrite => Publishes
  <2> SUFFICES ASSUME CommitWrite PROVE Publishes
    OBVIOUS
  <2>1. frame \in Frames /\ Used(readSeq, writeSeq') = Used(readSeq, writeSeq) + frame.size
    BY <1>1, CommitWriteFits
  <2>2. pc[Writer] = "store" /\ pc'[Writer] = "add" /\ ~Rewinds /\ ~Rewinds' /\ UNCHANGED <<readSeq, frame, state>>
    BY <1>2, ThreadFacts DEF CommitWrite, At, Goto, RewindsAlone, Rewinds, Relies
  <2>3. frame # NoFrame
    BY <2>1, FrameSize
  <2>4. Admitted = frame /\ Admitted' = NoFrame
    BY <2>2 DEF Admitted
  <2>5. queue' = Append(queue, frame)
    BY <1>1 DEF CommitWrite
  <2>6. Occupied = Used(readSeq, writeSeq) /\ Occupied' = Used(readSeq, writeSeq')
    BY <1>3, <2>2 DEF Occupied
  <2> QED
    BY <2>1, <2>2, <2>3, <2>4, <2>5, <2>6
<1>7. CommitRead => Releases
  <2> SUFFICES ASSUME CommitRead PROVE Releases
    OBVIOUS
  <2>1. Used(readSeq', writeSeq) = Used(readSeq, writeSeq) - view.size
    BY <1>1, CommitReadFits
  <2>2. pc[Reader] = "holding" /\ ~Rewinds /\ ~Rewinds' /\ UNCHANGED <<writeSeq, Admitted, state>>
    BY <1>2, ThreadFacts DEF CommitRead, At, Goto, RewindsAlone, Rewinds, Relies, Admitted
  <2>3. queue # <<>> /\ view = Head(queue)
    BY <1>1, <2>2 DEF Contents, Views
  <2>4. queue' = Tail(queue)
    BY <1>1, <2>3 DEF CommitRead
  <2>5. Occupied = Used(readSeq, writeSeq) /\ Occupied' = Used(readSeq', writeSeq)
    BY <1>3, <2>2 DEF Occupied
  <2> QED
    BY <2>1, <2>2, <2>3, <2>4, <2>5
<1>8. ASSUME NEW t \in Threads, Acquire(t) PROVE Admits \/ (Stays /\ UNCHANGED state)
  <2>1. UNCHANGED <<queue, readSeq, writeSeq, state>> /\ Rewinds' = Rewinds
    BY <1>2, <1>8, ThreadFacts DEF Acquire, seqVars, At, Goto, ThrowErrored, EndOperation, Rewinds
  <2>2. UNCHANGED Occupied
    BY <1>3, <2>1 DEF Occupied
  <2>3. CASE t = Writer /\ pc'[Writer] = "granted"
    <3>1. /\ state = 0 /\ ~Rewinding /\ frame \in Frames /\ Used(readSeq, writeSeq) + frame.size <= Capacity
      BY <1>1, <1>8, <2>3, AcquireAdmits
    <3>2. Admitted = NoFrame /\ Admitted' = frame
      BY <1>2, <1>8, <2>3, ThreadFacts DEF Acquire, At, Goto, ThrowErrored, EndOperation, Admitted
    <3> QED
      BY <2>1, <2>2, <3>1, <3>2 DEF Occupied
  <2>4. CASE ~(t = Writer /\ pc'[Writer] = "granted")
    <3>1. UNCHANGED Admitted
      BY <1>2, <1>8, <2>4, ThreadFacts DEF Acquire, At, Goto, ThrowErrored, EndOperation, Admitted
    <3> QED
      BY <2>1, <2>2, <3>1
  <2> QED
    BY <2>3, <2>4
<1>9. ASSUME NEW t \in Threads, Rests(t) PROVE Ends \/ (Stays /\ UNCHANGED state)
  <2>1. UNCHANGED <<queue, readSeq, writeSeq>> /\ Rewinds' = Rewinds
    BY <1>2, <1>9, ThreadFacts DEF Rests, LocalsKept, QuietPoints, Rewinds
  <2>2. UNCHANGED Occupied
    BY <1>3, <2>1 DEF Occupied
  <2>3. UNCHANGED Admitted
    BY <1>2, <1>9, ThreadFacts DEF Rests, LocalsKept, QuietPoints, Admitted
  <2>4. state' = state \/ (state' > state /\ state' \in 1 .. 3)
    BY <1>9 DEF Rests, RingInv, IType, TypeOK, TransportState, Open, Errored
  <2> QED
    BY <2>1, <2>2, <2>3, <2>4
<1> HIDE DEF Admits, Publishes, Releases, Ends
<1> SUFFICES Goal
  BY DEF Admits, Publishes, Releases, Ends
<1>10. ASSUME NEW t \in Threads, Busy(t) PROVE Goal
  <2> USE <1>1, <1>2, <1>3, ThreadFacts DEF Occupied, Admitted, Rewinds, At, Goto, seqVars,
          localVars,
          waitVars, callVars, dataVars, Other, Returns, SamplePoints, NormalPoints
  <2>1. CASE SampleRead(t)
    BY <2>1 DEF SampleRead
  <2>2. CASE SampleWrite(t)
    BY <2>2 DEF SampleWrite, SampleDone, EndOperation
  <2>3. CASE SampleLock(t)
    BY <2>3 DEF SampleLock, SampleDone, EndOperation
  <2>4. CASE NormalizeZeroRead(t)
    BY <2>4, <1>4 DEF NormalizeZeroRead
  <2>5. CASE NormalizeZeroWrite(t)
    BY <2>5, <1>5 DEF NormalizeZeroWrite
  <2>6. CASE NormalizeUnlock(t)
    BY <2>6 DEF NormalizeUnlock, NormalizeReturn
  <2>7. CASE CheckLockBefore(t)
    BY <2>7 DEF CheckLockBefore, Retry
  <2>8. CASE LoadReadSeq(t)
    BY <2>8 DEF LoadReadSeq
  <2>9. CASE LoadWriteSeq(t)
    BY <2>9 DEF LoadWriteSeq
  <2>10. CASE CheckLockAfter(t)
    BY <2>10 DEF CheckLockAfter, Retry
  <2>11. CASE Acquire(t)
    BY <2>11, <1>8
  <2>12. CASE WriteFrame
    BY <2>12 DEF WriteFrame
  <2>13. CASE CommitWrite
    BY <2>13, <1>6
  <2>14. CASE ReadHeader
    BY <2>14 DEF ReadHeader, ThrowErrored, EndOperation
  <2>15. CASE CommitRead
    BY <2>15, <1>7
  <2> QED
    BY <1>10, <2>1, <2>2, <2>3, <2>4, <2>5, <2>6, <2>7, <2>8, <2>9, <2>10, <2>11, <2>12, <2>13,
       <2>14, <2>15 DEF Busy
<1> QED
  BY <1>9, <1>10, RestsOrBusy DEF RingInv

(* The ring implements the bounded first-in first-out channel of           *)
(* RingChannel, until a normalization hits an open transaction.            *)
THEOREM RingImplementsChannel == Spec => ImplementsChannel
<1>1. Init => Chan!ChanInit
  <2> SUFFICES ASSUME Init PROVE Chan!ChanInit
    OBVIOUS
  <2>1. Used(0, 0) = 0
    BY ValueFacts, UsedNone
  <2> QED
    BY <2>1, ThreadFacts DEF Init, Chan!ChanInit, Rewinding, Open
<1>2. RingInv /\ Contents /\ RingInv' /\ [Next]_vars => [Chan!ChanNext \/ overlap']_(Chan!chanVars)
  <2> SUFFICES ASSUME RingInv, Contents, RingInv', [Next]_vars, ~overlap'
               PROVE  Chan!ChanNext \/ UNCHANGED Chan!chanVars
    OBVIOUS
  <2>1. state' \in TransportState
    BY DEF RingInv, IType, TypeOK
  <2> QED
    BY <2>1, ChannelStep
    DEF Occupied, Admitted, Chan!ChanNext, Chan!Admit, Chan!Publish, Chan!Release, Chan!End, Chan!chanVars
<1> QED
  BY <1>1, <1>2, ContentsInvariant, PTL DEF Spec, ImplementsChannel
=============================================================================

----------------------------- MODULE Frames_proofs -----------------------------
(***************************************************************************)
(* Proofs about the frames on a ring, byte by byte, for every capacity,    *)
(* alignment, header and prefix size, and for payloads of any sizes: they  *)
(* arrive whole, no write touches an unread byte, both ends count alike,   *)
(* and their timelines of saturation are faithful.                         *)
(***************************************************************************)
EXTENDS Frames, SequenceTheorems, FiniteSetTheorems, WellFoundedInduction, TLAPS

(* Positions count the bytes ever put on the ring: the sequence numbers    *)
(* are positions modulo Modulus, and the bytes lie at their Cells.         *)
Cell(z) == z % Capacity

LEMMA Constants ==
    /\ Capacity \in Nat /\ Capacity > 0 /\ HeaderSize \in Nat /\ HeaderSize > 0
         /\ HeaderSize <= Capacity
    /\ PrefixSize \in Nat /\ PrefixSize > 0 /\ Alignment \in Nat /\ Alignment > 0
    /\ Modulus \in Nat /\ Modulus > Capacity /\ Modulus % Capacity = 0 /\ MaxFrames \in Nat
    /\ Sizes \subseteq Nat
BY FramesAssumption

LEMMA DivMod ==
    ASSUME NEW m \in Nat, m > 0, NEW a \in Int
    PROVE  /\ a = m * (a \div m) + (a % m) /\ m * (a \div m) = a - (a % m)
           /\ a % m \in 0 .. m - 1 /\ a \div m \in Int
OBVIOUS

LEMMA ModUnique ==
    ASSUME NEW m \in Nat, m > 0, NEW q \in Int, NEW r \in 0 .. m - 1
    PROVE  (m * q + r) % m = r
<1> DEFINE a == m * q + r
<1>1. a \in Int
  OBVIOUS
<1>2. a = m * (a \div m) + (a % m) /\ a % m \in 0 .. m - 1 /\ a \div m \in Int
  BY <1>1, DivMod
<1> DEFINE d == q - (a \div m)
<1>3. d \in Int /\ m * d = (a % m) - r
  BY <1>1, <1>2, Z3
<1>4. d = 0
  <2>1. CASE d >= 1
    <3>1. m * d >= m
      BY <1>3, <2>1, Z3
    <3> QED  BY <1>1, <1>2, <1>3, <3>1
  <2>2. CASE d <= -1
    <3>1. m * d <= -m
      BY <1>3, <2>2, Z3
    <3> QED  BY <1>1, <1>2, <1>3, <3>1
  <2> QED  BY <1>3, <2>1, <2>2
<1>5. m * d = 0
  BY <1>4
<1> QED  BY <1>1, <1>2, <1>3, <1>5

LEMMA ModShift ==
    ASSUME NEW m \in Nat, m > 0, NEW a \in Int, NEW k \in Int
    PROVE  (a + m * k) % m = a % m
<1>1. a = m * (a \div m) + (a % m) /\ a % m \in 0 .. m - 1 /\ a \div m \in Int
  BY DivMod
<1>2. a + m * k = m * ((a \div m) + k) + (a % m)
  BY <1>1, Z3
<1>3. PICK q \in Int, r \in 0 .. m - 1 : q = (a \div m) + k /\ r = a % m
  BY <1>1
<1>4. (m * q + r) % m = r
  BY ModUnique
<1> QED  BY <1>2, <1>3, <1>4

(* Wrapping around moves no byte to another cell.                          *)
LEMMA CellOfSeq ==
    ASSUME NEW z \in Nat
    PROVE  /\ toOffset(z % Modulus) = Cell(z) /\ z % Modulus \in 0 .. Modulus - 1
           /\ Cell(z) \in 0 .. Capacity - 1
<1>1. z = Modulus * (z \div Modulus) + (z % Modulus) /\ z % Modulus \in 0 .. Modulus - 1
      /\ z \div Modulus \in Int
  BY Constants, DivMod
<1>2. Modulus = Capacity * (Modulus \div Capacity) + 0 /\ Modulus \div Capacity \in Int
  BY Constants, DivMod
<1>3. PICK r \in Int, q \in Int, p \in Int : r = z % Modulus /\ q = z \div Modulus
      /\ p = Modulus \div Capacity
  BY <1>1, <1>2
<1>4. PICK k \in Int : k = p * q
  BY <1>3
<1>5. z = r + Capacity * k
  <2>1. z = Modulus * q + r /\ Modulus = Capacity * p
    BY <1>1, <1>2, <1>3, Constants
  <2>2. Capacity * (p * q) = (Capacity * p) * q /\ Capacity \in Int
    BY <1>3, Constants, Z3
  <2> QED  BY <1>3, <1>4, <2>1, <2>2
<1>6. (r + Capacity * k) % Capacity = r % Capacity
  BY Constants, ModShift
<1>7. z % Capacity \in 0 .. Capacity - 1
  BY Constants, DivMod
<1> QED  BY <1>1, <1>3, <1>5, <1>6, <1>7 DEF toOffset, Cell

LEMMA AfterIs ==
    ASSUME NEW z \in Nat, NEW n \in Nat
    PROVE  After(z % Modulus, n) = (z + n) % Modulus
<1>1. z = Modulus * (z \div Modulus) + (z % Modulus) /\ z % Modulus \in 0 .. Modulus - 1
      /\ z \div Modulus \in Int
  BY Constants, DivMod
<1>0. PICK a \in Int, k \in Int : a = (z % Modulus) + n /\ k = z \div Modulus
  BY <1>1
<1>2. z + n = a + Modulus * k
  BY <1>0, <1>1, Constants
<1>3. (a + Modulus * k) % Modulus = a % Modulus
  <2>1. Modulus \in Nat /\ Modulus > 0
    BY Constants
  <2> QED  BY ONLY <2>1, a \in Int, k \in Int, ModShift
<1> QED  BY <1>0, <1>2, <1>3 DEF After

LEMMA DistanceIs ==
    ASSUME NEW a \in Nat, NEW b \in Nat, a <= b, b - a <= Capacity
    PROVE  ((b % Modulus) + Modulus - (a % Modulus)) % Modulus = b - a
<1>1. a = Modulus * (a \div Modulus) + (a % Modulus) /\ a % Modulus \in 0 .. Modulus - 1
      /\ a \div Modulus \in Int
  BY Constants, DivMod
<1>2. b = Modulus * (b \div Modulus) + (b % Modulus) /\ b % Modulus \in 0 .. Modulus - 1
      /\ b \div Modulus \in Int
  BY Constants, DivMod
<1> DEFINE q == 1 + (a \div Modulus) - (b \div Modulus)
<1>3. q \in Int /\ (b % Modulus) + Modulus - (a % Modulus) = Modulus * q + (b - a)
  <2>1. Modulus * q = Modulus + Modulus * (a \div Modulus) - Modulus * (b \div Modulus)
    BY <1>1, <1>2, Constants, Z3
  <2> QED  BY <1>1, <1>2, <2>1, Constants
<1>4. b - a \in 0 .. Modulus - 1
  BY Constants
<1>5. (Modulus * q + (b - a)) % Modulus = b - a
  BY <1>3, <1>4, Constants, ModUnique
<1> QED  BY <1>3, <1>5

LEMMA UsedIs ==
    ASSUME NEW a \in Nat, NEW b \in Nat, a <= b, b - a <= Capacity,
           readSeq = a % Modulus, writeSeq = b % Modulus
    PROVE  Used = b - a
<1>1. ((b % Modulus) + Modulus - (a % Modulus)) % Modulus = b - a
  BY DistanceIs
<1> QED  BY <1>1 DEF Used

LEMMA UsedIsNext ==
    \A a, b \in Nat : a <= b /\ b - a <= Capacity /\ readSeq' = a % Modulus /\ writeSeq' = b % Modulus
                     => Used' = b - a
<1> SUFFICES ASSUME NEW a \in Nat, NEW b \in Nat, a <= b, b - a <= Capacity,
                    readSeq' = a % Modulus, writeSeq' = b % Modulus
             PROVE  Used' = b - a
  OBVIOUS
<1>1. ((b % Modulus) + Modulus - (a % Modulus)) % Modulus = b - a
  BY DistanceIs
<1> QED  BY <1>1 DEF Used

(* Around the ring from a position.                                        *)
LEMMA CellStep ==
    ASSUME NEW y \in Nat, NEW k \in 0 .. Capacity
    PROVE  Cell(y + k) = IF Cell(y) + k < Capacity THEN Cell(y) + k ELSE Cell(y) + k - Capacity
<1> DEFINE r == y % Capacity
           q == y \div Capacity
<1>1. y = Capacity * q + r /\ r \in 0 .. Capacity - 1 /\ q \in Int
  BY Constants, DivMod
<1>2. CASE r + k < Capacity
  <2>1. y + k = Capacity * q + (r + k) /\ r + k \in 0 .. Capacity - 1
    BY <1>1, <1>2, Constants
  <2>2. (Capacity * q + (r + k)) % Capacity = r + k
    BY <1>1, <2>1, Constants, ModUnique
  <2> QED  BY <1>2, <2>1, <2>2 DEF Cell
<1>3. CASE ~(r + k < Capacity)
  <2>1. y + k = Capacity * (q + 1) + (r + k - Capacity) /\ r + k - Capacity \in 0 .. Capacity - 1
    <3>1. Capacity * (q + 1) = Capacity * q + Capacity
      BY <1>1, Constants
    <3> QED  BY <1>1, <1>3, <3>1, Constants
  <2>2. q + 1 \in Int
    BY <1>1
  <2>3. (Capacity * (q + 1) + (r + k - Capacity)) % Capacity = r + k - Capacity
    BY <2>1, <2>2, Constants, ModUnique
  <2> QED  BY <1>3, <2>1, <2>3 DEF Cell
<1> QED  BY <1>2, <1>3

LEMMA CellPeriod ==
    ASSUME NEW z \in Nat
    PROVE  Cell(z + Capacity) = Cell(z)
<1>0. PICK a \in Int, k \in Int : a = z /\ k = 1
  OBVIOUS
<1>1. (a + Capacity * k) % Capacity = a % Capacity
  <2>1. Capacity \in Nat /\ Capacity > 0
    BY Constants
  <2> QED  BY ONLY <2>1, a \in Int, k \in Int, ModShift
<1>2. Capacity * k = Capacity
  BY <1>0, Constants
<1> QED  BY <1>0, <1>1, <1>2 DEF Cell

-----------------------------------------------------------------------------
(* Memory.                                                                 *)
(* What is written at a position is there, and what lies less than a       *)
(* capacity before or behind it is left alone.                             *)
Written(w, d, y, bytes) ==
    /\ DOMAIN w = 0 .. Capacity - 1
    /\ \A z \in Nat : y <= z /\ z < y + Len(bytes) => w[Cell(z)] = bytes[z - y + 1]
    /\ \A z \in Nat : z < y /\ y + Len(bytes) <= z + Capacity => w[Cell(z)] = d[Cell(z)]

LEMMA WriteAt ==
    ASSUME NEW d, DOMAIN d = 0 .. Capacity - 1, NEW y \in Nat, NEW bytes, Len(bytes) \in 0 .. Capacity
    PROVE  Written(writeBytes(d, y % Modulus, bytes), d, y, bytes)
<1>0. PICK n \in 0 .. Capacity : n = Len(bytes)
  OBVIOUS
<1>1. PICK w : w = writeBytes(d, y % Modulus, bytes)
  OBVIOUS
<1>2. \A j \in 0 .. Capacity - 1 : w[Cell(y + j)] = IF j < n THEN bytes[j + 1] ELSE d[Cell(y + j)]
  <2>11. TAKE j \in 0 .. Capacity - 1
  <2>1. PICK o \in 0 .. Capacity - 1 : o = Cell(y) /\ o = toOffset(y % Modulus)
    BY CellOfSeq
  <2>2. PICK k : k = Cell(y + j)
    OBVIOUS
  <2>3. k = IF o + j < Capacity THEN o + j ELSE o + j - Capacity
    <3>1. j \in 0 .. Capacity
      BY Constants
    <3> QED  BY <2>1, <2>2, <3>1, CellStep
  <2>12. Capacity \in Nat
    BY Constants
  <2>4. k \in 0 .. Capacity - 1 /\ k \in DOMAIN d
    BY <2>1, <2>3, Constants
  <2>5. PICK first \in 0 .. n : first = IF n <= Capacity - o THEN n ELSE Capacity - o
    BY <2>1, Constants
  <2>6. w[k] =
           IF k >= o /\ k < o + first THEN bytes[k - o + 1]
           ELSE IF k < n - first THEN bytes[first + k + 1]
           ELSE d[k]
    BY <1>0, <1>1, <2>1, <2>4, <2>5 DEF writeBytes, FirstLength
  <2>7. CASE o + j < Capacity /\ j < n
    <3>1. k >= o /\ k < o + first /\ k - o + 1 = j + 1
      BY ONLY <2>12, <2>3, <2>4, <2>5, <2>7, o \in 0 .. Capacity - 1, j \in 0 .. Capacity - 1,
              n \in 0 .. Capacity, first \in 0 .. n
    <3> QED  BY <2>2, <2>6, <2>7, <3>1
  <2>8. CASE ~(o + j < Capacity) /\ j < n
    <3>1. ~(k >= o) /\ k < n - first /\ first + k + 1 = j + 1
      BY ONLY <2>12, <2>3, <2>4, <2>5, <2>8, o \in 0 .. Capacity - 1, j \in 0 .. Capacity - 1,
              n \in 0 .. Capacity, first \in 0 .. n
    <3> QED  BY <2>2, <2>6, <2>8, <3>1
  <2>9. CASE o + j < Capacity /\ ~(j < n)
    <3>1. ~(k < o + first) /\ ~(k < n - first)
      BY ONLY <2>12, <2>3, <2>4, <2>5, <2>9, o \in 0 .. Capacity - 1, j \in 0 .. Capacity - 1,
              n \in 0 .. Capacity, first \in 0 .. n
    <3> QED  BY <2>2, <2>6, <2>9, <3>1
  <2>10. CASE ~(o + j < Capacity) /\ ~(j < n)
    <3>1. ~(k >= o) /\ ~(k < n - first)
      BY ONLY <2>12, <2>3, <2>4, <2>5, <2>10, o \in 0 .. Capacity - 1, j \in 0 .. Capacity - 1,
              n \in 0 .. Capacity, first \in 0 .. n
    <3> QED  BY <2>2, <2>6, <2>10, <3>1
  <2> QED  BY <1>1, <2>7, <2>8, <2>9, <2>10
<1>3. DOMAIN writeBytes(d, y % Modulus, bytes) = 0 .. Capacity - 1
  BY DEF writeBytes
<1>4. ASSUME NEW z \in Nat, y <= z, z < y + n PROVE w[Cell(z)] = bytes[z - y + 1]
  <2>1. PICK j \in 0 .. Capacity - 1 : j = z - y
    BY <1>4, Constants
  <2>2. y + j = z /\ j < n /\ j + 1 = z - y + 1
    BY <1>4, <2>1, Constants
  <2> QED  BY <1>2, <2>2
<1>6. ASSUME NEW z \in Nat, z < y, y + n <= z + Capacity PROVE w[Cell(z)] = d[Cell(z)]
  <2>1. PICK j \in 0 .. Capacity - 1 : j = z + Capacity - y
    BY <1>6, Constants
  <2>2. y + j = z + Capacity /\ ~(j < n)
    BY <1>6, <2>1, Constants
  <2>3. Cell(y + j) = Cell(z)
    BY <2>2, CellPeriod
  <2> QED  BY <1>2, <2>2, <2>3
<1> QED  BY <1>0, <1>1, <1>3, <1>4, <1>6 DEF Written

LEMMA ReadAt ==
    ASSUME NEW y \in Nat, NEW n \in 0 .. Capacity
    PROVE  readBytes(y % Modulus, n) = [i \in 1 .. n |-> data[Cell(y + i - 1)]]
<1>1. PICK o \in 0 .. Capacity - 1 : o = Cell(y) /\ o = toOffset(y % Modulus)
  BY CellOfSeq
<1>2. PICK first \in 0 .. n : first = IF n <= Capacity - o THEN n ELSE Capacity - o
  BY <1>1, Constants
<1>3. readBytes(y % Modulus, n) = [i \in 1 .. n |-> IF i <= first THEN data[o + i - 1]
      ELSE data[i - first - 1]]
  BY <1>1, <1>2 DEF readBytes, FirstLength
<1>4. \A i \in 1 .. n : (IF i <= first THEN data[o + i - 1]
          ELSE data[i - first - 1]) = data[Cell(y + i - 1)]
  <2>1. TAKE i \in 1 .. n
  <2>2. PICK j \in 0 .. Capacity : j = i - 1 /\ y + j = y + i - 1
    BY Constants
  <2>3. Cell(y + i - 1) = IF o + j < Capacity THEN o + j ELSE o + j - Capacity
    BY <1>1, <2>2, CellStep
  <2>4. Cell(y + i - 1) = IF i <= first THEN o + i - 1 ELSE i - first - 1
    BY <1>1, <1>2, <2>2, <2>3, Constants
  <2> QED  BY <2>4
<1> QED  BY <1>3, <1>4

-----------------------------------------------------------------------------
(* A frame on the ring.                                                    *)
HeaderOf(f) == [id |-> f.id, writer |-> f.writer, length |-> f.length]

(* What a frame that is not refused half-way writes: its header and what   *)
(* is there of its payload when it is written.                             *)
WrittenLength(f) == HeaderSize + (IF f.writer = "aligned" THEN PrefixSize + f.size ELSE f.length)
ByteOf(f, i) ==
    IF i <= HeaderSize THEN <<"header", i, HeaderOf(f)>>
    ELSE IF f.writer # "aligned" THEN <<"body", f.id, i - HeaderSize>>
    ELSE IF i <= HeaderSize + PrefixSize THEN <<"prefix", i - HeaderSize, f.size>>
    ELSE <<"body", f.id, i - HeaderSize - PrefixSize>>
Stored(d, f, x) == \A i \in 1 .. WrittenLength(f) : d[Cell(x + i - 1)] = ByteOf(f, i)

(* A frame as it is measured, and as its payload may be resized.           *)
Sound(f) ==
    /\ f \in [id : 1 .. MaxFrames, writer : Writers, length : Nat, size : Nat]
    /\ Fits(f.length)
    /\ f.writer = "aligned" => f.length >= PrefixSize /\ f.size <= f.length - PrefixSize

LEMMA FrameSizes ==
    ASSUME NEW n \in Nat
    PROVE  /\ FrameSize(n) \in Nat /\ FrameSize(n) >= HeaderSize + n
           /\ Padding(n) \in Nat /\ HeaderSize + n + Padding(n) = FrameSize(n)
<1>1. PICK a \in Int : a = HeaderSize + n + Alignment - 1
  BY Constants
<1>2. a = Alignment * (a \div Alignment) + (a % Alignment) /\ a % Alignment \in 0 .. Alignment - 1
      /\ a \div Alignment \in Int
  BY Constants, DivMod
<1>3. PICK q \in Int, r \in 0 .. Alignment - 1 : q = a \div Alignment /\ r = a % Alignment
  BY <1>2
<1>4. FrameSize(n) = q * Alignment
  BY <1>1, <1>3, Constants DEF FrameSize, Align
<1>5. q * Alignment = Alignment * q /\ q * Alignment \in Int
  BY <1>3, Constants, Z3
<1>6. PICK p \in Int : p = q * Alignment
  BY <1>5
<1>7. a = p + r
  BY <1>2, <1>3, <1>5, <1>6
<1>8. p \in Nat /\ p >= HeaderSize + n
  BY <1>1, <1>7, Constants
<1> QED  BY <1>4, <1>6, <1>8, Constants DEF Padding

LEMMA Lengths ==
    ASSUME NEW n \in Nat
    PROVE  /\ \A f : Len(Header(f)) = HeaderSize
                /\ \A i \in 1 .. HeaderSize : Header(f)[i] = <<"header", i, HeaderOf(f)>>
           /\ Len(Prefix(n)) = PrefixSize
                /\ \A i \in 1 .. PrefixSize : Prefix(n)[i] = <<"prefix", i, n>>
           /\ \A id : Len(Body(id, n)) = n /\ \A i \in 1 .. n : Body(id, n)[i] = <<"body", id, i>>
           /\ Len([i \in 1 .. n |-> <<"zero">>]) = n
<1> DEFINE H(f, i) == <<"header", i, HeaderOf(f)>>
           P(i) == <<"prefix", i, n>>
           B(id, i) == <<"body", id, i>>
           Z == <<"zero">>
<1>1. /\ \A f : Header(f) = [i \in 1 .. HeaderSize |-> H(f, i)]
      /\ Prefix(n) = [i \in 1 .. PrefixSize |-> P(i)]
      /\ \A id : Body(id, n) = [i \in 1 .. n |-> B(id, i)]
  BY DEF Header, Prefix, Body, HeaderOf
<1>2. /\ \A f : Header(f)[1] = Header(f)[1] /\ \A i \in 1 .. HeaderSize : Header(f)[i] = H(f, i)
      /\ \A i \in 1 .. PrefixSize : Prefix(n)[i] = P(i)
      /\ \A id : \A i \in 1 .. n : Body(id, n)[i] = B(id, i)
  BY DEF Header, Prefix, Body, HeaderOf
<1> HIDE DEF H, P, B, Z
<1>3. \A f : Len(Header(f)) = HeaderSize
  BY <1>1, Constants
<1>4. Len(Prefix(n)) = PrefixSize
  BY <1>1, Constants
<1>5. \A id : Len(Body(id, n)) = n
  BY <1>1
<1>6. Len([i \in 1 .. n |-> Z]) = n
  OBVIOUS
<1> QED  BY <1>2, <1>3, <1>4, <1>5, <1>6 DEF H, P, B, Z

LEMMA ByteOfIs ==
    ASSUME NEW f, NEW j \in Nat, NEW i \in Nat, i >= 1, j = HeaderSize + i
    PROVE  /\ f.writer # "aligned" => ByteOf(f, j) = <<"body", f.id, i>>
           /\ f.writer = "aligned" /\ i <= PrefixSize => ByteOf(f, j) = <<"prefix", i, f.size>>
           /\ f.writer = "aligned" /\ ~(i <= PrefixSize)
                => ByteOf(f, j) = <<"body", f.id, i - PrefixSize>>
<1>1. ~(j <= HeaderSize) /\ (j <= HeaderSize + PrefixSize <=> i <= PrefixSize)
      /\ j - HeaderSize = i /\ j - HeaderSize - PrefixSize = i - PrefixSize
  BY Constants
<1>2. ByteOf(f, j) = IF f.writer # "aligned" THEN <<"body", f.id, j - HeaderSize>>
                     ELSE IF j <= HeaderSize + PrefixSize THEN <<"prefix", j - HeaderSize, f.size>>
                     ELSE <<"body", f.id, j - HeaderSize - PrefixSize>>
  BY <1>1, Zenon DEF ByteOf
<1>3. ByteOf(f, j) = IF f.writer # "aligned" THEN <<"body", f.id, i>>
                     ELSE IF j <= HeaderSize + PrefixSize THEN <<"prefix", i, f.size>>
                     ELSE <<"body", f.id, i - PrefixSize>>
  BY <1>1, <1>2, Zenon
<1> QED  BY <1>1, <1>3, Zenon

(* What reaches the ring is no longer than the measured payload, and is    *)
(* the whole of the frame unless the writing is refused.                   *)
LEMMA ReachedIs ==
    ASSUME NEW f, Sound(f)
    PROVE  /\ Len(Reached(f)) \in Nat /\ Len(Reached(f)) <= f.length
           /\ ~MismatchThrows(f) =>
                 /\ HeaderSize + Len(Reached(f)) = WrittenLength(f)
                 /\ \A i \in 1 .. Len(Reached(f)) : Reached(f)[i] = ByteOf(f, HeaderSize + i)
<1>0. /\ f.length \in Nat /\ f.size \in Nat /\ f.writer \in {"aligned", "trusted", "checked"}
      /\ f.writer = "aligned" => f.length >= PrefixSize /\ f.size <= f.length - PrefixSize
  BY FramesAssumption DEF Sound
<1>e. Len(<<>>) = 0
  OBVIOUS
<1>1. CASE f.writer = "aligned"
  <2>1. Reached(f) = Prefix(f.size) \o Body(f.id, f.size)
    <3>1. f.length # 0 /\ ~(f.length = 0)
      BY <1>0, <1>1, Constants
    <3> QED  BY <1>1, <3>1 DEF Reached, AlignedWrite
  <2>2. /\ Len(Prefix(f.size)) = PrefixSize /\ Len(Body(f.id, f.size)) = f.size
        /\ \A i \in 1 .. PrefixSize : Prefix(f.size)[i] = <<"prefix", i, f.size>>
        /\ \A i \in 1 .. f.size : Body(f.id, f.size)[i] = <<"body", f.id, i>>
    BY <1>0, Lengths
  <2>3. \E S : Prefix(f.size) \in Seq(S) /\ Body(f.id, f.size) \in Seq(S)
    <3> DEFINE p == Prefix(f.size)
               b == Body(f.id, f.size)
               S == {p[i] : i \in 1 .. PrefixSize} \cup {b[i] : i \in 1 .. f.size}
    <3>1. PrefixSize \in Nat /\ f.size \in Nat
      BY <1>0, Constants
    <3>5. DOMAIN p = 1 .. PrefixSize /\ DOMAIN b = 1 .. f.size
      BY DEF Prefix, Body
    <3>2. p = [i \in 1 .. PrefixSize |-> p[i]] /\ b = [i \in 1 .. f.size |-> b[i]]
      BY DEF Prefix, Body
    <3> HIDE DEF p, b
    <3>3. (\A i \in 1 .. PrefixSize : p[i] \in S) /\ (\A i \in 1 .. f.size : b[i] \in S)
      OBVIOUS
    <3> HIDE DEF S
    <3>4. p \in Seq(S)
      <4>1. PICK n \in Nat : n = PrefixSize
        BY <3>1
      <4>2. p = [i \in 1 .. n |-> p[i]] /\ \A i \in 1 .. n : p[i] \in S
        BY ONLY <3>2, <3>3, <4>1
      <4> QED  BY ONLY <4>2, n \in Nat DEF Seq
    <3>6. b \in Seq(S)
      BY ONLY <3>2, <3>3, <3>1 DEF Seq
    <3> QED  BY <3>4, <3>6 DEF p, b
  <2>4. /\ Len(Reached(f)) = PrefixSize + f.size
        /\ \A i \in 1 .. PrefixSize + f.size :
              Reached(f)[i] = IF i <= PrefixSize THEN Prefix(f.size)[i]
              ELSE Body(f.id, f.size)[i - PrefixSize]
    <3>1. PICK S : Prefix(f.size) \in Seq(S) /\ Body(f.id, f.size) \in Seq(S)
      BY <2>3
    <3>2. /\ Len(Prefix(f.size) \o Body(f.id, f.size)) = Len(Prefix(f.size)) + Len(Body(f.id, f.size))
          /\ \A i \in 1 .. Len(Prefix(f.size)) + Len(Body(f.id, f.size)) :
                (Prefix(f.size) \o Body(f.id, f.size))[i] =
                   IF i <= Len(Prefix(f.size)) THEN Prefix(f.size)[i]
                   ELSE Body(f.id, f.size)[i - Len(Prefix(f.size))]
      BY <3>1, ConcatProperties
    <3> QED  BY <2>1, <2>2, <3>2
  <2>5. ASSUME NEW i \in 1 .. PrefixSize + f.size PROVE Reached(f)[i] = ByteOf(f, HeaderSize + i)
    <3>1. CASE i <= PrefixSize
      <4>1. i \in 1 .. PrefixSize /\ i \in Nat /\ i >= 1 /\ HeaderSize + i \in Nat
        BY <1>0, <2>5, <3>1, Constants
      <4>2. ByteOf(f, HeaderSize + i) = <<"prefix", i, f.size>>
        BY <1>1, <3>1, <4>1, ByteOfIs
      <4> QED  BY <2>2, <2>4, <3>1, <4>1, <4>2
    <3>2. CASE ~(i <= PrefixSize)
      <4>1. i - PrefixSize \in 1 .. f.size /\ i \in Nat /\ i >= 1 /\ HeaderSize + i \in Nat
        BY <1>0, <2>5, <3>2, Constants
      <4>2. ByteOf(f, HeaderSize + i) = <<"body", f.id, i - PrefixSize>>
        BY <1>1, <3>2, <4>1, ByteOfIs
      <4> QED  BY <2>2, <2>4, <3>2, <4>1, <4>2
    <3> QED  BY <3>1, <3>2
  <2>6. PrefixSize + f.size \in Nat /\ PrefixSize + f.size <= f.length
    BY <1>0, <1>1, Constants
  <2> QED  BY <1>1, <2>4, <2>5, <2>6 DEF WrittenLength
<1>2. CASE f.writer # "aligned"
  <2>1. \E m \in 0 .. f.length : /\ (Reached(f) = <<>> /\ m = 0) \/ Reached(f) = Body(f.id, m)
                                 /\ ~MismatchThrows(f) => m = f.length
    <3>1. CASE f.length = 0
      <4>1. Reached(f) = <<>>
        BY <3>1 DEF Reached
      <4> QED  BY <1>0, <3>1, <4>1
    <3>2. CASE f.length # 0 /\ f.writer = "trusted"
      <4>1. Reached(f) = TrustedWrite(f)
        BY <3>2 DEF Reached
      <4>2. ~MismatchThrows(f) => f.size = f.length
        BY <1>2, <3>2 DEF MismatchThrows
      <4> QED  BY <1>0, <3>2, <4>1, <4>2 DEF TrustedWrite
    <3>3. CASE f.length # 0 /\ f.writer = "checked"
      <4>1. Reached(f) = CheckedWrite(f)
        BY <3>3 DEF Reached
      <4>2. ~MismatchThrows(f) => f.size = f.length
        BY <1>2, <3>3 DEF MismatchThrows
      <4> QED  BY <1>0, <3>3, <4>1, <4>2 DEF CheckedWrite
    <3> QED  BY <1>0, <1>2, <3>1, <3>2, <3>3
  <2>2. PICK m \in 0 .. f.length : /\ (Reached(f) = <<>> /\ m = 0) \/ Reached(f) = Body(f.id, m)
                                   /\ ~MismatchThrows(f) => m = f.length
    BY <2>1
  <2>3. m \in Nat /\ m <= f.length
    BY <1>0, <2>2
  <2>4. Len(Reached(f)) = m /\ \A i \in 1 .. m : Reached(f)[i] = <<"body", f.id, i>>
    BY <1>e, <2>2, <2>3, Lengths
  <2>5. ASSUME NEW i \in 1 .. m PROVE <<"body", f.id, i>> = ByteOf(f, HeaderSize + i)
    <3>1. i \in Nat /\ i >= 1 /\ HeaderSize + i \in Nat
      BY <2>3, <2>5, Constants
    <3> QED  BY <1>2, <3>1, ByteOfIs
  <2> QED  BY <1>2, <2>2, <2>3, <2>4, <2>5 DEF WrittenLength
<1> QED  BY <1>1, <1>2

(* The ring after the bytes of a frame, and after its padding.             *)
Carrying(d, x, f) ==
    writeBytes(writeBytes(d, x % Modulus, Header(f)), After(x % Modulus, HeaderSize), Reached(f))
Padded(d, x, f) ==
    zeroFill(Carrying(d, x, f), After(After(x % Modulus, HeaderSize), f.length), Padding(f.length))

(* Nothing is touched before x and within a capacity of x + n.             *)
Spares(w, d, x, n) ==
    /\ DOMAIN w = 0 .. Capacity - 1
    /\ \A z \in Nat : z < x /\ x + n <= z + Capacity => w[Cell(z)] = d[Cell(z)]

(* Writing a frame that was granted its space touches no position before   *)
(* it within a capacity, and if it is not refused the frame is stored.     *)
LEMMA WriteFrame ==
    ASSUME NEW f, Sound(f), NEW d, DOMAIN d = 0 .. Capacity - 1, NEW x \in Nat,
           FrameSize(f.length) <= Capacity
    PROVE  /\ Spares(Carrying(d, x, f), d, x, FrameSize(f.length))
           /\ Spares(Padded(d, x, f), d, x, FrameSize(f.length))
           /\ ~MismatchThrows(f) => Stored(Padded(d, x, f), f, x)
<1> DEFINE written == Carrying(d, x, f)
           filled == Padded(d, x, f)
<1>b. /\ written = writeBytes(writeBytes(d, x % Modulus, Header(f)),
                              After(x % Modulus, HeaderSize), Reached(f))
      /\ filled = zeroFill(written, After(After(x % Modulus, HeaderSize), f.length), Padding(f.length))
  BY DEF Carrying, Padded
<1> HIDE DEF written, filled
<1>0. PICK h \in Nat, n \in Nat, m \in Nat, p \in Nat, c \in Nat :
         h = HeaderSize /\ n = f.length /\ m = Len(Reached(f)) /\ p = Padding(f.length) /\ c = Capacity
  <2>1. f.length \in Nat
    BY DEF Sound
  <2>2. Padding(f.length) \in Nat /\ Len(Reached(f)) \in Nat /\ HeaderSize \in Nat /\ Capacity \in Nat
    BY <2>1, FrameSizes, ReachedIs, Constants
  <2> QED  BY <2>1, <2>2
<1>a. h + n + p = FrameSize(f.length)
  <2>1. HeaderSize + f.length + Padding(f.length) = FrameSize(f.length)
    BY <1>0, FrameSizes
  <2> QED  BY <1>0, <2>1
<1>1. m <= n /\ h + n + p <= c /\ h > 0
  <2>1. Len(Reached(f)) <= f.length /\ HeaderSize > 0
    BY ReachedIs, Constants
  <2> QED  BY <1>0, <1>a, <2>1
<1>2. PICK y \in Nat, e \in Nat : y = x + h /\ e = x + h + n /\ e = y + n
  OBVIOUS
<1>3. /\ After(x % Modulus, HeaderSize) = y % Modulus
      /\ After(After(x % Modulus, HeaderSize), f.length) = e % Modulus
  <2>1. After(x % Modulus, HeaderSize) = (x + HeaderSize) % Modulus
    BY AfterIs, Constants
  <2>2. After(y % Modulus, n) = (y + n) % Modulus
    BY AfterIs
  <2> QED  BY <1>0, <1>2, <2>1, <2>2
<1>4. PICK w1, zeros : /\ w1 = writeBytes(d, x % Modulus, Header(f))
                       /\ zeros = [i \in 1 .. p |-> <<"zero">>] /\ Len(zeros) = p
  BY <1>0, Lengths
<1>5. written = writeBytes(w1, y % Modulus, Reached(f))
      /\ filled = writeBytes(written, e % Modulus, zeros)
  BY <1>0, <1>3, <1>4, <1>b DEF zeroFill
<1>6. h \in 0 .. Capacity /\ m \in 0 .. Capacity /\ p \in 0 .. Capacity
  <2>1. h \in 0 .. c /\ m \in 0 .. c /\ p \in 0 .. c
    BY ONLY <1>1, h \in Nat, n \in Nat, m \in Nat, p \in Nat, c \in Nat
  <2> QED  BY <1>0, <2>1
<1>7. Len(Header(f)) = h /\ \A i \in 1 .. h : Header(f)[i] = <<"header", i, HeaderOf(f)>>
  BY <1>0, Lengths
<1>8. /\ DOMAIN w1 = 0 .. Capacity - 1
      /\ \A z \in Nat : x <= z /\ z < x + h => w1[Cell(z)] = Header(f)[z - x + 1]
      /\ \A z \in Nat : z < x /\ x + h <= z + Capacity => w1[Cell(z)] = d[Cell(z)]
  <2>1. Len(Header(f)) = h /\ Len(Header(f)) \in 0 .. Capacity
    BY <1>6, <1>7
  <2>2. Written(writeBytes(d, x % Modulus, Header(f)), d, x, Header(f))
    BY <2>1, WriteAt
  <2> QED  BY <1>4, <2>1, <2>2 DEF Written
<1>9. /\ DOMAIN written = 0 .. Capacity - 1
      /\ \A z \in Nat : y <= z /\ z < y + m => written[Cell(z)] = Reached(f)[z - y + 1]
      /\ \A z \in Nat : z < y /\ y + m <= z + Capacity => written[Cell(z)] = w1[Cell(z)]
  <2>1. Len(Reached(f)) = m /\ Len(Reached(f)) \in 0 .. Capacity
    BY <1>0, <1>6
  <2>2. Written(writeBytes(w1, y % Modulus, Reached(f)), w1, y, Reached(f))
    BY <1>8, <2>1, WriteAt
  <2> QED  BY <1>5, <2>1, <2>2 DEF Written
<1>10. /\ DOMAIN filled = 0 .. Capacity - 1
       /\ \A z \in Nat : z < e /\ e + p <= z + Capacity => filled[Cell(z)] = written[Cell(z)]
  <2>1. Len(zeros) = p /\ Len(zeros) \in 0 .. Capacity
    BY <1>4, <1>6
  <2>2. Written(writeBytes(written, e % Modulus, zeros), written, e, zeros)
    BY <1>9, <2>1, WriteAt
  <2> QED  BY <1>5, <2>1, <2>2 DEF Written
<1>11. ASSUME NEW z \in Nat, z < x, x + FrameSize(f.length) <= z + Capacity
       PROVE  written[Cell(z)] = d[Cell(z)] /\ filled[Cell(z)] = d[Cell(z)]
  <2>1. z < y /\ z < e /\ x + h <= z + c /\ y + m <= z + c /\ e + p <= z + c
    <3>1. x + (h + n + p) <= z + c
      BY <1>0, <1>a, <1>11
    <3>2. z < x
      BY <1>11
    <3> QED  BY ONLY <1>1, <1>2, <3>1, <3>2, x \in Nat, y \in Nat, e \in Nat, z \in Nat,
                     h \in Nat, n \in Nat, m \in Nat, p \in Nat, c \in Nat
  <2> QED  BY <1>0, <1>8, <1>9, <1>10, <1>11, <2>1
<1>12. ASSUME ~MismatchThrows(f) PROVE Stored(filled, f, x)
  <2>1. h + m = WrittenLength(f) /\ \A i \in 1 .. m : Reached(f)[i] = ByteOf(f, h + i)
    BY <1>0, <1>12, ReachedIs
  <2>2. ASSUME NEW i \in 1 .. h + m PROVE filled[Cell(x + i - 1)] = ByteOf(f, i)
    <3>1. PICK z \in Nat : z = x + i - 1 /\ i \in Nat /\ i >= 1
      OBVIOUS
    <3>2. z < e /\ e + p <= z + c /\ x <= z /\ i <= h + m
      BY ONLY <1>1, <1>2, i \in 1 .. h + m, <3>1, x \in Nat, y \in Nat, e \in Nat, z \in Nat,
              h \in Nat, n \in Nat, m \in Nat, p \in Nat, c \in Nat
    <3>3. filled[Cell(z)] = written[Cell(z)]
      BY <1>0, <1>10, <3>2
    <3>4. CASE i <= h
      <4>1. z < y /\ y + m <= z + c /\ z < x + h /\ z - x + 1 = i /\ i \in 1 .. h
        BY ONLY <1>1, <1>2, i \in 1 .. h + m, <3>1, <3>4, x \in Nat, y \in Nat, e \in Nat,
                z \in Nat,
                h \in Nat, n \in Nat, m \in Nat, p \in Nat, c \in Nat
      <4>2. written[Cell(z)] = <<"header", i, HeaderOf(f)>>
        BY <1>0, <1>7, <1>8, <1>9, <3>2, <4>1
      <4>3. ByteOf(f, i) = <<"header", i, HeaderOf(f)>>
        BY <1>0, <3>4 DEF ByteOf
      <4> QED  BY <3>1, <3>3, <4>2, <4>3
    <3>5. CASE ~(i <= h)
      <4>1. PICK j \in 1 .. m : j = i - h /\ i = h + j /\ y <= z /\ z < y + m /\ z - y + 1 = j
        BY ONLY <1>1, <1>2, i \in 1 .. h + m, <3>1, <3>5, x \in Nat, y \in Nat, e \in Nat,
                z \in Nat,
                h \in Nat, n \in Nat, m \in Nat, p \in Nat, c \in Nat
      <4>2. written[Cell(z)] = Reached(f)[j]
        BY <1>9, <4>1
      <4> QED  BY <2>1, <3>1, <3>3, <4>1, <4>2
    <3> QED  BY <3>4, <3>5
  <2> QED  BY <2>1, <2>2 DEF Stored
<1> QED  BY <1>9, <1>10, <1>11, <1>12 DEF written, filled, Spares

-----------------------------------------------------------------------------
(* The inductive invariant.  at[i] is where the i-th frame begins: the     *)
(* frames follow each other, those between the two sequence numbers are    *)
(* stored and fit the ring.                                                *)
Frame == [id : 1 .. MaxFrames, writer : Writers, length : Nat, size : Nat]

Laid(at) ==
    /\ at \in [1 .. Len(committed) + 1 -> Nat]
    /\ \A i, j \in 1 .. Len(committed) + 1 : i <= j => at[i] <= at[j]
    /\ \A i \in 1 .. Len(committed) : at[i + 1] = at[i] + FrameSize(committed[i].length)
    /\ readSeq = at[Len(received) + 1] % Modulus
    /\ writeSeq = at[Len(committed) + 1] % Modulus
    /\ at[Len(committed) + 1] - at[Len(received) + 1] <= Capacity
    /\ \A i \in Len(received) + 1 .. Len(committed) : Stored(data, committed[i], at[i])

AllSound ==
    /\ send # Idle => Sound(send)
    /\ committed \in Seq(Frame) /\ \A i \in 1 .. Len(committed) : Sound(committed[i])

Delivered ==
    /\ Len(received) \in 0 .. Len(committed)
    /\ received = [i \in 1 .. Len(received) |-> Whole(committed[i])]

Viewed ==
    view # Idle => /\ ~errored /\ Len(received) < Len(committed)
                   /\ view = HeaderOf(committed[Len(received) + 1])

Rejected ==
    errored => \E i \in DOMAIN committed :
                  /\ committed[i].writer = "aligned"
                  /\ committed[i].length # EncodedLength("aligned", committed[i].size)

FramesInv ==
    /\ TypeOK /\ AllSound /\ Delivered /\ Viewed /\ Rejected
    /\ ~errored => \E at : Laid(at)

-----------------------------------------------------------------------------
(* What the invariant says of one frame.                                   *)
LEMMA WrittenWithin ==
    ASSUME NEW f, Sound(f)
    PROVE  /\ WrittenLength(f) \in Nat /\ WrittenLength(f) >= HeaderSize
           /\ WrittenLength(f) <= FrameSize(f.length) /\ FrameSize(f.length) \in Nat
<1>1. /\ f.length \in Nat /\ f.size \in Nat
      /\ f.writer = "aligned" => f.length >= PrefixSize /\ f.size <= f.length - PrefixSize
  BY DEF Sound
<1>2. FrameSize(f.length) \in Nat /\ FrameSize(f.length) >= HeaderSize + f.length
  BY <1>1, FrameSizes
<1> QED  BY <1>1, <1>2, Constants DEF WrittenLength

LEMMA StoredKept ==
    ASSUME NEW f, Sound(f), NEW d, NEW d2, NEW x \in Nat, NEW y \in Nat, NEW n \in Nat,
           y + FrameSize(f.length) <= x, x + n <= y + Capacity,
           \A z \in Nat : z < x /\ x + n <= z + Capacity => d2[Cell(z)] = d[Cell(z)],
           Stored(d, f, y)
    PROVE  Stored(d2, f, y)
<1> SUFFICES ASSUME NEW i \in 1 .. WrittenLength(f) PROVE d2[Cell(y + i - 1)] = ByteOf(f, i)
  BY DEF Stored
<1>1. PICK w \in Nat, s \in Nat, c \in Nat : w = WrittenLength(f) /\ s = FrameSize(f.length)
      /\ c = Capacity
  BY WrittenWithin, Constants
<1>2. w <= s /\ y + s <= x /\ x + n <= y + c /\ i \in 1 .. w
  BY <1>1, WrittenWithin
<1>3. PICK z \in Nat : z = y + i - 1
  BY <1>1
<1>4. z < x /\ x + n <= z + c
  BY ONLY <1>2, <1>3, w \in Nat, s \in Nat, c \in Nat, x \in Nat, y \in Nat, n \in Nat, z \in Nat
<1>5. d[Cell(z)] = ByteOf(f, i)
  BY <1>3 DEF Stored
<1> QED  BY <1>1, <1>3, <1>4, <1>5

LEMMA HeaderRead ==
    ASSUME NEW f, Sound(f), NEW y \in Nat, Stored(data, f, y), readSeq = y % Modulus
    PROVE  ReadHeader = Header(f) /\ ReadHeader[1][1] = "header" /\ ReadHeader[1][3] = HeaderOf(f)
<1>1. HeaderSize \in 0 .. Capacity /\ HeaderSize >= 1
  BY Constants
<1>2. ReadHeader = [i \in 1 .. HeaderSize |-> data[Cell(y + i - 1)]]
  BY <1>1, ReadAt DEF ReadHeader
<1>3. \A i \in 1 .. HeaderSize : data[Cell(y + i - 1)] = <<"header", i, HeaderOf(f)>>
  <2>1. TAKE i \in 1 .. HeaderSize
  <2>2. i \in 1 .. WrittenLength(f) /\ i <= HeaderSize
    BY <1>1, WrittenWithin
  <2>3. ByteOf(f, i) = <<"header", i, HeaderOf(f)>>
    BY <2>2, Zenon DEF ByteOf
  <2> QED  BY <2>2, <2>3 DEF Stored
<1>4. Header(f) = [i \in 1 .. HeaderSize |-> <<"header", i, HeaderOf(f)>>]
  BY DEF Header, HeaderOf
<1>5. ReadHeader = Header(f)
  BY <1>2, <1>3, <1>4
<1>6. 1 \in 1 .. HeaderSize
  BY <1>1
<1>7. Header(f)[1] = <<"header", 1, HeaderOf(f)>>
  BY <1>4, <1>6
<1> QED  BY <1>5, <1>7

(* The prefix tells whether an aligned payload is what was measured.       *)
LEMMA PrefixRead ==
    ASSUME NEW f, Sound(f), NEW y \in Nat, Stored(data, f, y), readSeq = y % Modulus,
           f.writer = "aligned"
    PROVE  ValidateAligned(HeaderOf(f)) <=> f.length = EncodedLength("aligned", f.size)
<1>1. /\ HeaderSize \in Nat /\ PrefixSize \in Nat /\ PrefixSize >= 1 /\ PrefixSize \in 0 .. Capacity
      /\ f.length \in Nat /\ f.size \in Nat /\ f.length >= PrefixSize
  BY Constants DEF Sound, Fits
<1>2. PICK x \in Nat : x = y + HeaderSize
  BY <1>1
<1>3. After(readSeq, HeaderSize) = x % Modulus
  BY <1>1, <1>2, AfterIs
<1>4. readBytes(x % Modulus, PrefixSize) = [i \in 1 .. PrefixSize |-> data[Cell(x + i - 1)]]
  BY <1>1, ReadAt
<1>5. \A i \in 1 .. PrefixSize : data[Cell(x + i - 1)] = <<"prefix", i, f.size>>
  <2>1. TAKE i \in 1 .. PrefixSize
  <2>2. i \in Nat /\ i >= 1 /\ i <= PrefixSize /\ HeaderSize + i \in Nat
        /\ y + (HeaderSize + i) - 1 = x + i - 1
    BY <1>1, <1>2
  <2>3. HeaderSize + i \in 1 .. WrittenLength(f)
    BY <1>1, <2>2 DEF WrittenLength
  <2>4. ByteOf(f, HeaderSize + i) = <<"prefix", i, f.size>>
    BY <2>2, ByteOfIs
  <2> QED  BY <2>2, <2>3, <2>4 DEF Stored
<1>6. readBytes(After(readSeq, HeaderSize), PrefixSize) = Prefix(f.size)
  BY <1>3, <1>4, <1>5 DEF Prefix
<1>7. f.size = f.length - PrefixSize <=> Prefix(f.size) = Prefix(f.length - PrefixSize)
  <2>1. 1 \in 1 .. PrefixSize
    BY <1>1
  <2>2. \A n : Prefix(n)[1] = <<"prefix", 1, n>>
    BY <2>1 DEF Prefix
  <2> QED  BY <2>2
<1>8. f.size = f.length - PrefixSize <=> f.length = EncodedLength("aligned", f.size)
  BY <1>1 DEF EncodedLength
<1>9. HeaderOf(f).writer = "aligned" /\ HeaderOf(f).length = f.length
  BY DEF HeaderOf
<1> QED  BY <1>1, <1>6, <1>7, <1>8, <1>9 DEF ValidateAligned

LEMMA BodyRead ==
    ASSUME NEW f, Sound(f), NEW y \in Nat, Stored(data, f, y), readSeq = y % Modulus,
           f.writer = "aligned" => f.length = EncodedLength("aligned", f.size)
    PROVE  ReadBody(HeaderOf(f)) = Body(f.id, BodyLength(f))
<1>1. /\ HeaderSize \in Nat /\ PrefixSize \in Nat /\ f.length \in Nat /\ f.size \in Nat
      /\ f.length <= Capacity - HeaderSize /\ Capacity \in Nat
      /\ f.writer = "aligned" => f.length = f.size + PrefixSize
  BY Constants DEF Sound, Fits, EncodedLength
<1>2. PICK skip \in Nat, n \in Nat :
         /\ skip = IF f.writer = "aligned" THEN PrefixSize ELSE 0
         /\ n = f.length - skip /\ HeaderSize + skip + n = WrittenLength(f)
  <2>1. CASE f.writer = "aligned"
    <3>1. PrefixSize \in Nat /\ f.size \in Nat /\ f.size = f.length - PrefixSize
          /\ HeaderSize + PrefixSize + f.size = WrittenLength(f)
      BY <1>1, <2>1 DEF WrittenLength
    <3> QED  BY <2>1, <3>1
  <2>2. CASE f.writer # "aligned"
    <3>1. f.length = f.length - 0 /\ HeaderSize + 0 + f.length = WrittenLength(f)
      BY <1>1, <2>2 DEF WrittenLength
    <3> QED  BY <1>1, <2>2, <3>1
  <2> QED  BY <2>1, <2>2
<1>3. PICK x \in Nat : x = y + (HeaderSize + skip)
  BY <1>1
<1>4. HeaderOf(f).writer = f.writer /\ HeaderOf(f).length = f.length
  BY DEF HeaderOf
<1>5. BodySeq(HeaderOf(f)) = x % Modulus
  <2>1. After(y % Modulus, HeaderSize + skip) = (y + (HeaderSize + skip)) % Modulus
    BY <1>1, AfterIs
  <2> QED  BY <1>2, <1>3, <1>4, <2>1 DEF BodySeq
<1>6. BodyLength(HeaderOf(f)) = n /\ BodyLength(f) = n
  BY <1>1, <1>2, <1>4 DEF BodyLength
<1>7. n \in 0 .. Capacity
  BY <1>1, <1>2
<1>8. ReadBody(HeaderOf(f)) = [i \in 1 .. n |-> data[Cell(x + i - 1)]]
  BY <1>5, <1>6, <1>7, ReadAt DEF ReadBody
<1>9. \A i \in 1 .. n : data[Cell(x + i - 1)] = <<"body", f.id, i>>
  <2>1. TAKE i \in 1 .. n
  <2>2. PICK j \in Nat : j = skip + i /\ j >= 1 /\ HeaderSize + j \in Nat
    BY <1>1
  <2>3. HeaderSize + j \in 1 .. WrittenLength(f) /\ y + (HeaderSize + j) - 1 = x + i - 1
    BY <1>1, <1>2, <1>3, <2>2
  <2>4. ByteOf(f, HeaderSize + j) = <<"body", f.id, i>>
    <3>1. CASE f.writer = "aligned"
      <4>1. ~(j <= PrefixSize) /\ j - PrefixSize = i
        BY <1>1, <1>2, <2>2, <3>1
      <4> QED  BY <2>2, <3>1, <4>1, ByteOfIs
    <3>2. CASE f.writer # "aligned"
      <4>1. j = i
        BY <1>2, <2>2, <3>2
      <4> QED  BY <2>2, <3>2, <4>1, ByteOfIs
    <3> QED  BY <3>1, <3>2
  <2> QED  BY <2>3, <2>4 DEF Stored
<1> QED  BY <1>6, <1>8, <1>9 DEF Body

LEMMA Places ==
    ASSUME FramesInv, NEW at, Laid(at)
    PROVE  /\ Len(committed) \in Nat /\ Len(received) \in 0 .. Len(committed)
           /\ at[Len(received) + 1] \in Nat /\ at[Len(committed) + 1] \in Nat
           /\ at[Len(received) + 1] <= at[Len(committed) + 1]
           /\ at[Len(committed) + 1] - at[Len(received) + 1] <= Capacity
           /\ Used = at[Len(committed) + 1] - at[Len(received) + 1]
           /\ readSeq = at[Len(received) + 1] % Modulus /\ writeSeq = at[Len(committed) + 1] % Modulus
<1>1. Len(committed) \in Nat /\ Len(received) \in 0 .. Len(committed)
  BY DEF FramesInv, AllSound, Delivered
<1>2. /\ Len(received) + 1 \in 1 .. Len(committed) + 1 /\ Len(committed) + 1 \in 1 .. Len(committed) + 1
      /\ Len(received) + 1 <= Len(committed) + 1
  BY <1>1
<1>3. PICK a \in Nat, b \in Nat : a = at[Len(received) + 1] /\ b = at[Len(committed) + 1]
  BY <1>2 DEF Laid
<1>4. a <= b /\ b - a <= Capacity /\ readSeq = a % Modulus /\ writeSeq = b % Modulus
  BY <1>2, <1>3 DEF Laid
<1>5. Used = b - a
  BY <1>4, UsedIs
<1> QED  BY <1>1, <1>3, <1>4, <1>5

LEMMA FirstFrame ==
    ASSUME FramesInv, NEW at, Laid(at), Len(received) < Len(committed),
           NEW f, f = committed[Len(received) + 1]
    PROVE  /\ Len(received) + 1 \in 1 .. Len(committed) /\ Sound(f) /\ f \in Frame
           /\ Stored(data, f, at[Len(received) + 1])
           /\ at[Len(received) + 2] = at[Len(received) + 1] + FrameSize(f.length)
           /\ at[Len(received) + 2] \in Nat /\ FrameSize(f.length) \in Nat
           /\ at[Len(received) + 2] <= at[Len(committed) + 1]
           /\ FrameSize(f.length) <= Used
<1>1. PICK r \in Nat, p \in Nat : r = Len(received) /\ p = Len(committed) /\ r < p
  BY Places
<1>2. /\ r + 1 \in 1 .. p /\ r + 2 \in 1 .. p + 1 /\ p + 1 \in 1 .. p + 1 /\ r + 2 <= p + 1
      /\ r + 1 \in r + 1 .. p /\ r + 1 + 1 = r + 2
  BY <1>1
<1>3. Sound(f) /\ f \in Frame /\ Stored(data, f, at[r + 1])
  BY <1>1, <1>2 DEF FramesInv, AllSound, Laid
<1>4. PICK s \in Nat : s = FrameSize(f.length)
  BY <1>3, WrittenWithin
<1>5. at[r + 2] = at[r + 1] + s /\ at[r + 2] \in Nat /\ at[r + 2] <= at[p + 1]
  BY <1>1, <1>2, <1>4 DEF Laid
<1>6. s <= Used
  <2>1. PICK a \in Nat, b \in Nat, c \in Nat : a = at[r + 1] /\ b = at[p + 1] /\ c = at[r + 2]
        /\ Used = b - a
    BY <1>1, <1>5, Places
  <2>2. c = a + s /\ c <= b
    BY <1>5, <2>1
  <2> QED  BY ONLY <2>1, <2>2, a \in Nat, b \in Nat, c \in Nat, s \in Nat
<1> QED  BY <1>1, <1>2, <1>3, <1>4, <1>5, <1>6

(* What is on the ring is rejected only for its prefix, when a payload was *)
(* resized between its measure and its writing.                            *)
LEMMA FirstIsValid ==
    ASSUME FramesInv, NEW at, Laid(at), Len(received) < Len(committed),
           NEW f, f = committed[Len(received) + 1]
    PROVE  /\ ValidHeader /\ ReadHeader[1][3] = HeaderOf(f)
           /\ f.writer = "aligned" =>
                 (ValidateAligned(HeaderOf(f)) <=> f.length = EncodedLength("aligned", f.size))
<1>1. PICK y \in Nat : y = at[Len(received) + 1] /\ readSeq = y % Modulus /\ Stored(data, f, y)
  BY Places, FirstFrame
<1>2. Sound(f) /\ FrameSize(f.length) <= Used
  BY FirstFrame
<1>3. ReadHeader = Header(f) /\ ReadHeader[1][1] = "header" /\ ReadHeader[1][3] = HeaderOf(f)
  BY <1>1, <1>2, HeaderRead
<1>4. Header(HeaderOf(f)) = Header(f) /\ HeaderOf(f).length = f.length
  BY DEF Header, HeaderOf
<1>5. FrameSize(f.length) \in Nat /\ Used \in Int
  <2>1. PICK b \in Nat, a \in Nat : Used = b - a
    BY Places
  <2> QED  BY <2>1, FirstFrame
<1>6. ValidHeader
  BY <1>2, <1>3, <1>4, <1>5 DEF ValidHeader, Sound
<1> QED  BY <1>1, <1>2, <1>3, <1>6, PrefixRead

-----------------------------------------------------------------------------
LEMMA Begins == Init => FramesInv
<1> SUFFICES ASSUME Init PROVE FramesInv
  OBVIOUS
<1>1. readSeq \in Nat /\ readSeq \in 0 .. Modulus - 1 /\ writeSeq = readSeq /\ Capacity \in Nat
      /\ MaxFrames \in Nat
  BY FramesAssumption DEF Init
<1>2. PICK a \in Nat : a = readSeq
  BY <1>1
<1>3. a % Modulus = a
  BY <1>1, <1>2, Constants
<1>4. Used = 0
  <2>1. a <= a /\ a - a <= Capacity /\ readSeq = a % Modulus /\ writeSeq = a % Modulus /\ a - a = 0
    BY <1>1, <1>2, <1>3
  <2> QED  BY <2>1, UsedIs
<1>5. TypeOK
  <2>1. DOMAIN data = 0 .. Capacity - 1 /\ send = Idle /\ view = Idle /\ errored = FALSE /\ sends = 0
        /\ Len(received) <= Len(committed)
    BY DEF Init
  <2>2. Used <= Capacity /\ sends \in 0 .. MaxFrames
    BY <1>1, <1>4, <2>1
  <2> QED  BY <1>1, <2>1, <2>2 DEF TypeOK
<1>6. AllSound /\ Delivered /\ Viewed /\ Rejected
  BY DEF Init, AllSound, Delivered, Viewed, Rejected, Idle
<1>7. Laid([i \in 1 .. 1 |-> a])
  BY <1>1, <1>2, <1>3 DEF Laid, Init
<1> QED  BY <1>5, <1>6, <1>7 DEF FramesInv

(* Steps that leave the ring and what has been committed and handed over.  *)
LEMMA RingKept ==
    ASSUME UNCHANGED <<data, readSeq, writeSeq, committed, received>>
    PROVE  /\ \A at : Laid(at)' <=> Laid(at)
           /\ Delivered' <=> Delivered /\ Used' = Used
<1>1. /\ data' = data /\ readSeq' = readSeq /\ writeSeq' = writeSeq /\ committed' = committed
      /\ received' = received
  OBVIOUS
<1> QED  BY <1>1 DEF Laid, Delivered, Used

LEMMA Measuring == FramesInv /\ Measure => FramesInv'
<1> SUFFICES ASSUME FramesInv, Measure PROVE FramesInv'
  OBVIOUS
<1>1. /\ data' = data /\ readSeq' = readSeq /\ writeSeq' = writeSeq /\ committed' = committed
      /\ received' = received /\ view' = view /\ errored' = errored
      /\ sends' = sends + 1 /\ sends < MaxFrames /\ sends \in Nat
  BY DEF Measure, ring, FramesInv, TypeOK
<1>2. send' = Idle \/ Sound(send')
  <2>1. PICK w \in Writers, n \in Sizes :
          \/ /\ Fits(EncodedLength(w, n))
             /\ send' = [id |-> sends + 1, writer |-> w, length |-> EncodedLength(w, n), size |-> n]
          \/ send' = Idle
    BY DEF Measure
  <2>2. CASE /\ Fits(EncodedLength(w, n))
             /\ send' = [id |-> sends + 1, writer |-> w, length |-> EncodedLength(w, n), size |-> n]
    <3>1. n \in Nat /\ PrefixSize \in Nat /\ MaxFrames \in Nat
      BY Constants
    <3>2. /\ EncodedLength(w, n) \in Nat
          /\ w = "aligned" => EncodedLength(w, n) >= PrefixSize /\ n <= EncodedLength(w, n) - PrefixSize
      BY <3>1 DEF EncodedLength
    <3>3. sends + 1 \in 1 .. MaxFrames
      BY <1>1, <3>1
    <3> HIDE DEF EncodedLength
    <3> QED  BY <2>2, <3>1, <3>2, <3>3 DEF Sound
  <2> QED  BY <2>1, <2>2
<1>3. TypeOK'
  <2>1. Used' = Used
    BY <1>1 DEF Used
  <2>2. send' # Idle => send' \in [id : 1 .. MaxFrames, writer : Writers, length : Nat, size : Nat]
    BY <1>2 DEF Sound
  <2>3. sends' \in 0 .. MaxFrames
    BY <1>1, Constants
  <2> QED  BY <1>1, <2>1, <2>2, <2>3 DEF FramesInv, TypeOK, Idle
<1>4. AllSound'
  BY <1>1, <1>2 DEF FramesInv, AllSound, Idle
<1>5. Viewed' /\ Rejected' /\ Delivered'
  BY <1>1 DEF FramesInv, Viewed, Rejected, Delivered, Idle
<1>6. ~errored' => \E at : Laid(at)'
  BY <1>1, RingKept DEF FramesInv
<1> QED  BY <1>3, <1>4, <1>5, <1>6 DEF FramesInv

LEMMA Resizing == FramesInv /\ Resize => FramesInv'
<1> SUFFICES ASSUME FramesInv, Resize PROVE FramesInv'
  OBVIOUS
<1>1. /\ data' = data /\ readSeq' = readSeq /\ writeSeq' = writeSeq /\ committed' = committed
      /\ received' = received /\ view' = view /\ errored' = errored /\ sends' = sends
      /\ send # Idle
  BY DEF Resize, ring
<1>2. Sound(send')
  <2>1. PICK n : /\ n \in (IF send.writer = "aligned" THEN {0} ELSE Sizes)
                 /\ send' = [send EXCEPT !.size = n]
    BY DEF Resize
  <2>2. Sound(send)
    BY <1>1 DEF FramesInv, AllSound
  <2>3. n \in Nat /\ (send.writer = "aligned" => n = 0)
    BY <2>1, Constants
  <2> QED  BY <2>1, <2>2, <2>3, Constants DEF Sound
<1>3. TypeOK'
  <2>1. Used' = Used
    BY <1>1 DEF Used
  <2>2. send' \in [id : 1 .. MaxFrames, writer : Writers, length : Nat, size : Nat]
    BY <1>2 DEF Sound
  <2> QED  BY <1>1, <2>1, <2>2 DEF FramesInv, TypeOK
<1>4. AllSound'
  BY <1>1, <1>2 DEF FramesInv, AllSound
<1>5. Viewed' /\ Rejected' /\ Delivered'
  BY <1>1 DEF FramesInv, Viewed, Rejected, Delivered
<1>6. ~errored' => \E at : Laid(at)'
  BY <1>1, RingKept DEF FramesInv
<1> QED  BY <1>3, <1>4, <1>5, <1>6 DEF FramesInv

LEMMA Failing == FramesInv /\ (SendFails \/ UNCHANGED vars) => FramesInv'
<1> SUFFICES ASSUME FramesInv, SendFails \/ UNCHANGED vars PROVE FramesInv'
  OBVIOUS
<1>1. /\ data' = data /\ readSeq' = readSeq /\ writeSeq' = writeSeq /\ committed' = committed
      /\ received' = received /\ view' = view /\ errored' = errored /\ sends' = sends
      /\ send' = Idle \/ send' = send
  BY DEF SendFails, ring, vars
<1>2. TypeOK'
  <2>1. Used' = Used
    BY <1>1 DEF Used
  <2> QED  BY <1>1, <2>1 DEF FramesInv, TypeOK
<1>3. AllSound'
  BY <1>1 DEF FramesInv, AllSound
<1>4. Viewed' /\ Rejected' /\ Delivered'
  BY <1>1 DEF FramesInv, Viewed, Rejected, Delivered
<1>5. ~errored' => \E at : Laid(at)'
  BY <1>1, RingKept DEF FramesInv
<1> QED  BY <1>2, <1>3, <1>4, <1>5 DEF FramesInv

(* The bytes of a write, and the frames that are on the ring already.      *)
Unread(z, at) == at[Len(received) + 1] <= z /\ z < at[Len(committed) + 1]

LEMMA WriteSpares ==
    ASSUME FramesInv, NEW at, Laid(at), Write
    PROVE  /\ DOMAIN data' = 0 .. Capacity - 1
           /\ \A i \in Len(received) + 1 .. Len(committed) : Stored(data', committed[i], at[i])
           /\ \A z \in Nat : Unread(z, at) => data'[Cell(z)] = data[Cell(z)]
           /\ FrameSize(send.length) \in Nat
           /\ at[Len(committed) + 1] + FrameSize(send.length) - at[Len(received) + 1] <= Capacity
           /\ ~MismatchThrows(send) => Stored(data', send, at[Len(committed) + 1])
<1>1. Sound(send) /\ send.length \in Nat
  BY DEF Write, FramesInv, AllSound, Sound
<1>2. PICK r \in Nat, p \in Nat : r = Len(received) /\ p = Len(committed) /\ r <= p
  BY Places
<1>3. PICK a \in Nat, x \in Nat, s \in Nat, c \in Nat :
         a = at[r + 1] /\ x = at[p + 1] /\ s = FrameSize(send.length) /\ c = Capacity
  BY <1>1, <1>2, Places, FrameSizes, Constants
<1>4. a <= x /\ writeSeq = x % Modulus /\ Used = x - a
  BY <1>2, <1>3, Places
<1>5. x + s <= a + c /\ s <= c
  <2>1. c - (x - a) >= s
    BY <1>3, <1>4 DEF Write, Granted
  <2> QED  BY ONLY <1>4, <2>1, a \in Nat, x \in Nat, s \in Nat, c \in Nat, a <= x
<1>7. data' = IF MismatchThrows(send) THEN Carrying(data, x, send) ELSE Padded(data, x, send)
  BY <1>4 DEF Write, Carrying, Padded
<1>8. DOMAIN data = 0 .. Capacity - 1
  BY DEF FramesInv, TypeOK
<1>9. /\ DOMAIN data' = 0 .. Capacity - 1
      /\ \A z \in Nat : z < x /\ x + s <= z + Capacity => data'[Cell(z)] = data[Cell(z)]
      /\ ~MismatchThrows(send) => Stored(data', send, x)
  <2>1. /\ Spares(Carrying(data, x, send), data, x, FrameSize(send.length))
        /\ Spares(Padded(data, x, send), data, x, FrameSize(send.length))
        /\ ~MismatchThrows(send) => Stored(Padded(data, x, send), send, x)
    BY <1>1, <1>3, <1>5, <1>8, WriteFrame
  <2> QED  BY <1>3, <1>7, <2>1 DEF Spares
<1>10. ASSUME NEW i \in r + 1 .. p PROVE Stored(data', committed[i], at[i])
  <2>1. /\ i \in 1 .. p /\ i \in 1 .. p + 1 /\ i + 1 \in 1 .. p + 1 /\ r + 1 \in 1 .. p + 1
        /\ p + 1 \in 1 .. p + 1 /\ r + 1 <= i /\ i + 1 <= p + 1
    BY <1>2
  <2>2. PICK f : f = committed[i]
    OBVIOUS
  <2>3. Sound(f) /\ FrameSize(f.length) \in Nat
    BY <1>2, <2>1, <2>2, WrittenWithin DEF FramesInv, AllSound
  <2>4. PICK y \in Nat : y = at[i]
    BY <1>2, <2>1 DEF Laid
  <2>5. y + FrameSize(f.length) <= x /\ a <= y
    BY <1>2, <1>3, <2>1, <2>2, <2>4 DEF Laid
  <2>6. x + s <= y + Capacity
    BY <1>3, <1>5, <2>5, Constants
  <2>7. Stored(data, f, y)
    BY <1>2, <2>2, <2>4 DEF Laid
  <2>8. Stored(data', f, y)
    BY <1>9, <2>3, <2>5, <2>6, <2>7, StoredKept
  <2> QED  BY <2>2, <2>4, <2>8
<1>11. ASSUME NEW z \in Nat, Unread(z, at) PROVE data'[Cell(z)] = data[Cell(z)]
  <2>1. z < x /\ x + s <= z + Capacity
    <3>1. a <= z /\ z < x
      BY <1>2, <1>3, <1>11 DEF Unread
    <3>2. x + s <= z + c
      BY ONLY <1>5, <3>1, a \in Nat, x \in Nat, s \in Nat, c \in Nat, z \in Nat
    <3> QED  BY <1>3, <3>1, <3>2
  <2> QED  BY <1>9, <2>1
<1>12. x + s - a <= Capacity
  BY <1>3, <1>5
<1> QED  BY <1>2, <1>3, <1>9, <1>10, <1>11, <1>12

LEMMA Writing == FramesInv /\ Write => FramesInv'
<1> SUFFICES ASSUME FramesInv, Write PROVE FramesInv'
  OBVIOUS
<1>1. /\ readSeq' = readSeq /\ received' = received /\ view' = view /\ errored' = errored
           /\ sends' = sends
      /\ send' = Idle /\ send # Idle /\ ~errored
  BY DEF Write
<1>2. PICK at : Laid(at)
  BY <1>1 DEF FramesInv
<1>3. PICK r \in Nat, p \in Nat : r = Len(received) /\ p = Len(committed) /\ r <= p
  BY <1>2, Places
<1>4. Sound(send) /\ send \in Frame /\ committed \in Seq(Frame) /\ \A i \in 1 .. p : Sound(committed[i])
  BY <1>1, <1>3 DEF FramesInv, AllSound, Sound, Frame
<1>5. /\ DOMAIN data' = 0 .. Capacity - 1
      /\ \A i \in r + 1 .. p : Stored(data', committed[i], at[i])
      /\ FrameSize(send.length) \in Nat
      /\ at[p + 1] + FrameSize(send.length) - at[r + 1] <= Capacity
      /\ ~MismatchThrows(send) => Stored(data', send, at[p + 1])
  BY <1>2, <1>3, WriteSpares
<1>6. PICK a \in Nat, x \in Nat, s \in Nat : a = at[r + 1] /\ x = at[p + 1]
      /\ s = FrameSize(send.length) /\ a <= x
  BY <1>2, <1>3, <1>5, Places
<1>7. readSeq = a % Modulus /\ writeSeq = x % Modulus /\ Used = x - a
  BY <1>2, <1>3, <1>6, Places
<1>8. received = [i \in 1 .. r |-> Whole(committed[i])]
  BY <1>3 DEF FramesInv, Delivered
<1>a. CASE MismatchThrows(send)
  <2>1. writeSeq' = writeSeq /\ committed' = committed
    BY <1>a DEF Write
  <2>2. TypeOK'
    <3>1. Used' = Used
      BY <1>1, <2>1 DEF Used
    <3> QED  BY <1>1, <1>5, <2>1, <3>1 DEF FramesInv, TypeOK
  <2>3. AllSound' /\ Delivered' /\ Viewed' /\ Rejected'
    BY <1>1, <2>1 DEF FramesInv, AllSound, Delivered, Viewed, Rejected
  <2>4. Laid(at)'
    BY <1>1, <1>2, <1>3, <1>5, <2>1 DEF Laid
  <2> QED  BY <2>2, <2>3, <2>4 DEF FramesInv
<1>b. CASE ~MismatchThrows(send)
  <2>1. writeSeq' = After(writeSeq, FrameSize(send.length)) /\ committed' = Append(committed, send)
    BY <1>b DEF Write
  <2>2. PICK z \in Nat : z = x + s
    OBVIOUS
  <2>3. writeSeq' = z % Modulus
    BY <1>6, <1>7, <2>1, <2>2, AfterIs
  <2>4. /\ Len(committed') = p + 1 /\ committed' \in Seq(Frame) /\ committed'[p + 1] = send
        /\ \A i \in 1 .. p : committed'[i] = committed[i]
    BY <1>3, <1>4, <2>1, AppendProperties
  <2>5. a <= z /\ z - a <= Capacity
    <3>1. PICK c \in Nat : c = Capacity
      BY Constants
    <3>2. x + s - a <= c /\ a <= x
      BY <1>5, <1>6, <3>1
    <3>3. a <= z /\ z - a <= c
      BY ONLY <2>2, <3>2, a \in Nat, x \in Nat, s \in Nat, c \in Nat, z \in Nat
    <3> QED  BY <3>1, <3>3
  <2>6. Used' = z - a
    <3>1. readSeq' = a % Modulus
      BY <1>1, <1>7
    <3>2. \A u, v \in Nat : u <= v /\ v - u <= Capacity /\ readSeq' = u % Modulus
              /\ writeSeq' = v % Modulus
                            => Used' = v - u
      BY UsedIsNext
    <3> QED  BY <2>3, <2>5, <3>1, <3>2
  <2>7. TypeOK'
    <3>1. writeSeq' \in 0 .. Modulus - 1
      BY <2>3, CellOfSeq
    <3>2. Len(received') <= Len(committed')
      BY <1>1, <1>3, <2>4
    <3> QED  BY <1>1, <1>5, <2>5, <2>6, <3>1, <3>2 DEF FramesInv, TypeOK
  <2>8. AllSound'
    <3>1. \A i \in 1 .. p + 1 : i \in 1 .. p \/ i = p + 1
      BY <1>3
    <3> QED  BY <1>1, <1>4, <2>4, <3>1 DEF AllSound
  <2>9. Delivered'
    <3>1. Len(received') \in 0 .. Len(committed')
      BY <1>1, <1>3, <2>4
    <3>2. \A i \in 1 .. r : i \in 1 .. p
      BY <1>3
    <3>3. received' = [i \in 1 .. r |-> Whole(committed'[i])]
      BY <1>1, <1>8, <2>4, <3>2
    <3> QED  BY <1>1, <1>3, <3>1, <3>3 DEF Delivered
  <2>10. Viewed'
    <3> SUFFICES ASSUME view # Idle PROVE ~errored' /\ r < p + 1 /\ view = HeaderOf(committed'[r + 1])
      BY <1>1, <1>3, <2>4 DEF Viewed
    <3>1. r < p /\ view = HeaderOf(committed[r + 1])
      BY <1>3 DEF FramesInv, Viewed
    <3>2. r + 1 \in 1 .. p
      BY <1>3, <3>1
    <3> QED  BY <1>1, <1>3, <2>4, <3>1, <3>2
  <2>11. Rejected'
    BY <1>1 DEF Rejected
  <2>12. \E new : Laid(new)'
    <3> DEFINE new == [i \in 1 .. p + 2 |-> IF i <= p + 1 THEN at[i] ELSE z]
    <3>1. at \in [1 .. p + 1 -> Nat] /\ (\A i, j \in 1 .. p + 1 : i <= j => at[i] <= at[j])
          /\ \A i \in 1 .. p : at[i + 1] = at[i] + FrameSize(committed[i].length)
      BY <1>2, <1>3 DEF Laid
    <3>2. /\ \A i \in 1 .. p + 2 : i \in 1 .. p + 1 \/ i = p + 2
          /\ \A i \in 1 .. p + 1 : new[i] = at[i] /\ i \in 1 .. p + 2 /\ i <= p + 1 /\ i # p + 2
          /\ new[p + 2] = z
      BY <1>3
    <3>3. new \in [1 .. p + 2 -> Nat]
      BY <3>1
    <3> HIDE DEF new
    <3>4. \A i, j \in 1 .. p + 2 : i <= j => new[i] <= new[j]
      <4>1. TAKE i, j \in 1 .. p + 2
      <4>2. HAVE i <= j
      <4>3. CASE j \in 1 .. p + 1
        <5>1. i \in 1 .. p + 1
          BY <1>3, <4>2, <4>3
        <5> QED  BY <3>1, <3>2, <4>2, <4>3, <5>1
      <4>4. CASE j = p + 2 /\ i \in 1 .. p + 1
        <5>1. p + 1 \in 1 .. p + 1 /\ i <= p + 1
          BY <1>3, <4>4
        <5>2. at[i] <= x /\ at[i] \in Nat
          BY <1>6, <3>1, <4>4, <5>1
        <5> QED  BY <2>2, <3>2, <4>4, <5>2
      <4>5. CASE j = p + 2 /\ i = p + 2
        BY <3>2, <4>5
      <4> QED  BY <3>2, <4>3, <4>4, <4>5
    <3>5. \A i \in 1 .. p + 1 : new[i + 1] = new[i] + FrameSize(committed'[i].length)
      <4>1. TAKE i \in 1 .. p + 1
      <4>2. CASE i \in 1 .. p
        <5>1. i + 1 \in 1 .. p + 1
          BY <1>3, <4>2
        <5> QED  BY <2>4, <3>1, <3>2, <4>2, <5>1
      <4>3. CASE i = p + 1
        <5>1. i + 1 = p + 2
          BY <1>3, <4>3
        <5> QED  BY <1>6, <2>2, <2>4, <3>2, <4>3, <5>1
      <4> QED  BY <1>3, <4>2, <4>3
    <3>6. r + 1 \in 1 .. p + 1 /\ new[r + 1] = a
      BY <1>3, <1>6, <3>2
    <3>7. \A i \in r + 1 .. p + 1 : Stored(data', committed'[i], new[i])
      <4>1. TAKE i \in r + 1 .. p + 1
      <4>2. CASE i \in r + 1 .. p
        <5>1. i \in 1 .. p /\ i \in 1 .. p + 1
          BY <1>3, <4>2
        <5> QED  BY <1>5, <2>4, <3>2, <4>2, <5>1
      <4>3. CASE i = p + 1
        BY <1>5, <1>6, <1>b, <2>4, <3>2, <4>3
      <4> QED  BY <1>3, <4>2, <4>3
    <3>8. p + 1 + 1 = p + 2
      BY <1>3
    <3>9. Laid(new)'
      BY <1>1, <1>3, <1>7, <2>3, <2>4, <2>5, <3>2, <3>3, <3>4, <3>5, <3>6, <3>7, <3>8 DEF Laid
    <3> QED  BY <3>9
  <2> QED  BY <2>7, <2>8, <2>9, <2>10, <2>11, <2>12 DEF FramesInv
<1> QED  BY <1>a, <1>b

LEMMA Appended ==
    ASSUME NEW s, NEW n \in Nat, s = [i \in 1 .. n |-> s[i]], NEW e
    PROVE  /\ Len(Append(s, e)) = n + 1
           /\ Append(s, e) = [i \in 1 .. n + 1 |-> IF i <= n THEN s[i] ELSE e]
<1> DEFINE S == {s[i] : i \in 1 .. n} \cup {e}
<1>1. e \in S /\ \A i \in 1 .. n : s[i] \in S
  OBVIOUS
<1> HIDE DEF S
<1>2. s \in Seq(S)
  BY <1>1 DEF Seq
<1>3. Len(s) = n
  BY <1>2, LenProperties
<1>4. /\ Append(s, e) \in Seq(S) /\ Len(Append(s, e)) = n + 1
      /\ \A i \in 1 .. n : Append(s, e)[i] = s[i]
      /\ Append(s, e)[n + 1] = e
  BY <1>1, <1>2, <1>3, AppendProperties
<1>5. Append(s, e) = [i \in 1 .. n + 1 |-> Append(s, e)[i]]
  BY <1>4, LenProperties
<1>6. \A i \in 1 .. n + 1 : Append(s, e)[i] = IF i <= n THEN s[i] ELSE e
  BY <1>4
<1> QED  BY <1>4, <1>5, <1>6

LEMMA Receiving == FramesInv /\ Receive => FramesInv'
<1> SUFFICES ASSUME FramesInv, Receive PROVE FramesInv'
  OBVIOUS
<1>1. /\ data' = data /\ readSeq' = readSeq /\ writeSeq' = writeSeq /\ committed' = committed
      /\ received' = received /\ send' = send /\ sends' = sends
      /\ view = Idle /\ ~errored /\ Used >= HeaderSize
  BY DEF Receive, ring
<1>2. PICK at : Laid(at)
  BY <1>1 DEF FramesInv
<1>3. PICK r \in Nat, p \in Nat : r = Len(received) /\ p = Len(committed) /\ r < p
  <2>1. PICK r \in Nat, p \in Nat : r = Len(received) /\ p = Len(committed) /\ r <= p
        /\ Used = at[p + 1] - at[r + 1]
    BY <1>2, Places
  <2>2. at[p + 1] \in Nat
    BY <1>2, <2>1, Places
  <2>3. r # p
    BY <1>1, <2>1, <2>2, Constants
  <2>4. r < p
    BY ONLY <2>1, <2>3, r \in Nat, p \in Nat
  <2> QED  BY <2>1, <2>4
<1>4. PICK f : f = committed[r + 1]
  OBVIOUS
<1>5. /\ ValidHeader /\ ReadHeader[1][3] = HeaderOf(f)
      /\ f.writer = "aligned"
           => (ValidateAligned(HeaderOf(f)) <=> f.length = EncodedLength("aligned", f.size))
  BY <1>2, <1>3, <1>4, FirstIsValid
<1>6. Sound(f) /\ f \in Frame /\ r + 1 \in 1 .. p
  BY <1>2, <1>3, <1>4, FirstFrame
<1>7. \/ view' = HeaderOf(f) /\ errored' = errored
      \/ view' = view /\ errored' = TRUE /\ ~ValidateAligned(HeaderOf(f))
  BY <1>5, Zenon DEF Receive
<1>8. HeaderOf(f) \in FrameHeaders
  BY <1>6 DEF HeaderOf, FrameHeaders, Frame
<1>9. TypeOK'
  <2>1. Used' = Used
    BY <1>1 DEF Used
  <2>2. (view' # Idle => view' \in FrameHeaders) /\ errored' \in BOOLEAN
    BY <1>1, <1>7, <1>8 DEF FramesInv, TypeOK
  <2> QED  BY <1>1, <2>1, <2>2 DEF FramesInv, TypeOK
<1>10. AllSound' /\ Delivered'
  BY <1>1 DEF FramesInv, AllSound, Delivered
<1>11. Viewed'
  BY <1>1, <1>3, <1>4, <1>7 DEF Viewed
<1>12. Rejected'
  <2>1. CASE errored'
    <3>1. ~ValidateAligned(HeaderOf(f))
      BY <1>1, <1>7, <2>1
    <3>2. f.writer = "aligned"
      BY <3>1 DEF ValidateAligned, HeaderOf
    <3>3. DOMAIN committed = 1 .. p
      BY <1>3 DEF FramesInv, AllSound
    <3> QED  BY <1>1, <1>4, <1>5, <1>6, <3>1, <3>2, <3>3 DEF Rejected
  <2> QED  BY <2>1 DEF Rejected
<1>13. ~errored' => \E new : Laid(new)'
  BY <1>1, <1>2, RingKept
<1> QED  BY <1>9, <1>10, <1>11, <1>12, <1>13 DEF FramesInv

LEMMA Reading == FramesInv /\ Read => FramesInv'
<1> SUFFICES ASSUME FramesInv, Read PROVE FramesInv'
  OBVIOUS
<1>1. /\ data' = data /\ writeSeq' = writeSeq /\ committed' = committed /\ send' = send
           /\ sends' = sends
      /\ view # Idle /\ ~errored /\ view' = Idle /\ readSeq' = After(readSeq, FrameSize(view.length))
  BY DEF Read
<1>2. PICK at : Laid(at)
  BY <1>1 DEF FramesInv
<1>3. PICK r \in Nat, p \in Nat : r = Len(received) /\ p = Len(committed) /\ r < p
  BY <1>1, <1>2, Places DEF FramesInv, Viewed
<1>4. PICK f : f = committed[r + 1]
  OBVIOUS
<1>5. view = HeaderOf(f) /\ view.length = f.length /\ view.id = f.id
  BY <1>1, <1>3, <1>4 DEF FramesInv, Viewed, HeaderOf
<1>6. /\ Sound(f) /\ r + 1 \in 1 .. p /\ Stored(data, f, at[r + 1])
      /\ at[r + 2] = at[r + 1] + FrameSize(f.length)
      /\ at[r + 2] \in Nat /\ FrameSize(f.length) \in Nat /\ at[r + 2] <= at[p + 1]
  BY <1>2, <1>3, <1>4, FirstFrame
<1>7. f.writer = "aligned"
      => (ValidateAligned(HeaderOf(f)) <=> f.length = EncodedLength("aligned", f.size))
  BY <1>2, <1>3, <1>4, FirstIsValid
<1>8. PICK a \in Nat, b \in Nat, c \in Nat, s \in Nat :
         /\ a = at[r + 1] /\ b = at[p + 1] /\ c = at[r + 2] /\ s = FrameSize(f.length)
         /\ readSeq = a % Modulus /\ writeSeq = b % Modulus /\ c = a + s /\ c <= b /\ b - a <= Capacity
  BY <1>2, <1>3, <1>6, Places
<1>9. readSeq' = c % Modulus
  <2>1. After(a % Modulus, s) = (a + s) % Modulus
    BY AfterIs
  <2> QED  BY <1>1, <1>5, <1>8, <2>1
<1>10. c <= b /\ b - c <= Capacity
  BY <1>8, Constants
<1>11. Used' = b - c
  BY <1>1, <1>8, <1>9, <1>10, UsedIsNext
<1>12. received = [i \in 1 .. r |-> Whole(committed[i])]
  BY <1>3 DEF FramesInv, Delivered
<1>13. DOMAIN committed = 1 .. p
  BY <1>3 DEF FramesInv, AllSound
<1>14. AllSound' /\ Viewed'
  BY <1>1 DEF FramesInv, AllSound, Viewed
<1>15. TypeOK' <=> Len(received') <= Len(committed') /\ errored' \in BOOLEAN
  <2>1. readSeq' \in 0 .. Modulus - 1
    BY <1>9, CellOfSeq
  <2> QED  BY <1>1, <1>10, <1>11, <2>1 DEF FramesInv, TypeOK
<1>a. CASE ValidateAligned(view)
  <2>1. received' = Append(received, [id |-> view.id, body |-> ReadBody(view)]) /\ errored' = errored
    BY <1>a DEF Read
  <2>2. ReadBody(view) = Body(f.id, BodyLength(f))
    <3>1. f.writer = "aligned" => f.length = EncodedLength("aligned", f.size)
      BY <1>5, <1>7, <1>a
    <3> QED  BY <1>5, <1>6, <1>8, <3>1, BodyRead
  <2>3. received' = Append(received, Whole(f))
    BY <1>5, <2>1, <2>2 DEF Whole
  <2>4. /\ Len(received') = r + 1
        /\ received' = [i \in 1 .. r + 1 |-> IF i <= r THEN received[i] ELSE Whole(f)]
    <3>1. received = [i \in 1 .. r |-> received[i]]
      BY <1>12
    <3> QED  BY <2>3, <3>1, Appended
  <2>5. Delivered'
    <3>1. \A i \in 1 .. r + 1 : (IF i <= r THEN received[i] ELSE Whole(f)) = Whole(committed[i])
      <4>1. TAKE i \in 1 .. r + 1
      <4>2. CASE i \in 1 .. r
        BY <1>12, <4>2
      <4>3. CASE i = r + 1
        BY <1>4, <4>3
      <4> QED  BY <4>2, <4>3
    <3>2. received' = [i \in 1 .. r + 1 |-> Whole(committed[i])]
      BY <2>4, <3>1
    <3> QED  BY <1>1, <1>3, <2>4, <3>2 DEF Delivered
  <2>6. TypeOK'
    BY <1>1, <1>3, <1>15, <2>1, <2>4 DEF FramesInv, TypeOK
  <2>7. Rejected'
    BY <1>1, <2>1 DEF Rejected
  <2>8. Laid(at)'
    <3>1. /\ at \in [1 .. p + 1 -> Nat] /\ (\A i, j \in 1 .. p + 1 : i <= j => at[i] <= at[j])
          /\ (\A i \in 1 .. p : at[i + 1] = at[i] + FrameSize(committed[i].length))
          /\ (\A i \in r + 1 .. p : Stored(data, committed[i], at[i]))
      BY <1>2, <1>3 DEF Laid
    <3>2. r + 1 + 1 = r + 2 /\ \A i \in r + 2 .. p : i \in r + 1 .. p
      BY <1>3
    <3> QED  BY <1>1, <1>3, <1>8, <1>9, <1>10, <2>4, <3>1, <3>2 DEF Laid
  <2> QED  BY <1>14, <2>5, <2>6, <2>7, <2>8 DEF FramesInv
<1>b. CASE ~ValidateAligned(view)
  <2>1. received' = received /\ errored' = TRUE
    BY <1>b DEF Read
  <2>2. Delivered'
    BY <1>1, <2>1 DEF FramesInv, Delivered
  <2>3. TypeOK'
    BY <1>1, <1>3, <1>15, <2>1
  <2>4. Rejected'
    <3>1. f.writer = "aligned"
      BY <1>5, <1>b DEF ValidateAligned, HeaderOf
    <3> QED  BY <1>1, <1>4, <1>5, <1>6, <1>7, <1>b, <1>13, <3>1 DEF Rejected
  <2> QED  BY <1>14, <2>1, <2>2, <2>3, <2>4 DEF FramesInv
<1> QED  BY <1>a, <1>b

LEMMA Continues == FramesInv /\ [Next]_vars => FramesInv'
BY Measuring, Resizing, Failing, Writing, Receiving, Reading DEF Next

(* The invariant: what is on the ring are the frames that were committed   *)
(* and have not been read, whole and one after the other.                  *)
THEOREM FramesInvariant == Spec => []FramesInv
BY Begins, Continues, PTL DEF Spec

(* Frames arrive in order and as they were measured; the transport breaks  *)
(* only over an aligned payload that was resized while its send waited.    *)
THEOREM ArriveWhole == Spec => []FramesArriveWhole
<1>1. FramesInv => FramesArriveWhole
  <2> SUFFICES ASSUME FramesInv PROVE FramesArriveWhole
    OBVIOUS
  <2>1. \A i \in DOMAIN received : received[i] = Whole(committed[i])
    BY DEF FramesInv, Delivered
  <2> QED  BY <2>1 DEF FramesInv, Rejected, FramesArriveWhole
<1> QED  BY <1>1, FramesInvariant, PTL

(* No write, complete or refused half-way, changes a byte that has been    *)
(* committed and not been read.                                            *)
THEOREM UnreadIsSafe == Spec => UnreadUntouched
<1> DEFINE Safe == \A n \in 0 .. Used - 1 :
                      data'[toOffset(After(readSeq, n))] = data[toOffset(After(readSeq, n))]
<1>1. FramesInv /\ [Next]_vars => [Safe]_vars
  <2> SUFFICES ASSUME FramesInv, Next PROVE Safe
    BY DEF vars
  <2>1. CASE Write
    <3>1. PICK at : Laid(at)
      BY <2>1 DEF FramesInv, Write
    <3>2. SUFFICES ASSUME NEW n \in 0 .. Used - 1
                   PROVE  data'[toOffset(After(readSeq, n))] = data[toOffset(After(readSeq, n))]
      OBVIOUS
    <3>3. PICK a \in Nat, b \in Nat : /\ a = at[Len(received) + 1] /\ b = at[Len(committed) + 1]
                                      /\ Used = b - a /\ readSeq = a % Modulus
      BY <3>1, Places
    <3>4. PICK z \in Nat : z = a + n /\ n \in Nat
      BY <3>2, <3>3
    <3>5. toOffset(After(readSeq, n)) = Cell(z)
      BY <3>3, <3>4, AfterIs, CellOfSeq
    <3>6. Unread(z, at)
      <4>1. a <= z /\ z < b
        <5>1. n \in Nat /\ n <= (b - a) - 1
          BY <3>2, <3>3
        <5> QED  BY ONLY <3>4, <5>1, a \in Nat, b \in Nat, z \in Nat
      <4> QED  BY <3>3, <4>1 DEF Unread
    <3> QED  BY <2>1, <3>1, <3>5, <3>6, WriteSpares
  <2>2. CASE ~Write
    <3>1. data' = data
      BY <2>2 DEF Next, Measure, Resize, SendFails, Receive, Read, ring
    <3> QED  BY <3>1
  <2> QED  BY <2>1, <2>2
<1> QED  BY <1>1, FramesInvariant, PTL DEF Spec, UnreadUntouched

-----------------------------------------------------------------------------
(* Histograms.                                                             *)
Below == {p \in Nat \X Nat : p[1] < p[2]}

LEMMA SetInduction ==
    ASSUME NEW T, 0 \in T, \A n \in Nat : n \in T => n + 1 \in T
    PROVE  Nat \subseteq T
<1>1. IsWellFoundedOn(Below, Nat)
  <2>1. Below = OpToRel(<, Nat)
    BY DEF OpToRel, Below
  <2> QED  BY <2>1, NatLessThanWellFounded, Zenon
<1> SUFFICES ASSUME Nat \ T # {} PROVE FALSE
  OBVIOUS
<1>2. PICK x \in Nat \ T : \A y \in Nat \ T : ~(<<y, x>> \in Below)
  BY <1>1, WFMin
<1>3. \A y \in Nat \ T : ~(y < x)
  BY <1>2 DEF Below
<1>4. x # 0 /\ x - 1 \in Nat /\ x - 1 \in T
  BY <1>2, <1>3
<1> QED  BY <1>2, <1>4

LEMMA Buckets ==
    /\ Len(BucketStarts) \in Nat /\ Len(BucketStarts) >= 1
         /\ DOMAIN BucketStarts = 1 .. Len(BucketStarts)
    /\ \A b \in 1 .. Len(BucketStarts) : BucketStarts[b] \in Nat
    /\ BucketStarts[1] = 0
    /\ \A b, c \in 1 .. Len(BucketStarts) : b < c => BucketStarts[b] < BucketStarts[c]
BY ObservabilityAssumption

(* Every size falls into exactly one bucket.                               *)
LEMMA OneBucket ==
    ASSUME NEW v \in Nat
    PROVE  \E b \in DOMAIN BucketStarts :
              InBucket(b, v) /\ \A c \in DOMAIN BucketStarts : InBucket(c, v) => c = b
<1>0. Len(BucketStarts) \in Nat
  BY Buckets
<1>n. PICK n \in Nat : n = Len(BucketStarts)
  BY <1>0
<1>1. n = Len(BucketStarts) /\ n >= 1 /\ DOMAIN BucketStarts = 1 .. n
  BY <1>n, Buckets
<1>2. \E b \in 1 .. n : InBucket(b, v)
  <2>1. SUFFICES ASSUME \A b \in 1 .. n : ~InBucket(b, v) PROVE FALSE
    OBVIOUS
  <2> DEFINE T == {k \in Nat : k + 1 <= n => BucketStarts[k + 1] <= v}
  <2>2. 0 \in T
    BY Buckets
  <2>3. ASSUME NEW k \in Nat, k \in T PROVE k + 1 \in T
    <3>1. ASSUME k + 2 <= n PROVE BucketStarts[k + 2] <= v
      <4>1. k + 1 \in 1 .. n /\ k + 2 \in 1 .. n /\ k + 1 <= n /\ k + 1 < n /\ (k + 1) + 1 = k + 2
        BY <3>1
      <4>2. BucketStarts[k + 1] <= v
        BY <2>3, <4>1
      <4>3. BucketStarts[k + 1] \in Nat /\ BucketStarts[k + 2] \in Nat
        BY <1>1, <4>1, Buckets
      <4>4. ~(v < BucketStarts[k + 2])
        BY <1>1, <2>1, <4>1, <4>2, <4>3 DEF InBucket
      <4> QED  BY <4>3, <4>4
    <3>2. (k + 1) + 1 = k + 2
      OBVIOUS
    <3> QED  BY <3>1, <3>2
  <2> HIDE DEF T
  <2>4. Nat \subseteq T
    BY <2>2, <2>3, SetInduction
  <2>5. n - 1 \in T /\ (n - 1) + 1 = n
    BY <1>1, <2>4
  <2>6. BucketStarts[n] <= v
    BY <2>5 DEF T
  <2>7. n \in 1 .. n /\ ~(n < Len(BucketStarts)) /\ BucketStarts[n] \in Nat
    BY <1>1, Buckets
  <2> QED  BY <2>1, <2>6, <2>7 DEF InBucket
<1>3. ASSUME NEW b \in 1 .. n, NEW c \in 1 .. n, b < c, InBucket(b, v), InBucket(c, v) PROVE FALSE
  <2>1. b + 1 \in 1 .. n /\ b < n /\ (b + 1 = c \/ b + 1 < c)
    BY <1>1, <1>3
  <2>2. BucketStarts[b + 1] \in Nat /\ BucketStarts[c] \in Nat /\ BucketStarts[b + 1] <= BucketStarts[c]
    BY <1>1, <2>1, Buckets
  <2>3. v < BucketStarts[b + 1] /\ v >= BucketStarts[c]
    BY <1>1, <1>3, <2>1 DEF InBucket
  <2> QED  BY <2>2, <2>3
<1>4. PICK b \in 1 .. n : InBucket(b, v)
  BY <1>2
<1>5. ASSUME NEW c \in 1 .. n, InBucket(c, v) PROVE c = b
  <2>1. ~(b < c) /\ ~(c < b)
    BY <1>3, <1>4, <1>5
  <2> QED  BY <1>1, <2>1
<1> QED  BY <1>1, <1>4, <1>5

(* The buckets of a histogram add up to its total.                         *)
Counter == [count : Nat, totalValue : Nat]
Histogram == [totalCount : Nat, totalValue : Nat, buckets : [DOMAIN BucketStarts -> Counter]]
Adds(upTo, h) ==
    /\ upTo \in [0 .. Len(BucketStarts) -> Nat] /\ upTo[0] = 0
    /\ \A b \in 1 .. Len(BucketStarts) : upTo[b] = upTo[b - 1] + h.buckets[b].count
    /\ upTo[Len(BucketStarts)] = h.totalCount
Balanced(h) == h \in Histogram /\ \E upTo : Adds(upTo, h)

LEMMA EmptyHistogram == Balanced(createHistogram)
<1>1. createHistogram \in Histogram
  BY DEF createHistogram, Histogram, Counter
<1> DEFINE upTo == [b \in 0 .. Len(BucketStarts) |-> 0]
<1>2. \A b \in 1 .. Len(BucketStarts) :
         b \in 0 .. Len(BucketStarts) /\ b - 1 \in 0 .. Len(BucketStarts) /\ b \in DOMAIN BucketStarts
  BY Buckets
<1>3. upTo \in [0 .. Len(BucketStarts) -> Nat] /\ \A b \in 0 .. Len(BucketStarts) : upTo[b] = 0
  OBVIOUS
<1>4. createHistogram.totalCount = 0
      /\ \A b \in DOMAIN BucketStarts : createHistogram.buckets[b].count = 0
  BY DEF createHistogram
<1> HIDE DEF upTo
<1>5. Adds(upTo, createHistogram)
  BY <1>2, <1>3, <1>4, Buckets DEF Adds
<1> QED  BY <1>1, <1>5 DEF Balanced

LEMMA Recorded ==
    ASSUME NEW h, Balanced(h), NEW v \in Nat, NEW r, r = recordHistogramValue(h, v)
    PROVE  /\ Balanced(r) /\ r.totalCount = h.totalCount + 1
           /\ \A b \in DOMAIN BucketStarts : h.buckets[b].count <= r.buckets[b].count
<1>1. PICK a \in DOMAIN BucketStarts : InBucket(a, v)
      /\ \A c \in DOMAIN BucketStarts : InBucket(c, v) => c = a
  BY OneBucket
<1>2. /\ h \in Histogram /\ h.totalCount \in Nat /\ h.totalValue \in Nat
      /\ \A b \in DOMAIN BucketStarts : h.buckets[b] \in Counter
  BY DEF Balanced, Histogram
<1>3. r = [totalCount |-> h.totalCount + 1, totalValue |-> h.totalValue + v,
           buckets |-> [b \in DOMAIN BucketStarts |->
                           IF b = a THEN CountValue(h.buckets[b], v) ELSE h.buckets[b]]]
  <2>1. \A b \in DOMAIN BucketStarts : InBucket(b, v) <=> b = a
    BY <1>1
  <2> QED  BY <1>1, <2>1 DEF recordHistogramValue
<1>4. \A b \in DOMAIN BucketStarts :
         /\ CountValue(h.buckets[b], v) \in Counter
         /\ CountValue(h.buckets[b], v).count = h.buckets[b].count + 1
  <2>1. ASSUME NEW c \in Counter PROVE CountValue(c, v) \in Counter
               /\ CountValue(c, v).count = c.count + 1
    BY DEF CountValue, Counter
  <2> QED  BY <1>2, <2>1
<1>5. /\ r.totalCount = h.totalCount + 1 /\ r \in Histogram
      /\ \A b \in DOMAIN BucketStarts :
            r.buckets[b].count = IF b = a THEN h.buckets[b].count + 1 ELSE h.buckets[b].count
  BY <1>2, <1>3, <1>4 DEF Histogram
<1>6. PICK upTo : Adds(upTo, h)
  BY DEF Balanced
<1>0. Len(BucketStarts) \in Nat
  BY Buckets
<1>n. PICK n \in Nat : n = Len(BucketStarts)
  BY <1>0
<1>7. n = Len(BucketStarts) /\ DOMAIN BucketStarts = 1 .. n /\ a \in 1 .. n
  BY <1>n, Buckets
<1> DEFINE next == [b \in 0 .. n |-> IF b >= a THEN upTo[b] + 1 ELSE upTo[b]]
<1>8. /\ upTo \in [0 .. n -> Nat] /\ upTo[0] = 0 /\ upTo[n] = h.totalCount
      /\ \A b \in 1 .. n : upTo[b] = upTo[b - 1] + h.buckets[b].count
  BY <1>6, <1>7 DEF Adds
<1>9. next \in [0 .. n -> Nat] /\ \A b \in 0 .. n : next[b] = IF b >= a THEN upTo[b] + 1 ELSE upTo[b]
  BY <1>8
<1> HIDE DEF next
<1>10. next[0] = 0 /\ next[n] = r.totalCount
  BY <1>5, <1>7, <1>8, <1>9
<1>11. ASSUME NEW b \in 1 .. n PROVE next[b] = next[b - 1] + r.buckets[b].count
  <2>1. b \in 0 .. n /\ b - 1 \in 0 .. n /\ upTo[b] \in Nat /\ upTo[b - 1] \in Nat
        /\ h.buckets[b].count \in Nat
    BY <1>2, <1>7, <1>8 DEF Counter
  <2>2. upTo[b] = upTo[b - 1] + h.buckets[b].count
    BY <1>8
  <2>3. CASE b = a
    <3>1. b >= a /\ ~(b - 1 >= a) /\ r.buckets[b].count = h.buckets[b].count + 1
      BY <1>5, <1>7, <2>3
    <3>2. next[b] = upTo[b] + 1 /\ next[b - 1] = upTo[b - 1]
      BY <1>9, <2>1, <3>1
    <3> QED  BY <2>1, <2>2, <3>1, <3>2
  <2>4. CASE b # a
    <3>1. (b >= a <=> b - 1 >= a) /\ r.buckets[b].count = h.buckets[b].count
      BY <1>5, <1>7, <2>4
    <3>2. CASE b >= a
      <4>1. next[b] = upTo[b] + 1 /\ next[b - 1] = upTo[b - 1] + 1
        BY <1>9, <2>1, <3>1, <3>2
      <4> QED  BY <2>1, <2>2, <3>1, <4>1
    <3>3. CASE ~(b >= a)
      <4>1. next[b] = upTo[b] /\ next[b - 1] = upTo[b - 1]
        BY <1>9, <2>1, <3>1, <3>3
      <4> QED  BY <2>1, <2>2, <3>1, <4>1
    <3> QED  BY <3>2, <3>3
  <2> QED  BY <2>3, <2>4
<1>12. Balanced(r)
  BY <1>5, <1>7, <1>9, <1>10, <1>11 DEF Balanced, Adds
<1>13. \A b \in DOMAIN BucketStarts : h.buckets[b].count <= r.buckets[b].count
  BY <1>2, <1>5 DEF Counter
<1> QED  BY <1>5, <1>12, <1>13

LEMMA BucketTotalIs ==
    ASSUME NEW h, Balanced(h)
    PROVE  BucketTotal(h) = h.totalCount
<1>0. Len(BucketStarts) \in Nat
  BY Buckets
<1>1. PICK n \in Nat : n = Len(BucketStarts)
  BY <1>0
<1>2. PICK s : s \in [0 .. n -> Nat] /\ s[0] = 0 /\ s[n] = h.totalCount
               /\ \A b \in 1 .. n : s[b] = s[b - 1] + h.buckets[b].count
  BY <1>1 DEF Balanced, Adds
<1> DEFINE Solves(f) == f = [b \in 0 .. n |-> IF b = 0 THEN 0 ELSE f[b - 1] + h.buckets[b].count]
           upTo == CHOOSE f : Solves(f)
<1>3. Solves(s)
  <2>1. \A b \in 0 .. n : s[b] = IF b = 0 THEN 0 ELSE s[b - 1] + h.buckets[b].count
    BY <1>2
  <2> QED  BY <1>2, <2>1
<1>4. Solves(upTo)
  BY <1>3, Zenon
<1>5. BucketTotal(h) = upTo[n]
  BY <1>1 DEF BucketTotal
<1> HIDE DEF upTo
<1> DEFINE T == {k \in Nat : k <= n => upTo[k] = s[k]}
<1>6. 0 \in T
  BY <1>2, <1>4
<1>7. ASSUME NEW k \in Nat, k \in T PROVE k + 1 \in T
  <2>1. ASSUME k + 1 <= n PROVE upTo[k + 1] = s[k + 1]
    <3>1. k + 1 \in 0 .. n /\ k + 1 # 0 /\ k + 1 \in 1 .. n /\ (k + 1) - 1 = k /\ k <= n
      BY <2>1
    <3>2. upTo[k + 1] = upTo[k] + h.buckets[k + 1].count
      BY <1>4, <3>1
    <3>3. s[k + 1] = s[k] + h.buckets[k + 1].count
      BY <1>2, <3>1
    <3> QED  BY <1>7, <3>1, <3>2, <3>3
  <2> QED  BY <2>1
<1> HIDE DEF T
<1>8. Nat \subseteq T
  BY <1>6, <1>7, SetInduction
<1>9. upTo[n] = s[n]
  BY <1>8 DEF T
<1> QED  BY <1>2, <1>5, <1>9

-----------------------------------------------------------------------------
(* What the two ends have counted.                                         *)
Tally(c) ==
    /\ c = [frames |-> c.frames, errors |-> c.errors, sizes |-> c.sizes, timeline |-> c.timeline]
    /\ c.frames \in Nat /\ c.errors \in Nat
    /\ Balanced(c.sizes) /\ c.frames = c.sizes.totalCount

LEMMA CountingOps ==
    ASSUME NEW c, Tally(c)
    PROVE  /\ \A u : /\ Tally(observeSaturation(c, u)) /\ observeSaturation(c, u).sizes = c.sizes
                     /\ observeSaturation(c, u).frames = c.frames
                          /\ observeSaturation(c, u).errors = c.errors
           /\ Tally(CountError(c)) /\ CountError(c).sizes = c.sizes
           /\ CountError(c).frames = c.frames /\ CountError(c).errors = c.errors + 1
           /\ \A v \in Nat : /\ Tally(CountFrame(c, v))
                /\ CountFrame(c, v).sizes = recordHistogramValue(c.sizes, v)
                             /\ CountFrame(c, v).frames = c.frames + 1
                                  /\ CountFrame(c, v).errors = c.errors
<1>0. /\ c = [frames |-> c.frames, errors |-> c.errors, sizes |-> c.sizes, timeline |-> c.timeline]
      /\ c.frames \in Nat /\ c.errors \in Nat /\ Balanced(c.sizes) /\ c.frames = c.sizes.totalCount
  BY DEF Tally
<1>p. PICK f \in Nat, e \in Nat : f = c.frames /\ e = c.errors
  BY <1>0
<1>1. PICK s, t : /\ c = [frames |-> f, errors |-> e, sizes |-> s, timeline |-> t]
                  /\ Balanced(s) /\ f = s.totalCount
  BY <1>0, <1>p
<1>2. ASSUME NEW u
      PROVE  /\ Tally(observeSaturation(c, u)) /\ observeSaturation(c, u).sizes = c.sizes
             /\ observeSaturation(c, u).frames = c.frames /\ observeSaturation(c, u).errors = c.errors
  <2>1. observeSaturation(c, u) =
           [frames |-> f, errors |-> e, sizes |-> s,
            timeline |-> observeRingSaturationSample(t, u, Capacity)]
    BY <1>1 DEF observeSaturation
  <2> QED  BY <1>1, <2>1 DEF Tally
<1>3. /\ Tally(CountError(c)) /\ CountError(c).sizes = c.sizes
      /\ CountError(c).frames = c.frames /\ CountError(c).errors = c.errors + 1
  <2>1. CountError(c) = [frames |-> f, errors |-> e + 1, sizes |-> s, timeline |-> t]
    BY <1>1 DEF CountError
  <2> QED  BY <1>1, <2>1 DEF Tally
<1>4. ASSUME NEW v \in Nat
      PROVE  /\ Tally(CountFrame(c, v)) /\ CountFrame(c, v).sizes = recordHistogramValue(c.sizes, v)
             /\ CountFrame(c, v).frames = c.frames + 1 /\ CountFrame(c, v).errors = c.errors
  <2>1. PICK r : r = recordHistogramValue(s, v)
    OBVIOUS
  <2>2. CountFrame(c, v) = [frames |-> f + 1, errors |-> e, sizes |-> r, timeline |-> t]
    <3>1. c.frames = f /\ c.sizes = s
      BY <1>1
    <3>2. CountFrame(c, v) = [[c EXCEPT !.frames = f + 1] EXCEPT !.sizes = r]
      BY <2>1, <3>1 DEF CountFrame
    <3> QED  BY <1>1, <3>2
  <2>3. Balanced(r) /\ r.totalCount = s.totalCount + 1
    BY <1>1, <2>1, Recorded
  <2> QED  BY <1>1, <2>1, <2>2, <2>3 DEF Tally
<1> QED  BY <1>2, <1>3, <1>4

(* h[i] is the histogram of the frames before the i-th.                    *)
Taken == Len(received) + (IF view = Idle THEN 0 ELSE 1)
NoMore(h1, h2) == \A b \in DOMAIN BucketStarts : h1.buckets[b].count <= h2.buckets[b].count
Tallied(h) ==
    /\ \A i \in 1 .. Len(committed) + 1 : Balanced(h[i])
    /\ \A i, j \in 1 .. Len(committed) + 1 : i <= j => NoMore(h[i], h[j])
    /\ \A i \in 1 .. Len(committed) :
          h[i + 1] = recordHistogramValue(h[i], FrameSize(committed[i].length))
    /\ out.sizes = h[Len(committed) + 1] /\ in.sizes = h[Taken + 1]

CountsInv ==
    /\ Tally(out) /\ Tally(in)
    /\ sends = out.frames + out.errors + (IF send = Idle THEN 0 ELSE 1)
    /\ NoMore(in.sizes, out.sizes)
    /\ ~errored => \E h : Tallied(h)

LEMMA CountOrder ==
    /\ \A h : Balanced(h) => NoMore(h, h)
    /\ \A h1, h2, h3 : Balanced(h1) /\ Balanced(h2) /\ Balanced(h3) /\ NoMore(h1, h2)
         /\ NoMore(h2, h3) => NoMore(h1, h3)
<1>1. \A h : Balanced(h) => \A b \in DOMAIN BucketStarts : h.buckets[b].count \in Nat
  BY DEF Balanced, Histogram, Counter
<1> QED  BY <1>1 DEF NoMore

LEMMA CountsBegin == Init => CountsInv
<1> SUFFICES ASSUME Init PROVE CountsInv
  OBVIOUS
<1>1. PICK h0 : h0 = createHistogram /\ Balanced(h0) /\ h0.totalCount = 0
  BY EmptyHistogram DEF createHistogram
<1>2. NoCounts = [frames |-> 0, errors |-> 0, sizes |-> h0, timeline |-> NoTimeline]
  BY <1>1 DEF NoCounts
<1>3. Tally(NoCounts) /\ NoCounts.sizes = h0 /\ NoCounts.frames = 0 /\ NoCounts.errors = 0
  BY <1>1, <1>2 DEF Tally
<1>4. out = NoCounts /\ in = NoCounts /\ send = Idle /\ view = Idle /\ sends = 0 /\ committed = <<>>
      /\ received = <<>>
  BY DEF Init
<1>5. NoMore(h0, h0)
  BY <1>1, CountOrder
<1>6. Tallied([i \in 1 .. 1 |-> h0])
  BY <1>1, <1>3, <1>4, <1>5 DEF Tallied, Taken
<1> QED  BY <1>3, <1>4, <1>5, <1>6 DEF CountsInv

LEMMA TalliesKept ==
    ASSUME committed' = committed, Taken' = Taken, out'.sizes = out.sizes, in'.sizes = in.sizes
    PROVE  \A h : Tallied(h) => Tallied(h)'
BY DEF Tallied

(* Steps of the sender that commit nothing.                                *)
LEMMA CountsOut ==
    ASSUME CountsInv, committed' = committed, received' = received, view' = view,
           in' = in, errored' = errored, Tally(out'), out'.sizes = out.sizes,
           sends' = out'.frames + out'.errors + (IF send' = Idle THEN 0 ELSE 1)
    PROVE  CountsInv'
<1>1. Taken' = Taken
  BY DEF Taken
<1>2. ~errored' => \E h : Tallied(h)'
  BY <1>1, TalliesKept DEF CountsInv
<1> QED  BY <1>2 DEF CountsInv

LEMMA CountMeasure == FramesInv /\ CountsInv /\ Measure => CountsInv'
<1> SUFFICES ASSUME FramesInv, CountsInv, Measure PROVE CountsInv'
  OBVIOUS
<1>1. /\ committed' = committed /\ received' = received /\ view' = view /\ in' = in
           /\ errored' = errored
      /\ send = Idle /\ sends' = sends + 1
  BY DEF Measure
<1>2. \/ send' # Idle /\ out' = observeSaturation(out, Used)
      \/ send' = send /\ out' = CountError(out)
  <2>1. \A i, w, l, n : [id |-> i, writer |-> w, length |-> l, size |-> n] # Idle
    BY DEF Idle
  <2> QED  BY <2>1 DEF Measure
<1>3. Tally(out) /\ out.frames \in Nat /\ out.errors \in Nat /\ sends = out.frames + out.errors
  BY <1>1 DEF CountsInv, Tally
<1>4. Tally(out') /\ out'.sizes = out.sizes
  BY <1>2, <1>3, CountingOps
<1>5. sends' = out'.frames + out'.errors + (IF send' = Idle THEN 0 ELSE 1)
  <2>1. CASE send' # Idle /\ out' = observeSaturation(out, Used)
    <3>1. out'.frames = out.frames /\ out'.errors = out.errors
      BY <1>3, <2>1, CountingOps
    <3> QED  BY <1>1, <1>3, <2>1, <3>1
  <2>2. CASE send' = send /\ out' = CountError(out)
    <3>1. out'.frames = out.frames /\ out'.errors = out.errors + 1
      BY <1>3, <2>2, CountingOps
    <3> QED  BY <1>1, <1>3, <2>2, <3>1
  <2> QED  BY <1>2, <2>1, <2>2
<1> QED  BY <1>1, <1>4, <1>5, CountsOut

LEMMA CountSend ==
    FramesInv /\ CountsInv
    /\ (Resize \/ SendFails \/ UNCHANGED vars \/ (Write /\ MismatchThrows(send))) => CountsInv'
<1> SUFFICES ASSUME FramesInv, CountsInv, Resize \/ SendFails \/ UNCHANGED vars \/ (Write
                    /\ MismatchThrows(send))
             PROVE  CountsInv'
  OBVIOUS
<1>1. /\ committed' = committed /\ received' = received /\ view' = view /\ in' = in
           /\ errored' = errored
      /\ sends' = sends
  BY DEF Resize, SendFails, Write, vars
<1>2. \/ send' = send /\ out' = out
      \/ send # Idle /\ send' # Idle /\ out' = out
      \/ send # Idle /\ send' = Idle /\ out' = CountError(out)
  <2>1. CASE Resize
    <3>1. send # Idle /\ out' = out /\ \E n : send' = [send EXCEPT !.size = n]
      BY <2>1 DEF Resize
    <3>2. Sound(send)
      BY <3>1 DEF FramesInv, AllSound
    <3>3. send' # Idle
      BY <3>1, <3>2 DEF Sound, Idle
    <3> QED  BY <3>1, <3>3
  <2>2. CASE ~Resize
    BY <2>2 DEF SendFails, Write, vars
  <2> QED  BY <2>1, <2>2
<1>3. /\ Tally(out) /\ out.frames \in Nat /\ out.errors \in Nat
      /\ sends = out.frames + out.errors + (IF send = Idle THEN 0 ELSE 1)
  BY DEF CountsInv, Tally
<1>4. Tally(out') /\ out'.sizes = out.sizes
  BY <1>2, <1>3, CountingOps
<1>5. sends' = out'.frames + out'.errors + (IF send' = Idle THEN 0 ELSE 1)
  <2>1. CASE out' = out /\ (send' = Idle <=> send = Idle)
    BY <1>1, <1>3, <2>1
  <2>2. CASE send # Idle /\ send' = Idle /\ out' = CountError(out)
    <3>1. out'.frames = out.frames /\ out'.errors = out.errors + 1
      BY <1>3, <2>2, CountingOps
    <3> QED  BY <1>1, <1>3, <2>2, <3>1
  <2> QED  BY <1>2, <2>1, <2>2
<1> QED  BY <1>1, <1>4, <1>5, CountsOut

LEMMA CountWrite == FramesInv /\ CountsInv /\ Write /\ ~MismatchThrows(send) => CountsInv'
<1> SUFFICES ASSUME FramesInv, CountsInv, Write, ~MismatchThrows(send) PROVE CountsInv'
  OBVIOUS
<1>1. /\ received' = received /\ view' = view /\ in' = in /\ errored' = errored /\ sends' = sends
      /\ send' = Idle /\ send # Idle /\ ~errored /\ committed' = Append(committed, send)
      /\ out' = observeSaturation(CountSent(out, send), Used + FrameSize(send.length))
  BY DEF Write
<1>2. Sound(send) /\ send \in Frame /\ committed \in Seq(Frame)
  BY <1>1 DEF FramesInv, AllSound, Sound, Frame
<1>3. PICK p \in Nat, v \in Nat : p = Len(committed) /\ v = FrameSize(send.length)
  BY <1>2, WrittenWithin
<1>4. /\ Len(committed') = p + 1 /\ committed'[p + 1] = send
      /\ \A i \in 1 .. p : committed'[i] = committed[i]
  BY <1>1, <1>2, <1>3, AppendProperties
<1>5. /\ Tally(out) /\ Tally(in) /\ out.frames \in Nat /\ out.errors \in Nat /\ Balanced(out.sizes)
           /\ Balanced(in.sizes)
      /\ sends = out.frames + out.errors + 1 /\ NoMore(in.sizes, out.sizes)
  BY <1>1 DEF CountsInv, Tally
<1>6. PICK new : new = recordHistogramValue(out.sizes, v)
  OBVIOUS
<1>7. Balanced(new) /\ NoMore(out.sizes, new)
  BY <1>5, <1>6, Recorded DEF NoMore
<1>8. Tally(out') /\ out'.sizes = new /\ out'.frames = out.frames + 1 /\ out'.errors = out.errors
  <2>1. PICK c : c = CountFrame(out, v) /\ Tally(c) /\ c.sizes = new /\ c.frames = out.frames + 1
        /\ c.errors = out.errors
    BY <1>3, <1>5, <1>6, CountingOps
  <2>2. out' = observeSaturation(c, Used + FrameSize(send.length))
    BY <1>1, <1>3, <2>1 DEF CountSent
  <2> QED  BY <2>1, <2>2, CountingOps
<1>9. NoMore(in.sizes, new)
  BY <1>5, <1>7, CountOrder
<1>10. PICK h : Tallied(h)
  BY <1>1 DEF CountsInv
<1> DEFINE g == [i \in 1 .. p + 2 |-> IF i <= p + 1 THEN h[i] ELSE new]
<1>11. /\ \A i \in 1 .. p + 2 : i \in 1 .. p + 1 \/ i = p + 2
       /\ \A i \in 1 .. p + 1 : g[i] = h[i] /\ i <= p + 1
       /\ g[p + 2] = new
  OBVIOUS
<1> HIDE DEF g
<1>12. /\ \A i \in 1 .. p + 1 : Balanced(h[i])
       /\ \A i, j \in 1 .. p + 1 : i <= j => NoMore(h[i], h[j])
       /\ \A i \in 1 .. p : h[i + 1] = recordHistogramValue(h[i], FrameSize(committed[i].length))
       /\ out.sizes = h[p + 1] /\ in.sizes = h[Taken + 1]
  BY <1>3, <1>10 DEF Tallied
<1>13. \A i \in 1 .. p + 2 : Balanced(g[i])
  BY <1>7, <1>11, <1>12
<1>14. \A i, j \in 1 .. p + 2 : i <= j => NoMore(g[i], g[j])
  <2>1. TAKE i, j \in 1 .. p + 2
  <2>2. HAVE i <= j
  <2>3. CASE j \in 1 .. p + 1
    <3>1. i \in 1 .. p + 1
      BY <1>3, <2>2, <2>3
    <3> QED  BY <1>11, <1>12, <2>2, <2>3, <3>1
  <2>4. CASE j = p + 2 /\ i \in 1 .. p + 1
    <3>1. p + 1 \in 1 .. p + 1
      BY <1>3
    <3>2. NoMore(h[i], out.sizes)
      BY <1>11, <1>12, <2>4, <3>1
    <3>3. NoMore(h[i], new)
      BY <1>5, <1>7, <1>12, <2>4, <3>2, CountOrder
    <3> QED  BY <1>11, <2>4, <3>3
  <2>5. CASE j = p + 2 /\ i = p + 2
    BY <1>7, <1>11, <2>5, CountOrder
  <2> QED  BY <1>11, <2>3, <2>4, <2>5
<1>15. \A i \in 1 .. p + 1 : g[i + 1] = recordHistogramValue(g[i], FrameSize(committed'[i].length))
  <2>1. TAKE i \in 1 .. p + 1
  <2>2. CASE i \in 1 .. p
    <3>1. i + 1 \in 1 .. p + 1
      BY <1>3, <2>2
    <3> QED  BY <1>4, <1>11, <1>12, <2>2, <3>1
  <2>3. CASE i = p + 1
    <3>1. i + 1 = p + 2
      BY <1>3, <2>3
    <3> QED  BY <1>3, <1>4, <1>6, <1>11, <1>12, <2>3, <3>1
  <2> QED  BY <1>3, <2>2, <2>3
<1>16. Taken' = Taken /\ Taken + 1 \in 1 .. p + 1
  <2>1. Len(received) \in 0 .. p /\ (view # Idle => Len(received) < p)
    BY <1>3 DEF FramesInv, Delivered, Viewed
  <2> QED  BY <1>1, <1>3, <2>1 DEF Taken
<1>17. Tallied(g)'
  <2>1. p + 1 + 1 = p + 2 /\ in' = in
    BY <1>1, <1>3
  <2> QED  BY <1>4, <1>8, <1>11, <1>12, <1>13, <1>14, <1>15, <1>16, <2>1 DEF Tallied
<1>18. sends' = out'.frames + out'.errors + (IF send' = Idle THEN 0 ELSE 1)
  BY <1>1, <1>5, <1>8
<1> QED  BY <1>1, <1>5, <1>8, <1>9, <1>17, <1>18 DEF CountsInv

LEMMA CountReceive == FramesInv /\ CountsInv /\ Receive => CountsInv'
<1> SUFFICES ASSUME FramesInv, CountsInv, Receive PROVE CountsInv'
  OBVIOUS
<1>1. /\ committed' = committed /\ received' = received /\ send' = send /\ sends' = sends /\ out' = out
      /\ view = Idle /\ ~errored /\ Used >= HeaderSize
  BY DEF Receive
<1>2. Tally(out) /\ Tally(in) /\ Balanced(in.sizes) /\ NoMore(in.sizes, out.sizes)
      /\ sends = out.frames + out.errors + (IF send = Idle THEN 0 ELSE 1)
  BY DEF CountsInv, Tally
<1>a. CASE errored' = TRUE /\ in' = CountError(in)
  <2>1. Tally(in') /\ in'.sizes = in.sizes
    BY <1>2, <1>a, CountingOps
  <2> QED  BY <1>1, <1>2, <1>a, <2>1 DEF CountsInv
<1>b. CASE errored' = errored /\ ~(errored' = TRUE /\ in' = CountError(in))
  <2>0. PICK at : Laid(at)
    BY <1>1 DEF FramesInv
  <2>1. PICK r \in Nat, p \in Nat : r = Len(received) /\ p = Len(committed) /\ r < p
    <3>1. PICK r \in Nat, p \in Nat : r = Len(received) /\ p = Len(committed) /\ r <= p
          /\ Used = at[p + 1] - at[r + 1]
      BY <2>0, Places
    <3>2. at[p + 1] \in Nat
      BY <2>0, <3>1, Places
    <3>3. r # p
      BY <1>1, <3>1, <3>2, Constants
    <3>4. r < p
      BY ONLY <3>1, <3>3, r \in Nat, p \in Nat
    <3> QED  BY <3>1, <3>4
  <2>2. PICK f : f = committed[r + 1]
    OBVIOUS
  <2>3. ReadHeader[1][3] = HeaderOf(f) /\ Sound(f) /\ FrameSize(f.length) \in Nat
    BY <2>0, <2>1, <2>2, FirstIsValid, FirstFrame
  <2>4. HeaderOf(f).length = f.length /\ HeaderOf(f) # Idle
    BY DEF HeaderOf, Idle
  <2>5. view' = HeaderOf(f) /\ in' = observeSaturation(CountFrame(in, FrameSize(f.length)), Used)
    BY <1>1, <1>b, <2>3, <2>4, Zenon DEF Receive
  <2>v. PICK v \in Nat : v = FrameSize(f.length)
    BY <2>3
  <2>6. PICK new : v = FrameSize(f.length) /\ new = recordHistogramValue(in.sizes, v)
    BY <2>v
  <2>7. Tally(in') /\ in'.sizes = new
    <3>1. PICK c : c = CountFrame(in, v) /\ Tally(c) /\ c.sizes = new
      BY <1>2, <2>6, CountingOps
    <3> QED  BY <2>5, <2>6, <3>1, CountingOps
  <2>8. PICK h : Tallied(h)
    BY <1>1 DEF CountsInv
  <2>9. Taken = r /\ Taken' = r + 1
    BY <1>1, <2>1, <2>4, <2>5 DEF Taken
  <2>10. new = h[r + 2] /\ r + 2 \in 1 .. p + 1 /\ r + 2 <= p + 1 /\ p + 1 \in 1 .. p + 1
    <3>1. r + 1 \in 1 .. p /\ (r + 1) + 1 = r + 2 /\ r + 2 \in 1 .. p + 1 /\ r + 2 <= p + 1
          /\ p + 1 \in 1 .. p + 1
      BY <2>1
    <3>2. h[(r + 1) + 1] = recordHistogramValue(h[r + 1], v) /\ in.sizes = h[r + 1]
      BY <2>1, <2>2, <2>6, <2>8, <2>9, <3>1 DEF Tallied
    <3> QED  BY <2>6, <3>1, <3>2
  <2>11. NoMore(new, out.sizes)
    BY <2>1, <2>8, <2>10 DEF Tallied
  <2>12. Tallied(h)'
    <3>1. (r + 1) + 1 = r + 2
      BY <2>1
    <3> QED  BY <1>1, <2>7, <2>8, <2>9, <2>10, <3>1 DEF Tallied
  <2> QED  BY <1>1, <1>2, <2>7, <2>11, <2>12 DEF CountsInv
<1> QED  BY <1>a, <1>b, Zenon DEF Receive

LEMMA CountRead == FramesInv /\ CountsInv /\ Read => CountsInv'
<1> SUFFICES ASSUME FramesInv, CountsInv, Read PROVE CountsInv'
  OBVIOUS
<1>1. /\ committed' = committed /\ send' = send /\ sends' = sends /\ out' = out
      /\ view # Idle /\ view' = Idle /\ ~errored
      /\ in' = observeSaturation(in, Used - FrameSize(view.length))
  BY DEF Read
<1>2. Tally(in') /\ in'.sizes = in.sizes
  BY <1>1, CountingOps DEF CountsInv
<1>3. ~errored' => Taken' = Taken
  <2> SUFFICES ASSUME ~errored' PROVE Taken' = Taken
    OBVIOUS
  <2>1. \E e : received' = Append(received, e)
    BY <1>1 DEF Read
  <2>2. PICK r \in Nat : r = Len(received)
    <3>1. Len(committed) \in Nat /\ Len(received) \in 0 .. Len(committed)
      BY DEF FramesInv, Delivered, AllSound
    <3>2. Len(received) \in Nat
      BY <3>1
    <3> QED  BY <3>2
  <2>3. received = [i \in 1 .. r |-> received[i]]
    BY <2>2 DEF FramesInv, Delivered
  <2>4. Len(received') = r + 1
    BY <2>1, <2>3, Appended
  <2> QED  BY <1>1, <2>2, <2>4 DEF Taken
<1>4. ~errored' => \E h : Tallied(h)'
  BY <1>1, <1>2, <1>3, TalliesKept DEF CountsInv
<1> QED  BY <1>1, <1>2, <1>4 DEF CountsInv

(* When nothing is under way, everything that was committed was taken.     *)
LEMMA NothingUnderWay ==
    ASSUME FramesInv, ~errored, UnderWay = 0
    PROVE  Taken = Len(committed)
<1>1. PICK at : Laid(at)
  BY DEF FramesInv
<1>2. PICK r \in Nat, p \in Nat : r = Len(received) /\ p = Len(committed) /\ r <= p
  BY <1>1, Places
<1>3. at \in [1 .. p + 1 -> Nat] /\ (\A i, j \in 1 .. p + 1 : i <= j => at[i] <= at[j])
      /\ Used = at[p + 1] - at[r + 1]
  BY <1>1, <1>2, Places DEF Laid
<1>4. ASSUME NEW i \in 1 .. p PROVE at[i] < at[p + 1]
             /\ at[i + 1] = at[i] + FrameSize(committed[i].length)
  <2>1. i \in 1 .. p + 1 /\ i + 1 \in 1 .. p + 1 /\ p + 1 \in 1 .. p + 1 /\ i + 1 <= p + 1
    BY <1>2
  <2>2. PICK s \in Nat : s = FrameSize(committed[i].length) /\ s >= HeaderSize
    <3>1. Sound(committed[i]) /\ committed[i].length \in Nat
      BY <1>2 DEF FramesInv, AllSound, Sound
    <3> QED  BY <3>1, FrameSizes, Constants
  <2>3. at[i + 1] = at[i] + s
    BY <1>1, <1>2, <2>2 DEF Laid
  <2>4. s > 0
    BY <2>2, Constants
  <2>5. PICK a \in Nat, b \in Nat, c \in Nat : a = at[i] /\ b = at[i + 1] /\ c = at[p + 1] /\ b <= c
    BY <1>3, <2>1
  <2> QED  BY <2>2, <2>3, <2>4, <2>5
<1>a. CASE view = Idle
  <2>1. at[p + 1] - at[r + 1] = 0
    BY <1>3, <1>a DEF UnderWay
  <2>2. r = p
    <3>1. SUFFICES ASSUME r < p PROVE FALSE
      BY <1>2
    <3>2. r + 1 \in 1 .. p /\ r + 1 \in 1 .. p + 1 /\ p + 1 \in 1 .. p + 1
      BY <1>2, <3>1
    <3>3. at[r + 1] < at[p + 1] /\ at[r + 1] \in Nat /\ at[p + 1] \in Nat
      BY <1>3, <1>4, <3>2
    <3> QED  BY <2>1, <3>3
  <2> QED  BY <1>2, <1>a, <2>2 DEF Taken
<1>b. CASE view # Idle
  <2>1. r < p /\ view.length = committed[r + 1].length
    BY <1>2, <1>b DEF FramesInv, Viewed, HeaderOf
  <2>2. r + 1 \in 1 .. p /\ r + 1 \in 1 .. p + 1 /\ r + 2 \in 1 .. p + 1 /\ p + 1 \in 1 .. p + 1
        /\ (r + 1) + 1 = r + 2
    BY <1>2, <2>1
  <2>3. PICK a \in Nat, b \in Nat, c \in Nat : a = at[r + 1] /\ b = at[r + 2] /\ c = at[p + 1]
    BY <1>3, <2>2
  <2>4. b = a + FrameSize(view.length)
    BY <1>4, <2>1, <2>2, <2>3
  <2>5. FrameSize(view.length) \in Nat
    <3>1. view.length \in Nat
      BY <2>1, <2>2, <1>2 DEF FramesInv, AllSound, Sound
    <3> QED  BY <3>1, FrameSizes
  <2>6. c = b
    <3>1. PICK s \in Nat : s = FrameSize(view.length)
      BY <2>5
    <3>2. (c - a) - s = 0 /\ b = a + s
      BY <1>3, <1>b, <2>3, <2>4, <3>1 DEF UnderWay
    <3> QED  BY ONLY <3>2, a \in Nat, b \in Nat, c \in Nat, s \in Nat
  <2>7. r + 1 = p
    <3>1. SUFFICES ASSUME r + 2 <= p PROVE FALSE
      BY <1>2, <2>1
    <3>2. r + 2 \in 1 .. p
      BY <1>2, <3>1
    <3> QED  BY <1>4, <2>3, <2>6, <3>2
  <2> QED  BY <1>2, <1>b, <2>7 DEF Taken
<1> QED  BY <1>a, <1>b

(* Every send is counted once, the buckets of a histogram add up to the    *)
(* number of frames, the receiver never counts more than the sender, and   *)
(* when nothing is under way both have the same histogram.                 *)
THEOREM EndsAgree == Spec => []EndsCountAlike
<1>1. FramesInv /\ CountsInv /\ [Next]_vars => FramesInv' /\ CountsInv'
  <2> SUFFICES ASSUME FramesInv, CountsInv, [Next]_vars PROVE CountsInv'
    BY Continues
  <2>1. CASE Measure
    BY <2>1, CountMeasure
  <2>2. CASE Resize
    BY <2>2, CountSend
  <2>6. CASE SendFails
    BY <2>6, CountSend
  <2>7. CASE UNCHANGED vars
    BY <2>7, CountSend
  <2>3. CASE Write
    BY <2>3, CountSend, CountWrite
  <2>4. CASE Receive
    BY <2>4, CountReceive
  <2>5. CASE Read
    BY <2>5, CountRead
  <2> QED  BY <2>1, <2>2, <2>3, <2>4, <2>5, <2>6, <2>7 DEF Next
<1>2. FramesInv /\ CountsInv => EndsCountAlike
  <2> SUFFICES ASSUME FramesInv, CountsInv PROVE EndsCountAlike
    OBVIOUS
  <2>1. ASSUME NEW counts \in {out, in}
        PROVE  counts.frames = counts.sizes.totalCount /\ counts.frames = BucketTotal(counts.sizes)
    <3>1. Tally(counts)
      BY DEF CountsInv
    <3>2. Balanced(counts.sizes) /\ counts.frames = counts.sizes.totalCount
      BY <3>1 DEF Tally
    <3> QED  BY <3>2, BucketTotalIs
  <2>2. ASSUME UnderWay = 0, ~errored PROVE in.sizes = out.sizes
    <3>1. Taken = Len(committed)
      BY <2>2, NothingUnderWay
    <3>2. PICK h : Tallied(h)
      BY <2>2 DEF CountsInv
    <3> QED  BY <3>1, <3>2 DEF Tallied
  <2> QED  BY <2>1, <2>2 DEF CountsInv, NoMore, EndsCountAlike
<1> QED  BY <1>1, <1>2, Begins, CountsBegin, PTL DEF Spec

-----------------------------------------------------------------------------
(* Timelines.  A is the set of thresholds with a period under way, e the   *)
(* list of periods.                                                        *)
Limits == {Thresholds[k] : k \in DOMAIN Thresholds}
Event == [threshold : Nat, exited : BOOLEAN, peak : Int]
OpenIn(e) == {i \in 1 .. Len(e) : ~e[i].exited}

Periods(A, e) ==
    /\ A \subseteq Limits /\ e \in Seq(Event)
    /\ \A i \in 1 .. Len(e) : Above(e[i].threshold, e[i].peak, Capacity)
    /\ \A i \in OpenIn(e) : e[i].threshold \in A
    /\ \A threshold \in A : \E i \in OpenIn(e) : e[i].threshold = threshold
    /\ \A i, j \in OpenIn(e) : e[i].threshold = e[j].threshold => i = j
    /\ \A i, j \in OpenIn(e) : e[i].threshold < e[j].threshold => i < j /\ e[i].peak >= e[j].peak

(* Where a pass over the thresholds with a sample u stands after the k-th. *)
Passed(A, e, k, u) ==
    /\ \A a \in 1 .. k : /\ Thresholds[a] \in A <=> Above(Thresholds[a], u, Capacity)
                         /\ \A i \in OpenIn(e) : e[i].threshold = Thresholds[a] => e[i].peak >= u
    /\ \A a, b \in DOMAIN Thresholds :
          a < b /\ Thresholds[b] \in A =>
              Thresholds[a] \in A \/ (a <= k /\ k < b /\ ~Above(Thresholds[a], u, Capacity))
Bounded(e) == Len(e) <= TimelineLimit \/ Len(e) <= Len(Thresholds)

Timeline == [active : SUBSET Limits, events : Seq(Event), dropped : Nat]
Passing(t, k, u) ==
    /\ t \in Timeline /\ Periods(t.active, t.events) /\ Passed(t.active, t.events, k, u)
Faithful(t) ==
    /\ t \in Timeline /\ Periods(t.active, t.events) /\ Bounded(t.events)
    /\ \A a, b \in DOMAIN Thresholds : a < b /\ Thresholds[b] \in t.active => Thresholds[a] \in t.active

LEMMA ThresholdFacts ==
    /\ Len(Thresholds) \in Nat /\ DOMAIN Thresholds = 1 .. Len(Thresholds)
    /\ \A a \in DOMAIN Thresholds : Thresholds[a] \in Nat
    /\ \A a, b \in DOMAIN Thresholds : a < b => Thresholds[a] < Thresholds[b]
    /\ \A a, b \in DOMAIN Thresholds : Thresholds[a] < Thresholds[b] => a < b
    /\ \A a, b \in DOMAIN Thresholds : Thresholds[a] = Thresholds[b] => a = b
    /\ Limits \subseteq Nat /\ TimelineLimit \in Nat /\ TimelineLimit > 0
<1>1. /\ Len(Thresholds) \in Nat /\ DOMAIN Thresholds = 1 .. Len(Thresholds)
      /\ \A a \in DOMAIN Thresholds : Thresholds[a] \in Nat
      /\ \A a, b \in DOMAIN Thresholds : a < b => Thresholds[a] < Thresholds[b]
      /\ TimelineLimit \in Nat /\ TimelineLimit > 0
  BY ObservabilityAssumption
<1>2. ASSUME NEW a \in DOMAIN Thresholds, NEW b \in DOMAIN Thresholds
      PROVE  /\ Thresholds[a] < Thresholds[b] => a < b
             /\ Thresholds[a] = Thresholds[b] => a = b
  <2>1. a \in Nat /\ b \in Nat /\ Thresholds[a] \in Nat /\ Thresholds[b] \in Nat
    BY <1>1
  <2>2. a < b \/ a = b \/ b < a
    BY <2>1
  <2> QED  BY <1>1, <2>1, <2>2
<1> QED  BY <1>1, <1>2 DEF Limits

(* A fuller ring is above every threshold that a less full one is above,   *)
(* and above every lower one.                                              *)
LEMMA AboveOrder ==
    /\ \A threshold \in Nat : \A p, q \in Int :
          Above(threshold, p, Capacity) /\ p <= q => Above(threshold, q, Capacity)
    /\ \A low, high \in Nat : \A p \in Int :
          Above(high, p, Capacity) /\ low <= high => Above(low, p, Capacity)
<1>1. Capacity \in Nat
  BY Constants
<1>2. ASSUME NEW low \in Nat, NEW high \in Nat, low <= high PROVE low * Capacity <= high * Capacity
  BY <1>1, <1>2, Z3
<1>3. ASSUME NEW threshold \in Nat PROVE threshold * Capacity \in Int
  BY <1>1
<1>4. ASSUME NEW threshold \in Nat, NEW p \in Int, NEW q \in Int,
             Above(threshold, p, Capacity), p <= q
      PROVE  Above(threshold, q, Capacity)
  <2>1. PICK m \in Int : m = threshold * Capacity
    BY <1>3
  <2> QED  BY <1>4, <2>1 DEF Above
<1>5. ASSUME NEW low \in Nat, NEW high \in Nat, NEW p \in Int, Above(high, p, Capacity), low <= high
      PROVE  Above(low, p, Capacity)
  <2>1. PICK m \in Int, n \in Int : m = low * Capacity /\ n = high * Capacity /\ m <= n
    BY <1>2, <1>3, <1>5
  <2> QED  BY <1>5, <2>1 DEF Above
<1> QED  BY <1>4, <1>5

(* Dropping a period that is over.                                         *)
LEMMA DropsOne ==
    ASSUME NEW A, NEW e, NEW k \in Nat, NEW u, Periods(A, e), Passed(A, e, k, u),
           NEW r \in 1 .. Len(e), e[r].exited, NEW f \in Seq(Event), Len(f) = Len(e) - 1,
           \A i \in 1 .. Len(f) : f[i] = e[IF i < r THEN i ELSE i + 1]
    PROVE  Periods(A, f) /\ Passed(A, f, k, u)
<1> DEFINE old(i) == IF i < r THEN i ELSE i + 1
<1>0. Len(e) \in Nat /\ Len(f) \in Nat /\ r \in Nat /\ e \in Seq(Event)
  BY DEF Periods
<1>1. \A i \in 1 .. Len(f) : old(i) \in 1 .. Len(e) /\ f[i] = e[old(i)]
  BY <1>0
<1>2. \A i \in OpenIn(f) : old(i) \in OpenIn(e) /\ f[i] = e[old(i)]
  BY <1>1 DEF OpenIn
<1>3. \A i, j \in OpenIn(f) : (old(i) = old(j) => i = j) /\ (old(i) < old(j) => i < j)
  BY <1>0 DEF OpenIn
<1>4. ASSUME NEW j \in OpenIn(e) PROVE \E i \in OpenIn(f) : f[i] = e[j]
  <2>1. j \in 1 .. Len(e) /\ j # r /\ j \in Nat
    BY <1>0 DEF OpenIn
  <2> DEFINE i == IF j < r THEN j ELSE j - 1
  <2>2. i \in 1 .. Len(f) /\ old(i) = j
    BY <1>0, <2>1
  <2> QED  BY <1>1, <2>2 DEF OpenIn
<1> HIDE DEF old
<1>5. Periods(A, f)
  <2>1. \A i \in 1 .. Len(f) : Above(f[i].threshold, f[i].peak, Capacity)
    BY <1>1 DEF Periods
  <2>2. \A i \in OpenIn(f) : f[i].threshold \in A
    BY <1>2 DEF Periods
  <2>3. \A threshold \in A : \E i \in OpenIn(f) : f[i].threshold = threshold
    BY <1>4 DEF Periods
  <2>4. \A i, j \in OpenIn(f) : f[i].threshold = f[j].threshold => i = j
    BY <1>2, <1>3 DEF Periods
  <2>5. \A i, j \in OpenIn(f) : f[i].threshold < f[j].threshold => i < j /\ f[i].peak >= f[j].peak
    BY <1>2, <1>3 DEF Periods
  <2> QED  BY <2>1, <2>2, <2>3, <2>4, <2>5 DEF Periods
<1>6. Passed(A, f, k, u)
  BY <1>2 DEF Passed
<1> QED  BY <1>5, <1>6

LEMMA Removal ==
    ASSUME NEW E, NEW e \in Seq(E), NEW r \in 1 .. Len(e)
    PROVE  /\ Lists!RemoveAt(e, r) \in Seq(E) /\ Len(Lists!RemoveAt(e, r)) = Len(e) - 1
           /\ \A i \in 1 .. Len(e) - 1 : Lists!RemoveAt(e, r)[i] = e[IF i < r THEN i ELSE i + 1]
<1>0. Len(e) \in Nat /\ r \in Nat
  OBVIOUS
<1> DEFINE a == SubSeq(e, 1, r - 1)
           b == SubSeq(e, r + 1, Len(e))
<1>1. a \in Seq(E) /\ Len(a) = r - 1 /\ \A i \in 1 .. r - 1 : a[i] = e[i]
  BY <1>0
<1>2. b \in Seq(E) /\ Len(b) = Len(e) - r /\ \A i \in 1 .. Len(e) - r : b[i] = e[r + i]
  BY <1>0
<1> HIDE DEF a, b
<1>3. a \o b \in Seq(E) /\ Len(a \o b) = Len(e) - 1
  <2>1. a \o b \in Seq(E) /\ Len(a \o b) = Len(a) + Len(b)
    BY <1>1, <1>2, ConcatProperties
  <2>2. (r - 1) + (Len(e) - r) = Len(e) - 1
    BY <1>0
  <2> QED  BY <1>1, <1>2, <2>1, <2>2
<1>4. ASSUME NEW i \in 1 .. Len(e) - 1 PROVE (a \o b)[i] = e[IF i < r THEN i ELSE i + 1]
  <2>1. (a \o b)[i] = IF i <= Len(a) THEN a[i] ELSE b[i - Len(a)]
    BY <1>0, <1>1, <1>2, <1>4
  <2>2. CASE i < r
    BY <1>0, <1>1, <2>1, <2>2
  <2>3. CASE i >= r
    <3>1. i - (r - 1) \in 1 .. Len(e) - r /\ ~(i <= r - 1) /\ r + (i - (r - 1)) = i + 1
      BY <1>0, <2>3
    <3> QED  BY <1>0, <1>1, <1>2, <2>1, <2>3, <3>1
  <2>4. i < r \/ i >= r
    BY <1>0
  <2> QED  BY <2>2, <2>3, <2>4
<1>5. Lists!RemoveAt(e, r) = a \o b
  BY DEF Lists!RemoveAt, a, b
<1> QED  BY <1>3, <1>4, <1>5

LEMMA Least ==
    ASSUME NEW T \in SUBSET Nat, T # {}
    PROVE  \E x \in T : \A y \in T : x <= y
<1>1. IsWellFoundedOn(Below, Nat)
  <2>1. Below = OpToRel(<, Nat)
    BY DEF OpToRel, Below
  <2> QED  BY <2>1, NatLessThanWellFounded, Zenon
<1>2. PICK x \in T : \A y \in T : ~(<<y, x>> \in Below)
  BY <1>1, WFMin
<1>3. ASSUME NEW y \in T PROVE x <= y
  <2>1. x \in Nat /\ y \in Nat /\ ~(<<y, x>> \in Below)
    BY <1>2
  <2>2. ~(y < x)
    BY <2>1 DEF Below
  <2> QED  BY <2>1, <2>2
<1> QED  BY <1>3

LEMMA FirstOver ==
    ASSUME NEW e \in Seq(Event)
    PROVE  LET r == Lists!SelectInSeq(e, LAMBDA event : event.exited)
           IN  \/ r = 0 /\ OpenIn(e) = 1 .. Len(e)
               \/ r \in 1 .. Len(e) /\ e[r].exited
<1> DEFINE over == {i \in 1 .. Len(e) : e[i].exited}
           r == Lists!SelectInSeq(e, LAMBDA event : event.exited)
<1>1. r = IF over # {} THEN Lists!Min(over) ELSE 0
  BY DEF Lists!SelectInSeq
<1>2. CASE over = {}
  BY <1>1, <1>2 DEF OpenIn
<1>3. CASE over # {}
  <2>1. \E x \in over : \A y \in over : x <= y
    <3>1. over \in SUBSET Nat
      OBVIOUS
    <3> HIDE DEF over
    <3> QED  BY <1>3, <3>1, Least
  <2>2. Lists!Min(over) \in over
    BY <2>1 DEF Lists!Min
  <2> QED  BY <1>1, <1>3, <2>2
<1> QED  BY <1>2, <1>3

LEMMA TrimsOne ==
    ASSUME NEW t, NEW k \in Nat, NEW u, Passing(t, k, u)
    PROVE  /\ Passing(TrimOnce(t), k, u)
           /\ Len(TrimOnce(t).events) = IF Len(t.events) <= TimelineLimit \/ OpenIn(t.events) = 1 .. Len(t.events)
                                        THEN Len(t.events) ELSE Len(t.events) - 1
           /\ OpenIn(t.events) = 1 .. Len(t.events) => TrimOnce(t) = t
<1> DEFINE e == t.events
           r == Lists!SelectInSeq(e, LAMBDA event : event.exited)
<1>0. e \in Seq(Event) /\ t \in Timeline /\ Periods(t.active, e) /\ Passed(t.active, e, k, u)
  BY DEF Passing, Periods
<1>1. \/ r = 0 /\ OpenIn(e) = 1 .. Len(e)
      \/ r \in 1 .. Len(e) /\ e[r].exited
  BY <1>0, FirstOver
<1>2. TrimOnce(t) = IF Len(e) <= TimelineLimit \/ r = 0 THEN t
                    ELSE [t EXCEPT !.events = Lists!RemoveAt(e, r), !.dropped = @ + 1]
  BY DEF TrimOnce
<1>3. CASE Len(e) <= TimelineLimit \/ r = 0
  BY <1>1, <1>2, <1>3
<1>4. CASE ~(Len(e) <= TimelineLimit \/ r = 0)
  <2>1. r \in 1 .. Len(e) /\ e[r].exited /\ OpenIn(e) # 1 .. Len(e)
    BY <1>1, <1>4 DEF OpenIn
  <2> DEFINE f == Lists!RemoveAt(e, r)
  <2>2. /\ f \in Seq(Event) /\ Len(f) = Len(e) - 1
        /\ \A i \in 1 .. Len(f) : f[i] = e[IF i < r THEN i ELSE i + 1]
    BY <1>0, <2>1, Removal
  <2> HIDE DEF e, r, f
  <2>3. Periods(t.active, f) /\ Passed(t.active, f, k, u)
    BY <1>0, <2>1, <2>2, DropsOne
  <2>4. TrimOnce(t) = [active |-> t.active, events |-> f, dropped |-> t.dropped + 1]
    BY <1>0, <1>2, <1>4 DEF Timeline, f
  <2>5. TrimOnce(t) \in Timeline
    BY <1>0, <2>2, <2>4 DEF Timeline
  <2> QED  BY <1>4, <2>1, <2>2, <2>3, <2>4, <2>5 DEF Passing, e
<1> QED  BY <1>3, <1>4

(* A loop of n rounds, the b-th of which leads from D[b - 1] to D[b].       *)
Loops(f, n, x, G) == f = [b \in 0 .. n |-> IF b = 0 THEN x ELSE G[b][f[b - 1]]]
Within(f, n, D) == \A b \in 0 .. n : f[b] \in D[b]

LEMMA Iterates ==
    ASSUME NEW n \in Nat, NEW D, NEW G, NEW x \in D[0],
           \A b \in 1 .. n : \A y \in D[b - 1] : G[b][y] \in D[b]
    PROVE  \E f : Loops(f, n, x, G) /\ Within(f, n, D)
<1> DEFINE Solves(f, m) == /\ f = [b \in 0 .. m |-> IF b = 0 THEN x ELSE G[b][f[b - 1]]]
                           /\ \A b \in 0 .. m : f[b] \in D[b]
           T == {m \in Nat : m <= n => \E f : Solves(f, m)}
<1>1. 0 \in T
  <2> DEFINE f == [b \in 0 .. 0 |-> x]
  <2>1. f = [b \in 0 .. 0 |-> IF b = 0 THEN x ELSE G[b][f[b - 1]]]
    OBVIOUS
  <2>2. \A b \in 0 .. 0 : f[b] \in D[b]
    OBVIOUS
  <2> QED  BY <2>1, <2>2
<1>2. ASSUME NEW m \in Nat, m \in T PROVE m + 1 \in T
  <2> SUFFICES ASSUME m + 1 <= n PROVE \E f : Solves(f, m + 1)
    OBVIOUS
  <2>1. PICK f : Solves(f, m)
    BY <1>2
  <2> DEFINE g == [b \in 0 .. m + 1 |-> IF b = m + 1 THEN G[m + 1][f[m]] ELSE f[b]]
  <2>2. m + 1 \in 1 .. n /\ (m + 1) - 1 = m /\ m \in 0 .. m /\ m + 1 # 0
    OBVIOUS
  <2>3. G[m + 1][f[m]] \in D[m + 1]
    BY <2>1, <2>2
  <2>4. ASSUME NEW b \in 0 .. m + 1 PROVE g[b] \in D[b]
    BY <2>1, <2>3
  <2>5. ASSUME NEW b \in 0 .. m + 1
        PROVE  g[b] = IF b = 0 THEN x ELSE G[b][g[b - 1]]
    <3>1. CASE b = m + 1
      <4>1. g[b] = G[m + 1][f[m]] /\ g[m] = f[m]
        BY <3>1
      <4> QED  BY <2>2, <3>1, <4>1
    <3>2. CASE b # m + 1
      <4>1. b \in 0 .. m /\ g[b] = f[b] /\ (b # 0 => b - 1 \in 0 .. m + 1 /\ b - 1 # m + 1)
        BY <2>5, <3>2
      <4>2. f[b] = IF b = 0 THEN x ELSE G[b][f[b - 1]]
        BY <2>1, <4>1
      <4> QED  BY <4>1, <4>2
    <3> QED  BY <3>1, <3>2
  <2>6. g = [b \in 0 .. m + 1 |-> IF b = 0 THEN x ELSE G[b][g[b - 1]]]
    BY <2>5
  <2> HIDE DEF g
  <2> QED  BY <2>4, <2>6
<1> HIDE DEF T
<1>3. Nat \subseteq T
  BY <1>1, <1>2, SetInduction
<1> QED  BY <1>3 DEF T, Loops, Within

(* The loop of trimSaturationTimeline.                                     *)
LEMMA Trims ==
    ASSUME NEW t, NEW k \in Nat, NEW u, Passing(t, k, u)
    PROVE  /\ Passing(trimSaturationTimeline(t), k, u)
           /\ LET e == trimSaturationTimeline(t).events
              IN  Len(e) <= TimelineLimit \/ OpenIn(e) = 1 .. Len(e)
<1>0. Len(t.events) \in Nat /\ TimelineLimit \in Nat
  BY ThresholdFacts DEF Passing, Periods
<1>1. PICK n \in Nat : n = Len(t.events)
  BY <1>0
<1> DEFINE Shrunk(e, b) == Len(e) <= TimelineLimit \/ OpenIn(e) = 1 .. Len(e) \/ Len(e) <= n - b
           D == [b \in 0 .. n |-> {y \in Timeline : Passing(y, k, u) /\ Shrunk(y.events, b)}]
           G == [b \in 1 .. n |-> [y \in D[b - 1] |-> TrimOnce(y)]]
           Solves(f) == f = [b \in 0 .. n |-> IF b = 0 THEN t ELSE TrimOnce(f[b - 1])]
           trimmed == CHOOSE f : Solves(f)
<1>2. ASSUME NEW b \in 1 .. n, NEW y \in D[b - 1] PROVE TrimOnce(y) \in D[b]
  <2>1. b - 1 \in 0 .. n /\ b \in 0 .. n
    BY <1>2
  <2>2. y \in Timeline /\ Passing(y, k, u) /\ Shrunk(y.events, b - 1)
    BY <2>1
  <2>3. Len(y.events) \in Nat
    BY <2>2 DEF Timeline
  <2>4. /\ Passing(TrimOnce(y), k, u)
        /\ Len(TrimOnce(y).events) = IF Len(y.events) <= TimelineLimit \/ OpenIn(y.events) = 1 .. Len(y.events)
                                     THEN Len(y.events) ELSE Len(y.events) - 1
        /\ OpenIn(y.events) = 1 .. Len(y.events) => TrimOnce(y) = y
    BY <2>2, TrimsOne
  <2>5. Shrunk(TrimOnce(y).events, b)
    BY <1>0, <2>1, <2>2, <2>3, <2>4
  <2>6. TrimOnce(y) \in Timeline
    BY <2>4 DEF Passing
  <2> QED  BY <2>1, <2>4, <2>5, <2>6
<1>3. t \in D[0]
  <2>1. Shrunk(t.events, 0) /\ t \in Timeline
    BY <1>0, <1>1 DEF Passing
  <2> QED  BY <2>1
<1>4. \E f : Solves(f)
  <2>1. \A b \in 1 .. n : \A y \in D[b - 1] : G[b][y] = TrimOnce(y)
    OBVIOUS
  <2> HIDE DEF D, G
  <2>2. \A b \in 1 .. n : \A y \in D[b - 1] : G[b][y] \in D[b]
    BY <1>2, <2>1
  <2>3. \E f : Loops(f, n, t, G) /\ Within(f, n, D)
    <3> HIDE DEF Solves
    <3> QED  BY <1>3, <2>2, Iterates
  <2>4. PICK f : Loops(f, n, t, G) /\ Within(f, n, D)
    BY <2>3
  <2>5. /\ f = [b \in 0 .. n |-> IF b = 0 THEN t ELSE G[b][f[b - 1]]]
        /\ \A b \in 0 .. n : f[b] \in D[b]
    BY <2>4 DEF Loops, Within
  <2>6. ASSUME NEW b \in 0 .. n PROVE f[b] = IF b = 0 THEN t ELSE TrimOnce(f[b - 1])
    <3>1. f[b] = IF b = 0 THEN t ELSE G[b][f[b - 1]]
      BY <2>5
    <3>2. b # 0 => b \in 1 .. n /\ b - 1 \in 0 .. n
      OBVIOUS
    <3> QED  BY <2>1, <2>5, <3>1, <3>2
  <2>7. f = [b \in 0 .. n |-> IF b = 0 THEN t ELSE TrimOnce(f[b - 1])]
    BY <2>5, <2>6
  <2> QED  BY <2>7
<1>5. Solves(trimmed)
  BY <1>4, Zenon
<1>6. trimSaturationTimeline(t) = trimmed[n]
  BY <1>1 DEF trimSaturationTimeline
<1> HIDE DEF trimmed, D
<1> DEFINE T == {b \in Nat : b <= n => trimmed[b] \in D[b]}
<1>7. 0 \in T
  BY <1>3, <1>5
<1>8. ASSUME NEW b \in Nat, b \in T PROVE b + 1 \in T
  <2>1. ASSUME b + 1 <= n PROVE trimmed[b + 1] \in D[b + 1]
    <3>1. b + 1 \in 1 .. n /\ (b + 1) - 1 = b /\ b <= n /\ b + 1 \in 0 .. n /\ b + 1 # 0
      BY <2>1
    <3>2. trimmed[b + 1] = TrimOnce(trimmed[b])
      BY <1>5, <3>1
    <3> QED  BY <1>2, <1>8, <3>1, <3>2
  <2> QED  BY <2>1
<1> HIDE DEF T
<1>9. Nat \subseteq T
  BY <1>7, <1>8, SetInduction
<1>10. trimmed[n] \in D[n]
  BY <1>9 DEF T
<1>11. Passing(trimmed[n], k, u) /\ Shrunk(trimmed[n].events, n)
  BY <1>10 DEF D
<1>12. Len(trimmed[n].events) \in Nat
  BY <1>11 DEF Passing, Timeline
<1> QED  BY <1>0, <1>6, <1>11, <1>12

(* One threshold: the period under way is raised, begun or ended.          *)
Raised(e, threshold, u) ==
    [i \in 1 .. Len(e) |->
        IF e[i].threshold = threshold /\ ~e[i].exited
        THEN [e[i] EXCEPT !.peak = IF u > @ THEN u ELSE @] ELSE e[i]]
Ended(e, threshold) ==
    [i \in 1 .. Len(e) |->
        IF e[i].threshold = threshold /\ ~e[i].exited THEN [e[i] EXCEPT !.exited = TRUE] ELSE e[i]]

LEMMA OpenOnes ==
    ASSUME NEW A, NEW e, Periods(A, e), NEW i \in OpenIn(e)
    PROVE  /\ i \in 1 .. Len(e) /\ i \in Nat /\ ~e[i].exited /\ e[i] \in Event
           /\ \E a \in DOMAIN Thresholds : e[i].threshold = Thresholds[a] /\ Thresholds[a] \in A
<1>1. i \in 1 .. Len(e) /\ ~e[i].exited /\ Len(e) \in Nat
  BY DEF OpenIn, Periods
<1>2. e[i] \in Event /\ e[i].threshold \in A /\ A \subseteq Limits
  BY <1>1 DEF Periods
<1> QED  BY <1>1, <1>2 DEF Limits

LEMMA PassGoesOn ==
    ASSUME NEW A, NEW e, NEW k \in Nat, NEW u \in Int, k + 1 \in DOMAIN Thresholds,
           Periods(A, e), Passed(A, e, k, u),
           NEW B, B \subseteq Limits, Thresholds[k + 1] \in B <=> Above(Thresholds[k + 1], u, Capacity),
           \A a \in DOMAIN Thresholds : a # k + 1 => (Thresholds[a] \in B <=> Thresholds[a] \in A),
           NEW f, \A a \in 1 .. k + 1 : \A i \in OpenIn(f) :
                     f[i].threshold = Thresholds[a] => f[i].peak >= u
    PROVE  Passed(B, f, k + 1, u)
<1>1. ASSUME NEW a \in 1 .. k + 1 PROVE Thresholds[a] \in B <=> Above(Thresholds[a], u, Capacity)
  <2>1. a \in DOMAIN Thresholds /\ (a = k + 1 \/ a \in 1 .. k)
    BY ThresholdFacts
  <2> QED  BY <2>1 DEF Passed
<1>2. ASSUME NEW a \in DOMAIN Thresholds, NEW b \in DOMAIN Thresholds, a < b, Thresholds[b] \in B
      PROVE  Thresholds[a] \in B \/ (a <= k + 1 /\ k + 1 < b /\ ~Above(Thresholds[a], u, Capacity))
  <2>1. a \in Nat /\ b \in Nat /\ a \in 1 .. Len(Thresholds) /\ Thresholds[a] \in Nat /\ Thresholds[b] \in Nat
        /\ Thresholds[a] < Thresholds[b]
    BY <1>2, ThresholdFacts
  <2>2. CASE a <= k + 1 /\ k + 1 < b
    BY <1>1, <2>1, <2>2
  <2>3. CASE b <= k + 1
    <3>1. Above(Thresholds[b], u, Capacity) /\ a \in 1 .. k + 1
      BY <1>1, <1>2, <2>1, <2>3
    <3>2. Above(Thresholds[a], u, Capacity)
      BY <2>1, <3>1, AboveOrder
    <3> QED  BY <1>1, <3>1, <3>2
  <2>4. CASE a > k + 1
    <3>1. Thresholds[b] \in A /\ b # k + 1 /\ a # k + 1 /\ ~(a <= k)
      BY <1>2, <2>1, <2>4
    <3>2. Thresholds[a] \in A
      BY <1>2, <3>1 DEF Passed
    <3> QED  BY <3>1, <3>2
  <2> QED  BY <2>1, <2>2, <2>3, <2>4
<1> QED  BY <1>1, <1>2 DEF Passed

LEMMA Raises ==
    ASSUME NEW A, NEW e, NEW k \in Nat, NEW u \in Int, k + 1 \in DOMAIN Thresholds,
           Periods(A, e), Passed(A, e, k, u),
           Thresholds[k + 1] \in A, Above(Thresholds[k + 1], u, Capacity)
    PROVE  /\ Periods(A, Raised(e, Thresholds[k + 1], u))
           /\ Passed(A, Raised(e, Thresholds[k + 1], u), k + 1, u)
<1> DEFINE threshold == Thresholds[k + 1]
           f == Raised(e, threshold, u)
<1>0. Len(e) \in Nat /\ e \in Seq(Event) /\ threshold \in Nat
  BY ThresholdFacts DEF Periods
<1>1. f \in Seq(Event) /\ Len(f) = Len(e)
  <2>1. ASSUME NEW i \in 1 .. Len(e) PROVE f[i] \in Event
    <3>1. e[i] \in Event
      BY <1>0
    <3> QED  BY <3>1 DEF Raised, Event
  <2> QED  BY <1>0, <2>1 DEF Raised
<1>2. \A i \in 1 .. Len(e) :
         /\ f[i].threshold = e[i].threshold /\ f[i].exited = e[i].exited
         /\ f[i].peak \in Int /\ e[i].peak \in Int /\ e[i].threshold \in Nat
         /\ IF e[i].threshold = threshold /\ ~e[i].exited
            THEN f[i].peak = IF u > e[i].peak THEN u ELSE e[i].peak
            ELSE f[i].peak = e[i].peak
  <2>1. \A i \in 1 .. Len(e) : e[i] \in Event
    BY <1>0
  <2> QED  BY <2>1 DEF Raised, Event
<1> HIDE DEF f, threshold
<1>3. OpenIn(f) = OpenIn(e)
  BY <1>1, <1>2 DEF OpenIn
<1>4. \A i \in OpenIn(e) : i \in 1 .. Len(e) /\ i \in Nat /\ ~e[i].exited
  BY <1>0 DEF OpenIn
<1>5. ASSUME NEW i \in OpenIn(e), NEW a \in 1 .. k + 1, e[i].threshold = Thresholds[a]
      PROVE  f[i].peak >= u
  <2>1. CASE a = k + 1
    BY <1>2, <1>4, <1>5, <2>1 DEF threshold
  <2>2. CASE a # k + 1
    <3>1. a \in 1 .. k /\ a \in DOMAIN Thresholds /\ Thresholds[a] # threshold
      BY <2>2, ThresholdFacts DEF threshold
    <3>2. e[i].peak >= u
      BY <1>5, <3>1 DEF Passed
    <3> QED  BY <1>2, <1>4, <1>5, <3>1, <3>2
  <2> QED  BY <2>1, <2>2
<1>6. Passed(A, f, k + 1, u)
  <2>1. A \subseteq Limits
    BY DEF Periods
  <2>2. \A a \in 1 .. k + 1 : \A i \in OpenIn(f) : f[i].threshold = Thresholds[a] => f[i].peak >= u
    BY <1>2, <1>3, <1>4, <1>5
  <2> QED  BY <2>1, <2>2, PassGoesOn
<1>7. ASSUME NEW i \in 1 .. Len(f) PROVE Above(f[i].threshold, f[i].peak, Capacity)
  <2>1. Above(e[i].threshold, e[i].peak, Capacity)
    BY <1>1 DEF Periods
  <2> QED  BY <1>1, <1>2, <2>1 DEF threshold
<1>8. ASSUME NEW i \in OpenIn(f), NEW j \in OpenIn(f), f[i].threshold < f[j].threshold
      PROVE  i < j /\ f[i].peak >= f[j].peak
  <2>1. i < j /\ e[i].peak >= e[j].peak /\ e[i].threshold < e[j].threshold
    BY <1>2, <1>3, <1>4, <1>8 DEF Periods
  <2>2. CASE e[j].threshold # threshold
    <3>1. f[j].peak = e[j].peak /\ f[i].peak >= e[i].peak
      BY <1>2, <1>3, <1>4, <2>2
    <3> QED  BY <1>2, <1>3, <1>4, <2>1, <3>1
  <2>3. CASE e[j].threshold = threshold
    <3>1. PICK a \in DOMAIN Thresholds : e[i].threshold = Thresholds[a]
      BY <1>3, OpenOnes
    <3>2. a \in 1 .. k + 1
      BY <2>1, <2>3, <3>1, ThresholdFacts DEF threshold
    <3>3. f[i].peak >= u /\ f[i].peak = e[i].peak
      BY <1>2, <1>3, <1>4, <1>5, <2>1, <2>3, <3>1, <3>2
    <3> QED  BY <1>2, <1>3, <1>4, <2>1, <2>3, <3>3
  <2> QED  BY <2>2, <2>3
<1>9. Periods(A, f)
  <2>1. \A i \in OpenIn(f) : f[i].threshold \in A
    BY <1>2, <1>3, <1>4 DEF Periods
  <2>2. \A p \in A : \E i \in OpenIn(f) : f[i].threshold = p
    BY <1>2, <1>3, <1>4 DEF Periods
  <2>3. \A i, j \in OpenIn(f) : f[i].threshold = f[j].threshold => i = j
    BY <1>2, <1>3, <1>4 DEF Periods
  <2>4. A \subseteq Limits
    BY DEF Periods
  <2> QED  BY <1>1, <1>7, <1>8, <2>1, <2>2, <2>3, <2>4 DEF Periods
<1> QED  BY <1>6, <1>9 DEF f, threshold

LEMMA Enters ==
    ASSUME NEW A, NEW e, NEW k \in Nat, NEW u \in Int, k + 1 \in DOMAIN Thresholds,
           Periods(A, e), Passed(A, e, k, u),
           Thresholds[k + 1] \notin A, Above(Thresholds[k + 1], u, Capacity),
           NEW f, f = Append(e, [threshold |-> Thresholds[k + 1], exited |-> FALSE, peak |-> u])
    PROVE  /\ Periods(A \cup {Thresholds[k + 1]}, f)
           /\ Passed(A \cup {Thresholds[k + 1]}, f, k + 1, u)
<1> DEFINE threshold == Thresholds[k + 1]
           event == [threshold |-> threshold, exited |-> FALSE, peak |-> u]
           n == Len(e) + 1
           B == A \cup {threshold}
<1>0. Len(e) \in Nat /\ e \in Seq(Event) /\ threshold \in Nat /\ event \in Event /\ f = Append(e, event)
  BY ThresholdFacts DEF Periods, Event
<1>1. f \in Seq(Event) /\ Len(f) = n
  BY <1>0
<1>2. f[n] = event /\ \A i \in 1 .. Len(e) : f[i] = e[i]
  BY <1>0
<1>3. event.threshold = threshold /\ ~event.exited /\ event.peak = u
  OBVIOUS
<1> HIDE DEF event, threshold
<1>4. OpenIn(f) = OpenIn(e) \cup {n}
  BY <1>0, <1>1, <1>2, <1>3 DEF OpenIn
<1>5. \A i \in OpenIn(e) : i \in 1 .. Len(e) /\ i \in Nat /\ i < n /\ f[i] = e[i]
  BY <1>0, <1>2 DEF OpenIn
<1>6. ASSUME NEW i \in OpenIn(e), NEW a \in 1 .. k, e[i].threshold = Thresholds[a] PROVE e[i].peak >= u
  BY <1>6 DEF Passed
<1>7. ASSUME NEW i \in OpenIn(e) PROVE e[i].threshold < threshold /\ e[i].peak >= u
  <2>1. PICK a \in DOMAIN Thresholds : e[i].threshold = Thresholds[a] /\ Thresholds[a] \in A
    BY <1>7, OpenOnes
  <2>2. a # k + 1 /\ ~(k + 1 < a)
    BY <2>1 DEF Passed, threshold
  <2>3. a \in 1 .. k
    BY <2>2, ThresholdFacts
  <2>4. Thresholds[a] < threshold
    BY <2>3, ThresholdFacts DEF threshold
  <2> QED  BY <1>6, <1>7, <2>1, <2>3, <2>4
<1>8. Passed(B, f, k + 1, u)
  <2>1. ASSUME NEW a \in 1 .. k + 1, NEW i \in OpenIn(f), f[i].threshold = Thresholds[a] PROVE f[i].peak >= u
    <3>1. CASE i = n
      BY <1>2, <1>3, <3>1
    <3>2. CASE i \in OpenIn(e)
      BY <1>5, <1>7, <3>2
    <3> QED  BY <1>4, <3>1, <3>2
  <2>2. B \subseteq Limits /\ threshold \in B
    BY DEF Periods, Limits, threshold
  <2>3. \A a \in DOMAIN Thresholds : a # k + 1 => (Thresholds[a] \in B <=> Thresholds[a] \in A)
    BY ThresholdFacts DEF threshold
  <2> HIDE DEF B
  <2> QED  BY <2>1, <2>2, <2>3, PassGoesOn DEF threshold
<1>9. Periods(B, f)
  <2>1. \A i \in 1 .. Len(f) : Above(f[i].threshold, f[i].peak, Capacity)
    <3>1. \A i \in 1 .. Len(f) : i = n \/ i \in 1 .. Len(e)
      BY <1>0, <1>1
    <3> QED  BY <1>2, <1>3, <3>1 DEF Periods, threshold
  <2>2. \A i \in OpenIn(f) : f[i].threshold \in B
    BY <1>2, <1>3, <1>4, <1>5 DEF Periods
  <2>3. ASSUME NEW p \in B PROVE \E i \in OpenIn(f) : f[i].threshold = p
    <3>1. CASE p = threshold
      BY <1>2, <1>3, <1>4, <3>1
    <3>2. CASE p \in A
      <4>1. PICK i \in OpenIn(e) : e[i].threshold = p
        BY <3>2 DEF Periods
      <4> QED  BY <1>4, <1>5, <4>1
    <3> QED  BY <2>3, <3>1, <3>2
  <2>4. ASSUME NEW i \in OpenIn(f), NEW j \in OpenIn(f), f[i].threshold = f[j].threshold PROVE i = j
    <3>1. \A m \in OpenIn(e) : f[m].threshold # threshold
      BY <1>5 DEF Periods, threshold
    <3>2. f[n].threshold = threshold
      BY <1>2, <1>3
    <3>3. CASE i \in OpenIn(e) /\ j \in OpenIn(e)
      BY <1>5, <2>4, <3>3 DEF Periods
    <3>4. CASE i = n \/ j = n
      BY <1>4, <2>4, <3>1, <3>2, <3>4
    <3> QED  BY <1>4, <3>3, <3>4
  <2>5. ASSUME NEW i \in OpenIn(f), NEW j \in OpenIn(f), f[i].threshold < f[j].threshold
        PROVE  i < j /\ f[i].peak >= f[j].peak
    <3>1. CASE i \in OpenIn(e) /\ j \in OpenIn(e)
      BY <1>5, <2>5, <3>1 DEF Periods
    <3>2. CASE i \in OpenIn(e) /\ j = n
      BY <1>2, <1>3, <1>5, <1>7, <3>2
    <3>3. CASE i = n /\ j \in OpenIn(e)
      <4>1. f[j].threshold < threshold /\ f[i].threshold = threshold /\ f[j].threshold \in Nat
        <5>1. e[j] \in Event
          BY <1>0, <1>5, <3>3
        <5> QED  BY <1>2, <1>3, <1>5, <1>7, <3>3, <5>1 DEF Event
      <4>2. PICK x \in Nat, y \in Nat : x = threshold /\ y = f[j].threshold
        BY <1>0, <4>1
      <4>3. x < y /\ y < x
        BY <2>5, <4>1, <4>2
      <4> QED  BY <4>3
    <3>4. CASE i = n /\ j = n
      BY <1>0, <1>2, <1>3, <2>5, <3>4
    <3> QED  BY <1>4, <3>1, <3>2, <3>3, <3>4
  <2>6. B \subseteq Limits
    BY DEF Periods, Limits, threshold
  <2> QED  BY <1>1, <2>1, <2>2, <2>3, <2>4, <2>5, <2>6 DEF Periods
<1> QED  BY <1>8, <1>9 DEF threshold

LEMMA Ends ==
    ASSUME NEW A, NEW e, NEW k \in Nat, NEW u \in Int, k + 1 \in DOMAIN Thresholds,
           Periods(A, e), Passed(A, e, k, u),
           Thresholds[k + 1] \in A, ~Above(Thresholds[k + 1], u, Capacity)
    PROVE  /\ Periods(A \ {Thresholds[k + 1]}, Ended(e, Thresholds[k + 1]))
           /\ Passed(A \ {Thresholds[k + 1]}, Ended(e, Thresholds[k + 1]), k + 1, u)
<1> DEFINE threshold == Thresholds[k + 1]
           f == Ended(e, threshold)
           B == A \ {threshold}
<1>0. Len(e) \in Nat /\ e \in Seq(Event) /\ threshold \in Nat
  BY ThresholdFacts DEF Periods
<1>1. f \in Seq(Event) /\ Len(f) = Len(e)
  <2>1. ASSUME NEW i \in 1 .. Len(e) PROVE f[i] \in Event
    <3>1. e[i] \in Event
      BY <1>0
    <3> QED  BY <3>1 DEF Ended, Event
  <2> QED  BY <1>0, <2>1 DEF Ended
<1>2. \A i \in 1 .. Len(e) :
         /\ f[i].threshold = e[i].threshold /\ f[i].peak = e[i].peak
         /\ f[i].exited <=> e[i].exited \/ e[i].threshold = threshold
  <2>1. \A i \in 1 .. Len(e) : e[i] \in Event
    BY <1>0
  <2> QED  BY <2>1 DEF Ended, Event
<1> HIDE DEF f, threshold
<1>3. OpenIn(f) = {i \in OpenIn(e) : e[i].threshold # threshold}
  BY <1>1, <1>2 DEF OpenIn
<1>4. \A i \in OpenIn(f) : i \in OpenIn(e) /\ i \in 1 .. Len(e) /\ e[i].threshold # threshold
  BY <1>3 DEF OpenIn
<1>5. Passed(B, f, k + 1, u)
  <2>1. ASSUME NEW a \in 1 .. k + 1, NEW i \in OpenIn(f), f[i].threshold = Thresholds[a] PROVE f[i].peak >= u
    <3>1. a # k + 1
      BY <1>2, <1>4, <2>1 DEF threshold
    <3>2. a \in 1 .. k
      BY <3>1
    <3> QED  BY <1>2, <1>4, <2>1, <3>2 DEF Passed
  <2>2. B \subseteq Limits /\ threshold \notin B
    BY DEF Periods
  <2>3. \A a \in DOMAIN Thresholds : a # k + 1 => (Thresholds[a] \in B <=> Thresholds[a] \in A)
    BY ThresholdFacts DEF threshold
  <2> HIDE DEF B
  <2> QED  BY <2>1, <2>2, <2>3, PassGoesOn DEF threshold
<1>6. Periods(B, f)
  <2>1. \A i \in 1 .. Len(f) : Above(f[i].threshold, f[i].peak, Capacity)
    BY <1>1, <1>2 DEF Periods
  <2>2. \A i \in OpenIn(f) : f[i].threshold \in B
    BY <1>2, <1>4 DEF Periods
  <2>3. ASSUME NEW p \in B PROVE \E i \in OpenIn(f) : f[i].threshold = p
    <3>1. PICK i \in OpenIn(e) : e[i].threshold = p
      BY <2>3 DEF Periods
    <3>2. i \in OpenIn(f)
      BY <1>3, <2>3, <3>1
    <3> QED  BY <1>2, <1>4, <3>1, <3>2
  <2>4. \A i, j \in OpenIn(f) : f[i].threshold = f[j].threshold => i = j
    BY <1>2, <1>4 DEF Periods
  <2>5. \A i, j \in OpenIn(f) : f[i].threshold < f[j].threshold => i < j /\ f[i].peak >= f[j].peak
    BY <1>2, <1>4 DEF Periods
  <2>6. B \subseteq Limits
    BY DEF Periods
  <2> QED  BY <1>1, <2>1, <2>2, <2>3, <2>4, <2>5, <2>6 DEF Periods
<1> QED  BY <1>5, <1>6 DEF f, threshold

LEMMA StaysOff ==
    ASSUME NEW A, NEW e, NEW k \in Nat, NEW u \in Int, k + 1 \in DOMAIN Thresholds,
           Periods(A, e), Passed(A, e, k, u),
           Thresholds[k + 1] \notin A, ~Above(Thresholds[k + 1], u, Capacity)
    PROVE  Passed(A, e, k + 1, u)
<1>1. ASSUME NEW a \in 1 .. k + 1, NEW i \in OpenIn(e), e[i].threshold = Thresholds[a] PROVE e[i].peak >= u
  <2>1. a # k + 1
    BY <1>1 DEF Periods
  <2>2. a \in 1 .. k
    BY <2>1
  <2> QED  BY <1>1, <2>2 DEF Passed
<1>2. A \subseteq Limits
  BY DEF Periods
<1> QED  BY <1>1, <1>2, PassGoesOn

(* One period under way for each threshold, so there are not many.         *)
LEMMA OneEach ==
    ASSUME NEW A, NEW e, Periods(A, e)
    PROVE  /\ IsFiniteSet(OpenIn(e)) /\ Cardinality(OpenIn(e)) = Cardinality(A)
           /\ Cardinality(OpenIn(e)) <= Len(Thresholds)
<1>0. Len(e) \in Nat /\ e \in Seq(Event) /\ Len(Thresholds) \in Nat
  BY ThresholdFacts DEF Periods
<1>1. IsFiniteSet(OpenIn(e))
  <2>1. IsFiniteSet(1 .. Len(e))
    BY <1>0, FS_Interval
  <2>2. OpenIn(e) \subseteq 1 .. Len(e)
    BY DEF OpenIn
  <2> QED  BY <2>1, <2>2, FS_Subset
<1> DEFINE f == [i \in OpenIn(e) |-> e[i].threshold]
           g == [i \in OpenIn(e) |-> CHOOSE a \in DOMAIN Thresholds : e[i].threshold = Thresholds[a]]
<1>2. Cardinality(OpenIn(e)) = Cardinality(A)
  <2>1. f \in [OpenIn(e) -> A]
    BY DEF Periods
  <2>2. \A i, j \in OpenIn(e) : f[i] = f[j] => i = j
    BY DEF Periods
  <2>3. \A p \in A : \E i \in OpenIn(e) : f[i] = p
    BY DEF Periods
  <2> HIDE DEF f
  <2>4. f \in Bijection(OpenIn(e), A)
    BY <2>1, <2>2, <2>3 DEF Bijection, Injection, Surjection, IsInjective
  <2>5. ExistsBijection(OpenIn(e), A)
    BY <2>4 DEF ExistsBijection
  <2> QED  BY <1>1, <2>5, FS_Bijection
<1>3. Cardinality(OpenIn(e)) <= Len(Thresholds)
  <2>1. \A i \in OpenIn(e) : g[i] \in 1 .. Len(Thresholds) /\ e[i].threshold = Thresholds[g[i]]
    BY OpenOnes, ThresholdFacts
  <2>2. \A i, j \in OpenIn(e) : e[i].threshold = e[j].threshold => i = j
    BY DEF Periods
  <2>3. g = [i \in OpenIn(e) |-> g[i]]
    OBVIOUS
  <2> HIDE DEF g
  <2>4. g \in Injection(OpenIn(e), 1 .. Len(Thresholds))
    BY <2>1, <2>2, <2>3 DEF Injection, IsInjective
  <2>5. IsFiniteSet(1 .. Len(Thresholds)) /\ Cardinality(1 .. Len(Thresholds)) = Len(Thresholds)
    <3>1. /\ IsFiniteSet(1 .. Len(Thresholds))
          /\ Cardinality(1 .. Len(Thresholds)) =
                IF 1 > Len(Thresholds) THEN 0 ELSE Len(Thresholds) - 1 + 1
      <4>1. 1 \in Int /\ Len(Thresholds) \in Int
        BY <1>0
      <4> QED  BY ONLY <4>1, FS_Interval
    <3> QED  BY <1>0, <3>1
  <2> QED  BY <2>4, <2>5, FS_Injection
<1> QED  BY <1>1, <1>2, <1>3

(* One threshold of observeRingSaturationSample.                           *)
LEMMA ObservesOne ==
    ASSUME NEW t, NEW k \in Nat, NEW u \in Int, k + 1 \in DOMAIN Thresholds,
           Passing(t, k, u), Bounded(t.events)
    PROVE  LET after == ObserveThreshold(t, Thresholds[k + 1], u, Capacity)
           IN  Passing(after, k + 1, u) /\ Bounded(after.events)
<1> DEFINE threshold == Thresholds[k + 1]
           after == ObserveThreshold(t, threshold, u, Capacity)
           A == t.active
           e == t.events
           event == [threshold |-> threshold, exited |-> FALSE, peak |-> u]
           begun == [active |-> A \cup {threshold}, events |-> Append(e, event), dropped |-> t.dropped]
<1>0. /\ t = [active |-> A, events |-> e, dropped |-> t.dropped] /\ t.dropped \in Nat
      /\ A \subseteq Limits /\ e \in Seq(Event) /\ Periods(A, e) /\ Passed(A, e, k, u)
      /\ threshold \in Limits /\ k + 1 \in Nat
  BY DEF Passing, Timeline, Limits
<1>1. /\ DOMAIN e = 1 .. Len(e) /\ Len(e) \in Nat
  BY <1>0
<1>2. after = IF Above(threshold, u, Capacity)
              THEN IF threshold \in A THEN [t EXCEPT !.events = Raised(e, threshold, u)]
                   ELSE trimSaturationTimeline([t EXCEPT !.active = A \cup {threshold},
                                                         !.events = Append(e, event)])
              ELSE IF threshold \in A
                   THEN [t EXCEPT !.active = A \ {threshold}, !.events = Ended(e, threshold)] ELSE t
  BY <1>1, Zenon DEF ObserveThreshold, Raised, Ended
<1> HIDE DEF after, event, threshold
<1>3. CASE Above(threshold, u, Capacity) /\ threshold \in A
  <2>1. after = [active |-> A, events |-> Raised(e, threshold, u), dropped |-> t.dropped]
    BY <1>0, <1>2, <1>3
  <2>2. Periods(A, Raised(e, threshold, u)) /\ Passed(A, Raised(e, threshold, u), k + 1, u)
    BY <1>0, <1>3, Raises DEF threshold
  <2>3. Len(Raised(e, threshold, u)) = Len(e)
    BY <1>1 DEF Raised
  <2>4. Raised(e, threshold, u) \in Seq(Event)
    BY <2>2 DEF Periods
  <2>5. after \in Timeline /\ after.active = A /\ after.events = Raised(e, threshold, u)
    BY <1>0, <2>1, <2>4 DEF Timeline
  <2>6. Bounded(after.events)
    BY <2>3, <2>5 DEF Bounded
  <2> QED  BY <2>2, <2>5, <2>6 DEF Passing, after, threshold
<1>4. CASE Above(threshold, u, Capacity) /\ threshold \notin A
  <2>1. [t EXCEPT !.active = A \cup {threshold}, !.events = Append(e, event)] = begun
    <3>1. PICK B, f : B = A \cup {threshold} /\ f = Append(e, event)
      OBVIOUS
    <3>2. [t EXCEPT !.active = B, !.events = f] = [active |-> B, events |-> f, dropped |-> t.dropped]
      <4>1. PICK a, b, d : t = [active |-> a, events |-> b, dropped |-> d]
        BY <1>0
      <4>2. [t EXCEPT !.active = B] = [active |-> B, events |-> b, dropped |-> d]
        BY ONLY <4>1
      <4>3. [[active |-> B, events |-> b, dropped |-> d] EXCEPT !.events = f]
            = [active |-> B, events |-> f, dropped |-> d]
        OBVIOUS
      <4>4. t.dropped = d
        BY ONLY <4>1
      <4> QED  BY ONLY <4>2, <4>3, <4>4
    <3> QED  BY <3>1, <3>2
  <2>2. after = trimSaturationTimeline(begun)
    BY <1>2, <1>4, <2>1
  <2>3. Periods(A \cup {threshold}, Append(e, event)) /\ Passed(A \cup {threshold}, Append(e, event), k + 1, u)
    BY <1>0, <1>4, Enters DEF threshold, event
  <2>4. Passing(begun, k + 1, u)
    <3>1. A \cup {threshold} \subseteq Limits /\ Append(e, event) \in Seq(Event)
      BY <2>3 DEF Periods
    <3>2. begun \in Timeline
      BY <1>0, <3>1 DEF Timeline
    <3> QED  BY <2>3, <3>2 DEF Passing
  <2> HIDE DEF begun
  <2>5. Passing(after, k + 1, u) /\ (Len(after.events) <= TimelineLimit
                                     \/ OpenIn(after.events) = 1 .. Len(after.events))
    BY <1>0, <2>2, <2>4, Trims
  <2>6. ASSUME OpenIn(after.events) = 1 .. Len(after.events) PROVE Len(after.events) <= Len(Thresholds)
    <3>1. Periods(after.active, after.events) /\ Len(after.events) \in Nat
      BY <2>5 DEF Passing, Periods
    <3>2. Cardinality(1 .. Len(after.events)) <= Len(Thresholds)
      BY <2>6, <3>1, OneEach
    <3>3. Cardinality(1 .. Len(after.events)) =
             IF 1 > Len(after.events) THEN 0 ELSE Len(after.events) - 1 + 1
      <4>1. 1 \in Int /\ Len(after.events) \in Int
        BY <3>1
      <4> QED  BY ONLY <4>1, FS_Interval
    <3> QED  BY <3>1, <3>2, <3>3, ThresholdFacts
  <2> QED  BY <2>5, <2>6 DEF Bounded, after, threshold
<1>5. CASE ~Above(threshold, u, Capacity) /\ threshold \in A
  <2>1. after = [active |-> A \ {threshold}, events |-> Ended(e, threshold), dropped |-> t.dropped]
    BY <1>0, <1>2, <1>5
  <2>2. Periods(A \ {threshold}, Ended(e, threshold)) /\ Passed(A \ {threshold}, Ended(e, threshold), k + 1, u)
    BY <1>0, <1>5, Ends DEF threshold
  <2>3. Len(Ended(e, threshold)) = Len(e)
    BY <1>1 DEF Ended
  <2>4. Ended(e, threshold) \in Seq(Event) /\ A \ {threshold} \subseteq Limits
    BY <2>2 DEF Periods
  <2>5. after \in Timeline /\ after.active = A \ {threshold} /\ after.events = Ended(e, threshold)
    BY <1>0, <2>1, <2>4 DEF Timeline
  <2>6. Bounded(after.events)
    BY <2>3, <2>5 DEF Bounded
  <2> QED  BY <2>2, <2>5, <2>6 DEF Passing, after, threshold
<1>6. CASE ~Above(threshold, u, Capacity) /\ threshold \notin A
  <2>1. after = t
    BY <1>2, <1>6
  <2>2. Passed(A, e, k + 1, u)
    BY <1>0, <1>6, StaysOff DEF threshold
  <2>3. Passing(t, k + 1, u)
    BY <1>0, <2>2 DEF Passing
  <2> QED  BY <2>1, <2>3 DEF after, threshold
<1> QED  BY <1>3, <1>4, <1>5, <1>6

(* observeRingSaturationSample.                                            *)
LEMMA Observes ==
    ASSUME NEW t, NEW u \in Int, Faithful(t)
    PROVE  Faithful(observeRingSaturationSample(t, u, Capacity))
<1>0. Len(Thresholds) \in Nat
  BY ThresholdFacts
<1>1. PICK n \in Nat : n = Len(Thresholds)
  BY <1>0
<1> DEFINE D == [b \in 0 .. n |-> {y \in Timeline : Passing(y, b, u) /\ Bounded(y.events)}]
           Turn(b, y) == ObserveThreshold(y, Thresholds[b], u, Capacity)
           G == [b \in 1 .. n |-> [y \in D[b - 1] |-> Turn(b, y)]]
           Solves(f) == f = [b \in 0 .. n |-> IF b = 0 THEN t ELSE Turn(b, f[b - 1])]
           after == CHOOSE f : Solves(f)
<1>2. ASSUME NEW b \in 1 .. n, NEW y \in D[b - 1] PROVE Turn(b, y) \in D[b]
  <2>1. b - 1 \in 0 .. n /\ b \in 0 .. n /\ b - 1 \in Nat /\ (b - 1) + 1 = b /\ b \in DOMAIN Thresholds
    BY <1>1, <1>2, ThresholdFacts
  <2>2. y \in Timeline /\ Passing(y, b - 1, u) /\ Bounded(y.events)
    BY <2>1
  <2>3. Passing(Turn(b, y), b, u) /\ Bounded(Turn(b, y).events)
    BY <2>1, <2>2, ObservesOne
  <2>4. Turn(b, y) \in Timeline
    BY <2>3 DEF Passing
  <2> QED  BY <2>1, <2>3, <2>4
<1>3. t \in D[0]
  <2>1. Passing(t, 0, u) /\ Bounded(t.events) /\ t \in Timeline
    BY DEF Faithful, Passing, Passed
  <2> QED  BY <2>1
<1> HIDE DEF Turn
<1>4. \E f : Solves(f)
  <2>1. \A b \in 1 .. n : \A y \in D[b - 1] : G[b][y] = Turn(b, y)
    OBVIOUS
  <2> HIDE DEF D, G
  <2>2. \A b \in 1 .. n : \A y \in D[b - 1] : G[b][y] \in D[b]
    BY <1>2, <2>1
  <2>3. \E f : Loops(f, n, t, G) /\ Within(f, n, D)
    <3> HIDE DEF Solves
    <3> QED  BY <1>3, <2>2, Iterates
  <2>4. PICK f : Loops(f, n, t, G) /\ Within(f, n, D)
    BY <2>3
  <2>5. /\ f = [b \in 0 .. n |-> IF b = 0 THEN t ELSE G[b][f[b - 1]]]
        /\ \A b \in 0 .. n : f[b] \in D[b]
    BY <2>4 DEF Loops, Within
  <2>6. ASSUME NEW b \in 0 .. n PROVE f[b] = IF b = 0 THEN t ELSE Turn(b, f[b - 1])
    <3>1. f[b] = IF b = 0 THEN t ELSE G[b][f[b - 1]]
      BY <2>5
    <3>2. b # 0 => b \in 1 .. n /\ b - 1 \in 0 .. n
      OBVIOUS
    <3> QED  BY <2>1, <2>5, <3>1, <3>2
  <2>7. f = [b \in 0 .. n |-> IF b = 0 THEN t ELSE Turn(b, f[b - 1])]
    BY <2>5, <2>6
  <2> QED  BY <2>7
<1>5. Solves(after)
  BY <1>4, Zenon
<1>6. observeRingSaturationSample(t, u, Capacity) = after[n]
  BY <1>1 DEF observeRingSaturationSample, Turn
<1> HIDE DEF after, D
<1> DEFINE T == {b \in Nat : b <= n => after[b] \in D[b]}
<1>7. 0 \in T
  BY <1>3, <1>5
<1>8. ASSUME NEW b \in Nat, b \in T PROVE b + 1 \in T
  <2>1. ASSUME b + 1 <= n PROVE after[b + 1] \in D[b + 1]
    <3>1. b + 1 \in 1 .. n /\ (b + 1) - 1 = b /\ b <= n /\ b + 1 \in 0 .. n /\ b + 1 # 0
      BY <2>1
    <3>2. after[b + 1] = Turn(b + 1, after[b])
      BY <1>5, <3>1
    <3> QED  BY <1>2, <1>8, <3>1, <3>2
  <2> QED  BY <2>1
<1> HIDE DEF T
<1>9. Nat \subseteq T
  BY <1>7, <1>8, SetInduction
<1>10. after[n] \in D[n]
  BY <1>9 DEF T
<1>11. Passing(after[n], n, u) /\ Bounded(after[n].events)
  BY <1>10 DEF D
<1>12. ASSUME NEW a \in DOMAIN Thresholds, NEW b \in DOMAIN Thresholds, a < b,
              Thresholds[b] \in after[n].active
       PROVE  Thresholds[a] \in after[n].active
  <2>1. ~(n < b)
    BY <1>1, ThresholdFacts
  <2> QED  BY <1>11, <1>12, <2>1 DEF Passing, Passed
<1> QED  BY <1>6, <1>11, <1>12 DEF Faithful, Passing

(* The records of counts: what keeps their timeline, and what samples it.  *)
Sampled(c) ==
    /\ c = [frames |-> c.frames, errors |-> c.errors, sizes |-> c.sizes, timeline |-> c.timeline]
    /\ Faithful(c.timeline)

LEMMA SamplingOps ==
    ASSUME NEW c, Sampled(c)
    PROVE  /\ \A u \in Int : Sampled(observeSaturation(c, u))
           /\ Sampled(CountError(c)) /\ \A v : Sampled(CountFrame(c, v))
<1>1. PICK f, e, s, t : c = [frames |-> f, errors |-> e, sizes |-> s, timeline |-> t] /\ Faithful(t)
  BY DEF Sampled
<1>2. ASSUME NEW a, NEW b, NEW x, NEW y, Faithful(y)
      PROVE  Sampled([frames |-> a, errors |-> b, sizes |-> x, timeline |-> y])
  BY <1>2 DEF Sampled
<1>3. ASSUME NEW u \in Int PROVE Sampled(observeSaturation(c, u))
  <2>1. PICK y : y = observeRingSaturationSample(t, u, Capacity) /\ Faithful(y)
    BY <1>1, Observes
  <2>2. observeSaturation(c, u) = [frames |-> f, errors |-> e, sizes |-> s, timeline |-> y]
    BY <1>1, <2>1 DEF observeSaturation
  <2> QED  BY <1>2, <2>1, <2>2
<1>4. Sampled(CountError(c))
  <2>1. CountError(c) = [frames |-> f, errors |-> e + 1, sizes |-> s, timeline |-> t]
    BY <1>1 DEF CountError
  <2> QED  BY <1>1, <1>2, <2>1
<1>5. ASSUME NEW v PROVE Sampled(CountFrame(c, v))
  <2>1. PICK r : r = recordHistogramValue(s, v)
    OBVIOUS
  <2>2. CountFrame(c, v) = [frames |-> f + 1, errors |-> e, sizes |-> r, timeline |-> t]
    <3>1. c.frames = f /\ c.sizes = s
      BY <1>1
    <3>2. CountFrame(c, v) = [[c EXCEPT !.frames = f + 1] EXCEPT !.sizes = r]
      BY <2>1, <3>1 DEF CountFrame
    <3> QED  BY <1>1, <3>2
  <2> QED  BY <1>1, <1>2, <2>2
<1> QED  BY <1>3, <1>4, <1>5

SamplesInv == Sampled(out) /\ Sampled(in)

LEMMA NothingSampled == Init => SamplesInv
<1>1. NoTimeline \in Timeline /\ NoTimeline.active = {} /\ NoTimeline.events = <<>>
  BY DEF NoTimeline, Timeline
<1>2. Len(NoTimeline.events) = 0 /\ OpenIn(NoTimeline.events) = {}
  BY <1>1 DEF OpenIn
<1>3. Periods(NoTimeline.active, NoTimeline.events) /\ Bounded(NoTimeline.events)
  BY <1>1, <1>2, ThresholdFacts DEF Periods, Bounded
<1>4. Faithful(NoTimeline)
  BY <1>1, <1>3 DEF Faithful
<1> QED  BY <1>4 DEF Init, NoCounts, SamplesInv, Sampled

LEMMA Samples == FramesInv /\ SamplesInv /\ [Next]_vars => SamplesInv'
<1> SUFFICES ASSUME FramesInv, Sampled(out), Sampled(in), [Next]_vars
             PROVE  Sampled(out') /\ Sampled(in')
  BY DEF SamplesInv
<1>1. Used \in Int
  <2>1. readSeq \in 0 .. Modulus - 1 /\ writeSeq \in 0 .. Modulus - 1
    BY DEF FramesInv, TypeOK
  <2> QED  BY <2>1, Constants DEF Used
<1>2. CASE Measure
  <2>1. in' = in /\ (out' = observeSaturation(out, Used) \/ out' = CountError(out))
    BY <1>2 DEF Measure
  <2> QED  BY <1>1, <2>1, SamplingOps
<1>3. CASE Resize \/ UNCHANGED vars
  BY <1>3 DEF Resize, vars
<1>4. CASE SendFails
  <2>1. in' = in /\ out' = CountError(out)
    BY <1>4 DEF SendFails
  <2> QED  BY <2>1, SamplingOps
<1>5. CASE Write
  <2>1. /\ in' = in /\ send # Idle
        /\ \/ out' = CountError(out)
           \/ out' = observeSaturation(CountSent(out, send), Used + FrameSize(send.length))
    BY <1>5 DEF Write
  <2>2. FrameSize(send.length) \in Nat
    <3>1. send.length \in Nat
      BY <2>1 DEF FramesInv, TypeOK
    <3> QED  BY <3>1, FrameSizes
  <2>3. Used + FrameSize(send.length) \in Int
    BY <1>1, <2>2
  <2>4. Sampled(CountSent(out, send))
    BY SamplingOps DEF CountSent
  <2> QED  BY <2>1, <2>3, <2>4, SamplingOps
<1>6. CASE Receive
  <2>1. out' = out /\ (in' = CountError(in) \/ \E v : in' = observeSaturation(CountFrame(in, v), Used))
    BY <1>6, Zenon DEF Receive
  <2>2. CASE in' = CountError(in)
    BY <2>1, <2>2, SamplingOps
  <2>3. CASE \E v : in' = observeSaturation(CountFrame(in, v), Used)
    <3>1. PICK v : in' = observeSaturation(CountFrame(in, v), Used)
      BY <2>3
    <3>2. Sampled(CountFrame(in, v))
      BY SamplingOps
    <3> QED  BY <1>1, <2>1, <3>1, <3>2, SamplingOps
  <2> QED  BY <2>1, <2>2, <2>3
<1>7. CASE Read
  <2>1. out' = out /\ view # Idle /\ in' = observeSaturation(in, Used - FrameSize(view.length))
    BY <1>7 DEF Read
  <2>2. FrameSize(view.length) \in Nat
    <3>1. view.length \in Nat
      BY <2>1 DEF FramesInv, TypeOK, FrameHeaders
    <3> QED  BY <3>1, FrameSizes
  <2>3. Used - FrameSize(view.length) \in Int
    BY <1>1, <2>2
  <2> QED  BY <2>1, <2>3, SamplingOps
<1> QED  BY <1>2, <1>3, <1>4, <1>5, <1>6, <1>7 DEF Next

(* However long a ring's timeline gets and whatever is dropped from it, it *)
(* tells what is going on: the periods under way are in the list, one for  *)
(* each exceeded threshold, a higher one within the lower ones; no period  *)
(* is listed at a threshold its peak did not exceed; and the list is       *)
(* longer than its limit only as long as nothing in it is over.            *)
THEOREM TimelinesAreFaithful == Spec => []TimelinesFaithful
<1>1. SamplesInv => TimelinesFaithful
  <2> SUFFICES ASSUME Sampled(out), Sampled(in), NEW counts \in {out, in}
               PROVE  LET t == counts.timeline
                          Open == {i \in DOMAIN t.events : ~t.events[i].exited}
                      IN  /\ {t.events[i].threshold : i \in Open} = t.active
                          /\ Cardinality(Open) = Cardinality(t.active)
                          /\ \A high \in t.active : \A i \in DOMAIN Thresholds : Thresholds[i] < high =>
                                  \E lower, i2 \in Open : /\ t.events[i2].threshold = high
                                                         /\ t.events[lower].threshold = Thresholds[i]
                                                         /\ lower < i2
                                                         /\ t.events[lower].peak >= t.events[i2].peak
                          /\ \A i \in DOMAIN t.events : Above(t.events[i].threshold, t.events[i].peak, Capacity)
                          /\ Len(t.events) <= TimelineLimit \/ Len(t.events) <= Len(Thresholds)
    BY DEF SamplesInv, TimelinesFaithful
  <2> DEFINE t == counts.timeline
             e == t.events
             A == t.active
  <2>1. /\ Periods(A, e) /\ Bounded(e)
        /\ \A a, b \in DOMAIN Thresholds : a < b /\ Thresholds[b] \in A => Thresholds[a] \in A
    BY DEF Sampled, Faithful
  <2>2. DOMAIN e = 1 .. Len(e)
    BY <2>1 DEF Periods
  <2>3. OpenIn(e) = {i \in DOMAIN e : ~e[i].exited}
    BY <2>2 DEF OpenIn
  <2> HIDE DEF e, A
  <2>4. {e[i].threshold : i \in OpenIn(e)} = A
    BY <2>1 DEF Periods
  <2>5. Cardinality(OpenIn(e)) = Cardinality(A)
    BY <2>1, OneEach
  <2>6. ASSUME NEW high \in A, NEW i \in DOMAIN Thresholds, Thresholds[i] < high
        PROVE  \E lower, i2 \in OpenIn(e) : /\ e[i2].threshold = high /\ e[lower].threshold = Thresholds[i]
                                           /\ lower < i2 /\ e[lower].peak >= e[i2].peak
    <3>1. PICK b \in DOMAIN Thresholds : high = Thresholds[b]
      BY <2>1 DEF Periods, Limits
    <3>2. Thresholds[i] \in A
      <4>1. i < b
        BY <2>6, <3>1, ThresholdFacts
      <4> QED  BY <2>1, <3>1, <4>1
    <3>3. PICK lower \in OpenIn(e), i2 \in OpenIn(e) :
             e[i2].threshold = high /\ e[lower].threshold = Thresholds[i]
      BY <2>1, <3>2 DEF Periods
    <3>4. lower < i2 /\ e[lower].peak >= e[i2].peak
      BY <2>1, <2>6, <3>3 DEF Periods
    <3> QED  BY <3>3, <3>4
  <2>7. \A i \in DOMAIN e : Above(e[i].threshold, e[i].peak, Capacity)
    BY <2>1, <2>2 DEF Periods
  <2> QED  BY <2>1, <2>3, <2>4, <2>5, <2>6, <2>7 DEF e, A, Bounded
<1> QED  BY <1>1, NothingSampled, Samples, FramesInvariant, PTL DEF Spec
=============================================================================

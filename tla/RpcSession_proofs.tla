--------------------------- MODULE RpcSession_proofs ---------------------------
(***************************************************************************)
(* The session of a client and a server, for every number of calls and     *)
(* notifications, every size of the rings and every limit: what is         *)
(* pending, what is counted and what has been answered agree at both ends; *)
(* and every step is one of RemoteCalls, one of the store that             *)
(* PendingRequests is about, and one of a RingChannel in each direction.   *)
(***************************************************************************)
EXTENDS RpcSession, FiniteSetTheorems, SequenceTheorems, TLAPS

(* Frames by what they are for; sequences of jobs by their frames.         *)
Opening == {"REQUEST", "NOTIFY"}
AnyFrames == ClientFrames \cup ServerFrames
JobsOf(F) == [frame : F, timed : BOOLEAN, fits : BOOLEAN, waits : BOOLEAN]

FramesOf(q) == [i \in 1 .. Len(q) |-> q[i].frame]
Has(s, ops, m) == \E i \in 1 .. Len(s) : s[i].op \in ops /\ s[i].of = m
Once(s, ops) == \A i, j \in 1 .. Len(s) :
    s[i].op \in ops /\ s[j].op \in ops /\ s[i].of = s[j].of => i = j

ToSend(side, ops, m) == Has(FramesOf(jobs[side]), ops, m)
OnWire(side, ops, m) == Has(wire[side], ops, m)

JobsType ==
    /\ jobs \in [Sides -> Seq(JobsOf(AnyFrames))]
    /\ jobs[Client] \in Seq(JobsOf(ClientFrames)) /\ jobs[Server] \in Seq(JobsOf(ServerFrames))
WireType ==
    /\ wire \in [Sides -> Seq(AnyFrames)]
    /\ wire[Client] \in Seq(ClientFrames) /\ wire[Server] \in Seq(ServerFrames)
RingsType == ringState \in {"open", "closed", "errored"} /\ shut \in [Sides -> BOOLEAN]
Granting ==
    /\ granted \in [Sides -> BOOLEAN] /\ aborted \subseteq Messages
    /\ \A side \in Sides : granted[side] => jobs[side] # <<>>
    /\ \A side \in Sides : Len(wire[side]) <= Slots /\ (granted[side] => Len(wire[side]) < Slots)
DuplexType == RingsType /\ WireType /\ JobsType /\ Granting

(* A message is sent once, and until it arrives the server knows nothing   *)
(* of it; an answer is sent once, after which the request is over.         *)
Coming(m) == ToSend(Client, Opening, m) \/ OnWire(Client, Opening, m)
SentOnce ==
    /\ Once(FramesOf(jobs[Client]), Opening) /\ Once(wire[Client], Opening)
    /\ Once(FramesOf(jobs[Server]), Answering)
    /\ \A m \in Messages : ~(ToSend(Client, Opening, m) /\ OnWire(Client, Opening, m))

(* The client: ids are handed out in the order of the calls, a call is     *)
(* pending while its promise is open, and nothing is known of messages     *)
(* that have not been made.                                                *)
CallsInv ==
    /\ made \in 0 .. Made
    /\ pending \in [Store!Ids -> Requests \cup {0}]
    /\ registered \in [Requests -> Store!Ids \cup {0}]
    /\ releases \in [Requests -> Nat]
    /\ witnessed = {c \in Requests : registered[c] # 0}
    /\ released = {c \in witnessed : ~Store!Holds(c)}
    /\ settled \in [Messages -> Causes \cup {NoCause, "completed"}]
    /\ nextRequestId \in 1 .. made + 1
    /\ \A c \in Requests : registered[c] # 0 => registered[c] < nextRequestId /\ c <= made
    /\ \A c, d \in Requests : registered[c] # 0 /\ registered[c] = registered[d] => c = d
    /\ \A id \in Store!Ids : pending[id] # 0 => registered[pending[id]] = id
    /\ \A m \in Messages : settled[m] # NoCause => m <= made
    /\ PendingIffUnsettled

(* A client that has shut down has nothing pending any more.               *)
ClientEndInv ==
    /\ clientClosed \in BOOLEAN
    /\ clientShutdown = "done" => \A c \in Requests : ~Store!Holds(c)
    /\ clientShutdown # "none" \/ ToSend(Client, {"CLOSE"}, 0) => clientClosed

(* The server: where each message is, what has been recorded of it, and    *)
(* how the shutdown stands.                                                *)
Known(m) == m <= made /\ (m \in Requests => registered[m] # 0)
MessageInv(m) ==
    /\ Coming(m) => Known(m) /\ phase[m] = "idle" /\ ~IsQueued(m)
    /\ m \in Notes /\ ToSend(Client, Opening, m) => settled[m] = NoCause
    /\ IsQueued(m) => phase[m] = "idle" /\ outcomes[m] = {}
    /\ phase[m] # "idle" \/ IsQueued(m) \/ outcomes[m] # {} => Known(m)
    /\ ToSend(Server, Answering, m) => phase[m] \in {"replying", "refusing"}
    /\ OnWire(Server, Answering, m) \/ (m \in Requests /\ settled[m] = "completed") =>
          phase[m] \in {"ending", "over"} /\ outcomes[m] = {"completed"}
    /\ outcomes[m] # {} =>
          \/ phase[m] \in {"ending", "over"}
          \/ phase[m] = "idle" /\ serverClosed /\ ~Coming(m)
    /\ outcomes[m] = {} \/ \E how \in Outcomes : outcomes[m] = {how}
    /\ ~serverClosed /\ m \in Requests /\ phase[m] \in {"ending", "over"} => outcomes[m] # {}
    /\ phase[m] \in {"replying", "refusing"} => m \in Requests
    /\ phase[m] = "failed" => failure[m] # NoCause

ServerInv ==
    /\ ServerTypeOK
    /\ \A i, j \in 1 .. Len(queue) : queue[i] = queue[j] => i = j
    /\ LimitsExact
    /\ serverClosed <=> serverShutdown # "none"
    /\ serverShutdown \in {"draining", "done"} => queue = <<>>
    /\ ShutdownLeavesNothing

CloseInv == ToSend(Server, {"CLOSE"}, 0) => serverClosed

SessionInv ==
    /\ DuplexType /\ SentOnce /\ CloseInv
    /\ CallsInv /\ ClientEndInv
    /\ ServerInv /\ \A m \in Messages : MessageInv(m)

-----------------------------------------------------------------------------
(* Sequences of frames and of jobs.                                        *)
LEMMA MessageFacts ==
    /\ Messages \subseteq Nat /\ 0 \notin Messages /\ Requests \subseteq Messages /\ Notes \subseteq Messages
    /\ \A m \in Messages : m \in Requests <=> m \notin Notes
    /\ IsFiniteSet(Messages)
<1>1. IsFiniteSet(Messages)
  BY DuplexAssumption, FS_Interval DEF Messages
<1> QED
  BY <1>1, DuplexAssumption DEF Messages, Requests

LEMMA HasAppend ==
    ASSUME NEW F, NEW s \in Seq(F), NEW f \in F, NEW ops, NEW m
    PROVE  Has(Append(s, f), ops, m) <=> Has(s, ops, m) \/ (f.op \in ops /\ f.of = m)
<1>1. /\ Len(Append(s, f)) = Len(s) + 1 /\ Append(s, f)[Len(s) + 1] = f
      /\ \A i \in 1 .. Len(s) : Append(s, f)[i] = s[i]
      /\ Len(s) \in Nat
  OBVIOUS
<1> QED
  BY <1>1 DEF Has

LEMMA HasTail ==
    ASSUME NEW F, NEW s \in Seq(F), s # <<>>, NEW ops, NEW m
    PROVE  Has(s, ops, m) <=> Has(Tail(s), ops, m) \/ (Head(s).op \in ops /\ Head(s).of = m)
<1>1. /\ Len(Tail(s)) = Len(s) - 1 /\ Head(s) = s[1] /\ Len(s) \in Nat /\ Len(s) > 0
      /\ \A i \in 1 .. Len(Tail(s)) : Tail(s)[i] = s[i + 1]
  OBVIOUS
<1>2. ASSUME Has(s, ops, m) PROVE Has(Tail(s), ops, m) \/ (Head(s).op \in ops /\ Head(s).of = m)
  <2>1. PICK i \in 1 .. Len(s) : s[i].op \in ops /\ s[i].of = m
    BY <1>2 DEF Has
  <2>2. CASE i = 1
    BY <1>1, <2>1, <2>2
  <2>3. CASE i # 1
    <3>1. i - 1 \in 1 .. Len(Tail(s)) /\ Tail(s)[i - 1] = s[i]
      BY <1>1, <2>3
    <3> QED
      BY <2>1, <3>1 DEF Has
  <2> QED
    BY <2>2, <2>3
<1>3. ASSUME Has(Tail(s), ops, m) PROVE Has(s, ops, m)
  <2>1. PICK i \in 1 .. Len(Tail(s)) : Tail(s)[i].op \in ops /\ Tail(s)[i].of = m
    BY <1>3 DEF Has
  <2>2. i + 1 \in 1 .. Len(s) /\ s[i + 1] = Tail(s)[i]
    BY <1>1
  <2> QED
    BY <2>1, <2>2 DEF Has
<1>4. ASSUME Head(s).op \in ops, Head(s).of = m PROVE Has(s, ops, m)
  <2>1. 1 \in 1 .. Len(s)
    BY <1>1
  <2> QED
    BY <1>1, <1>4, <2>1 DEF Has
<1> QED
  BY <1>2, <1>3, <1>4

LEMMA OnceAppend ==
    ASSUME NEW F, NEW s \in Seq(F), NEW f \in F, NEW ops, Once(s, ops),
           f.op \in ops => ~Has(s, ops, f.of)
    PROVE  Once(Append(s, f), ops)
<1>1. /\ Len(Append(s, f)) = Len(s) + 1 /\ Append(s, f)[Len(s) + 1] = f
      /\ \A i \in 1 .. Len(s) : Append(s, f)[i] = s[i]
      /\ Len(s) \in Nat
  OBVIOUS
<1> QED
  BY <1>1 DEF Has, Once

LEMMA OnceTail ==
    ASSUME NEW F, NEW s \in Seq(F), s # <<>>, NEW ops, Once(s, ops)
    PROVE  Once(Tail(s), ops) /\ (Head(s).op \in ops => ~Has(Tail(s), ops, Head(s).of))
<1>1. /\ Len(Tail(s)) = Len(s) - 1 /\ Head(s) = s[1] /\ Len(s) \in Nat /\ Len(s) > 0
      /\ \A i \in 1 .. Len(Tail(s)) : Tail(s)[i] = s[i + 1] /\ i + 1 \in 1 .. Len(s)
  OBVIOUS
<1>2. Once(Tail(s), ops)
  <2> SUFFICES ASSUME NEW i \in 1 .. Len(Tail(s)), NEW j \in 1 .. Len(Tail(s)),
                      Tail(s)[i].op \in ops, Tail(s)[j].op \in ops, Tail(s)[i].of = Tail(s)[j].of
               PROVE  i = j
    BY DEF Once
  <2>1. i + 1 = j + 1
    BY <1>1 DEF Once
  <2> QED
    BY <1>1, <2>1
<1>3. ASSUME Head(s).op \in ops, Has(Tail(s), ops, Head(s).of) PROVE FALSE
  <2>1. PICK i \in 1 .. Len(Tail(s)) : Tail(s)[i].op \in ops /\ Tail(s)[i].of = Head(s).of
    BY <1>3 DEF Has
  <2>2. i + 1 = 1
    BY <1>1, <1>3, <2>1 DEF Once
  <2> QED
    BY <1>1, <2>2
<1> QED
  BY <1>2, <1>3

LEMMA FramesOfType ==
    ASSUME NEW F, NEW q \in Seq(JobsOf(F))
    PROVE  /\ FramesOf(q) \in Seq(F) /\ Len(FramesOf(q)) = Len(q)
           /\ \A i \in 1 .. Len(q) : FramesOf(q)[i] = q[i].frame
<1>1. \A i \in 1 .. Len(q) : q[i].frame \in F
  <2>1. ASSUME NEW i \in 1 .. Len(q) PROVE q[i].frame \in F
    <3>1. q[i] \in JobsOf(F)
      OBVIOUS
    <3> QED
      BY <3>1 DEF JobsOf
  <2> QED
    BY <2>1
<1> QED
  BY <1>1 DEF FramesOf

LEMMA FramesOfAppend ==
    ASSUME NEW F, NEW q \in Seq(JobsOf(F)), NEW job \in JobsOf(F)
    PROVE  FramesOf(Append(q, job)) = Append(FramesOf(q), job.frame)
<1>1. /\ Len(Append(q, job)) = Len(q) + 1 /\ Append(q, job)[Len(q) + 1] = job
      /\ \A i \in 1 .. Len(q) : Append(q, job)[i] = q[i]
      /\ Len(q) \in Nat
  OBVIOUS
<1>2. FramesOf(q) \in Seq(F) /\ Len(FramesOf(q)) = Len(q)
  BY FramesOfType
<1> QED
  BY <1>1, <1>2 DEF FramesOf

LEMMA FramesOfTail ==
    ASSUME NEW F, NEW q \in Seq(JobsOf(F)), q # <<>>
    PROVE  /\ FramesOf(q) # <<>> /\ FramesOf(Tail(q)) = Tail(FramesOf(q))
           /\ Head(FramesOf(q)) = Head(q).frame
<1>1. /\ Len(Tail(q)) = Len(q) - 1 /\ Len(q) \in Nat /\ Len(q) > 0 /\ Head(q) = q[1]
      /\ \A i \in 1 .. Len(Tail(q)) : Tail(q)[i] = q[i + 1]
  OBVIOUS
<1>2. FramesOf(q) \in Seq(F) /\ Len(FramesOf(q)) = Len(q)
  BY FramesOfType
<1>3. FramesOf(q) # <<>> /\ Head(FramesOf(q)) = Head(q).frame
  BY <1>1, <1>2 DEF FramesOf
<1> QED
  BY <1>1, <1>2, <1>3 DEF FramesOf

(* What pushing and popping does to the jobs and the wire of a side.       *)
FramesFrom(side) == IF side = Client THEN ClientFrames ELSE ServerFrames
JobPushed(side, f) ==
    /\ JobsType' /\ jobs'[side] # <<>> /\ jobs'[Peer(side)] = jobs[Peer(side)]
    /\ \A ops, m : ToSend(side, ops, m)' <=> ToSend(side, ops, m) \/ (f.op \in ops /\ f.of = m)
    /\ \A ops, m : ToSend(Peer(side), ops, m)' <=> ToSend(Peer(side), ops, m)
    /\ \A ops : Once(FramesOf(jobs[side]), ops) /\ (f.op \in ops => ~ToSend(side, ops, f.of))
                   => Once(FramesOf(jobs[side]), ops)'
JobPopped(side, f) ==
    /\ JobsType' /\ jobs'[Peer(side)] = jobs[Peer(side)] /\ f \in FramesFrom(side)
    /\ \A ops, m : ToSend(side, ops, m) <=> ToSend(side, ops, m)' \/ (f.op \in ops /\ f.of = m)
    /\ \A ops, m : ToSend(Peer(side), ops, m)' <=> ToSend(Peer(side), ops, m)
    /\ \A ops : Once(FramesOf(jobs[side]), ops)
                   => Once(FramesOf(jobs[side]), ops)' /\ (f.op \in ops => ~ToSend(side, ops, f.of)')
WirePushed(side, f) ==
    /\ WireType' /\ Len(wire'[side]) = Len(wire[side]) + 1 /\ wire'[Peer(side)] = wire[Peer(side)]
    /\ \A ops, m : OnWire(side, ops, m)' <=> OnWire(side, ops, m) \/ (f.op \in ops /\ f.of = m)
    /\ \A ops, m : OnWire(Peer(side), ops, m)' <=> OnWire(Peer(side), ops, m)
    /\ \A ops : Once(wire[side], ops) /\ (f.op \in ops => ~OnWire(side, ops, f.of))
                   => Once(wire[side], ops)'
WirePopped(side, f) ==
    /\ WireType' /\ Len(wire'[side]) = Len(wire[side]) - 1 /\ wire'[Peer(side)] = wire[Peer(side)]
    /\ f \in FramesFrom(side)
    /\ \A ops, m : OnWire(side, ops, m) <=> OnWire(side, ops, m)' \/ (f.op \in ops /\ f.of = m)
    /\ \A ops, m : OnWire(Peer(side), ops, m)' <=> OnWire(Peer(side), ops, m)
    /\ \A ops : Once(wire[side], ops)
                   => Once(wire[side], ops)' /\ (f.op \in ops => ~OnWire(side, ops, f.of)')

LEMMA SideFacts ==
    /\ Client \in Sides /\ Server \in Sides /\ Client # Server
    /\ \A side \in Sides : side = Client \/ side = Server
    /\ Peer(Client) = Server /\ Peer(Server) = Client
    /\ \A side \in Sides : FramesFrom(side) \subseteq AnyFrames
BY DEF Client, Server, Sides, Peer, FramesFrom, AnyFrames

LEMMA Pushes ==
    ASSUME JobsType, NEW side \in Sides, NEW f \in FramesFrom(side),
           NEW timed \in BOOLEAN, NEW fits \in BOOLEAN, Enqueue(side, f, timed, fits)
    PROVE  JobPushed(side, f)
<1> DEFINE job == [frame |-> f, timed |-> timed, fits |-> fits, waits |-> jobs[side] # <<>>]
           q == jobs[side]
<1>1. /\ q \in Seq(JobsOf(FramesFrom(side))) /\ job \in JobsOf(FramesFrom(side))
      /\ job \in JobsOf(AnyFrames) /\ job.frame = f
  BY SideFacts DEF JobsType, JobsOf, FramesFrom
<1>2. jobs' = [jobs EXCEPT ![side] = Append(q, job)]
  BY DEF Enqueue
<1>3. jobs'[side] = Append(q, job) /\ jobs'[Peer(side)] = jobs[Peer(side)]
  BY <1>2, SideFacts DEF JobsType
<1>4. JobsType' /\ jobs'[side] # <<>>
  <2>1. Append(q, job) \in Seq(JobsOf(FramesFrom(side))) /\ Append(q, job) # <<>>
    <3> HIDE DEF job
    <3> QED
      BY <1>1
  <2>2. Append(q, job) \in Seq(JobsOf(AnyFrames))
    BY <1>1, SideFacts DEF JobsType
  <2> QED
    BY <1>2, <1>3, <2>1, <2>2, SideFacts DEF JobsType, FramesFrom
<1>5. FramesOf(jobs'[side]) = Append(FramesOf(q), f) /\ FramesOf(q) \in Seq(FramesFrom(side))
  BY <1>1, <1>3, FramesOfAppend, FramesOfType
<1>6. \A ops, m : ToSend(side, ops, m)' <=> ToSend(side, ops, m) \/ (f.op \in ops /\ f.of = m)
  BY <1>5, HasAppend DEF ToSend
<1>7. \A ops : Once(FramesOf(q), ops) /\ (f.op \in ops => ~ToSend(side, ops, f.of))
                 => Once(FramesOf(jobs'[side]), ops)
  BY <1>5, OnceAppend DEF ToSend
<1>8. \A ops, m : ToSend(Peer(side), ops, m)' <=> ToSend(Peer(side), ops, m)
  BY <1>3 DEF ToSend
<1> QED
  BY <1>3, <1>4, <1>6, <1>7, <1>8 DEF JobPushed

LEMMA Pops ==
    ASSUME JobsType, NEW side \in Sides, jobs[side] # <<>>, jobs' = [jobs EXCEPT ![side] = Tail(@)],
           NEW f, f = HeadJob(side).frame
    PROVE  JobPopped(side, f)
<1> DEFINE q == jobs[side]
<1>1. q \in Seq(JobsOf(FramesFrom(side))) /\ q \in Seq(JobsOf(AnyFrames)) /\ q # <<>>
  BY SideFacts DEF JobsType, FramesFrom
<1>2. jobs'[side] = Tail(q) /\ jobs'[Peer(side)] = jobs[Peer(side)]
  BY SideFacts DEF JobsType
<1>3. Tail(q) \in Seq(JobsOf(FramesFrom(side))) /\ Tail(q) \in Seq(JobsOf(AnyFrames))
  BY <1>1
<1>4. JobsType'
  BY <1>2, <1>3, SideFacts DEF JobsType, FramesFrom
<1>5. /\ FramesOf(jobs'[side]) = Tail(FramesOf(q)) /\ FramesOf(q) \in Seq(FramesFrom(side))
      /\ FramesOf(q) # <<>> /\ Head(FramesOf(q)) = f
  BY <1>1, <1>2, FramesOfTail, FramesOfType DEF HeadJob
<1>6. f \in FramesFrom(side)
  BY <1>5
<1>7. \A ops, m : ToSend(side, ops, m) <=> ToSend(side, ops, m)' \/ (f.op \in ops /\ f.of = m)
  <2> SUFFICES ASSUME NEW ops, NEW m
               PROVE  ToSend(side, ops, m) <=> ToSend(side, ops, m)' \/ (f.op \in ops /\ f.of = m)
    OBVIOUS
  <2>1. Has(FramesOf(q), ops, m) <=>
           Has(Tail(FramesOf(q)), ops, m) \/ (Head(FramesOf(q)).op \in ops /\ Head(FramesOf(q)).of = m)
    BY ONLY <1>5, HasTail
  <2> QED
    BY <1>5, <2>1 DEF ToSend
<1>8. \A ops : Once(FramesOf(q), ops)
                 => Once(FramesOf(jobs'[side]), ops) /\ (f.op \in ops => ~ToSend(side, ops, f.of)')
  <2> SUFFICES ASSUME NEW ops, Once(FramesOf(q), ops)
               PROVE  Once(FramesOf(jobs'[side]), ops) /\ (f.op \in ops => ~ToSend(side, ops, f.of)')
    OBVIOUS
  <2>1. /\ Once(Tail(FramesOf(q)), ops)
        /\ Head(FramesOf(q)).op \in ops => ~Has(Tail(FramesOf(q)), ops, Head(FramesOf(q)).of)
    BY <1>5, OnceTail
  <2> QED
    BY <1>5, <2>1 DEF ToSend
<1>9. \A ops, m : ToSend(Peer(side), ops, m)' <=> ToSend(Peer(side), ops, m)
  BY <1>2 DEF ToSend
<1> QED
  BY <1>2, <1>4, <1>6, <1>7, <1>8, <1>9 DEF JobPopped

LEMMA Sends ==
    ASSUME WireType, NEW side \in Sides, NEW f \in FramesFrom(side),
           wire' = [wire EXCEPT ![side] = Append(@, f)]
    PROVE  WirePushed(side, f)
<1> DEFINE s == wire[side]
<1>1. s \in Seq(FramesFrom(side)) /\ s \in Seq(AnyFrames) /\ f \in AnyFrames
  BY SideFacts DEF WireType, FramesFrom
<1>2. wire'[side] = Append(s, f) /\ wire'[Peer(side)] = wire[Peer(side)]
  BY SideFacts DEF WireType
<1>3. /\ Append(s, f) \in Seq(FramesFrom(side)) /\ Append(s, f) \in Seq(AnyFrames)
      /\ Len(Append(s, f)) = Len(s) + 1
  BY <1>1
<1>4. WireType'
  BY <1>2, <1>3, SideFacts DEF WireType, FramesFrom
<1>5. \A ops, m : OnWire(side, ops, m)' <=> OnWire(side, ops, m) \/ (f.op \in ops /\ f.of = m)
  BY <1>1, <1>2, HasAppend DEF OnWire
<1>6. \A ops : Once(s, ops) /\ (f.op \in ops => ~OnWire(side, ops, f.of)) => Once(wire'[side], ops)
  BY <1>1, <1>2, OnceAppend DEF OnWire
<1>7. \A ops, m : OnWire(Peer(side), ops, m)' <=> OnWire(Peer(side), ops, m)
  BY <1>2 DEF OnWire
<1> QED
  BY <1>2, <1>3, <1>4, <1>5, <1>6, <1>7 DEF WirePushed

LEMMA Takes ==
    ASSUME WireType, NEW side \in Sides, wire[side] # <<>>, wire' = [wire EXCEPT ![side] = Tail(@)],
           NEW f, f = Head(wire[side])
    PROVE  WirePopped(side, f)
<1> DEFINE s == wire[side]
<1>1. s \in Seq(FramesFrom(side)) /\ s \in Seq(AnyFrames) /\ s # <<>> /\ f \in FramesFrom(side)
  BY SideFacts DEF WireType, FramesFrom
<1>2. wire'[side] = Tail(s) /\ wire'[Peer(side)] = wire[Peer(side)]
  BY SideFacts DEF WireType
<1>3. /\ Tail(s) \in Seq(FramesFrom(side)) /\ Tail(s) \in Seq(AnyFrames)
      /\ Len(Tail(s)) = Len(s) - 1
  BY <1>1
<1>4. WireType'
  BY <1>2, <1>3, SideFacts DEF WireType, FramesFrom
<1>5. \A ops, m : OnWire(side, ops, m) <=> OnWire(side, ops, m)' \/ (f.op \in ops /\ f.of = m)
  BY <1>1, <1>2, HasTail DEF OnWire
<1>6. \A ops : Once(s, ops)
                 => Once(wire'[side], ops) /\ (f.op \in ops => ~OnWire(side, ops, f.of)')
  <2> SUFFICES ASSUME NEW ops, Once(s, ops)
               PROVE  Once(wire'[side], ops) /\ (f.op \in ops => ~OnWire(side, ops, f.of)')
    OBVIOUS
  <2>1. Once(Tail(s), ops) /\ (f.op \in ops => ~Has(Tail(s), ops, f.of))
    BY <1>1, OnceTail
  <2> QED
    BY <1>2, <2>1 DEF OnWire
<1>7. \A ops, m : OnWire(Peer(side), ops, m)' <=> OnWire(Peer(side), ops, m)
  BY <1>2 DEF OnWire
<1> QED
  BY <1>1, <1>2, <1>3, <1>4, <1>5, <1>6, <1>7 DEF WirePopped

-----------------------------------------------------------------------------
(* The client's store: what a release, an answer and a shutdown take out   *)
(* of it, and that exactly that is settled.                                *)
Taken(es) ==
    /\ \A c \in es : Store!Holds(c)
    /\ pending' = [id \in Store!Ids |-> IF pending[id] \in es THEN 0 ELSE pending[id]]
    /\ releases' = [c \in Requests |-> IF c \in es THEN releases[c] + 1 ELSE releases[c]]
    /\ released' = released \cup es
    /\ UNCHANGED <<nextRequestId, registered, witnessed>>

LEMMA IdFacts ==
    /\ Store!Ids = 1 .. Made + 1 /\ Made \in Nat /\ 0 \notin Requests /\ Store!NoId = 0
    /\ Requests \subseteq 1 .. Made
BY DuplexAssumption, MessageFacts DEF Store!Ids, Store!NoId, Messages

LEMMA TakenNone ==
    ASSUME CallsInv, UNCHANGED Store!storeVars
    PROVE  Taken({})
BY DEF CallsInv, Store!storeVars, Taken

LEMMA TakenOne ==
    ASSUME CallsInv, NEW c \in Requests, registered[c] # 0, NEW by, Store!Holds(c), Store!Detach({c}, by)
    PROVE  Taken({c})
BY DEF CallsInv, Taken, Store!Detach

LEMMA RegistrationTaken ==
    ASSUME CallsInv, NEW c \in Requests, registered[c] # 0, Store!ReleaseRegistration(c)
    PROVE  \E es \in SUBSET {c} : Taken(es)
<1>1. c \in witnessed /\ (c \notin released <=> Store!Holds(c))
  BY DEF CallsInv
<1>2. CASE c \in released
  BY <1>1, <1>2, TakenNone DEF Store!ReleaseRegistration, Store!ReleaseByWitness
<1>3. CASE c \notin released
  BY <1>1, <1>3, TakenOne DEF Store!ReleaseRegistration, Store!ReleaseByWitness, Store!Holds
<1> QED
  BY <1>2, <1>3

LEMMA UntrustedTaken ==
    ASSUME CallsInv, NEW c \in Requests, registered[c] # 0, Store!ReleaseUntrusted(registered[c])
    PROVE  \E es \in SUBSET {c} : Taken(es)
<1>1. registered[c] \in Store!Ids
  BY IdFacts DEF CallsInv
<1>2. CASE pending[registered[c]] = 0
  BY <1>2, TakenNone DEF Store!ReleaseUntrusted
<1>3. CASE pending[registered[c]] # 0
  <2>1. pending[registered[c]] = c /\ Store!Holds(c)
    BY <1>1, <1>3, IdFacts DEF CallsInv, Store!Holds
  <2> QED
    BY <1>3, <2>1, TakenOne DEF Store!ReleaseUntrusted
<1> QED
  BY <1>2, <1>3

LEMMA SweepTaken ==
    ASSUME CallsInv, Store!Sweep
    PROVE  Taken(Store!Present)
<1>1. Store!Present \cap witnessed = Store!Present
  BY IdFacts DEF CallsInv, Store!Present, Store!Holds
<1> QED
  BY <1>1 DEF CallsInv, Taken, Store!Sweep, Store!Detach, Store!Present

LEMMA TakenHeld ==
    ASSUME CallsInv, NEW es \in SUBSET Requests, Taken(es)
    PROVE  HandedOut = es /\ \A c \in Requests : Store!Holds(c)' <=> Store!Holds(c) /\ c \notin es
<1>1. HandedOut = es
  BY DEF HandedOut, Taken, CallsInv
<1>2. ASSUME NEW c \in Requests PROVE Store!Holds(c)' <=> Store!Holds(c) /\ c \notin es
  BY IdFacts DEF Taken, CallsInv, Store!Holds
<1> QED
  BY <1>1, <1>2

LEMMA TakenSettles ==
    ASSUME CallsInv, NEW es \in SUBSET Requests, Taken(es),
           NEW how \in Causes \cup {"completed"}, Settle(how), UNCHANGED made
    PROVE  /\ CallsInv'
           /\ settled' = [m \in Messages |-> IF m \in es THEN how ELSE settled[m]]
<1>1. HandedOut = es /\ \A c \in Requests : Store!Holds(c)' <=> Store!Holds(c) /\ c \notin es
  BY TakenHeld
<1>2. settled' = [m \in Messages |-> IF m \in es THEN how ELSE settled[m]]
  BY <1>1 DEF Settle
<1>3. how # NoCause /\ \A c \in es : registered[c] # 0
  BY IdFacts DEF Causes, NoCause, Taken, Store!Holds
<1>4. PendingIffUnsettled'
  BY <1>1, <1>2, <1>3, MessageFacts DEF CallsInv, PendingIffUnsettled, Taken
<1>5. \A m \in Messages : settled'[m] # NoCause => m <= made
  BY <1>2, <1>3 DEF CallsInv
<1>6. \A id \in Store!Ids : pending'[id] # 0 => registered'[pending'[id]] = id
  BY DEF CallsInv, Taken
<1>7. released' = {c \in witnessed' : ~Store!Holds(c)'}
  BY <1>1, <1>3 DEF CallsInv, Taken
<1>8. /\ pending' \in [Store!Ids -> Requests \cup {0}] /\ releases' \in [Requests -> Nat]
      /\ settled' \in [Messages -> Causes \cup {NoCause, "completed"}]
  BY <1>2 DEF CallsInv, Taken
<1> QED
  BY <1>2, <1>4, <1>5, <1>6, <1>7, <1>8 DEF CallsInv, Taken

-----------------------------------------------------------------------------
(* Steps of the client leave the server alone; what they do to a message   *)
(* that has been made.                                                     *)
LEMMA ServerKept ==
    ASSUME ServerInv, UNCHANGED serverVars
    PROVE  ServerInv'
BY DEF ServerInv, serverVars, ServerTypeOK, LimitsExact, ShutdownLeavesNothing, inFlight

LEMMA RingsEnd ==
    ASSUME RingsType, NEW side \in Sides, NEW state \in {"closed", "errored"}, EndRings(side, state)
    PROVE  RingsType'
BY DEF RingsType, EndRings

LEMMA NothingNew ==
    ASSUME SessionInv, UNCHANGED serverVars, \A m \in Messages : Known(m) => Known(m)',
           \A m \in Messages : Coming(m)' => Coming(m),
           \A m \in Notes : ToSend(Client, Opening, m)' =>
                               ToSend(Client, Opening, m) /\ settled'[m] = settled[m],
           \A m \in Messages : ToSend(Server, Answering, m)' <=> ToSend(Server, Answering, m),
           \A m \in Messages : OnWire(Server, Answering, m)' => OnWire(Server, Answering, m),
           \A c \in Requests : settled'[c] = "completed" =>
                                   settled[c] = "completed" \/ OnWire(Server, Answering, c)
    PROVE  \A m \in Messages : MessageInv(m)'
<1> SUFFICES ASSUME NEW m \in Messages PROVE MessageInv(m)'
  OBVIOUS
<1>1. MessageInv(m)
  BY DEF SessionInv
<1>2. IsQueued(m)' <=> IsQueued(m)
  BY DEF serverVars, IsQueued
<1> QED
  BY <1>1, <1>2 DEF MessageInv, serverVars

(* Steps that bring no message nearer to the server and no answer nearer   *)
(* to the client than it was.                                              *)
Quiet ==
    /\ JobsType' /\ WireType' /\ SentOnce'
    /\ ToSend(Client, {"CLOSE"}, 0)' => ToSend(Client, {"CLOSE"}, 0) \/ clientClosed'
    /\ ToSend(Server, {"CLOSE"}, 0)' => ToSend(Server, {"CLOSE"}, 0)
    /\ \A m \in Messages : Coming(m)' => Coming(m)
    /\ \A m \in Messages : ToSend(Client, Opening, m)' => ToSend(Client, Opening, m)
    /\ \A m \in Messages : ToSend(Server, Answering, m)' <=> ToSend(Server, Answering, m)
    /\ \A m \in Messages : OnWire(Server, Answering, m)' => OnWire(Server, Answering, m)

LEMMA QuietGrows ==
    ASSUME SessionInv, UNCHANGED serverVars, \A m \in Messages : Known(m) => Known(m)', Quiet,
           \A m \in Notes : ToSend(Client, Opening, m)' => settled'[m] = settled[m],
           \A c \in Requests : settled'[c] = "completed" =>
                                   settled[c] = "completed" \/ OnWire(Server, Answering, c),
           RingsType', Granting', CallsInv', ClientEndInv'
    PROVE  SessionInv'
<1>1. \A m \in Notes : ToSend(Client, Opening, m)' =>
                          ToSend(Client, Opening, m) /\ settled'[m] = settled[m]
  BY MessageFacts DEF Quiet
<1>2. \A m \in Messages : MessageInv(m)'
  BY <1>1, NothingNew DEF Quiet
<1>3. ServerInv'
  BY ServerKept DEF SessionInv
<1>4. CloseInv'
  BY DEF SessionInv, CloseInv, Quiet, serverVars
<1> QED
  BY <1>2, <1>3, <1>4 DEF SessionInv, Quiet, DuplexType

LEMMA QuietKeeps ==
    ASSUME SessionInv, UNCHANGED serverVars, UNCHANGED <<made, registered>>, Quiet,
           \A m \in Notes : ToSend(Client, Opening, m)' => settled'[m] = settled[m],
           \A c \in Requests : settled'[c] = "completed" =>
                                   settled[c] = "completed" \/ OnWire(Server, Answering, c),
           RingsType', Granting', CallsInv', ClientEndInv'
    PROVE  SessionInv'
<1>1. \A m \in Messages : Known(m) => Known(m)'
  BY DEF Known
<1> QED
  BY <1>1, QuietGrows

LEMMA QuietNone ==
    ASSUME JobsType, WireType, SentOnce, UNCHANGED <<jobs, wire>>
    PROVE  Quiet
BY DEF Quiet, Coming, ToSend, OnWire, JobsType, WireType, SentOnce

LEMMA QuietPush ==
    ASSUME JobsType, WireType, SentOnce, UNCHANGED wire,
           NEW f \in ClientFrames, f.op \notin Opening, f.op = "CLOSE" => clientClosed',
           NEW timed \in BOOLEAN, NEW fits \in BOOLEAN, Enqueue(Client, f, timed, fits)
    PROVE  Quiet /\ jobs'[Client] # <<>> /\ jobs'[Server] = jobs[Server]
<1>1. JobPushed(Client, f)
  BY Pushes, SideFacts DEF FramesFrom
<1>2. /\ \A m : ToSend(Client, Opening, m)' <=> ToSend(Client, Opening, m)
      /\ \A m : ToSend(Server, Answering, m)' <=> ToSend(Server, Answering, m)
      /\ ToSend(Client, {"CLOSE"}, 0)' => ToSend(Client, {"CLOSE"}, 0) \/ f.op = "CLOSE"
      /\ ToSend(Server, {"CLOSE"}, 0)' => ToSend(Server, {"CLOSE"}, 0)
      /\ Once(FramesOf(jobs[Client]), Opening) => Once(FramesOf(jobs[Client]), Opening)'
  BY <1>1, SideFacts DEF JobPushed
<1>3. \A side, ops, m : OnWire(side, ops, m)' <=> OnWire(side, ops, m)
  BY DEF OnWire
<1>4. jobs'[Server] = jobs[Server] /\ jobs'[Client] # <<>> /\ JobsType'
  BY <1>1, SideFacts DEF JobPushed
<1>5. SentOnce'
  BY <1>2, <1>3, <1>4 DEF SentOnce
<1> QED
  BY <1>2, <1>3, <1>4, <1>5 DEF Quiet, Coming, WireType

LEMMA QuietPop ==
    ASSUME JobsType, WireType, SentOnce, UNCHANGED wire, jobs[Client] # <<>>,
           jobs' = [jobs EXCEPT ![Client] = Tail(@)], NEW f, f = HeadJob(Client).frame
    PROVE  /\ Quiet /\ jobs'[Server] = jobs[Server] /\ f \in ClientFrames
           /\ f.op = "CLOSE" => ToSend(Client, {"CLOSE"}, 0)
           /\ f.op \in Opening => ToSend(Client, Opening, f.of) /\ ~ToSend(Client, Opening, f.of)'
<1>1. JobPopped(Client, f)
  BY Pops, SideFacts
<1>6. f.op = "CLOSE" => f.of = 0 /\ ToSend(Client, {"CLOSE"}, 0)
  BY <1>1, SideFacts DEF JobPopped, FramesFrom, ClientFrames
<1>2. /\ \A m : ToSend(Client, Opening, m) <=>
                   ToSend(Client, Opening, m)' \/ (f.op \in Opening /\ f.of = m)
      /\ \A m : ToSend(Server, Answering, m)' <=> ToSend(Server, Answering, m)
      /\ ToSend(Client, {"CLOSE"}, 0)' => ToSend(Client, {"CLOSE"}, 0)
      /\ ToSend(Server, {"CLOSE"}, 0)' => ToSend(Server, {"CLOSE"}, 0)
      /\ Once(FramesOf(jobs[Client]), Opening) =>
            /\ Once(FramesOf(jobs[Client]), Opening)'
            /\ f.op \in Opening => ~ToSend(Client, Opening, f.of)'
  BY <1>1, SideFacts DEF JobPopped
<1>3. \A side, ops, m : OnWire(side, ops, m)' <=> OnWire(side, ops, m)
  BY DEF OnWire
<1>4. jobs'[Server] = jobs[Server] /\ JobsType' /\ f \in ClientFrames
  BY <1>1, SideFacts DEF JobPopped, FramesFrom
<1>5. SentOnce'
  BY <1>2, <1>3, <1>4 DEF SentOnce
<1> QED
  BY <1>2, <1>3, <1>4, <1>5, <1>6 DEF Quiet, Coming, WireType, SentOnce

LEMMA QuietSent ==
    ASSUME DuplexType, SentOnce, CommitFrame(Client), aborted' \subseteq Messages, NEW f, f = HeadJob(Client).frame
    PROVE  /\ Quiet /\ Granting' /\ f \in ClientFrames
           /\ f.op = "CLOSE" => ToSend(Client, {"CLOSE"}, 0)
           /\ f.op \in Opening => ToSend(Client, Opening, f.of) /\ ~ToSend(Client, Opening, f.of)'
<1>1. jobs[Client] # <<>> /\ WireType /\ JobsType /\ Len(wire[Client]) < Slots
  BY SideFacts DEF DuplexType, Granting, CommitFrame
<1>2. JobPopped(Client, f)
  BY <1>1, Pops, SideFacts DEF CommitFrame
<1>11. f.op = "CLOSE" => f.of = 0 /\ ToSend(Client, {"CLOSE"}, 0)
  BY <1>2, SideFacts DEF JobPopped, FramesFrom, ClientFrames
<1>3. f \in ClientFrames
  BY <1>2 DEF JobPopped, FramesFrom
<1>4. WirePushed(Client, f)
  BY <1>1, <1>3, Sends, SideFacts DEF CommitFrame, FramesFrom
<1>5. /\ \A m : ToSend(Client, Opening, m) <=>
                   ToSend(Client, Opening, m)' \/ (f.op \in Opening /\ f.of = m)
      /\ \A m : ToSend(Server, Answering, m)' <=> ToSend(Server, Answering, m)
      /\ ToSend(Client, {"CLOSE"}, 0)' => ToSend(Client, {"CLOSE"}, 0)
      /\ ToSend(Server, {"CLOSE"}, 0)' => ToSend(Server, {"CLOSE"}, 0)
      /\ Once(FramesOf(jobs[Client]), Opening) =>
            /\ Once(FramesOf(jobs[Client]), Opening)'
            /\ f.op \in Opening => ~ToSend(Client, Opening, f.of)'
      /\ jobs'[Server] = jobs[Server] /\ JobsType'
  BY <1>2, SideFacts DEF JobPopped
<1>6. /\ \A m : OnWire(Client, Opening, m)' <=>
                   OnWire(Client, Opening, m) \/ (f.op \in Opening /\ f.of = m)
      /\ \A m : OnWire(Server, Answering, m)' <=> OnWire(Server, Answering, m)
      /\ Once(wire[Client], Opening) /\ (f.op \in Opening => ~OnWire(Client, Opening, f.of))
            => Once(wire[Client], Opening)'
      /\ Len(wire'[Client]) = Len(wire[Client]) + 1 /\ wire'[Server] = wire[Server] /\ WireType'
  BY <1>4, SideFacts DEF WirePushed
<1>7. f.op \in Opening => f.of \in Messages
  BY <1>3, MessageFacts DEF ClientFrames, Opening
<1>8. SentOnce'
  BY <1>5, <1>6, <1>7 DEF SentOnce
<1>9. Quiet
  BY <1>5, <1>6, <1>8 DEF Quiet, Coming
<1>10. Granting'
  <2>1. /\ granted'[Client] = FALSE /\ granted'[Server] = granted[Server]
        /\ granted' \in [Sides -> BOOLEAN] /\ aborted' \subseteq Messages
    BY SideFacts DEF DuplexType, Granting, CommitFrame
  <2>2. Len(wire[Client]) \in Nat
    BY SideFacts DEF DuplexType, WireType
  <2>3. Len(wire'[Client]) <= Slots
    BY ONLY <1>1, <1>6, <2>2, DuplexAssumption
  <2>4. /\ granted'[Server] => jobs'[Server] # <<>>
        /\ Len(wire'[Server]) <= Slots /\ (granted'[Server] => Len(wire'[Server]) < Slots)
    BY <1>5, <1>6, <2>1, SideFacts DEF DuplexType, Granting
  <2> QED
    BY <2>1, <2>3, <2>4, SideFacts DEF Granting
<1> QED
  BY <1>3, <1>5, <1>7, <1>9, <1>10, <1>11 DEF SentOnce

LEMMA QuietTake ==
    ASSUME DuplexType, SentOnce, Arrived(Client), TakeFrame(Client), UNCHANGED jobs,
           NEW f, f = Arrival(Client)
    PROVE  /\ Quiet /\ f \in ServerFrames /\ wire'[Client] = wire[Client]
           /\ Len(wire'[Server]) = Len(wire[Server]) - 1 /\ Len(wire[Server]) > 0
           /\ f.op \in Answering => OnWire(Server, Answering, f.of)
<1>1. WirePopped(Server, f)
  BY Takes, SideFacts DEF DuplexType, Arrived, TakeFrame, Arrival
<1>2. f \in ServerFrames /\ WireType' /\ wire'[Client] = wire[Client]
      /\ Len(wire'[Server]) = Len(wire[Server]) - 1
  BY <1>1, SideFacts DEF WirePopped, FramesFrom
<1>3. /\ \A m : OnWire(Server, Answering, m) <=>
                   OnWire(Server, Answering, m)' \/ (f.op \in Answering /\ f.of = m)
      /\ \A m : OnWire(Client, Opening, m)' <=> OnWire(Client, Opening, m)
  BY <1>1, SideFacts DEF WirePopped
<1>4. \A side, ops, m : ToSend(side, ops, m)' <=> ToSend(side, ops, m)
  BY DEF ToSend
<1>5. SentOnce'
  BY <1>2, <1>3, <1>4 DEF SentOnce
<1>6. Quiet
  BY <1>2, <1>3, <1>4, <1>5 DEF Quiet, Coming, JobsType, DuplexType
<1>7. Len(wire[Server]) > 0
  BY SideFacts DEF DuplexType, WireType, Arrived
<1> QED
  BY <1>2, <1>3, <1>6, <1>7

-----------------------------------------------------------------------------
(* The client, step by step.                                               *)
LEMMA CallEndsKeeps ==
    ASSUME SessionInv, NEW c \in Requests, NEW why \in Causes, CallEnds(c, why), UNCHANGED serverVars
    PROVE  SessionInv'
<1> USE DEF SessionInv
<1>1. registered[c] # 0 /\ Store!ReleaseRegistration(c) /\ Settle(why)
  BY IdFacts DEF CallEnds, Reject, Store!Holds
<1>2. PICK es \in SUBSET {c} : Taken(es)
  BY <1>1, RegistrationTaken
<1>3. es \in SUBSET Requests
  OBVIOUS
<1>4. CallsInv' /\ settled' = [m \in Messages |-> IF m \in es THEN why ELSE settled[m]]
  BY <1>1, <1>2, <1>3, TakenSettles DEF CallEnds
<1>5. HandedOut = es /\ \A d \in Requests : Store!Holds(d)' <=> Store!Holds(d) /\ d \notin es
  BY <1>2, <1>3, TakenHeld
<1>7. Quiet /\ (jobs[Client] # <<>> => jobs'[Client] # <<>>) /\ jobs'[Server] = jobs[Server]
  <2>1. CASE clientClosed
    BY <2>1, QuietNone DEF CallEnds, DuplexType
  <2>2. CASE ~clientClosed
    <3> DEFINE f == [op |-> "CANCEL", of |-> c, why |-> why]
    <3>1. f \in ClientFrames /\ f.op \notin Opening
      BY DEF ClientFrames, Opening
    <3>2. Enqueue(Client, f, TRUE, TRUE)
      BY <2>2 DEF CallEnds
    <3> QED
      BY <3>1, <3>2, QuietPush DEF CallEnds, DuplexType
  <2> QED
    BY <2>1, <2>2
<1>6. ClientEndInv'
  BY <1>5, <1>7 DEF ClientEndInv, CallEnds, Quiet
<1>8. RingsType' /\ Granting'
  BY <1>5, <1>7, MessageFacts, SideFacts DEF CallEnds, DuplexType, RingsType, Granting, Reject
<1>9. UNCHANGED <<made, registered>>
  BY <1>2 DEF CallEnds, Taken
<1>10. why # "completed" /\ es \cap Notes = {}
  BY <1>3, MessageFacts DEF Causes
<1>11. \A m \in Notes : settled'[m] = settled[m]
  BY <1>4, <1>10, MessageFacts
<1>12. \A d \in Requests : settled'[d] = "completed" => settled[d] = "completed"
  BY <1>4, <1>10, MessageFacts
<1> QED
  BY <1>4, <1>6, <1>7, <1>8, <1>9, <1>11, <1>12, QuietKeeps

LEMMA ClientGrantKeeps ==
    ASSUME SessionInv, ClientGrant, UNCHANGED serverVars
    PROVE  SessionInv'
<1> USE DEF SessionInv
<1>1. UNCHANGED <<ringState, shut, wire, jobs, aborted>> /\ UNCHANGED clientVars
  BY DEF ClientGrant, Grant
<1>2. Quiet
  BY <1>1, QuietNone DEF DuplexType
<1>3. Granting'
  BY <1>1, SideFacts DEF ClientGrant, Grant, DuplexType, Granting
<1>4. RingsType'
  BY <1>1 DEF DuplexType, RingsType
<1>5. CallsInv' /\ ClientEndInv' /\ UNCHANGED <<made, registered, settled>>
  BY <1>1, <1>2 DEF clientVars, storeVars, CallsInv, ClientEndInv, PendingIffUnsettled,
     Store!Holds, Quiet
<1> QED
  BY <1>2, <1>3, <1>4, <1>5, QuietKeeps

(* A notification that is sent, or not, settles.                           *)
LEMMA NoteSettles ==
    ASSUME CallsInv, NEW m \in Notes, m <= made, NEW how \in Causes \cup {"completed"},
           settled' = [settled EXCEPT ![m] = how], UNCHANGED <<made, storeVars>>
    PROVE  CallsInv'
<1>1. \A c \in Requests : settled'[c] = settled[c]
  BY MessageFacts DEF CallsInv
<1>2. PendingIffUnsettled' /\ \A c \in Requests : Store!Holds(c)' <=> Store!Holds(c)
  BY <1>1 DEF CallsInv, PendingIffUnsettled, storeVars, Store!Holds
<1>3. \A n \in Messages : settled'[n] # NoCause => n <= made
  BY DEF CallsInv
<1>4. settled' \in [Messages -> Causes \cup {NoCause, "completed"}]
  BY DEF CallsInv
<1> QED
  BY <1>2, <1>3, <1>4 DEF CallsInv, storeVars

LEMMA ClientSentKeeps ==
    ASSUME SessionInv, ClientSent, UNCHANGED serverVars
    PROVE  SessionInv'
<1> USE DEF SessionInv
<1>0. PICK f : f = HeadJob(Client).frame
  OBVIOUS
<1>1. CommitFrame(Client) /\ UNCHANGED <<made, storeVars, clientClosed, ringState, shut, aborted>>
  BY DEF ClientSent
<1>2. /\ Quiet /\ Granting' /\ f \in ClientFrames
      /\ f.op = "CLOSE" => ToSend(Client, {"CLOSE"}, 0)
      /\ f.op \in Opening => ToSend(Client, Opening, f.of) /\ ~ToSend(Client, Opening, f.of)'
  BY <1>0, <1>1, QuietSent DEF DuplexType, Granting
<1>3. RingsType'
  BY <1>1 DEF DuplexType, RingsType
<1>4. CASE f.op = "NOTIFY"
  <2>1. f.of \in Notes /\ ToSend(Client, Opening, f.of) /\ ~ToSend(Client, Opening, f.of)'
    BY <1>2, <1>4 DEF ClientFrames, Opening
  <2>2. settled' = [settled EXCEPT ![f.of] = "completed"] /\ clientShutdown' = clientShutdown
    BY <1>0, <1>4 DEF ClientSent
  <2>3. f.of <= made
    BY <2>1, MessageFacts DEF MessageInv, Coming, Known
  <2>4. CallsInv'
    BY <1>1, <2>1, <2>2, <2>3, NoteSettles
  <2>5. ClientEndInv'
    BY <1>1, <1>2, <2>2 DEF ClientEndInv, storeVars, Store!Holds, Quiet
  <2>6. \A m \in Messages : m # f.of => settled'[m] = settled[m]
    BY <2>2
  <2>7. \A c \in Requests : settled'[c] = settled[c]
    BY <2>1, <2>6, MessageFacts
  <2>8. \A m \in Notes : ToSend(Client, Opening, m)' => settled'[m] = settled[m]
    BY <2>1, <2>6, MessageFacts
  <2> QED
    BY <1>1, <1>2, <1>3, <2>4, <2>5, <2>7, <2>8, QuietKeeps DEF storeVars
<1>5. CASE f.op # "NOTIFY"
  <2>1. settled' = settled /\ (f.op # "CLOSE" => clientShutdown' = clientShutdown)
        /\ (f.op = "CLOSE" => clientShutdown' = "closeSent")
    BY <1>0, <1>5 DEF ClientSent
  <2>2. CallsInv'
    BY <1>1, <2>1 DEF storeVars, CallsInv, PendingIffUnsettled, Store!Holds
  <2>3. ClientEndInv'
    BY <1>1, <1>2, <2>1 DEF ClientEndInv, storeVars, Store!Holds, Quiet
  <2> QED
    BY <1>1, <1>2, <1>3, <2>1, <2>2, <2>3, QuietKeeps DEF storeVars
<1> QED
  BY <1>4, <1>5

(* What a shutdown of the client does to the calls.                        *)
SweptOut(why) ==
    /\ CallsInv' /\ UNCHANGED registered /\ aborted' \in SUBSET Messages
    /\ \A c \in Requests : ~Store!Holds(c)'
    /\ \A m \in Notes : settled'[m] = settled[m]
    /\ \A c \in Requests : settled'[c] = "completed" => settled[c] = "completed"

LEMMA RejectsAll ==
    ASSUME CallsInv, aborted \in SUBSET Messages, NEW why \in Causes, RejectAllPending(why),
           UNCHANGED made
    PROVE  SweptOut(why)
<1>1. Store!Sweep /\ Settle(why) /\ aborted' = aborted \cup HandedOut
  BY DEF RejectAllPending
<1> DEFINE es == Store!Present
<1>2. Taken(es) /\ es \in SUBSET Requests
  BY <1>1, SweepTaken DEF Store!Present
<1>3. CallsInv' /\ settled' = [m \in Messages |-> IF m \in es THEN why ELSE settled[m]]
  <2> HIDE DEF es
  <2> QED
    BY <1>1, <1>2, TakenSettles
<1>4. HandedOut = es /\ \A d \in Requests : Store!Holds(d)' <=> Store!Holds(d) /\ d \notin es
  <2> HIDE DEF es
  <2> QED
    BY <1>2, TakenHeld
<1>5. \A c \in Requests : ~Store!Holds(c)'
  BY <1>4 DEF Store!Present
<1>6. why # "completed" /\ es \cap Notes = {}
  BY <1>2, MessageFacts DEF Causes
<1>7. UNCHANGED registered
  BY <1>2 DEF Taken
<1> HIDE DEF es
<1>8. /\ \A m \in Notes : settled'[m] = settled[m]
      /\ \A c \in Requests : settled'[c] = "completed" => settled[c] = "completed"
  BY <1>3, <1>6, MessageFacts
<1>9. aborted' \in SUBSET Messages
  BY <1>1, <1>2, <1>4, MessageFacts
<1> QED
  BY <1>3, <1>5, <1>7, <1>8, <1>9 DEF SweptOut

LEMMA ClientCloseKeeps ==
    ASSUME SessionInv, ClientClose, UNCHANGED serverVars
    PROVE  SessionInv'
<1> USE DEF SessionInv
<1> DEFINE f == Frame("CLOSE", 0)
<1>1. f \in ClientFrames /\ f.op \notin Opening /\ clientClosed' /\ Enqueue(Client, f, TRUE, TRUE)
  BY DEF ClientFrames, Opening, Frame, ClientClose
<1>2. Quiet /\ jobs'[Client] # <<>> /\ jobs'[Server] = jobs[Server]
  BY <1>1, QuietPush DEF ClientClose, DuplexType
<1>3. UNCHANGED <<made, storeVars, settled, ringState, shut, wire, granted, aborted>>
  BY DEF ClientClose
<1>4. CallsInv' /\ UNCHANGED registered
  BY <1>3 DEF storeVars, CallsInv, PendingIffUnsettled, Store!Holds
<1>5. ClientEndInv'
  BY DEF ClientEndInv, ClientClose
<1>6. RingsType' /\ Granting'
  BY <1>2, <1>3, SideFacts DEF DuplexType, RingsType, Granting
<1> QED
  BY <1>2, <1>3, <1>4, <1>5, <1>6, QuietKeeps

LEMMA ClientCloseEndsKeeps ==
    ASSUME SessionInv, ClientCloseEnds, UNCHANGED serverVars
    PROVE  SessionInv'
<1> USE DEF SessionInv
<1>1. RejectAllPending("cancelled") /\ UNCHANGED <<made, clientClosed, wire, jobs, granted>>
      /\ clientShutdown' = "done" /\ clientShutdown # "none" /\ clientClosed
  BY DEF ClientCloseEnds, ClientEndInv
<1>2. SweptOut("cancelled")
  BY <1>1, RejectsAll DEF DuplexType, Granting, Causes
<1>3. Quiet
  BY <1>1, QuietNone DEF DuplexType
<1>4. ClientEndInv'
  BY <1>1, <1>2 DEF ClientEndInv, SweptOut
<1>5. RingsType'
  BY RingsEnd, SideFacts DEF ClientCloseEnds, ForceClose, DuplexType, RingsType
<1>6. Granting'
  BY <1>1, <1>2 DEF DuplexType, Granting, SweptOut
<1> QED
  BY <1>1, <1>2, <1>3, <1>4, <1>5, <1>6, QuietKeeps DEF SweptOut

LEMMA AbortsNow ==
    ASSUME SessionInv, NEW why \in Causes, NEW state \in {"closed", "errored"}, AbortNow(why, state),
           Quiet, \A side \in Sides : Len(wire'[side]) <= Len(wire[side]), UNCHANGED serverVars
    PROVE  SessionInv'
<1> USE DEF SessionInv
<1>1. /\ RejectAllPending(why) /\ UNCHANGED <<made, jobs, granted>>
      /\ clientShutdown' = "done" /\ clientClosed' = TRUE
  BY DEF AbortNow
<1>2. SweptOut(why)
  BY <1>1, RejectsAll DEF DuplexType, Granting
<1>4. ClientEndInv'
  BY <1>1, <1>2 DEF ClientEndInv, SweptOut
<1>5. RingsType'
  BY RingsEnd, SideFacts DEF AbortNow, DuplexType
<1>6. Granting'
  <2>1. \A side \in Sides : Len(wire[side]) \in Nat /\ Len(wire'[side]) \in Nat
    BY DEF DuplexType, WireType, Quiet
  <2> QED
    BY <1>1, <1>2, <2>1, DuplexAssumption DEF DuplexType, Granting, SweptOut
<1> QED
  BY <1>1, <1>2, <1>4, <1>5, <1>6, QuietKeeps DEF SweptOut

LEMMA ClientAbortKeeps ==
    ASSUME SessionInv, ClientAbort, UNCHANGED serverVars
    PROVE  SessionInv'
<1> USE DEF SessionInv
<1>1. AbortNow("cancelled", "closed") /\ UNCHANGED <<wire, jobs>>
  BY DEF ClientAbort, AbortNow
<1>2. Quiet
  BY <1>1, QuietNone DEF DuplexType
<1>3. \A side \in Sides : Len(wire'[side]) <= Len(wire[side])
  BY <1>1 DEF DuplexType, WireType
<1> QED
  BY <1>1, <1>2, <1>3, AbortsNow DEF Causes

LEMMA ClientReceiveFailsKeeps ==
    ASSUME SessionInv, ClientReceiveFails, UNCHANGED serverVars
    PROVE  SessionInv'
<1> USE DEF SessionInv
<1>1. UNCHANGED <<wire, jobs>>
  BY DEF ClientReceiveFails, AbortNow
<1>2. Quiet
  BY <1>1, QuietNone DEF DuplexType
<1>3. CASE clientClosed
  <2>1. UNCHANGED <<made, storeVars, settled, clientClosed, clientShutdown,
                    ringState, shut, jobs, granted, aborted>>
    BY <1>3 DEF ClientReceiveFails
  <2>2. CallsInv' /\ UNCHANGED registered
    BY <2>1 DEF storeVars, CallsInv, PendingIffUnsettled, Store!Holds
  <2>3. ClientEndInv'
    BY <1>2, <2>1 DEF ClientEndInv, storeVars, Store!Holds, Quiet
  <2>4. RingsType' /\ Granting'
    BY <1>1, <2>1 DEF DuplexType, RingsType, Granting
  <2> QED
    BY <1>2, <2>1, <2>2, <2>3, <2>4, QuietKeeps
<1>4. CASE ~clientClosed
  <2>1. AbortNow(EndCause, "closed") /\ EndCause \in Causes
    BY <1>4 DEF ClientReceiveFails, EndCause, Causes
  <2>2. \A side \in Sides : Len(wire'[side]) <= Len(wire[side])
    BY <1>1 DEF DuplexType, WireType
  <2> QED
    BY <1>2, <2>1, <2>2, AbortsNow
<1> QED
  BY <1>3, <1>4

LEMMA NotifyAbortKeeps ==
    ASSUME SessionInv, NEW m \in Notes, NotifyAbort(m), UNCHANGED serverVars
    PROVE  SessionInv'
<1> USE DEF SessionInv
<1>1. UNCHANGED <<clientVars, ringState, shut, wire, jobs, granted>> /\ aborted' = aborted \cup {m}
  BY DEF NotifyAbort
<1>2. Quiet
  BY <1>1, QuietNone DEF DuplexType
<1>3. RingsType' /\ Granting'
  BY <1>1, MessageFacts DEF DuplexType, RingsType, Granting
<1>4. CallsInv' /\ ClientEndInv' /\ UNCHANGED <<made, registered, settled>>
  BY <1>1, <1>2 DEF clientVars, storeVars, CallsInv, ClientEndInv, PendingIffUnsettled,
     Store!Holds, Quiet
<1> QED
  BY <1>2, <1>3, <1>4, QuietKeeps

LEMMA ClientSendFailsKeeps ==
    ASSUME SessionInv, ClientSendFails, UNCHANGED serverVars
    PROVE  SessionInv'
<1> USE DEF SessionInv
<1>0. PICK f : f = HeadJob(Client).frame
  OBVIOUS
<1>1. PICK why \in Causes :
        /\ DropHead(Client, why)
        /\ \/ f.op = "REQUEST" /\ Reject(f.of, why)
           \/ /\ f.op = "NOTIFY" /\ settled' = [settled EXCEPT ![f.of] = why]
              /\ UNCHANGED <<storeVars, aborted>>
           \/ f.op \in {"CANCEL", "CLOSE"} /\ UNCHANGED <<storeVars, settled, aborted>>
        /\ clientShutdown' = IF f.op = "CLOSE" THEN "closeFailed" ELSE clientShutdown
        /\ UNCHANGED <<made, clientClosed, clientLoop, ringState, shut>>
  BY <1>0 DEF ClientSendFails
<1>2. /\ jobs[Client] # <<>> /\ ~granted[Client] /\ jobs' = [jobs EXCEPT ![Client] = Tail(@)]
      /\ UNCHANGED <<wire, granted>>
  BY <1>1 DEF DropHead
<1>3. /\ Quiet /\ jobs'[Server] = jobs[Server] /\ f \in ClientFrames
      /\ f.op = "CLOSE" => ToSend(Client, {"CLOSE"}, 0)
      /\ f.op \in Opening => ToSend(Client, Opening, f.of) /\ ~ToSend(Client, Opening, f.of)'
  BY <1>0, <1>2, QuietPop DEF DuplexType
<1>4. RingsType'
  BY <1>1 DEF DuplexType, RingsType
<1>5. aborted' \subseteq Messages => Granting'
  BY <1>2, <1>3, SideFacts DEF DuplexType, Granting
<1>6. why # "completed" /\ UNCHANGED made
  BY <1>1 DEF Causes
<1>7. CASE f.op = "REQUEST"
  <2>1. PICK c \in Requests : c = f.of
    BY <1>3, <1>7 DEF ClientFrames
  <2>2. Reject(c, why) /\ UNCHANGED clientShutdown
    BY <1>1, <1>7, <2>1
  <2>3. registered[c] # 0
    BY <1>3, <1>7, <2>1, MessageFacts DEF MessageInv, Coming, Known, Opening
  <2>4. PICK es \in SUBSET {c} : Taken(es)
    BY <2>2, <2>3, RegistrationTaken DEF Reject
  <2>5. es \in SUBSET Requests /\ Settle(why)
    BY <2>2 DEF Reject
  <2>6. CallsInv' /\ settled' = [m \in Messages |-> IF m \in es THEN why ELSE settled[m]]
    BY <1>6, <2>4, <2>5, TakenSettles
  <2>7. HandedOut = es /\ \A d \in Requests : Store!Holds(d)' <=> Store!Holds(d) /\ d \notin es
    BY <2>4, <2>5, TakenHeld
  <2>8. ClientEndInv'
    BY <1>1, <1>3, <2>2, <2>7 DEF ClientEndInv, Quiet
  <2>9. aborted' \subseteq Messages
    BY <2>2, <2>7, MessageFacts DEF Reject, DuplexType, Granting
  <2>10. /\ \A m \in Notes : settled'[m] = settled[m]
         /\ \A d \in Requests : settled'[d] = "completed" => settled[d] = "completed"
    BY <1>6, <2>5, <2>6, MessageFacts
  <2>11. UNCHANGED registered
    BY <2>4 DEF Taken
  <2> QED
    BY <1>3, <1>4, <1>5, <1>6, <2>6, <2>8, <2>9, <2>10, <2>11, QuietKeeps
<1>8. CASE f.op = "NOTIFY"
  <2>1. f.of \in Notes /\ ToSend(Client, Opening, f.of) /\ ~ToSend(Client, Opening, f.of)'
    BY <1>3, <1>8 DEF ClientFrames, Opening
  <2>2. settled' = [settled EXCEPT ![f.of] = why] /\ UNCHANGED <<clientShutdown, storeVars, aborted>>
    BY <1>1, <1>8
  <2>3. f.of <= made
    BY <2>1, MessageFacts DEF MessageInv, Coming, Known
  <2>4. CallsInv'
    BY <1>6, <2>1, <2>2, <2>3, NoteSettles
  <2>5. ClientEndInv'
    BY <1>1, <1>3, <2>2 DEF ClientEndInv, storeVars, Store!Holds, Quiet
  <2>6. \A m \in Messages : m # f.of => settled'[m] = settled[m]
    BY <2>2
  <2>7. \A c \in Requests : settled'[c] = settled[c]
    BY <2>1, <2>6, MessageFacts
  <2>8. \A m \in Notes : ToSend(Client, Opening, m)' => settled'[m] = settled[m]
    BY <2>1, <2>6, MessageFacts
  <2>9. aborted' \subseteq Messages
    BY <2>2 DEF DuplexType, Granting
  <2> QED
    BY <1>3, <1>4, <1>5, <1>6, <2>2, <2>4, <2>5, <2>7, <2>8, <2>9, QuietKeeps DEF storeVars
<1>9. CASE f.op \in {"CANCEL", "CLOSE"}
  <2>1. UNCHANGED <<storeVars, settled, aborted>> /\ (f.op # "CLOSE" => UNCHANGED clientShutdown)
        /\ (f.op = "CLOSE" => clientShutdown' = "closeFailed")
    BY <1>1, <1>9
  <2>2. CallsInv'
    BY <1>6, <2>1 DEF storeVars, CallsInv, PendingIffUnsettled, Store!Holds
  <2>3. ClientEndInv'
    BY <1>1, <1>3, <2>1 DEF ClientEndInv, storeVars, Store!Holds, Quiet
  <2>4. aborted' \subseteq Messages
    BY <2>1 DEF DuplexType, Granting
  <2> QED
    BY <1>3, <1>4, <1>5, <1>6, <2>1, <2>2, <2>3, <2>4, QuietKeeps DEF storeVars
<1> QED
  BY <1>1, <1>7, <1>8, <1>9

LEMMA ClientReceiveKeeps ==
    ASSUME SessionInv, ClientReceive, UNCHANGED serverVars
    PROVE  SessionInv'
<1> USE DEF SessionInv
<1>0. PICK f : f = Arrival(Client)
  OBVIOUS
<1>1. /\ Arrived(Client) /\ TakeFrame(Client)
      /\ \/ f.op \in Answering /\ (Answer(f) \/ AnswerFails(f))
         \/ f.op = "CLOSE" /\ ~clientClosed /\ AbortNow("cancelled", "closed")
         \/ /\ f.op = "CLOSE" /\ clientClosed
            /\ UNCHANGED <<made, storeVars, settled, clientClosed, clientShutdown>>
            /\ UNCHANGED <<ringState, shut, jobs, granted, aborted>>
  BY <1>0 DEF ClientReceive, Answering
<1>2. UNCHANGED jobs
  BY <1>1 DEF Answer, AnswerFails, AbortNow
<1>3. /\ Quiet /\ f \in ServerFrames /\ wire'[Client] = wire[Client]
      /\ Len(wire'[Server]) = Len(wire[Server]) - 1 /\ Len(wire[Server]) > 0
      /\ f.op \in Answering => OnWire(Server, Answering, f.of)
  BY <1>0, <1>1, <1>2, QuietTake
<1>4. \A side \in Sides : Len(wire[side]) \in Nat /\ Len(wire'[side]) <= Len(wire[side])
  <2>1. \A side \in Sides : Len(wire[side]) \in Nat
    BY DEF DuplexType, WireType
  <2>2. Len(wire'[Server]) <= Len(wire[Server]) /\ Len(wire'[Client]) <= Len(wire[Client])
    BY <1>3, <2>1, SideFacts
  <2> QED
    BY <2>1, <2>2, SideFacts
<1>5. ASSUME UNCHANGED <<ringState, shut, jobs, granted, aborted>> PROVE RingsType' /\ Granting'
  <2>1. RingsType'
    BY <1>5 DEF DuplexType, RingsType
  <2>2. \A side \in Sides : Len(wire'[side]) \in Nat
    BY <1>3 DEF Quiet, WireType
  <2>3. \A side \in Sides : Len(wire'[side]) <= Slots /\ (granted[side] => Len(wire'[side]) < Slots)
    BY <1>4, <2>2, DuplexAssumption DEF DuplexType, Granting
  <2> QED
    BY <1>5, <2>1, <2>3 DEF DuplexType, Granting
<1>6. ASSUME UNCHANGED <<made, storeVars, settled, clientClosed, clientShutdown>>,
             UNCHANGED <<ringState, shut, jobs, granted, aborted>>
      PROVE  SessionInv'
  <2>1. CallsInv' /\ UNCHANGED registered
    BY <1>6 DEF storeVars, CallsInv, PendingIffUnsettled, Store!Holds
  <2>2. ClientEndInv'
    BY <1>3, <1>6 DEF ClientEndInv, storeVars, Store!Holds, Quiet
  <2> QED
    BY <1>3, <1>5, <1>6, <2>1, <2>2, QuietKeeps
<1>7. CASE f.op \in Answering /\ Answer(f)
  <2>1. PICK c \in Requests : c = f.of
    BY <1>3, <1>7 DEF ServerFrames, Answering
  <2>2. registered[c] # 0
    BY <1>3, <1>7, <2>1, MessageFacts DEF MessageInv, Known
  <2>3. PICK how \in {"completed", "failed"} : Settle(how)
    BY <1>7 DEF Answer
  <2>4. PICK es \in SUBSET {c} : Taken(es)
    BY <1>7, <2>1, <2>2, UntrustedTaken DEF Answer
  <2>5. es \in SUBSET Requests /\ how \in Causes \cup {"completed"} /\ UNCHANGED made
    BY <1>7, <2>1 DEF Causes, Answer
  <2>6. CallsInv' /\ settled' = [m \in Messages |-> IF m \in es THEN how ELSE settled[m]]
    BY <2>3, <2>4, <2>5, TakenSettles
  <2>7. \A d \in Requests : Store!Holds(d)' <=> Store!Holds(d) /\ d \notin es
    BY <2>4, <2>5, TakenHeld
  <2>8. ClientEndInv'
    BY <1>3, <1>7, <2>7 DEF ClientEndInv, Quiet, Answer
  <2>9. /\ \A m \in Notes : settled'[m] = settled[m]
        /\ \A d \in Requests : settled'[d] = "completed" =>
                                  settled[d] = "completed" \/ OnWire(Server, Answering, d)
    BY <1>3, <1>7, <2>1, <2>4, <2>6, MessageFacts
  <2>10. UNCHANGED registered
    BY <2>4 DEF Taken
  <2>11. RingsType' /\ Granting'
    BY <1>5, <1>7 DEF Answer
  <2> QED
    BY <1>3, <2>5, <2>6, <2>8, <2>9, <2>10, <2>11, QuietKeeps
<1>8. CASE f.op \in Answering /\ AnswerFails(f) /\ ~clientClosed
  <2>1. PICK state \in {"closed", "errored"} : AbortNow("failed", state)
    BY <1>8 DEF AnswerFails
  <2> QED
    BY <1>3, <1>4, <2>1, AbortsNow DEF Causes
<1>9. CASE f.op \in Answering /\ AnswerFails(f) /\ clientClosed
  BY <1>6, <1>9 DEF AnswerFails
<1>10. CASE f.op = "CLOSE" /\ ~clientClosed /\ AbortNow("cancelled", "closed")
  BY <1>3, <1>4, <1>10, AbortsNow DEF Causes
<1> QED
  BY <1>1, <1>6, <1>7, <1>8, <1>9, <1>10

LEMMA MakeInVainKeeps ==
    ASSUME SessionInv, MakeInVain, UNCHANGED serverVars
    PROVE  SessionInv'
<1> USE DEF SessionInv
<1>0. PICK m \in Messages : m = made + 1
  BY DEF MakeInVain
<1>1. /\ made' = m /\ settled' = [settled EXCEPT ![m] = "cancelled"]
      /\ UNCHANGED <<storeVars, clientClosed, clientShutdown, duplexVars>>
  BY <1>0 DEF MakeInVain
<1>2. made \in Nat /\ m \in Nat /\ made' = made + 1 /\ made' \in 0 .. Made
  BY <1>0, <1>1, DuplexAssumption, MessageFacts DEF CallsInv, Messages
<1>3. \A n \in Messages : Known(n) => Known(n)' /\ n # m
  BY <1>0, <1>1, <1>2, MessageFacts DEF Known, storeVars
<1>4. Quiet
  BY <1>1, QuietNone DEF duplexVars, DuplexType
<1>5. RingsType' /\ Granting'
  BY <1>1 DEF duplexVars, DuplexType, RingsType, Granting
<1>6. \A n \in Notes : ToSend(Client, Opening, n)' => settled'[n] = settled[n]
  <2> SUFFICES ASSUME NEW n \in Notes, ToSend(Client, Opening, n)'
               PROVE  settled'[n] = settled[n]
    OBVIOUS
  <2>1. n \in Messages /\ Known(n)
    BY <1>4, MessageFacts DEF Quiet, MessageInv, Coming
  <2> QED
    BY <1>1, <1>3, <2>1 DEF CallsInv
<1>7. \A c \in Requests : settled'[c] = "completed" => settled[c] = "completed"
  BY <1>1, MessageFacts DEF CallsInv
<1>8. CallsInv'
  <2>1. \A c \in Requests : registered[c] # 0 => settled'[c] = settled[c]
    BY <1>0, <1>1, <1>2, MessageFacts DEF CallsInv
  <2>2. PendingIffUnsettled'
    BY <1>1, <2>1 DEF CallsInv, PendingIffUnsettled, storeVars, Store!Holds
  <2>3. \A n \in Messages : settled'[n] # NoCause => n <= made'
    BY <1>0, <1>1, <1>2, MessageFacts DEF CallsInv
  <2>4. settled' \in [Messages -> Causes \cup {NoCause, "completed"}]
    BY <1>1 DEF CallsInv, Causes
  <2>5. /\ nextRequestId' \in 1 .. made' + 1
        /\ \A c \in Requests : registered'[c] # 0 => registered'[c] < nextRequestId' /\ c <= made'
    BY <1>1, <1>2, MessageFacts DEF CallsInv, storeVars
  <2> QED
    BY <1>1, <1>2, <2>2, <2>3, <2>4, <2>5 DEF CallsInv, storeVars, Store!Holds
<1>9. ClientEndInv'
  BY <1>1, <1>4 DEF ClientEndInv, storeVars, Store!Holds, Quiet
<1> QED
  BY <1>3, <1>4, <1>5, <1>6, <1>7, <1>8, <1>9, QuietGrows

(* A new message is one of which neither end knows anything.               *)
LEMMA Unheard ==
    ASSUME SessionInv, NEW m \in Messages, m = made + 1
    PROVE  /\ ~Known(m) /\ ~Coming(m) /\ settled[m] = NoCause /\ (m \in Requests => registered[m] = 0)
           /\ phase[m] = "idle" /\ ~IsQueued(m) /\ outcomes[m] = {} /\ made \in Nat /\ m <= Made
<1>1. made \in Nat /\ m <= Made /\ m \in Nat /\ ~(m <= made)
  BY DuplexAssumption, MessageFacts DEF SessionInv, CallsInv, Messages
<1>2. ~Known(m) /\ settled[m] = NoCause /\ (m \in Requests => registered[m] = 0)
  BY <1>1, MessageFacts DEF Known, SessionInv, CallsInv
<1>3. MessageInv(m)
  BY DEF SessionInv
<1> QED
  BY <1>1, <1>2, <1>3 DEF MessageInv

LEMMA NewMessage ==
    ASSUME SessionInv, NEW m \in Messages, m = made + 1, made' = m, UNCHANGED serverVars,
           NEW f, f.op \in Opening, f.op # "CLOSE", f.of = m, JobPushed(Client, f),
           UNCHANGED <<ringState, shut, wire, granted, aborted, settled, clientClosed>>,
           clientShutdown' = clientShutdown, ~clientClosed,
           Known(m)', \A n \in Messages : Known(n) => Known(n)', CallsInv'
    PROVE  SessionInv'
<1>1. /\ \A n : ToSend(Client, Opening, n)' <=> ToSend(Client, Opening, n) \/ n = m
      /\ \A n : ToSend(Server, Answering, n)' <=> ToSend(Server, Answering, n)
      /\ ToSend(Client, {"CLOSE"}, 0)' => ToSend(Client, {"CLOSE"}, 0)
      /\ ToSend(Server, {"CLOSE"}, 0)' => ToSend(Server, {"CLOSE"}, 0)
      /\ Once(FramesOf(jobs[Client]), Opening) /\ ~ToSend(Client, Opening, m) =>
            Once(FramesOf(jobs[Client]), Opening)'
      /\ jobs'[Server] = jobs[Server] /\ jobs'[Client] # <<>> /\ JobsType'
  BY SideFacts DEF JobPushed
<1>2. \A side, ops, n : OnWire(side, ops, n)' <=> OnWire(side, ops, n)
  BY DEF OnWire
<1>3. ~Known(m) /\ ~Coming(m) /\ phase[m] = "idle" /\ ~IsQueued(m) /\ outcomes[m] = {} /\ settled[m] = NoCause
  BY Unheard
<1>4. SentOnce'
  BY <1>1, <1>2, <1>3 DEF SessionInv, SentOnce, Coming
<1>5. DuplexType'
  <2>1. RingsType'
    BY DEF SessionInv, DuplexType, RingsType
  <2>2. Granting'
    BY <1>1, SideFacts DEF SessionInv, DuplexType, Granting
  <2>3. WireType'
    BY DEF SessionInv, DuplexType, WireType
  <2> QED
    BY <1>1, <2>1, <2>2, <2>3 DEF DuplexType
<1>6. ClientEndInv'
  BY <1>1 DEF SessionInv, ClientEndInv
<1>7. ServerInv'
  BY ServerKept DEF SessionInv
<1>8. ASSUME NEW n \in Messages PROVE MessageInv(n)'
  <2>1. MessageInv(n) /\ (Coming(n)' <=> Coming(n) \/ n = m)
    BY <1>1, <1>2 DEF SessionInv, Coming
  <2>2. IsQueued(n)' <=> IsQueued(n)
    BY DEF serverVars, IsQueued
  <2> QED
    BY <1>1, <1>2, <1>3, <2>1, <2>2 DEF MessageInv, serverVars
<1>9. CloseInv'
  BY <1>1 DEF SessionInv, CloseInv, serverVars
<1> QED
  BY <1>4, <1>5, <1>6, <1>7, <1>8, <1>9 DEF SessionInv, CallsInv

LEMMA NotifyKeeps ==
    ASSUME SessionInv, Notify, UNCHANGED serverVars
    PROVE  SessionInv'
<1> USE DEF SessionInv
<1>0. PICK m \in Messages : m = made + 1 /\ m \in Notes
  BY MessageFacts DEF Notify
<1>1. /\ made' = m /\ ~clientClosed
      /\ Enqueue(Client, Frame("NOTIFY", m), m \in Timed, m \notin Oversize)
      /\ UNCHANGED <<storeVars, settled, clientClosed, clientShutdown>>
      /\ UNCHANGED <<ringState, shut, wire, granted, aborted>>
  BY <1>0 DEF Notify
<1> DEFINE f == Frame("NOTIFY", m)
<1>2. f \in ClientFrames /\ f.op = "NOTIFY" /\ f.of = m
  BY <1>0 DEF Frame, ClientFrames
<1>3. JobPushed(Client, f)
  <2>1. (m \in Timed) \in BOOLEAN /\ (m \notin Oversize) \in BOOLEAN
    OBVIOUS
  <2>2. PICK timed \in BOOLEAN, fits \in BOOLEAN : Enqueue(Client, f, timed, fits)
    BY <1>1, <2>1, Zenon
  <2> QED
    BY <1>2, <2>2, Pushes, SideFacts DEF FramesFrom, DuplexType
<1>4. ~Known(m) /\ made \in Nat /\ m <= Made
  BY <1>0, Unheard
<1>5. Known(m)' /\ \A n \in Messages : Known(n) => Known(n)'
  BY <1>0, <1>1, <1>4, MessageFacts DEF Known, storeVars
<1>6. CallsInv'
  <2>1. made' \in 0 .. Made /\ nextRequestId \in 1 .. made' + 1
    BY <1>0, <1>1, <1>4, DuplexAssumption DEF CallsInv
  <2>2. \A c \in Requests : c <= made => c <= made'
    BY <1>0, <1>1, <1>4, MessageFacts
  <2>3. \A n \in Messages : n <= made => n <= made'
    BY <1>0, <1>1, <1>4, MessageFacts
  <2>4. PendingIffUnsettled' /\ \A c \in Requests : Store!Holds(c)' <=> Store!Holds(c)
    BY <1>1 DEF CallsInv, PendingIffUnsettled, storeVars, Store!Holds
  <2> QED
    BY <1>1, <2>1, <2>2, <2>3, <2>4 DEF CallsInv, storeVars
<1> QED
  BY <1>0, <1>1, <1>2, <1>3, <1>5, <1>6, NewMessage DEF Opening

(* The id a call gets is the next one: none is in use from there on.       *)
LEMMA Allocates ==
    ASSUME CallsInv, NEW c \in Requests, made + 1 = c, NEW id \in Store!Ids, Store!IsAllocated(id)
    PROVE  id = nextRequestId /\ pending[id] = 0 /\ Store!Successor(id) = id + 1 /\ id + 1 \in 1 .. c + 1
<1>1. /\ nextRequestId \in Nat /\ made \in Nat /\ Made \in Nat /\ id \in Nat /\ id > 0 /\ id <= Made + 1
      /\ 1 <= nextRequestId /\ nextRequestId <= made + 1 /\ made + 1 <= Made
  BY IdFacts DEF CallsInv
<1>2. nextRequestId \in Store!Ids
  BY <1>1, IdFacts
<1>3. pending[nextRequestId] = 0
  <2> SUFFICES ASSUME pending[nextRequestId] # 0 PROVE FALSE
    OBVIOUS
  <2>1. pending[nextRequestId] \in Requests /\ registered[pending[nextRequestId]] = nextRequestId
    BY <1>2 DEF CallsInv
  <2>2. registered[pending[nextRequestId]] < nextRequestId
    BY <1>1, <2>1 DEF CallsInv
  <2> QED
    BY <1>1, <2>1, <2>2
<1>4. pending[id] = 0 /\ Store!Distance(id) <= Store!Distance(nextRequestId)
  BY <1>2, <1>3 DEF Store!IsAllocated
<1>5. Store!Distance(nextRequestId) = 0
  BY <1>1 DEF Store!Distance
<1>6. id = nextRequestId
  <2>1. CASE id >= nextRequestId
    <3>1. Store!Distance(id) = id - nextRequestId
      BY <2>1 DEF Store!Distance
    <3> QED
      BY ONLY <1>1, <1>4, <1>5, <2>1, <3>1
  <2>2. CASE ~(id >= nextRequestId)
    <3>1. Store!Distance(id) = id + (Made + 1) - nextRequestId
      BY <2>2 DEF Store!Distance
    <3> QED
      BY ONLY <1>1, <1>4, <1>5, <2>2, <3>1
  <2> QED
    BY <2>1, <2>2
<1>7. Store!Successor(id) = id + 1
  BY <1>1, <1>6 DEF Store!Successor
<1> QED
  BY <1>1, <1>4, <1>6, <1>7

LEMMA CallKeeps ==
    ASSUME SessionInv, Call, UNCHANGED serverVars
    PROVE  SessionInv'
<1> USE DEF SessionInv
<1>0. PICK m \in Requests : m = made + 1
  BY DEF Call
<1>m. m \in Messages
  BY MessageFacts
<1>1. /\ made' = m /\ ~clientClosed /\ Store!Insert(m)
      /\ Enqueue(Client, Frame("REQUEST", m), m \in Timed, m \notin Oversize)
      /\ UNCHANGED <<settled, clientClosed, clientShutdown>>
      /\ UNCHANGED <<ringState, shut, wire, granted, aborted>>
  BY <1>0 DEF Call
<1> DEFINE f == Frame("REQUEST", m)
<1>2. f \in ClientFrames /\ f.op = "REQUEST" /\ f.of = m
  BY DEF Frame, ClientFrames
<1>3. JobPushed(Client, f)
  <2>1. (m \in Timed) \in BOOLEAN /\ (m \notin Oversize) \in BOOLEAN
    OBVIOUS
  <2>2. PICK timed \in BOOLEAN, fits \in BOOLEAN : Enqueue(Client, f, timed, fits)
    BY <1>1, <2>1, Zenon
  <2> QED
    BY <1>2, <2>2, Pushes, SideFacts DEF FramesFrom, DuplexType
<1>4. ~Known(m) /\ made \in Nat /\ m <= Made /\ registered[m] = 0 /\ settled[m] = NoCause
  BY <1>0, <1>m, Unheard
<1>5. PICK id \in Store!Ids :
        /\ Store!IsAllocated(id)
        /\ pending' = [pending EXCEPT ![id] = m] /\ nextRequestId' = Store!Successor(id)
        /\ registered' = [registered EXCEPT ![m] = id] /\ witnessed' = witnessed \cup {m}
        /\ UNCHANGED <<released, releases>>
  BY <1>1 DEF Store!Insert
<1>6. /\ id = nextRequestId /\ pending[id] = 0 /\ nextRequestId' = id + 1 /\ id + 1 \in 1 .. m + 1
      /\ id # 0 /\ id \in Nat
  BY <1>0, <1>5, Allocates, IdFacts
<1>7. \A c \in Requests : c # m => registered'[c] = registered[c]
  BY <1>5
<1>8. registered'[m] = id /\ m # 0
  BY <1>5, IdFacts DEF CallsInv
<1>9. Known(m)' /\ \A n \in Messages : Known(n) => Known(n)'
  <2>1. \A n \in Messages : n <= made => n <= made'
    BY <1>0, <1>1, <1>4, MessageFacts
  <2>2. m <= made'
    BY <1>1, MessageFacts
  <2> QED
    BY <1>6, <1>7, <1>8, <2>1, <2>2, <1>4 DEF Known
<1>10. \A c \in Requests : registered[c] # 0 => registered[c] < id /\ registered[c] \in Store!Ids /\ c # m
  BY <1>4, <1>6 DEF CallsInv
<1>11. \A c \in Requests : c # m => (Store!Holds(c)' <=> Store!Holds(c))
  <2> SUFFICES ASSUME NEW c \in Requests, c # m PROVE Store!Holds(c)' <=> Store!Holds(c)
    OBVIOUS
  <2>1. CASE registered[c] = 0
    BY <1>7, <2>1, IdFacts DEF Store!Holds
  <2>2. CASE registered[c] # 0
    <3>1. registered[c] # id
      BY <1>6, <1>10, <2>2, IdFacts
    <3>2. pending'[registered[c]] = pending[registered[c]]
      BY <1>5, <1>10, <2>2, <3>1 DEF CallsInv
    <3> QED
      BY <1>7, <3>2 DEF Store!Holds
  <2> QED
    BY <2>1, <2>2
<1>12. Store!Holds(m)' /\ ~Store!Holds(m)
  BY <1>4, <1>5, <1>6, <1>8, IdFacts DEF CallsInv, Store!Holds
<1>13. CallsInv'
  <2>1. made' \in 0 .. Made /\ nextRequestId' \in 1 .. made' + 1
    BY <1>0, <1>1, <1>4, <1>6, IdFacts
  <2>2. \A n \in Messages : settled[n] # NoCause => n <= made'
    BY <1>0, <1>1, <1>4, MessageFacts DEF CallsInv
  <2>3. PendingIffUnsettled'
    BY <1>1, <1>4, <1>7, <1>8, <1>11, <1>12 DEF CallsInv, PendingIffUnsettled
  <2>4. pending' \in [Store!Ids -> Requests \cup {0}] /\ registered' \in [Requests -> Store!Ids \cup {0}]
    BY <1>5 DEF CallsInv
  <2>5. witnessed' = {c \in Requests : registered'[c] # 0}
    BY <1>5, <1>6, <1>7, <1>8 DEF CallsInv
  <2>6. released' = {c \in witnessed' : ~Store!Holds(c)'}
    <3>1. witnessed' = witnessed \cup {m} /\ m \notin witnessed /\ released' = released
      BY <1>4, <1>5 DEF CallsInv
    <3>2. \A c \in witnessed : c \in Requests /\ c # m
      BY <3>1 DEF CallsInv
    <3>3. released = {c \in witnessed : ~Store!Holds(c)}
      BY DEF CallsInv
    <3>4. \A c \in witnessed : Store!Holds(c)' <=> Store!Holds(c)
      BY <1>11, <3>2
    <3> QED
      BY ONLY <1>12, <3>1, <3>3, <3>4
  <2>7. \A c \in Requests : registered'[c] # 0 => registered'[c] < nextRequestId' /\ c <= made'
    <3> SUFFICES ASSUME NEW c \in Requests, registered'[c] # 0
                 PROVE  registered'[c] < nextRequestId' /\ c <= made'
      OBVIOUS
    <3>1. CASE c = m
      BY <1>1, <1>6, <1>8, <3>1, MessageFacts
    <3>2. CASE c # m
      <4>1. registered[c] # 0 /\ registered[c] < id /\ c <= made /\ registered[c] \in Nat /\ c \in Nat
        BY <1>7, <1>10, <3>2, IdFacts, MessageFacts DEF CallsInv
      <4> QED
        BY <1>0, <1>1, <1>4, <1>6, <1>7, <3>2, <4>1
    <3> QED
      BY <3>1, <3>2
  <2>8. \A c, d \in Requests : registered'[c] # 0 /\ registered'[c] = registered'[d] => c = d
    <3>1. \A c \in Requests : c # m => registered[c] # id
      BY <1>6, <1>10, IdFacts
    <3> QED
      BY <1>7, <1>8, <3>1 DEF CallsInv
  <2>9. \A i \in Store!Ids : pending'[i] # 0 => registered'[pending'[i]] = i
    <3> SUFFICES ASSUME NEW i \in Store!Ids, pending'[i] # 0 PROVE registered'[pending'[i]] = i
      OBVIOUS
    <3>1. CASE i = id
      BY <1>5, <1>8, <3>1 DEF CallsInv
    <3>2. CASE i # id
      <4>1. pending'[i] = pending[i] /\ pending[i] \in Requests /\ registered[pending[i]] = i
        BY <1>5, <3>2 DEF CallsInv
      <4>2. pending[i] # m
        BY <1>4, <4>1, IdFacts
      <4> QED
        BY <1>7, <4>1, <4>2
    <3> QED
      BY <3>1, <3>2
  <2> QED
    BY <1>1, <1>5, <2>1, <2>2, <2>3, <2>4, <2>5, <2>6, <2>7, <2>8, <2>9 DEF CallsInv
<1> QED
  BY <1>0, <1>m, <1>1, <1>2, <1>3, <1>9, <1>13, NewMessage DEF Opening

-----------------------------------------------------------------------------
(* Steps of the server leave the client's state alone.                     *)
Still == UNCHANGED clientVars /\ jobs'[Client] = jobs[Client]

LEMMA ServerGrantKeeps ==
    ASSUME SessionInv, ServerGrant, UNCHANGED clientVars
    PROVE  SessionInv'
<1> USE DEF SessionInv
<1>1. UNCHANGED <<ringState, shut, wire, jobs, aborted>> /\ UNCHANGED serverVars
  BY DEF ServerGrant, Grant
<1>2. Quiet
  BY <1>1, QuietNone DEF DuplexType
<1>3. Granting'
  BY <1>1, SideFacts DEF ServerGrant, Grant, DuplexType, Granting
<1>4. RingsType'
  BY <1>1 DEF DuplexType, RingsType
<1>5. CallsInv' /\ ClientEndInv' /\ UNCHANGED <<made, registered, settled>>
  BY <1>1, <1>2 DEF clientVars, storeVars, CallsInv, ClientEndInv, PendingIffUnsettled,
     Store!Holds, Quiet
<1> QED
  BY <1>1, <1>2, <1>3, <1>4, <1>5, QuietKeeps

LEMMA ClientKept ==
    ASSUME CallsInv, ClientEndInv, Still
    PROVE  /\ CallsInv' /\ ClientEndInv' /\ UNCHANGED <<settled, made>>
           /\ \A m : Known(m)' <=> Known(m)
           /\ \A ops, m : ToSend(Client, ops, m)' <=> ToSend(Client, ops, m)
<1>1. \A ops, m : ToSend(Client, ops, m)' <=> ToSend(Client, ops, m)
  BY DEF Still, ToSend
<1>2. \A m : Known(m)' <=> Known(m)
  BY DEF Still, Known, clientVars, storeVars
<1>3. CallsInv'
  BY DEF Still, clientVars, storeVars, CallsInv, PendingIffUnsettled, Store!Holds
<1>4. ClientEndInv'
  BY <1>1 DEF Still, clientVars, storeVars, ClientEndInv, Store!Holds
<1> QED
  BY <1>1, <1>2, <1>3, <1>4 DEF Still, clientVars

(* A message the step is not about.                                        *)
Same(m) ==
    /\ Coming(m)' => Coming(m)
    /\ IsQueued(m)' <=> IsQueued(m)
    /\ phase'[m] = phase[m] /\ outcomes'[m] = outcomes[m] /\ failure'[m] = failure[m]
    /\ ToSend(Server, Answering, m)' => ToSend(Server, Answering, m)
    /\ OnWire(Server, Answering, m)' => OnWire(Server, Answering, m)

LEMMA SameKept ==
    ASSUME CallsInv, ClientEndInv, Still, NEW m \in Messages, MessageInv(m), Same(m),
           serverClosed => serverClosed'
    PROVE  MessageInv(m)'
<1>1. /\ UNCHANGED <<settled, made>> /\ (Known(m)' <=> Known(m))
      /\ ToSend(Client, Opening, m)' <=> ToSend(Client, Opening, m)
  BY ClientKept
<1> QED
  BY <1>1 DEF MessageInv, Same

(* What the tables of the invocations have to look like, whatever is in    *)
(* them.                                                                   *)
Phases == InFlightPhases \cup {"idle", "refusing", "over"}
TablesType ==
    /\ abortReason \in [Messages -> Causes \cup {NoCause}]
    /\ outcomes \in [Messages -> SUBSET Outcomes]
    /\ failure \in [Messages -> Causes \cup {NoCause}]
    /\ serverLoop \in {"receiving", "refusing", "failed", "ended"}
CloseType ==
    /\ serverClosed \in BOOLEAN
    /\ serverShutdown \in {"none", "closing", "closeSent", "closeFailed", "draining", "done"}
    /\ serverClosed <=> serverShutdown # "none"
    /\ serverShutdown \in {"draining", "done"} => queue = <<>>
QueueInv ==
    /\ queue \in Seq(Requests) /\ Len(queue) <= MaxQueuedRequests
    /\ \A i, j \in 1 .. Len(queue) : queue[i] = queue[j] => i = j
RunInv ==
    /\ phase \in [Messages -> Phases]
    /\ Cardinality(inFlight) <= MaxInFlight
    /\ queue # <<>> /\ ~serverClosed => Cardinality(inFlight) = MaxInFlight
    /\ ShutdownLeavesNothing

LEMMA ServerInvParts == ServerInv <=> TablesType /\ CloseType /\ QueueInv /\ RunInv
BY DEF ServerInv, ServerTypeOK, LimitsExact, TablesType, CloseType, QueueInv, RunInv, Phases

LEMMA PartsKeep == ASSUME TablesType', CloseType', QueueInv', RunInv' PROVE ServerInv'
BY DEF ServerInv, ServerTypeOK, LimitsExact, TablesType, CloseType, QueueInv, RunInv, Phases

LEMMA QueueKept == ASSUME QueueInv, UNCHANGED queue PROVE QueueInv' /\ \A m : IsQueued(m)' <=> IsQueued(m)
BY DEF QueueInv, IsQueued

(* How many are in flight, when one message moves.                         *)
LEMMA InFlightFinite == IsFiniteSet(inFlight) /\ Cardinality(inFlight) \in Nat
<1>1. inFlight \subseteq Messages
  BY DEF inFlight
<1> QED
  BY <1>1, MessageFacts, FS_Subset, FS_CardinalityType

LEMMA Moves ==
    ASSUME phase \in [Messages -> Phases], NEW m \in Messages, NEW p \in Phases, Enter(m, p)
    PROVE  /\ phase' \in [Messages -> Phases] /\ phase'[m] = p
           /\ \A other \in Messages : other # m => phase'[other] = phase[other]
           /\ inFlight' = IF p \in InFlightPhases THEN inFlight \cup {m} ELSE inFlight \ {m}
           /\ m \in inFlight <=> phase[m] \in InFlightPhases
BY DEF Enter, inFlight

LEMMA MovesWithin ==
    ASSUME RunInv, NEW m \in Messages, NEW p \in Phases, Enter(m, p),
           p \in InFlightPhases <=> phase[m] \in InFlightPhases,
           queue' # <<>> => queue # <<>>, serverClosed => serverClosed',
           serverShutdown' = "done" => serverShutdown = "done" /\ queue' = <<>>,
           serverShutdown = "done" /\ p \in InFlightPhases => p \in {"stopping", "ending"}
    PROVE  RunInv'
<1>1. /\ phase' \in [Messages -> Phases] /\ phase'[m] = p
      /\ \A other \in Messages : other # m => phase'[other] = phase[other]
      /\ inFlight' = inFlight
  BY Moves DEF RunInv
<1> QED
  BY <1>1 DEF RunInv, ShutdownLeavesNothing, inFlight

LEMMA StaysWithin ==
    ASSUME RunInv, UNCHANGED phase, queue' # <<>> => queue # <<>>, serverClosed => serverClosed',
           serverShutdown' = "done" => serverShutdown = "done" /\ queue' = <<>>
    PROVE  RunInv'
BY DEF RunInv, ShutdownLeavesNothing, inFlight

-----------------------------------------------------------------------------
(* What steps of the server do to the rings and to its sends.              *)
WireStays ==
    /\ WireType' /\ Once(wire[Client], Opening)'
    /\ \A m : OnWire(Client, Opening, m)' => OnWire(Client, Opening, m)
    /\ \A m : OnWire(Server, Answering, m)' <=> OnWire(Server, Answering, m)
    /\ \A side \in Sides : Len(wire'[side]) <= Len(wire[side])
DuplexInv == DuplexType /\ SentOnce /\ CloseInv

LEMMA WireUntouched == ASSUME WireType, SentOnce, UNCHANGED wire PROVE WireStays
BY DEF WireStays, WireType, SentOnce, OnWire

LEMMA Hears ==
    ASSUME DuplexType, SentOnce, Arrived(Server), TakeFrame(Server), NEW f, f = Arrival(Server)
    PROVE  /\ WireStays /\ f \in ClientFrames
           /\ f.op \in Opening => OnWire(Client, Opening, f.of) /\ ~OnWire(Client, Opening, f.of)'
<1>1. WirePopped(Client, f) /\ WireType
  BY Takes, SideFacts DEF DuplexType, Arrived, TakeFrame, Arrival
<1>2. /\ f \in ClientFrames /\ WireType' /\ wire'[Server] = wire[Server]
      /\ Len(wire'[Client]) = Len(wire[Client]) - 1
  BY <1>1, SideFacts DEF WirePopped, FramesFrom
<1>3. /\ \A m : OnWire(Client, Opening, m) <=>
                   OnWire(Client, Opening, m)' \/ (f.op \in Opening /\ f.of = m)
      /\ \A m : OnWire(Server, Answering, m)' <=> OnWire(Server, Answering, m)
      /\ Once(wire[Client], Opening)
            => Once(wire[Client], Opening)' /\ (f.op \in Opening => ~OnWire(Client, Opening, f.of)')
  BY <1>1, SideFacts DEF WirePopped
<1>4. Len(wire[Client]) \in Nat /\ Len(wire[Server]) \in Nat
  BY <1>1, SideFacts DEF WireType
<1>5. Len(wire'[Server]) <= Len(wire[Server]) /\ Len(wire'[Client]) <= Len(wire[Client])
  BY ONLY <1>2, <1>4
<1> QED
  BY <1>2, <1>3, <1>5, SideFacts DEF WireStays, SentOnce

LEMMA GrantingStays ==
    ASSUME DuplexType, WireStays, UNCHANGED <<granted, aborted>>,
           \A side \in Sides : jobs[side] # <<>> => jobs'[side] # <<>>
    PROVE  Granting'
<1>1. \A side \in Sides : Len(wire[side]) \in Nat /\ Len(wire'[side]) \in Nat
  BY DEF DuplexType, WireType, WireStays
<1>2. \A side \in Sides : Len(wire'[side]) <= Slots /\ (granted[side] => Len(wire'[side]) < Slots)
  BY <1>1, DuplexAssumption DEF DuplexType, Granting, WireStays
<1> QED
  BY <1>2 DEF DuplexType, Granting

LEMMA NothingSent ==
    ASSUME DuplexInv, WireStays, UNCHANGED <<jobs, granted, aborted>>, RingsType',
           serverClosed => serverClosed'
    PROVE  /\ DuplexInv' /\ jobs'[Client] = jobs[Client]
           /\ \A m : Coming(m)' => Coming(m)
           /\ \A m : ToSend(Server, Answering, m)' <=> ToSend(Server, Answering, m)
<1>1. \A side, ops, m : ToSend(side, ops, m)' <=> ToSend(side, ops, m)
  BY DEF ToSend
<1>2. DuplexType'
  BY GrantingStays DEF DuplexInv, DuplexType, JobsType, WireStays
<1>3. SentOnce'
  BY <1>1 DEF DuplexInv, SentOnce, WireStays
<1> QED
  BY <1>1, <1>2, <1>3 DEF DuplexInv, CloseInv, Coming, WireStays

LEMMA SendQueued ==
    ASSUME DuplexInv, WireStays, UNCHANGED <<granted, aborted>>, RingsType',
           serverClosed => serverClosed',
           NEW f \in ServerFrames, NEW timed \in BOOLEAN, NEW fits \in BOOLEAN,
           Enqueue(Server, f, timed, fits),
           f.op \in Answering => ~ToSend(Server, Answering, f.of), f.op = "CLOSE" => serverClosed'
    PROVE  /\ DuplexInv' /\ jobs'[Client] = jobs[Client]
           /\ \A m : Coming(m)' => Coming(m)
           /\ \A m : ToSend(Server, Answering, m)' <=>
                        ToSend(Server, Answering, m) \/ (f.op \in Answering /\ f.of = m)
<1>1. JobPushed(Server, f)
  BY Pushes, SideFacts DEF FramesFrom, DuplexInv, DuplexType
<1>2. /\ \A m : ToSend(Server, Answering, m)' <=>
                   ToSend(Server, Answering, m) \/ (f.op \in Answering /\ f.of = m)
      /\ \A m : ToSend(Client, Opening, m)' <=> ToSend(Client, Opening, m)
      /\ ToSend(Server, {"CLOSE"}, 0)' => ToSend(Server, {"CLOSE"}, 0) \/ f.op = "CLOSE"
      /\ Once(FramesOf(jobs[Server]), Answering) => Once(FramesOf(jobs[Server]), Answering)'
      /\ jobs'[Client] = jobs[Client] /\ jobs'[Server] # <<>> /\ JobsType'
  BY <1>1, SideFacts DEF JobPushed
<1>3. DuplexType'
  BY <1>2, GrantingStays, SideFacts DEF DuplexInv, DuplexType, WireStays
<1>4. SentOnce'
  BY <1>2 DEF DuplexInv, SentOnce, WireStays
<1> QED
  BY <1>2, <1>3, <1>4 DEF DuplexInv, CloseInv, Coming, WireStays

LEMMA SendDropped ==
    ASSUME DuplexInv, UNCHANGED wire, RingsType', aborted' \in SUBSET Messages, UNCHANGED granted,
           serverClosed => serverClosed', jobs[Server] # <<>>, ~granted[Server],
           jobs' = [jobs EXCEPT ![Server] = Tail(@)], NEW f, f = HeadJob(Server).frame
    PROVE  /\ DuplexInv' /\ jobs'[Client] = jobs[Client] /\ f \in ServerFrames
           /\ \A m : Coming(m)' => Coming(m)
           /\ \A m : OnWire(Server, Answering, m)' <=> OnWire(Server, Answering, m)
           /\ \A m : ToSend(Server, Answering, m)' => ToSend(Server, Answering, m)
           /\ f.op \in Answering => ToSend(Server, Answering, f.of) /\ ~ToSend(Server, Answering, f.of)'
           /\ f.op = "CLOSE" => serverClosed
<1>1. JobPopped(Server, f)
  BY Pops, SideFacts DEF DuplexInv, DuplexType
<1>2. /\ \A m : ToSend(Server, Answering, m) <=>
                   ToSend(Server, Answering, m)' \/ (f.op \in Answering /\ f.of = m)
      /\ \A m : ToSend(Client, Opening, m)' <=> ToSend(Client, Opening, m)
      /\ ToSend(Server, {"CLOSE"}, 0)' => ToSend(Server, {"CLOSE"}, 0)
      /\ f.op = "CLOSE" /\ f.of = 0 => ToSend(Server, {"CLOSE"}, 0)
      /\ Once(FramesOf(jobs[Server]), Answering) =>
            /\ Once(FramesOf(jobs[Server]), Answering)'
            /\ f.op \in Answering => ~ToSend(Server, Answering, f.of)'
      /\ jobs'[Client] = jobs[Client] /\ JobsType' /\ f \in ServerFrames
  BY <1>1, SideFacts DEF JobPopped, FramesFrom
<1>3. f.op = "CLOSE" => f.of = 0
  BY <1>2 DEF ServerFrames, Answering
<1>4. \A side, ops, m : OnWire(side, ops, m)' <=> OnWire(side, ops, m)
  BY DEF OnWire
<1>5. Granting' /\ WireType'
  BY <1>2, SideFacts DEF DuplexInv, DuplexType, Granting, WireType
<1>6. SentOnce'
  BY <1>2, <1>4 DEF DuplexInv, SentOnce, OnWire
<1> QED
  BY <1>2, <1>3, <1>4, <1>5, <1>6 DEF DuplexInv, DuplexType, CloseInv, Coming, SentOnce

LEMMA SendCommitted ==
    ASSUME DuplexInv, CommitFrame(Server), UNCHANGED <<ringState, shut, aborted>>,
           serverClosed => serverClosed', NEW f, f = HeadJob(Server).frame
    PROVE  /\ DuplexInv' /\ jobs'[Client] = jobs[Client] /\ f \in ServerFrames
           /\ \A m : Coming(m)' => Coming(m)
           /\ \A m : OnWire(Server, Answering, m)' <=>
                        OnWire(Server, Answering, m) \/ (f.op \in Answering /\ f.of = m)
           /\ \A m : ToSend(Server, Answering, m)' => ToSend(Server, Answering, m)
           /\ f.op \in Answering => ToSend(Server, Answering, f.of) /\ ~ToSend(Server, Answering, f.of)'
           /\ f.op = "CLOSE" => serverClosed
<1>1. jobs[Server] # <<>> /\ WireType /\ JobsType /\ Len(wire[Server]) < Slots
  BY SideFacts DEF DuplexInv, DuplexType, Granting, CommitFrame
<1>2. JobPopped(Server, f)
  BY <1>1, Pops, SideFacts DEF CommitFrame
<1>3. f \in ServerFrames
  BY <1>2, SideFacts DEF JobPopped, FramesFrom
<1>4. WirePushed(Server, f)
  BY <1>1, <1>3, Sends, SideFacts DEF CommitFrame, FramesFrom
<1>5. /\ \A m : ToSend(Server, Answering, m) <=>
                   ToSend(Server, Answering, m)' \/ (f.op \in Answering /\ f.of = m)
      /\ \A m : ToSend(Client, Opening, m)' <=> ToSend(Client, Opening, m)
      /\ ToSend(Server, {"CLOSE"}, 0)' => ToSend(Server, {"CLOSE"}, 0)
      /\ f.op = "CLOSE" /\ f.of = 0 => ToSend(Server, {"CLOSE"}, 0)
      /\ Once(FramesOf(jobs[Server]), Answering) =>
            /\ Once(FramesOf(jobs[Server]), Answering)'
            /\ f.op \in Answering => ~ToSend(Server, Answering, f.of)'
      /\ jobs'[Client] = jobs[Client] /\ JobsType'
  BY <1>2, SideFacts DEF JobPopped
<1>6. /\ \A m : OnWire(Server, Answering, m)' <=>
                   OnWire(Server, Answering, m) \/ (f.op \in Answering /\ f.of = m)
      /\ \A m : OnWire(Client, Opening, m)' <=> OnWire(Client, Opening, m)
      /\ Len(wire'[Server]) = Len(wire[Server]) + 1 /\ wire'[Client] = wire[Client] /\ WireType'
  BY <1>4, SideFacts DEF WirePushed
<1>7. f.op = "CLOSE" => f.of = 0
  BY <1>3 DEF ServerFrames, Answering
<1>8. SentOnce'
  BY <1>5, <1>6 DEF DuplexInv, SentOnce
<1>9. Granting'
  <2>1. /\ granted'[Server] = FALSE /\ granted'[Client] = granted[Client]
        /\ granted' \in [Sides -> BOOLEAN] /\ aborted' \subseteq Messages
    BY SideFacts DEF DuplexInv, DuplexType, Granting, CommitFrame
  <2>2. Len(wire[Server]) \in Nat
    BY <1>1, SideFacts DEF WireType
  <2>3. Len(wire'[Server]) <= Slots
    BY ONLY <1>1, <1>6, <2>2, DuplexAssumption
  <2>4. /\ granted'[Client] => jobs'[Client] # <<>>
        /\ Len(wire'[Client]) <= Slots /\ (granted'[Client] => Len(wire'[Client]) < Slots)
    BY <1>5, <1>6, <2>1, SideFacts DEF DuplexInv, DuplexType, Granting
  <2> QED
    BY <2>1, <2>3, <2>4, SideFacts DEF Granting
<1>10. RingsType'
  BY DEF DuplexInv, DuplexType, RingsType
<1> QED
  BY <1>3, <1>5, <1>6, <1>7, <1>8, <1>9, <1>10 DEF DuplexInv, DuplexType, CloseInv, Coming, SentOnce

-----------------------------------------------------------------------------
(* The server, step by step.                                               *)
LEMMA ServerStepKeeps ==
    ASSUME SessionInv, Still, DuplexInv', ServerInv', \A m \in Messages : MessageInv(m)'
    PROVE  SessionInv'
BY ClientKept DEF SessionInv, DuplexInv

LEMMA StopsServer ==
    ASSUME ServerInv, NEW why \in Causes, StopTasks(why), serverClosed' = TRUE, UNCHANGED failure,
           serverLoop' \in {"receiving", "refusing", "failed", "ended"},
           phase' \in [Messages -> Phases], inFlight' = inFlight
    PROVE  ServerInv'
<1>1. TablesType /\ CloseType /\ QueueInv /\ RunInv
  BY ServerInvParts
<1>2. abortReason' \in [Messages -> Causes \cup {NoCause}] /\ outcomes' \in [Messages -> SUBSET Outcomes]
  BY <1>1 DEF TablesType, StopTasks, Outcomes
<1>3. TablesType'
  BY <1>1, <1>2 DEF TablesType
<1>4. queue' = <<>> /\ serverShutdown' = "draining"
  BY DEF StopTasks
<1>5. CloseType'
  BY <1>4 DEF CloseType
<1>6. QueueInv'
  BY <1>4, ServerAssumption DEF QueueInv
<1>7. RunInv'
  BY <1>1, <1>4 DEF RunInv, ShutdownLeavesNothing
<1> QED
  BY <1>3, <1>5, <1>6, <1>7, PartsKeep

LEMMA StopsMessage ==
    ASSUME CallsInv, ClientEndInv, Still, ServerInv, NEW why \in Causes, StopTasks(why),
           serverClosed' = TRUE, UNCHANGED failure,
           NEW m \in Messages, MessageInv(m), Coming(m)' => Coming(m),
           ToSend(Server, Answering, m)' => ToSend(Server, Answering, m),
           OnWire(Server, Answering, m)' => OnWire(Server, Answering, m),
           phase'[m] = phase[m] \/ (phase[m] \in InFlightPhases /\ phase'[m] = "stopping"
                                    /\ ~ToSend(Server, Answering, m) /\ phase[m] # "ending")
    PROVE  MessageInv(m)'
<1>1. /\ UNCHANGED <<settled, made>> /\ (Known(m)' <=> Known(m))
      /\ ToSend(Client, Opening, m)' <=> ToSend(Client, Opening, m)
  BY ClientKept
<1>2. ~IsQueued(m)'
  BY DEF StopTasks, IsQueued
<1>3. outcomes'[m] = IF IsQueued(m) THEN outcomes[m] \cup {why} ELSE outcomes[m]
  BY DEF StopTasks
<1>4. CASE IsQueued(m)
  <2>1. phase[m] = "idle" /\ outcomes'[m] = {why} /\ Known(m) /\ ~Coming(m) /\ phase'[m] = "idle"
    BY <1>3, <1>4 DEF MessageInv, InFlightPhases
  <2>2. why \in Outcomes
    BY DEF Outcomes
  <2> QED
    BY <1>1, <1>2, <2>1, <2>2 DEF MessageInv
<1>5. CASE ~IsQueued(m)
  <2>1. outcomes'[m] = outcomes[m]
    BY <1>3, <1>5
  <2>2. CASE phase'[m] = phase[m]
    BY <1>1, <1>2, <1>5, <2>1, <2>2 DEF MessageInv
  <2>3. CASE phase'[m] # phase[m]
    <3>1. phase[m] \in InFlightPhases /\ phase'[m] = "stopping" /\ ~ToSend(Server, Answering, m)
          /\ phase[m] # "ending"
      BY <2>3
    <3>2. phase[m] \notin {"idle", "over", "ending"} /\ outcomes[m] = {}
      BY <3>1 DEF MessageInv, InFlightPhases
    <3>3. ~OnWire(Server, Answering, m) /\ ~(m \in Requests /\ settled[m] = "completed") /\ ~Coming(m) /\ Known(m)
      BY <3>2 DEF MessageInv
    <3> QED
      BY <1>1, <1>2, <2>1, <3>1, <3>2, <3>3 DEF MessageInv, Coming
  <2> QED
    BY <2>2, <2>3
<1> QED
  BY <1>4, <1>5

LEMMA ClosingKeeps ==
    ASSUME SessionInv, UNCHANGED clientVars, ~serverClosed, SendClose,
           UNCHANGED <<abortReason, queue, outcomes, failure, serverLoop>>,
           UNCHANGED <<ringState, shut, wire, granted, aborted>>,
           NEW m, UNCHANGED phase \/ (m \in Messages /\ phase[m] = "running" /\ Enter(m, "awaiting"))
    PROVE  SessionInv'
<1>1. DuplexInv /\ DuplexType /\ ServerInv /\ CallsInv /\ ClientEndInv /\ \A n \in Messages : MessageInv(n)
  BY DEF SessionInv, DuplexInv
<1>2. TablesType /\ CloseType /\ QueueInv /\ RunInv
  BY <1>1, ServerInvParts
<1> DEFINE f == Frame("CLOSE", 0)
<1>3. f \in ServerFrames /\ f.op = "CLOSE" /\ f.op \notin Answering
  BY DEF ServerFrames, Frame, Answering
<1>4. serverClosed' = TRUE /\ serverShutdown' = "closing" /\ Enqueue(Server, f, TRUE, TRUE)
  BY DEF SendClose
<1>5. WireStays /\ RingsType'
  BY <1>1, WireUntouched DEF DuplexInv, DuplexType, RingsType
<1>6. /\ DuplexInv' /\ jobs'[Client] = jobs[Client]
      /\ \A n : Coming(n)' => Coming(n)
      /\ \A n : ToSend(Server, Answering, n)' <=> ToSend(Server, Answering, n)
  BY <1>1, <1>3, <1>4, <1>5, SendQueued
<1>7. \A n : OnWire(Server, Answering, n)' <=> OnWire(Server, Answering, n)
  BY <1>5 DEF WireStays
<1>8. Still
  BY <1>6 DEF Still
<1>9. QueueInv' /\ \A n : IsQueued(n)' <=> IsQueued(n)
  BY <1>2, QueueKept
<1>10. TablesType' /\ CloseType'
  BY <1>2, <1>4 DEF TablesType, CloseType
<1>11. RunInv'
  <2>1. CASE UNCHANGED phase
    BY <1>2, <1>4, <2>1, StaysWithin
  <2>2. CASE m \in Messages /\ phase[m] = "running" /\ Enter(m, "awaiting")
    <3>1. "awaiting" \in Phases /\ "awaiting" \in InFlightPhases /\ phase[m] \in InFlightPhases
          /\ serverShutdown # "done"
      BY <1>2, <2>2 DEF Phases, InFlightPhases, CloseType
    <3> QED
      BY <1>2, <1>4, <2>2, <3>1, MovesWithin
  <2> QED
    BY <2>1, <2>2
<1>12. ASSUME NEW n \in Messages PROVE MessageInv(n)'
  <2>1. CASE phase'[n] = phase[n]
    <3>1. Same(n)
      BY <1>6, <1>7, <1>9, <2>1 DEF Same
    <3> QED
      BY <1>1, <1>4, <1>8, <3>1, SameKept
  <2>2. CASE phase'[n] # phase[n]
    <3>1. n = m /\ phase[m] = "running" /\ phase'[m] = "awaiting"
      BY <1>2, <2>2 DEF Enter, RunInv
    <3>2. /\ UNCHANGED <<settled, made>> /\ (Known(m)' <=> Known(m))
          /\ ToSend(Client, Opening, m)' <=> ToSend(Client, Opening, m)
      BY <1>1, <1>8, ClientKept
    <3> QED
      BY <1>1, <1>6, <1>7, <1>9, <3>1, <3>2 DEF MessageInv
  <2> QED
    BY <2>1, <2>2
<1> QED
  BY <1>6, <1>8, <1>9, <1>10, <1>11, <1>12, PartsKeep, ServerStepKeeps

LEMMA ServerCloseKeeps ==
    ASSUME SessionInv, ServerClose, UNCHANGED clientVars
    PROVE  SessionInv'
<1>1. /\ ~serverClosed /\ SendClose
      /\ UNCHANGED <<abortReason, queue, outcomes, failure, serverLoop>>
      /\ UNCHANGED <<ringState, shut, wire, granted, aborted>> /\ UNCHANGED phase
  BY DEF ServerClose
<1> QED
  BY <1>1, ClosingKeeps

(* A task gets on without sending anything.                                *)
LEMMA TaskMoves ==
    ASSUME SessionInv, UNCHANGED clientVars, UNCHANGED duplexVars,
           UNCHANGED <<queue, abortReason, serverClosed, serverShutdown, serverLoop>>,
           NEW m \in Messages, NEW p \in {"awaiting", "failed", "ending"}, Enter(m, p),
           phase[m] \in {"running", "awaiting", "failed", "stopping"},
           serverShutdown = "done" => p = "ending",
           outcomes' \in [Messages -> SUBSET Outcomes], failure' \in [Messages -> Causes \cup {NoCause}],
           \A n \in Messages : n # m => outcomes'[n] = outcomes[n] /\ failure'[n] = failure[n],
           p = "failed" => failure'[m] # NoCause,
           p = "ending" /\ m \in Requests /\ ~serverClosed => outcomes'[m] # {},
           p # "ending" => outcomes'[m] = outcomes[m],
           outcomes'[m] = {} \/ \E how \in Outcomes : outcomes'[m] = {how}
    PROVE  SessionInv'
<1>1. DuplexInv /\ DuplexType /\ ServerInv /\ CallsInv /\ ClientEndInv /\ \A n \in Messages : MessageInv(n)
  BY DEF SessionInv, DuplexInv
<1>2. TablesType /\ CloseType /\ QueueInv /\ RunInv
  BY <1>1, ServerInvParts
<1>3. WireStays /\ RingsType' /\ UNCHANGED <<jobs, granted, aborted>>
  BY <1>1, WireUntouched DEF DuplexInv, DuplexType, RingsType, duplexVars
<1>4. /\ DuplexInv' /\ jobs'[Client] = jobs[Client]
      /\ \A n : Coming(n)' => Coming(n)
      /\ \A n : ToSend(Server, Answering, n)' <=> ToSend(Server, Answering, n)
  BY <1>1, <1>3, NothingSent
<1>5. \A n : OnWire(Server, Answering, n)' <=> OnWire(Server, Answering, n)
  BY <1>3 DEF WireStays
<1>6. Still
  BY <1>4 DEF Still
<1>7. QueueInv' /\ \A n : IsQueued(n)' <=> IsQueued(n)
  BY <1>2, QueueKept
<1>8. TablesType' /\ CloseType'
  BY <1>2 DEF TablesType, CloseType
<1>9. p \in Phases /\ p \in InFlightPhases /\ phase[m] \in InFlightPhases
  BY DEF Phases, InFlightPhases
<1>10. RunInv'
  <2>1. serverShutdown = "done" => queue' = <<>>
    BY <1>2 DEF CloseType
  <2> QED
    BY <1>2, <1>9, <2>1, MovesWithin
<1>11. phase'[m] = p /\ \A n \in Messages : n # m => phase'[n] = phase[n]
  BY <1>2, <1>9, Moves DEF RunInv
<1>12. MessageInv(m)'
  <2>1. /\ UNCHANGED <<settled, made>> /\ (Known(m)' <=> Known(m))
        /\ ToSend(Client, Opening, m)' <=> ToSend(Client, Opening, m)
    BY <1>1, <1>6, ClientKept
  <2>2. MessageInv(m)
    BY <1>1
  <2>3. /\ ~Coming(m) /\ ~IsQueued(m) /\ Known(m) /\ ~ToSend(Server, Answering, m) /\ outcomes[m] = {}
        /\ ~OnWire(Server, Answering, m) /\ ~(m \in Requests /\ settled[m] = "completed")
    BY <2>2 DEF MessageInv
  <2>4. phase'[m] \notin {"idle", "replying", "refusing", "over"} /\ ~ToSend(Client, Opening, m)
    BY <1>11, <2>3 DEF Coming
  <2> QED
    BY <1>4, <1>5, <1>7, <1>11, <2>1, <2>3, <2>4 DEF MessageInv
<1>13. ASSUME NEW n \in Messages, n # m PROVE MessageInv(n)'
  <2>1. Same(n)
    BY <1>4, <1>5, <1>7, <1>11, <1>13 DEF Same
  <2> QED
    BY <1>1, <1>6, <2>1, SameKept
<1> QED
  BY <1>4, <1>6, <1>7, <1>8, <1>10, <1>12, <1>13, PartsKeep, ServerStepKeeps

LEMMA HandlerClosesKeeps ==
    ASSUME SessionInv, NEW m \in Messages, HandlerCloses(m), UNCHANGED clientVars
    PROVE  SessionInv'
<1>1. /\ phase[m] = "running" /\ Enter(m, "awaiting")
      /\ UNCHANGED <<abortReason, queue, outcomes, failure, serverLoop>>
      /\ UNCHANGED <<ringState, shut, wire, granted, aborted>>
  BY DEF HandlerCloses
<1>2. CASE ~serverClosed
  BY <1>1, <1>2, ClosingKeeps DEF HandlerCloses
<1>3. CASE serverClosed
  <2>1. UNCHANGED duplexVars /\ UNCHANGED <<serverClosed, serverShutdown>>
    BY <1>1, <1>3 DEF HandlerCloses, duplexVars
  <2>2. m \in inFlight
    BY <1>1 DEF inFlight, InFlightPhases
  <2>3. serverShutdown # "done"
    BY <1>1, <2>2 DEF SessionInv, ServerInv, ShutdownLeavesNothing
  <2>4. outcomes \in [Messages -> SUBSET Outcomes] /\ failure \in [Messages -> Causes \cup {NoCause}]
    BY DEF SessionInv, ServerInv, ServerTypeOK
  <2>5. outcomes[m] = {}
    BY <1>1 DEF SessionInv, MessageInv
  <2> QED
    BY <1>1, <2>1, <2>3, <2>4, <2>5, TaskMoves
<1> QED
  BY <1>2, <1>3

LEMMA TaskStoppedKeeps ==
    ASSUME SessionInv, NEW m \in Messages, TaskStopped(m), UNCHANGED clientVars
    PROVE  SessionInv'
<1>1. /\ phase[m] = "stopping" /\ serverShutdown = "done" /\ Enter(m, "ending")
      /\ UNCHANGED <<abortReason, queue, outcomes, failure, serverClosed, serverShutdown, serverLoop>>
      /\ UNCHANGED duplexVars
  BY DEF TaskStopped
<1>2. outcomes \in [Messages -> SUBSET Outcomes] /\ failure \in [Messages -> Causes \cup {NoCause}]
      /\ serverClosed
  BY <1>1 DEF SessionInv, ServerInv, ServerTypeOK
<1>3. outcomes[m] = {}
  BY <1>1 DEF SessionInv, MessageInv
<1> QED
  BY <1>1, <1>2, <1>3, TaskMoves

LEMMA TaskFailsKeeps ==
    ASSUME SessionInv, NEW m \in Messages, TaskFails(m), UNCHANGED clientVars
    PROVE  SessionInv'
<1>1. /\ phase[m] = "failed" /\ UNCHANGED <<failure, serverLoop, wire, jobs, granted, aborted>>
  BY DEF TaskFails
<1>2. DuplexInv /\ DuplexType /\ ServerInv /\ CallsInv /\ ClientEndInv /\ \A n \in Messages : MessageInv(n)
  BY DEF SessionInv, DuplexInv
<1>3. TablesType /\ CloseType /\ QueueInv /\ RunInv
  BY <1>2, ServerInvParts
<1>4. outcomes[m] = {} /\ failure[m] \in Causes /\ ~ToSend(Server, Answering, m)
  BY <1>1, <1>2, <1>3 DEF MessageInv, TablesType
<1>5. CASE serverClosed
  <2>1. Enter(m, "ending") /\ UNCHANGED duplexVars
        /\ UNCHANGED <<abortReason, queue, outcomes, serverClosed, serverShutdown>>
    BY <1>1, <1>5 DEF TaskFails, duplexVars
  <2> QED
    BY <1>1, <1>3, <1>4, <1>5, <2>1, TaskMoves DEF TablesType
<1>6. CASE ~serverClosed
  <2>1. PICK state \in {"closed", "errored"} : ShutdownNow(failure[m], state)
    BY <1>6 DEF TaskFails
  <2>2. Enter(m, "stopping") /\ StopTasks(failure[m]) /\ serverClosed' = TRUE /\ EndRings(Server, state)
    BY <1>6, <2>1 DEF TaskFails, ShutdownNow
  <2>3. RingsType' /\ WireStays
    BY <1>1, <1>2, <2>2, RingsEnd, SideFacts, WireUntouched DEF DuplexInv, DuplexType
  <2>4. /\ DuplexInv' /\ jobs'[Client] = jobs[Client]
        /\ \A n : Coming(n)' => Coming(n)
        /\ \A n : ToSend(Server, Answering, n)' <=> ToSend(Server, Answering, n)
    BY <1>1, <1>2, <2>2, <2>3, NothingSent
  <2>5. Still
    BY <2>4 DEF Still
  <2>6. "stopping" \in Phases /\ "stopping" \in InFlightPhases /\ phase[m] \in InFlightPhases
    BY <1>1 DEF Phases, InFlightPhases
  <2>7. /\ phase' \in [Messages -> Phases] /\ phase'[m] = "stopping" /\ inFlight' = inFlight
        /\ \A n \in Messages : n # m => phase'[n] = phase[n]
    <3>1. phase \in [Messages -> Phases]
      BY <1>3 DEF RunInv
    <3>2. /\ phase' \in [Messages -> Phases] /\ phase'[m] = "stopping" /\ inFlight' = inFlight \cup {m}
          /\ m \in inFlight /\ \A n \in Messages : n # m => phase'[n] = phase[n]
      BY <2>2, <2>6, <3>1, Moves
    <3> QED
      BY <3>2
  <2>8. ServerInv'
    BY <1>1, <1>2, <1>3, <1>4, <2>2, <2>7, StopsServer DEF TablesType
  <2>9. ASSUME NEW n \in Messages PROVE MessageInv(n)'
    <3>1. phase'[n] = phase[n] \/ (phase[n] \in InFlightPhases /\ phase'[n] = "stopping"
                                   /\ ~ToSend(Server, Answering, n) /\ phase[n] # "ending")
      BY <1>1, <1>4, <2>6, <2>7
    <3>2. OnWire(Server, Answering, n)' <=> OnWire(Server, Answering, n)
      BY <2>3 DEF WireStays
    <3> QED
      BY <1>1, <1>2, <1>4, <2>2, <2>4, <2>5, <3>1, <3>2, StopsMessage
  <2> QED
    BY <2>4, <2>5, <2>8, <2>9, ServerStepKeeps
<1> QED
  BY <1>5, <1>6

LEMMA HandlerEndsKeeps ==
    ASSUME SessionInv, NEW m \in Messages, HandlerEnds(m), UNCHANGED clientVars
    PROVE  SessionInv'
<1>1. /\ UNCHANGED <<abortReason, queue, serverClosed, serverShutdown, serverLoop>>
      /\ UNCHANGED <<ringState, shut, wire, granted, aborted>>
      /\ phase[m] \in {"running", "awaiting"}
  BY DEF HandlerEnds
<1>2. DuplexInv /\ DuplexType /\ ServerInv /\ CallsInv /\ ClientEndInv /\ \A n \in Messages : MessageInv(n)
  BY DEF SessionInv, DuplexInv
<1>3. TablesType /\ CloseType /\ QueueInv /\ RunInv
  BY <1>2, ServerInvParts
<1>4. serverShutdown # "done"
  BY <1>1, <1>3 DEF RunInv, ShutdownLeavesNothing, inFlight, InFlightPhases
<1>5. /\ outcomes[m] = {} /\ ~Coming(m) /\ ~IsQueued(m) /\ Known(m) /\ ~ToSend(Server, Answering, m)
      /\ ~OnWire(Server, Answering, m) /\ ~(m \in Requests /\ settled[m] = "completed")
  BY <1>1, <1>2 DEF MessageInv
<1>6. CASE m \in Notes /\ NoteEnds(m)
  <2>1. UNCHANGED duplexVars
    BY <1>1, <1>6 DEF NoteEnds, duplexVars
  <2>2. m \notin Requests
    BY <1>6, MessageFacts
  <2>3. CASE Enter(m, "ending") /\ UNCHANGED <<outcomes, failure, jobs>>
    BY <1>1, <1>3, <1>4, <1>5, <2>1, <2>2, <2>3, TaskMoves DEF TablesType
  <2>4. CASE Enter(m, "failed") /\ failure' = [failure EXCEPT ![m] = "failed"] /\ UNCHANGED outcomes
    <3>1. /\ failure' \in [Messages -> Causes \cup {NoCause}] /\ failure'[m] # NoCause
          /\ \A n \in Messages : n # m => failure'[n] = failure[n]
      BY <1>3, <2>4 DEF TablesType, Causes, NoCause
    <3> QED
      BY <1>1, <1>3, <1>4, <1>5, <2>1, <2>4, <3>1, TaskMoves DEF TablesType
  <2> QED
    BY <1>6, <2>3, <2>4 DEF NoteEnds
<1>7. CASE m \notin Notes /\ SuppressReply(m)
  <2>1. UNCHANGED duplexVars /\ Enter(m, "ending") /\ UNCHANGED failure
    BY <1>1, <1>7 DEF SuppressReply, duplexVars
  <2>2. PICK how \in Outcomes : Record(m, how)
    BY <1>3, <1>7 DEF SuppressReply, TablesType, Outcomes, Causes
  <2>3. /\ outcomes' \in [Messages -> SUBSET Outcomes] /\ outcomes'[m] = {how}
        /\ \A n \in Messages : n # m => outcomes'[n] = outcomes[n]
    BY <1>3, <1>5, <2>2 DEF TablesType, Record
  <2> QED
    BY <1>1, <1>3, <1>4, <2>1, <2>3, TaskMoves DEF TablesType
<1>8. ASSUME m \notin Notes, NEW answer \in Answering, Reply(m, answer) PROVE SessionInv'
  <2> DEFINE f == Frame(answer, m)
  <2>1. /\ Enter(m, "replying") /\ UNCHANGED <<outcomes, failure>>
        /\ Enqueue(Server, f, m \in Timed \/ ResponseTimeout, answer = "RESPONSE_ERR" \/ m \notin BigAnswers)
    BY <1>8 DEF Reply
  <2>2. m \in Requests /\ f \in ServerFrames /\ f.op = answer /\ f.of = m /\ f.op # "CLOSE"
    BY <1>8, MessageFacts DEF ServerFrames, Frame, Answering
  <2>3. PICK timed \in BOOLEAN, fits \in BOOLEAN : Enqueue(Server, f, timed, fits)
    <3>1. (m \in Timed \/ ResponseTimeout) \in BOOLEAN
          /\ (answer = "RESPONSE_ERR" \/ m \notin BigAnswers) \in BOOLEAN
      OBVIOUS
    <3> QED
      BY <2>1, <3>1, Zenon
  <2>4. WireStays /\ RingsType'
    BY <1>1, <1>2, WireUntouched DEF DuplexInv, DuplexType, RingsType
  <2>5. /\ DuplexInv' /\ jobs'[Client] = jobs[Client]
        /\ \A n : Coming(n)' => Coming(n)
        /\ \A n : ToSend(Server, Answering, n)' <=>
                     ToSend(Server, Answering, n) \/ (f.op \in Answering /\ f.of = n)
    <3> HIDE DEF f
    <3> QED
      BY <1>1, <1>2, <1>5, <2>2, <2>3, <2>4, SendQueued
  <2>6. \A n : OnWire(Server, Answering, n)' <=> OnWire(Server, Answering, n)
    BY <2>4 DEF WireStays
  <2>7. Still
    BY <2>5 DEF Still
  <2>8. QueueInv' /\ \A n : IsQueued(n)' <=> IsQueued(n)
    BY <1>1, <1>3, QueueKept
  <2>9. TablesType' /\ CloseType'
    BY <1>1, <1>3, <2>1 DEF TablesType, CloseType
  <2>10. "replying" \in Phases /\ "replying" \in InFlightPhases /\ phase[m] \in InFlightPhases
    BY <1>1 DEF Phases, InFlightPhases
  <2>11. RunInv'
    BY <1>1, <1>3, <1>4, <2>1, <2>10, MovesWithin
  <2>12. phase'[m] = "replying" /\ \A n \in Messages : n # m => phase'[n] = phase[n]
    BY <1>3, <2>1, <2>10, Moves DEF RunInv
  <2>13. MessageInv(m)'
    <3>1. /\ UNCHANGED <<settled, made>> /\ (Known(m)' <=> Known(m))
          /\ ToSend(Client, Opening, m)' <=> ToSend(Client, Opening, m)
      BY <1>2, <2>7, ClientKept
    <3>2. ~ToSend(Client, Opening, m)
      BY <1>5 DEF Coming
    <3> QED
      BY <1>5, <2>1, <2>2, <2>5, <2>6, <2>8, <2>12, <3>1, <3>2 DEF MessageInv
  <2>14. ASSUME NEW n \in Messages, n # m PROVE MessageInv(n)'
    <3>1. Same(n)
      BY <2>1, <2>2, <2>5, <2>6, <2>8, <2>12, <2>14 DEF Same
    <3> QED
      BY <1>1, <1>2, <2>7, <3>1, SameKept
  <2> QED
    BY <2>5, <2>7, <2>8, <2>9, <2>11, <2>13, <2>14, PartsKeep, ServerStepKeeps
<1> QED
  BY <1>6, <1>7, <1>8 DEF HandlerEnds, Answering

LEMMA ServerCloseEndsKeeps ==
    ASSUME SessionInv, ServerCloseEnds, UNCHANGED clientVars
    PROVE  SessionInv'
<1>1. /\ UNCHANGED <<phase, failure, serverClosed, serverLoop, wire, jobs, granted, aborted>>
      /\ StopTasks("cancelled") /\ serverShutdown # "none" /\ "cancelled" \in Causes
  BY DEF ServerCloseEnds, Causes
<1>2. DuplexInv /\ DuplexType /\ ServerInv /\ CallsInv /\ ClientEndInv /\ \A n \in Messages : MessageInv(n)
  BY DEF SessionInv, DuplexInv
<1>3. TablesType /\ CloseType /\ QueueInv /\ RunInv
  BY <1>2, ServerInvParts
<1>4. serverClosed' = TRUE
  BY <1>1, <1>3 DEF CloseType
<1>5. RingsType' /\ WireStays
  BY <1>1, <1>2, RingsEnd, SideFacts, WireUntouched DEF ServerCloseEnds, ForceClose, DuplexInv,
     DuplexType, RingsType
<1>6. /\ DuplexInv' /\ jobs'[Client] = jobs[Client]
      /\ \A n : Coming(n)' => Coming(n)
      /\ \A n : ToSend(Server, Answering, n)' <=> ToSend(Server, Answering, n)
  BY <1>1, <1>2, <1>5, NothingSent
<1>7. Still
  BY <1>6 DEF Still
<1>8. ServerInv'
  BY <1>1, <1>2, <1>3, <1>4, StopsServer DEF TablesType, RunInv, inFlight
<1>9. ASSUME NEW n \in Messages PROVE MessageInv(n)'
  <2>1. OnWire(Server, Answering, n)' <=> OnWire(Server, Answering, n)
    BY <1>5 DEF WireStays
  <2> QED
    BY <1>1, <1>2, <1>4, <1>6, <1>7, <2>1, StopsMessage
<1> QED
  BY <1>6, <1>7, <1>8, <1>9, ServerStepKeeps

LEMMA ServeLoopFailsKeeps ==
    ASSUME SessionInv, ServeLoopFails, UNCHANGED clientVars
    PROVE  SessionInv'
<1>1. serverLoop' = "ended" /\ UNCHANGED <<phase, failure, wire, jobs, granted, aborted>>
  BY DEF ServeLoopFails
<1>2. DuplexInv /\ DuplexType /\ ServerInv /\ CallsInv /\ ClientEndInv /\ \A n \in Messages : MessageInv(n)
  BY DEF SessionInv, DuplexInv
<1>3. TablesType /\ CloseType /\ QueueInv /\ RunInv
  BY <1>2, ServerInvParts
<1>4. /\ RingsType' /\ WireStays /\ (serverClosed => serverClosed')
  BY <1>1, <1>2, RingsEnd, SideFacts, WireUntouched
     DEF ServeLoopFails, ShutdownNow, DuplexInv, DuplexType, RingsType
<1>5. /\ DuplexInv' /\ jobs'[Client] = jobs[Client]
      /\ \A n : Coming(n)' => Coming(n)
      /\ \A n : ToSend(Server, Answering, n)' <=> ToSend(Server, Answering, n)
  BY <1>1, <1>2, <1>4, NothingSent
<1>6. Still /\ \A n : OnWire(Server, Answering, n)' <=> OnWire(Server, Answering, n)
  BY <1>4, <1>5 DEF Still, WireStays
<1>7. CASE serverClosed
  <2>1. UNCHANGED <<abortReason, queue, outcomes, serverClosed, serverShutdown>>
    BY <1>7 DEF ServeLoopFails
  <2>2. QueueInv' /\ \A n : IsQueued(n)' <=> IsQueued(n)
    BY <1>3, <2>1, QueueKept
  <2>3. TablesType' /\ CloseType'
    BY <1>1, <1>3, <2>1 DEF TablesType, CloseType
  <2>4. RunInv'
    BY <1>1, <1>3, <2>1 DEF RunInv, ShutdownLeavesNothing, inFlight
  <2>5. ASSUME NEW n \in Messages PROVE MessageInv(n)'
    <3>1. Same(n)
      BY <1>1, <1>5, <1>6, <2>1, <2>2 DEF Same
    <3> QED
      BY <1>2, <1>6, <2>1, <3>1, SameKept
  <2> QED
    BY <1>5, <1>6, <2>2, <2>3, <2>4, <2>5, PartsKeep, ServerStepKeeps
<1>8. CASE ~serverClosed
  <2>1. StopTasks(EndCause) /\ EndCause \in Causes /\ serverClosed' = TRUE
    BY <1>8 DEF ServeLoopFails, ShutdownNow, EndCause, Causes
  <2>2. ServerInv'
    BY <1>1, <1>2, <1>3, <2>1, StopsServer DEF TablesType, RunInv, inFlight
  <2>3. ASSUME NEW n \in Messages PROVE MessageInv(n)'
    BY <1>1, <1>2, <1>5, <1>6, <2>1, StopsMessage
  <2> QED
    BY <1>5, <1>6, <2>2, <2>3, ServerStepKeeps
<1> QED
  BY <1>7, <1>8

LEMMA ServerDrainedKeeps ==
    ASSUME SessionInv, ServerDrained, UNCHANGED clientVars
    PROVE  SessionInv'
<1>1. /\ serverShutdown = "draining" /\ serverShutdown' = "done"
      /\ \A m \in inFlight : phase[m] = "stopping"
      /\ UNCHANGED <<phase, abortReason, queue, outcomes, failure, serverClosed, serverLoop, duplexVars>>
  BY DEF ServerDrained
<1>2. DuplexInv /\ DuplexType /\ ServerInv /\ CallsInv /\ ClientEndInv /\ \A n \in Messages : MessageInv(n)
  BY DEF SessionInv, DuplexInv
<1>3. TablesType /\ CloseType /\ QueueInv /\ RunInv
  BY <1>2, ServerInvParts
<1>4. WireStays /\ RingsType' /\ UNCHANGED <<jobs, granted, aborted>>
  BY <1>1, <1>2, WireUntouched DEF DuplexInv, DuplexType, RingsType, duplexVars
<1>5. /\ DuplexInv' /\ jobs'[Client] = jobs[Client]
      /\ \A n : Coming(n)' => Coming(n)
      /\ \A n : ToSend(Server, Answering, n)' <=> ToSend(Server, Answering, n)
  BY <1>1, <1>2, <1>4, NothingSent
<1>6. Still /\ \A n : OnWire(Server, Answering, n)' <=> OnWire(Server, Answering, n)
  BY <1>4, <1>5 DEF Still, WireStays
<1>7. QueueInv' /\ \A n : IsQueued(n)' <=> IsQueued(n)
  BY <1>1, <1>3, QueueKept
<1>8. TablesType' /\ CloseType'
  BY <1>1, <1>3 DEF TablesType, CloseType
<1>9. RunInv'
  BY <1>1, <1>3 DEF RunInv, ShutdownLeavesNothing, inFlight, CloseType
<1>10. ASSUME NEW n \in Messages PROVE MessageInv(n)'
  <2>1. Same(n)
    BY <1>1, <1>5, <1>6, <1>7 DEF Same
  <2> QED
    BY <1>1, <1>2, <1>6, <2>1, SameKept
<1> QED
  BY <1>5, <1>6, <1>7, <1>8, <1>9, <1>10, PartsKeep, ServerStepKeeps

(* An answer has been sent, or its time limit has passed.                  *)
LEMMA ReplySettles ==
    ASSUME SessionInv, UNCHANGED clientVars, DuplexInv', jobs'[Client] = jobs[Client],
           \A n : Coming(n)' => Coming(n),
           \A n : ToSend(Server, Answering, n)' => ToSend(Server, Answering, n),
           UNCHANGED <<abortReason, queue, failure, serverClosed, serverShutdown>>,
           NEW m \in Requests, ToSend(Server, Answering, m), ~ToSend(Server, Answering, m)',
           NEW how \in Outcomes, Record(m, how), AfterReply(m),
           OnWire(Server, Answering, m)' => how = "completed" \/ OnWire(Server, Answering, m),
           \A n : n # m => (OnWire(Server, Answering, n)' => OnWire(Server, Answering, n))
    PROVE  SessionInv'
<1>1. DuplexInv /\ ServerInv /\ CallsInv /\ ClientEndInv /\ \A n \in Messages : MessageInv(n)
  BY DEF SessionInv, DuplexInv
<1>2. TablesType /\ CloseType /\ QueueInv /\ RunInv
  BY <1>1, ServerInvParts
<1>3. Still /\ m \in Messages
  BY MessageFacts DEF Still
<1>4. /\ phase[m] \in {"replying", "refusing"} /\ outcomes[m] = {} /\ ~Coming(m) /\ ~IsQueued(m) /\ Known(m)
      /\ ~OnWire(Server, Answering, m) /\ settled[m] # "completed"
  BY <1>1, <1>3 DEF MessageInv
<1>5. QueueInv' /\ \A n : IsQueued(n)' <=> IsQueued(n)
  BY <1>2, QueueKept
<1>6. /\ outcomes' \in [Messages -> SUBSET Outcomes] /\ outcomes'[m] = {how}
      /\ \A n \in Messages : n # m => outcomes'[n] = outcomes[n]
  BY <1>2, <1>3, <1>4 DEF TablesType, Record
<1>7. serverLoop' \in {"receiving", "refusing", "failed", "ended"}
  BY <1>2 DEF AfterReply, LoopGoesOn, TablesType
<1>8. TablesType' /\ CloseType'
  BY <1>2, <1>6, <1>7 DEF TablesType, CloseType
<1>9. PICK p \in {"ending", "over"} : Enter(m, p) /\ (p = "ending" <=> phase[m] = "replying")
  BY <1>4 DEF AfterReply
<1>10. p \in Phases /\ (p \in InFlightPhases <=> phase[m] \in InFlightPhases)
  BY <1>4, <1>9 DEF Phases, InFlightPhases
<1>11. RunInv'
  <2>1. serverShutdown = "done" => queue' = <<>>
    BY <1>2 DEF CloseType
  <2>2. p \in InFlightPhases => p \in {"stopping", "ending"}
    BY DEF InFlightPhases
  <2> QED
    BY <1>2, <1>3, <1>9, <1>10, <2>1, <2>2, MovesWithin
<1>12. phase'[m] = p /\ \A n \in Messages : n # m => phase'[n] = phase[n]
  BY <1>2, <1>3, <1>9, <1>10, Moves DEF RunInv
<1>13. MessageInv(m)'
  <2>1. /\ UNCHANGED <<settled, made>> /\ (Known(m)' <=> Known(m))
        /\ ToSend(Client, Opening, m)' <=> ToSend(Client, Opening, m)
    BY <1>1, <1>3, ClientKept
  <2>2. ~Coming(m)' /\ ~ToSend(Client, Opening, m)'
    BY <1>4, <2>1 DEF Coming
  <2> QED
    BY <1>4, <1>5, <1>6, <1>12, <2>1, <2>2 DEF MessageInv
<1>14. ASSUME NEW n \in Messages, n # m PROVE MessageInv(n)'
  <2>1. Same(n)
    BY <1>5, <1>6, <1>12, <1>14 DEF Same
  <2> QED
    BY <1>1, <1>3, <2>1, SameKept
<1> QED
  BY <1>3, <1>5, <1>8, <1>11, <1>13, <1>14, PartsKeep, ServerStepKeeps

(* CLOSE has been sent, or not, or an overload error could not be.         *)
LEMMA SendEnds ==
    ASSUME SessionInv, UNCHANGED clientVars, DuplexInv', jobs'[Client] = jobs[Client],
           \A n : Coming(n)' => Coming(n),
           \A n : ToSend(Server, Answering, n)' => ToSend(Server, Answering, n),
           \A n : OnWire(Server, Answering, n)' => OnWire(Server, Answering, n),
           UNCHANGED <<phase, abortReason, queue, outcomes, failure, serverClosed>>,
           serverLoop' \in {"receiving", "refusing", "failed", "ended"},
           UNCHANGED serverShutdown \/ (serverClosed /\ serverShutdown' \in {"closeSent", "closeFailed"})
    PROVE  SessionInv'
<1>1. DuplexInv /\ ServerInv /\ CallsInv /\ ClientEndInv /\ \A n \in Messages : MessageInv(n)
  BY DEF SessionInv, DuplexInv
<1>2. TablesType /\ CloseType /\ QueueInv /\ RunInv
  BY <1>1, ServerInvParts
<1>3. Still
  BY DEF Still
<1>4. QueueInv' /\ \A n : IsQueued(n)' <=> IsQueued(n)
  BY <1>2, QueueKept
<1>5. TablesType' /\ CloseType'
  BY <1>2 DEF TablesType, CloseType
<1>6. RunInv'
  BY <1>2 DEF RunInv, ShutdownLeavesNothing, inFlight
<1>7. ASSUME NEW n \in Messages PROVE MessageInv(n)'
  <2>1. Same(n)
    BY <1>4 DEF Same
  <2> QED
    BY <1>1, <1>3, <2>1, SameKept
<1> QED
  BY <1>3, <1>4, <1>5, <1>6, <1>7, PartsKeep, ServerStepKeeps

LEMMA ServerSentKeeps ==
    ASSUME SessionInv, ServerSent, UNCHANGED clientVars
    PROVE  SessionInv'
<1>0. PICK f : f = HeadJob(Server).frame
  OBVIOUS
<1>1. /\ CommitFrame(Server)
      /\ \/ /\ f.op = "CLOSE" /\ serverShutdown' = "closeSent"
            /\ UNCHANGED <<phase, outcomes, serverLoop>>
         \/ /\ f.op # "CLOSE" /\ Record(f.of, "completed") /\ AfterReply(f.of)
            /\ UNCHANGED serverShutdown
      /\ UNCHANGED <<abortReason, queue, failure, serverClosed, ringState, shut, aborted>>
  BY <1>0 DEF ServerSent
<1>2. DuplexInv
  BY DEF SessionInv, DuplexInv
<1>3. /\ DuplexInv' /\ jobs'[Client] = jobs[Client] /\ f \in ServerFrames
      /\ \A m : Coming(m)' => Coming(m)
      /\ \A m : OnWire(Server, Answering, m)' <=>
                   OnWire(Server, Answering, m) \/ (f.op \in Answering /\ f.of = m)
      /\ \A m : ToSend(Server, Answering, m)' => ToSend(Server, Answering, m)
      /\ f.op \in Answering => ToSend(Server, Answering, f.of) /\ ~ToSend(Server, Answering, f.of)'
      /\ f.op = "CLOSE" => serverClosed
  BY <1>0, <1>1, <1>2, SendCommitted
<1>4. CASE f.op = "CLOSE"
  <2>1. f.op \notin Answering /\ serverLoop \in {"receiving", "refusing", "failed", "ended"}
    BY <1>4 DEF Answering, SessionInv, ServerInv, ServerTypeOK
  <2> QED
    BY <1>1, <1>3, <1>4, <2>1, SendEnds
<1>5. CASE f.op # "CLOSE"
  <2>1. f.op \in Answering /\ f.of \in Requests /\ "completed" \in Outcomes
    BY <1>3, <1>5 DEF ServerFrames, Outcomes
  <2>2. /\ ToSend(Server, Answering, f.of) /\ ~ToSend(Server, Answering, f.of)'
        /\ \A n : n # f.of => (OnWire(Server, Answering, n)' => OnWire(Server, Answering, n))
    BY <1>3, <2>1
  <2>3. PICK m \in Requests : m = f.of
    BY <2>1
  <2>4. Record(m, "completed") /\ AfterReply(m)
        /\ UNCHANGED <<abortReason, queue, failure, serverClosed, serverShutdown>>
    BY <1>1, <1>5, <2>3
  <2>5. /\ ToSend(Server, Answering, m) /\ ~ToSend(Server, Answering, m)'
        /\ \A n : n # m => (OnWire(Server, Answering, n)' => OnWire(Server, Answering, n))
    BY <2>2, <2>3
  <2> QED
    BY <1>3, <2>1, <2>4, <2>5, ReplySettles
<1> QED
  BY <1>4, <1>5

LEMMA ServerSendFailsKeeps ==
    ASSUME SessionInv, ServerSendFails, UNCHANGED clientVars
    PROVE  SessionInv'
<1>0. PICK f : f = HeadJob(Server).frame
  OBVIOUS
<1>1. PICK why \in Causes :
        /\ DropHead(Server, why)
        /\ \/ /\ f.op = "CLOSE" /\ serverShutdown' = "closeFailed"
              /\ UNCHANGED <<phase, outcomes, failure, serverLoop>>
           \/ /\ f.op # "CLOSE" /\ why = "timed-out"
              /\ Record(f.of, "timed-out") /\ AfterReply(f.of)
              /\ UNCHANGED <<failure, serverShutdown>>
           \/ /\ f.op # "CLOSE" /\ why # "timed-out" /\ phase[f.of] = "refusing"
              /\ serverLoop' = "failed"
              /\ UNCHANGED <<phase, outcomes, failure, serverShutdown>>
           \/ /\ f.op # "CLOSE" /\ why # "timed-out" /\ phase[f.of] = "replying"
              /\ Enter(f.of, "failed") /\ failure' = [failure EXCEPT ![f.of] = why]
              /\ UNCHANGED <<outcomes, serverLoop, serverShutdown>>
  BY <1>0 DEF ServerSendFails
<1>2. UNCHANGED <<abortReason, queue, serverClosed, ringState, shut, aborted, wire, granted>>
      /\ jobs[Server] # <<>> /\ ~granted[Server] /\ jobs' = [jobs EXCEPT ![Server] = Tail(@)]
  BY <1>1 DEF ServerSendFails, DropHead
<1>3. DuplexInv /\ ServerInv /\ CallsInv /\ ClientEndInv /\ \A n \in Messages : MessageInv(n)
  BY DEF SessionInv, DuplexInv
<1>4. TablesType /\ CloseType /\ QueueInv /\ RunInv
  BY <1>3, ServerInvParts
<1>5. RingsType' /\ aborted' \in SUBSET Messages
  BY <1>2, <1>3 DEF DuplexInv, DuplexType, RingsType, Granting
<1>6. /\ DuplexInv' /\ jobs'[Client] = jobs[Client] /\ f \in ServerFrames
      /\ \A m : Coming(m)' => Coming(m)
      /\ \A m : OnWire(Server, Answering, m)' <=> OnWire(Server, Answering, m)
      /\ \A m : ToSend(Server, Answering, m)' => ToSend(Server, Answering, m)
      /\ f.op \in Answering => ToSend(Server, Answering, f.of) /\ ~ToSend(Server, Answering, f.of)'
      /\ f.op = "CLOSE" => serverClosed
  BY <1>0, <1>2, <1>3, <1>5, SendDropped
<1>7. serverLoop \in {"receiving", "refusing", "failed", "ended"}
  BY <1>4 DEF TablesType
<1>8. CASE f.op = "CLOSE" /\ serverShutdown' = "closeFailed" /\ UNCHANGED <<phase, outcomes, failure, serverLoop>>
  BY <1>2, <1>6, <1>7, <1>8, SendEnds
<1>9. f.op # "CLOSE" => /\ f.op \in Answering /\ f.of \in Requests
                        /\ ToSend(Server, Answering, f.of) /\ ~ToSend(Server, Answering, f.of)'
  BY <1>6 DEF ServerFrames
<1>10. CASE f.op # "CLOSE" /\ Record(f.of, "timed-out") /\ AfterReply(f.of)
            /\ UNCHANGED <<failure, serverShutdown>>
  <2>1. PICK m \in Requests : m = f.of
    BY <1>9, <1>10
  <2>2. /\ Record(m, "timed-out") /\ AfterReply(m) /\ "timed-out" \in Outcomes
        /\ ToSend(Server, Answering, m) /\ ~ToSend(Server, Answering, m)'
    BY <1>9, <1>10, <2>1 DEF Outcomes, Causes
  <2> QED
    BY <1>2, <1>6, <1>10, <2>2, ReplySettles
<1>11. CASE f.op # "CLOSE" /\ serverLoop' = "failed" /\ UNCHANGED <<phase, outcomes, failure, serverShutdown>>
  BY <1>2, <1>6, <1>11, SendEnds
<1>12. CASE /\ f.op # "CLOSE" /\ phase[f.of] = "replying" /\ Enter(f.of, "failed")
            /\ failure' = [failure EXCEPT ![f.of] = why]
            /\ UNCHANGED <<outcomes, serverLoop, serverShutdown>>
  <2>1. PICK m \in Requests : m = f.of
    BY <1>9, <1>12
  <2>2. /\ m \in Messages /\ phase[m] = "replying" /\ Enter(m, "failed")
        /\ failure' = [failure EXCEPT ![m] = why] /\ ~ToSend(Server, Answering, m)'
        /\ UNCHANGED <<outcomes, serverLoop, serverShutdown>>
    BY <1>9, <1>12, <2>1, MessageFacts
  <2>3. /\ outcomes[m] = {} /\ ~Coming(m) /\ ~IsQueued(m) /\ Known(m)
        /\ ~OnWire(Server, Answering, m) /\ settled[m] # "completed"
    BY <1>3, <2>2 DEF MessageInv
  <2>4. Still
    BY <1>6 DEF Still
  <2>5. QueueInv' /\ \A n : IsQueued(n)' <=> IsQueued(n)
    BY <1>2, <1>4, QueueKept
  <2>6. failure' \in [Messages -> Causes \cup {NoCause}] /\ failure'[m] # NoCause
        /\ \A n \in Messages : n # m => failure'[n] = failure[n]
    BY <1>4, <2>2 DEF TablesType, Causes, NoCause
  <2>7. TablesType' /\ CloseType'
    BY <1>2, <1>4, <2>2, <2>6 DEF TablesType, CloseType
  <2>8. "failed" \in Phases /\ "failed" \in InFlightPhases /\ phase[m] \in InFlightPhases
    BY <2>2 DEF Phases, InFlightPhases
  <2>9. serverShutdown # "done"
    BY <1>4, <2>2, <2>8 DEF RunInv, ShutdownLeavesNothing, inFlight
  <2>10. RunInv'
    BY <1>2, <1>4, <2>2, <2>8, <2>9, MovesWithin
  <2>11. phase'[m] = "failed" /\ \A n \in Messages : n # m => phase'[n] = phase[n]
    BY <1>4, <2>2, <2>8, Moves DEF RunInv
  <2>12. MessageInv(m)'
    <3>1. /\ UNCHANGED <<settled, made>> /\ (Known(m)' <=> Known(m))
          /\ ToSend(Client, Opening, m)' <=> ToSend(Client, Opening, m)
      BY <1>3, <2>4, ClientKept
    <3>2. ~Coming(m)' /\ ~ToSend(Client, Opening, m)' /\ ~OnWire(Server, Answering, m)'
      BY <1>6, <2>3, <3>1 DEF Coming
    <3> QED
      BY <2>2, <2>3, <2>5, <2>6, <2>11, <3>1, <3>2 DEF MessageInv
  <2>13. ASSUME NEW n \in Messages, n # m PROVE MessageInv(n)'
    <3>1. Same(n)
      BY <1>6, <2>2, <2>5, <2>6, <2>11, <2>13 DEF Same
    <3> QED
      BY <1>2, <1>3, <2>4, <3>1, SameKept
  <2> QED
    BY <1>6, <2>4, <2>5, <2>7, <2>10, <2>12, <2>13, PartsKeep, ServerStepKeeps
<1> QED
  BY <1>1, <1>8, <1>10, <1>11, <1>12

(* A request is accepted, queued or turned away as it arrives.             *)
LEMMA Arrives ==
    ASSUME SessionInv, NEW m \in Messages, OnWire(Client, Opening, m), ~OnWire(Client, Opening, m)'
    PROVE  /\ Coming(m) /\ Known(m) /\ phase[m] = "idle" /\ ~IsQueued(m) /\ ~ToSend(Client, Opening, m)
           /\ ~ToSend(Server, Answering, m) /\ ~OnWire(Server, Answering, m) /\ outcomes[m] = {}
           /\ ~(m \in Requests /\ settled[m] = "completed")
<1>1. Coming(m) /\ MessageInv(m) /\ ~ToSend(Client, Opening, m)
  BY DEF Coming, SessionInv, SentOnce
<1> QED
  BY <1>1 DEF MessageInv

LEMMA StartKeeps ==
    ASSUME SessionInv, UNCHANGED clientVars, WireStays, UNCHANGED <<granted, aborted>>, ~serverClosed,
           NEW m \in Messages, OnWire(Client, Opening, m), ~OnWire(Client, Opening, m)', HasRoom, Start(m)
    PROVE  SessionInv'
<1>1. DuplexInv /\ DuplexType /\ ServerInv /\ CallsInv /\ ClientEndInv /\ \A n \in Messages : MessageInv(n)
  BY DEF SessionInv, DuplexInv
<1>2. TablesType /\ CloseType /\ QueueInv /\ RunInv
  BY <1>1, ServerInvParts
<1>3. /\ Known(m) /\ phase[m] = "idle" /\ ~IsQueued(m) /\ ~ToSend(Client, Opening, m)
      /\ ~ToSend(Server, Answering, m) /\ ~OnWire(Server, Answering, m) /\ outcomes[m] = {}
      /\ ~(m \in Requests /\ settled[m] = "completed")
  BY Arrives
<1>4. /\ Enter(m, Invoked(m)) /\ FailWhenRead({m})
      /\ UNCHANGED <<queue, outcomes, abortReason, serverClosed, serverShutdown, serverLoop, ringState, shut, jobs>>
  BY DEF Start, Enter
<1>5. RingsType'
  BY <1>1, <1>4 DEF DuplexInv, DuplexType, RingsType
<1>6. /\ DuplexInv' /\ jobs'[Client] = jobs[Client]
      /\ \A n : Coming(n)' => Coming(n)
      /\ \A n : ToSend(Server, Answering, n)' <=> ToSend(Server, Answering, n)
  BY <1>1, <1>4, <1>5, NothingSent
<1>7. Still /\ \A n : OnWire(Server, Answering, n)' <=> OnWire(Server, Answering, n)
  BY <1>6 DEF Still, WireStays
<1>8. QueueInv' /\ \A n : IsQueued(n)' <=> IsQueued(n)
  BY <1>2, <1>4, QueueKept
<1>9. /\ failure' \in [Messages -> Causes \cup {NoCause}]
      /\ Invoked(m) = "failed" => failure'[m] # NoCause
      /\ \A n \in Messages : n # m => failure'[n] = failure[n]
  BY <1>2, <1>4 DEF FailWhenRead, Invoked, TablesType, Causes, NoCause
<1>10. TablesType' /\ CloseType'
  BY <1>2, <1>4, <1>9 DEF TablesType, CloseType
<1>11. Invoked(m) \in {"running", "failed"} /\ Invoked(m) \in Phases /\ Invoked(m) \in InFlightPhases
  BY DEF Invoked, Phases, InFlightPhases
<1>12. /\ phase' \in [Messages -> Phases] /\ phase'[m] = Invoked(m) /\ inFlight' = inFlight \cup {m}
       /\ \A n \in Messages : n # m => phase'[n] = phase[n]
       /\ m \notin inFlight
  <2>1. phase[m] \notin InFlightPhases /\ phase \in [Messages -> Phases]
    BY <1>2, <1>3 DEF InFlightPhases, RunInv
  <2> QED
    BY <1>4, <1>11, <2>1, Moves
<1>13. RunInv'
  <2>1. Cardinality(inFlight') = Cardinality(inFlight) + 1
    BY <1>12, InFlightFinite, FS_AddElement
  <2>2. Cardinality(inFlight) \in Nat /\ MaxInFlight \in Nat /\ Cardinality(inFlight) < MaxInFlight
    BY InFlightFinite, ServerAssumption DEF HasRoom
  <2>3. Cardinality(inFlight') <= MaxInFlight
    BY ONLY <2>1, <2>2
  <2>4. queue = <<>>
    BY <1>2, <2>2 DEF RunInv
  <2>5. serverShutdown' # "done"
    BY <1>2, <1>4 DEF CloseType
  <2> QED
    BY <1>4, <1>12, <2>3, <2>4, <2>5 DEF RunInv, ShutdownLeavesNothing
<1>14. MessageInv(m)'
  <2>1. /\ UNCHANGED <<settled, made>> /\ (Known(m)' <=> Known(m))
        /\ ToSend(Client, Opening, m)' <=> ToSend(Client, Opening, m)
    BY <1>1, <1>7, ClientKept
  <2>2. ~Coming(m)' /\ ~ToSend(Client, Opening, m)'
    BY <1>3, <2>1 DEF Coming
  <2> QED
    BY <1>3, <1>4, <1>6, <1>7, <1>8, <1>9, <1>11, <1>12, <2>1, <2>2 DEF MessageInv
<1>15. ASSUME NEW n \in Messages, n # m PROVE MessageInv(n)'
  <2>1. Same(n)
    BY <1>4, <1>6, <1>7, <1>8, <1>9, <1>12, <1>15 DEF Same
  <2> QED
    BY <1>1, <1>4, <1>7, <2>1, SameKept
<1> QED
  BY <1>6, <1>7, <1>8, <1>10, <1>13, <1>14, <1>15, PartsKeep, ServerStepKeeps

LEMMA PushKeeps ==
    ASSUME SessionInv, UNCHANGED clientVars, WireStays, UNCHANGED <<granted, aborted>>,
           NEW m \in Requests, OnWire(Client, Opening, m), ~OnWire(Client, Opening, m)',
           ~serverClosed, ~HasRoom, MayQueue(m), Push(m)
    PROVE  SessionInv'
<1>1. DuplexInv /\ DuplexType /\ ServerInv /\ CallsInv /\ ClientEndInv /\ \A n \in Messages : MessageInv(n)
  BY DEF SessionInv, DuplexInv
<1>2. TablesType /\ CloseType /\ QueueInv /\ RunInv
  BY <1>1, ServerInvParts
<1>m. m \in Messages
  BY MessageFacts
<1>3. /\ Known(m) /\ phase[m] = "idle" /\ ~IsQueued(m) /\ ~ToSend(Client, Opening, m)
      /\ ~ToSend(Server, Answering, m) /\ ~OnWire(Server, Answering, m) /\ outcomes[m] = {}
      /\ ~(m \in Requests /\ settled[m] = "completed")
  BY <1>m, Arrives
<1>4. /\ queue' = Append(queue, m)
      /\ UNCHANGED <<phase, failure, outcomes, abortReason, serverClosed, serverShutdown, serverLoop,
                     ringState, shut, jobs>>
  BY DEF Push
<1>5. RingsType'
  BY <1>1, <1>4 DEF DuplexInv, DuplexType, RingsType
<1>6. /\ DuplexInv' /\ jobs'[Client] = jobs[Client]
      /\ \A n : Coming(n)' => Coming(n)
      /\ \A n : ToSend(Server, Answering, n)' <=> ToSend(Server, Answering, n)
  BY <1>1, <1>4, <1>5, NothingSent
<1>7. Still /\ \A n : OnWire(Server, Answering, n)' <=> OnWire(Server, Answering, n)
  BY <1>6 DEF Still, WireStays
<1>8. /\ Len(queue') = Len(queue) + 1 /\ queue'[Len(queue) + 1] = m /\ queue' \in Seq(Requests)
      /\ \A i \in 1 .. Len(queue) : queue'[i] = queue[i]
      /\ Len(queue) \in Nat /\ queue' # <<>> /\ DOMAIN queue' = 1 .. Len(queue') /\ DOMAIN queue = 1 .. Len(queue)
  BY <1>2, <1>4 DEF QueueInv
<1>9. \A n : IsQueued(n)' <=> IsQueued(n) \/ n = m
  BY <1>8 DEF IsQueued
<1>10. QueueInv'
  <2>1. Len(queue') <= MaxQueuedRequests
    BY <1>8, ServerAssumption DEF MayQueue
  <2>2. \A i, j \in 1 .. Len(queue') : queue'[i] = queue'[j] => i = j
    <3>1. \A i \in 1 .. Len(queue) : queue[i] # m
      BY <1>3, <1>8 DEF IsQueued
    <3> QED
      BY <1>2, <1>8, <3>1 DEF QueueInv
  <2> QED
    BY <1>8, <2>1, <2>2 DEF QueueInv
<1>11. serverShutdown = "none" /\ CloseType'
  BY <1>2, <1>4 DEF CloseType
<1>12. TablesType'
  BY <1>2, <1>4 DEF TablesType
<1>13. RunInv'
  <2>1. Cardinality(inFlight) = MaxInFlight
    <3>1. Cardinality(inFlight) \in Nat /\ Cardinality(inFlight) <= MaxInFlight
          /\ ~(Cardinality(inFlight) < MaxInFlight)
      BY <1>2, InFlightFinite DEF HasRoom, RunInv
    <3> QED
      BY ONLY <3>1, ServerAssumption
  <2>2. inFlight' = inFlight
    BY <1>4 DEF inFlight
  <2> QED
    BY <1>2, <1>4, <1>11, <2>1, <2>2 DEF RunInv, ShutdownLeavesNothing
<1>14. MessageInv(m)'
  <2>1. /\ UNCHANGED <<settled, made>> /\ (Known(m)' <=> Known(m))
        /\ ToSend(Client, Opening, m)' <=> ToSend(Client, Opening, m)
    BY <1>1, <1>7, ClientKept
  <2>2. ~Coming(m)' /\ ~ToSend(Client, Opening, m)'
    BY <1>3, <2>1 DEF Coming
  <2> QED
    BY <1>3, <1>4, <1>6, <1>7, <1>9, <2>1, <2>2 DEF MessageInv
<1>15. ASSUME NEW n \in Messages, n # m PROVE MessageInv(n)'
  <2>1. Same(n)
    BY <1>4, <1>6, <1>7, <1>9, <1>15 DEF Same
  <2> QED
    BY <1>1, <1>4, <1>7, <2>1, SameKept
<1> QED
  BY <1>6, <1>7, <1>10, <1>11, <1>12, <1>13, <1>14, <1>15, PartsKeep, ServerStepKeeps

LEMMA RefuseKeeps ==
    ASSUME SessionInv, UNCHANGED clientVars, WireStays, UNCHANGED <<granted, aborted>>,
           NEW m \in Requests, OnWire(Client, Opening, m), ~OnWire(Client, Opening, m)', Refuse(m)
    PROVE  SessionInv'
<1>1. DuplexInv /\ DuplexType /\ ServerInv /\ CallsInv /\ ClientEndInv /\ \A n \in Messages : MessageInv(n)
  BY DEF SessionInv, DuplexInv
<1>2. TablesType /\ CloseType /\ QueueInv /\ RunInv
  BY <1>1, ServerInvParts
<1>m. m \in Messages
  BY MessageFacts
<1>3. /\ Known(m) /\ phase[m] = "idle" /\ ~IsQueued(m) /\ ~ToSend(Client, Opening, m)
      /\ ~ToSend(Server, Answering, m) /\ ~OnWire(Server, Answering, m) /\ outcomes[m] = {}
      /\ ~(m \in Requests /\ settled[m] = "completed")
  BY <1>m, Arrives
<1>4. UNCHANGED <<failure, queue, abortReason, serverClosed, serverShutdown, ringState, shut>>
  BY DEF Refuse
<1>5. RingsType'
  BY <1>1, <1>4 DEF DuplexInv, DuplexType, RingsType
<1>6. QueueInv' /\ CloseType' /\ \A n : IsQueued(n)' <=> IsQueued(n)
  BY <1>2, <1>4, QueueKept DEF CloseType
<1>7. phase[m] \notin InFlightPhases
  BY <1>3 DEF InFlightPhases
<1>8. ASSUME NEW p \in {"refusing", "over"}, phase' = [phase EXCEPT ![m] = p]
      PROVE  RunInv' /\ phase'[m] = p /\ \A n \in Messages : n # m => phase'[n] = phase[n]
  <2>1. Enter(m, p) /\ p \in Phases /\ p \notin InFlightPhases
    BY <1>8 DEF Enter, Phases, InFlightPhases
  <2>2. serverShutdown = "done" => queue' = <<>>
    BY <1>2, <1>4 DEF CloseType
  <2>3. RunInv'
    BY <1>m, <1>2, <1>4, <1>7, <2>1, <2>2, MovesWithin
  <2> QED
    BY <1>m, <1>2, <2>1, <2>3, Moves DEF RunInv
<1>9. ASSUME Still PROVE /\ UNCHANGED <<settled, made>> /\ (Known(m)' <=> Known(m))
                         /\ ~ToSend(Client, Opening, m)' /\ ~Coming(m)'
  BY <1>1, <1>3, <1>9, ClientKept DEF Coming
<1>10. CASE /\ phase' = [phase EXCEPT ![m] = "refusing"]
            /\ Enqueue(Server, Frame("RESPONSE_ERR", m), m \in Timed \/ ResponseTimeout, TRUE)
            /\ serverLoop' = "refusing" /\ UNCHANGED outcomes
  <2> DEFINE f == Frame("RESPONSE_ERR", m)
  <2>1. f \in ServerFrames /\ f.op \in Answering /\ f.of = m /\ f.op # "CLOSE"
    BY DEF ServerFrames, Frame, Answering
  <2>2. PICK timed \in BOOLEAN : Enqueue(Server, f, timed, TRUE)
    <3>1. (m \in Timed \/ ResponseTimeout) \in BOOLEAN
      OBVIOUS
    <3> QED
      BY <1>10, <3>1, Zenon
  <2>3. /\ DuplexInv' /\ jobs'[Client] = jobs[Client]
        /\ \A n : Coming(n)' => Coming(n)
        /\ \A n : ToSend(Server, Answering, n)' <=>
                     ToSend(Server, Answering, n) \/ (f.op \in Answering /\ f.of = n)
    <3> HIDE DEF f
    <3> QED
      BY <1>1, <1>3, <1>4, <1>5, <2>1, <2>2, SendQueued
  <2>4. Still /\ \A n : OnWire(Server, Answering, n)' <=> OnWire(Server, Answering, n)
    BY <2>3 DEF Still, WireStays
  <2>5. TablesType'
    BY <1>2, <1>4, <1>10 DEF TablesType
  <2>6. RunInv' /\ phase'[m] = "refusing" /\ \A n \in Messages : n # m => phase'[n] = phase[n]
    BY <1>8, <1>10
  <2>7. MessageInv(m)'
    BY <1>3, <1>4, <1>6, <1>9, <1>10, <2>3, <2>4, <2>6 DEF MessageInv
  <2>8. ASSUME NEW n \in Messages, n # m PROVE MessageInv(n)'
    <3>1. Same(n)
      BY <1>4, <1>6, <1>10, <2>1, <2>3, <2>4, <2>6, <2>8 DEF Same
    <3> QED
      BY <1>1, <1>4, <2>4, <3>1, SameKept
  <2> QED
    BY <1>6, <2>3, <2>4, <2>5, <2>6, <2>7, <2>8, PartsKeep, ServerStepKeeps
<1>11. CASE /\ phase' = [phase EXCEPT ![m] = "over"] /\ Record(m, "timed-out")
            /\ UNCHANGED <<serverLoop, jobs>>
  <2>1. /\ DuplexInv' /\ jobs'[Client] = jobs[Client]
        /\ \A n : Coming(n)' => Coming(n)
        /\ \A n : ToSend(Server, Answering, n)' <=> ToSend(Server, Answering, n)
    BY <1>1, <1>4, <1>5, <1>11, NothingSent
  <2>2. Still /\ \A n : OnWire(Server, Answering, n)' <=> OnWire(Server, Answering, n)
    BY <2>1 DEF Still, WireStays
  <2>3. /\ outcomes' \in [Messages -> SUBSET Outcomes] /\ outcomes'[m] = {"timed-out"}
        /\ \A n \in Messages : n # m => outcomes'[n] = outcomes[n]
        /\ "timed-out" \in Outcomes
    BY <1>2, <1>m, <1>3, <1>11 DEF TablesType, Record, Outcomes, Causes
  <2>4. TablesType'
    BY <1>2, <1>4, <1>11, <2>3 DEF TablesType
  <2>5. RunInv' /\ phase'[m] = "over" /\ \A n \in Messages : n # m => phase'[n] = phase[n]
    BY <1>8, <1>11
  <2>6. MessageInv(m)'
    BY <1>3, <1>4, <1>6, <1>9, <2>1, <2>2, <2>3, <2>5 DEF MessageInv
  <2>7. ASSUME NEW n \in Messages, n # m PROVE MessageInv(n)'
    <3>1. Same(n)
      BY <1>4, <1>6, <2>1, <2>2, <2>3, <2>5, <2>7 DEF Same
    <3> QED
      BY <1>1, <1>4, <2>2, <3>1, SameKept
  <2> QED
    BY <1>6, <2>1, <2>2, <2>4, <2>5, <2>6, <2>7, PartsKeep, ServerStepKeeps
<1> QED
  BY <1>10, <1>11 DEF Refuse

LEMMA RefuseNoteKeeps ==
    ASSUME SessionInv, UNCHANGED clientVars, WireStays, UNCHANGED <<granted, aborted>>,
           NEW m \in Notes, OnWire(Client, Opening, m), ~OnWire(Client, Opening, m)', RefuseNote(m)
    PROVE  SessionInv'
<1>1. DuplexInv /\ DuplexType /\ ServerInv /\ CallsInv /\ ClientEndInv /\ \A n \in Messages : MessageInv(n)
  BY DEF SessionInv, DuplexInv
<1>2. TablesType /\ CloseType /\ QueueInv /\ RunInv
  BY <1>1, ServerInvParts
<1>m. m \in Messages /\ m \notin Requests
  BY MessageFacts
<1>3. /\ Known(m) /\ phase[m] = "idle" /\ ~IsQueued(m) /\ ~ToSend(Client, Opening, m)
      /\ ~ToSend(Server, Answering, m) /\ ~OnWire(Server, Answering, m) /\ outcomes[m] = {}
  BY <1>m, Arrives
<1>4. Enter(m, "over") /\ UNCHANGED <<failure, jobs>>
  BY DEF RefuseNote, Enter
<1>5. RingsType' /\ (serverClosed => serverClosed')
  BY <1>1, RingsEnd, SideFacts DEF RefuseNote, ShutdownNow, DuplexInv, DuplexType, RingsType
<1>6. /\ DuplexInv' /\ jobs'[Client] = jobs[Client]
      /\ \A n : Coming(n)' => Coming(n)
      /\ \A n : ToSend(Server, Answering, n)' <=> ToSend(Server, Answering, n)
  BY <1>1, <1>4, <1>5, NothingSent
<1>7. Still /\ \A n : OnWire(Server, Answering, n)' <=> OnWire(Server, Answering, n)
  BY <1>6 DEF Still, WireStays
<1>8. /\ UNCHANGED <<settled, made>> /\ (Known(m)' <=> Known(m))
      /\ ~ToSend(Client, Opening, m)' /\ ~Coming(m)'
  BY <1>1, <1>3, <1>7, ClientKept DEF Coming
<1>9. "over" \in Phases /\ "over" \notin InFlightPhases /\ phase[m] \notin InFlightPhases
  BY <1>3 DEF Phases, InFlightPhases
<1>10. /\ phase' \in [Messages -> Phases] /\ phase'[m] = "over" /\ inFlight' = inFlight
       /\ \A n \in Messages : n # m => phase'[n] = phase[n]
  <2>1. phase \in [Messages -> Phases]
    BY <1>2 DEF RunInv
  <2>2. /\ phase' \in [Messages -> Phases] /\ phase'[m] = "over" /\ inFlight' = inFlight \ {m}
        /\ m \notin inFlight /\ \A n \in Messages : n # m => phase'[n] = phase[n]
    BY <1>m, <1>4, <1>9, <2>1, Moves
  <2> QED
    BY <2>2
<1>11. CASE ShutdownNow("failed", "closed") /\ serverLoop' = "ended"
  <2>1. StopTasks("failed") /\ serverClosed' = TRUE /\ "failed" \in Causes
    BY <1>11 DEF ShutdownNow, Causes
  <2>2. ServerInv'
    BY <1>1, <1>4, <1>10, <1>11, <2>1, StopsServer
  <2>3. ASSUME NEW n \in Messages, n # m PROVE MessageInv(n)'
    BY <1>1, <1>4, <1>6, <1>7, <1>10, <2>1, <2>3, StopsMessage
  <2>4. MessageInv(m)'
    <3>1. outcomes'[m] = {} /\ ~IsQueued(m)'
      BY <1>m, <1>3, <2>1 DEF StopTasks, IsQueued
    <3> QED
      BY <1>m, <1>3, <1>6, <1>7, <1>8, <1>10, <3>1 DEF MessageInv
  <2> QED
    BY <1>6, <1>7, <2>2, <2>3, <2>4, ServerStepKeeps
<1>12. CASE UNCHANGED <<queue, outcomes, abortReason, serverClosed, serverShutdown, serverLoop>>
  <2>1. QueueInv' /\ CloseType' /\ TablesType' /\ \A n : IsQueued(n)' <=> IsQueued(n)
    BY <1>2, <1>4, <1>12, QueueKept DEF CloseType, TablesType
  <2>2. RunInv'
    <3>1. serverShutdown = "done" => queue' = <<>>
      BY <1>2, <1>12 DEF CloseType
    <3> QED
      BY <1>m, <1>2, <1>4, <1>9, <1>12, <3>1, MovesWithin
  <2>3. MessageInv(m)'
    BY <1>m, <1>3, <1>6, <1>7, <1>8, <1>10, <1>12, <2>1 DEF MessageInv
  <2>4. ASSUME NEW n \in Messages, n # m PROVE MessageInv(n)'
    <3>1. Same(n)
      BY <1>4, <1>6, <1>7, <1>10, <1>12, <2>1, <2>4 DEF Same
    <3> QED
      BY <1>1, <1>7, <1>12, <3>1, SameKept
  <2> QED
    BY <1>6, <1>7, <2>1, <2>2, <2>3, <2>4, PartsKeep, ServerStepKeeps
<1> QED
  BY <1>11, <1>12 DEF RefuseNote

(* handleCancel takes one message out of the queue.                        *)
LEMMA Splices ==
    ASSUME QueueInv, NEW i \in DOMAIN queue, queue' = Splice(i)
    PROVE  /\ QueueInv' /\ queue # <<>> /\ queue[i] \in Requests
           /\ \A n : IsQueued(n)' <=> IsQueued(n) /\ n # queue[i]
<1>0. /\ queue \in Seq(Requests) /\ Len(queue) \in Nat /\ Len(queue) <= MaxQueuedRequests
      /\ i \in 1 .. Len(queue) /\ DOMAIN queue = 1 .. Len(queue) /\ MaxQueuedRequests \in Nat
      /\ \A j \in 1 .. Len(queue) : queue[j] \in Requests
  BY ServerAssumption DEF QueueInv
<1> DEFINE a == SubSeq(queue, 1, i - 1)
           b == SubSeq(queue, i + 1, Len(queue))
<1>1. a \in Seq(Requests) /\ Len(a) = i - 1 /\ \A k \in 1 .. i - 1 : a[k] = queue[k]
  BY <1>0
<1>2. b \in Seq(Requests) /\ Len(b) = Len(queue) - i /\ \A k \in 1 .. Len(queue) - i : b[k] = queue[k + i]
  <2>1. i + 1 \in Nat /\ i + 1 > 0 /\ i \in Nat
    BY ONLY <1>0
  <2>2. Len(b) = Len(queue) - i
    BY <1>0, <2>1
  <2>3. ASSUME NEW k \in 1 .. Len(queue) - i PROVE b[k] = queue[k + i] /\ queue[k + i] \in Requests
    <3>1. k + i \in 1 .. Len(queue) /\ ((i + 1) + k) - 1 = k + i
      BY ONLY <1>0, <2>3
    <3>2. b[k] = queue[((i + 1) + k) - 1]
      BY <1>0, <2>1, <2>2, <2>3
    <3> QED
      BY <1>0, <3>1, <3>2
  <2>4. b \in Seq(Requests)
    BY <1>0, <2>1, <2>2, <2>3
  <2> QED
    BY <2>2, <2>3, <2>4
<1>3. queue' = a \o b
  BY DEF Splice
<1> HIDE DEF a, b
<1>4. /\ queue' \in Seq(Requests) /\ Len(queue') = Len(queue) - 1
      /\ \A k \in 1 .. Len(queue) - 1 : queue'[k] = IF k < i THEN queue[k] ELSE queue[k + 1]
  <2>1. /\ queue' \in Seq(Requests) /\ Len(queue') = Len(a) + Len(b)
        /\ \A k \in 1 .. Len(a) + Len(b) : queue'[k] = IF k <= Len(a) THEN a[k] ELSE b[k - Len(a)]
    BY <1>1, <1>2, <1>3
  <2>2. Len(a) + Len(b) = Len(queue) - 1
    BY ONLY <1>0, <1>1, <1>2
  <2>3. ASSUME NEW k \in 1 .. Len(queue) - 1 PROVE queue'[k] = IF k < i THEN queue[k] ELSE queue[k + 1]
    <3>1. CASE k < i
      <4>1. k \in 1 .. i - 1 /\ k <= Len(a)
        BY ONLY <1>0, <1>1, <2>3, <3>1
      <4> QED
        BY <1>1, <2>1, <2>2, <2>3, <3>1, <4>1
    <3>2. CASE ~(k < i)
      <4>1. ~(k <= Len(a)) /\ k - Len(a) \in 1 .. Len(queue) - i /\ (k - Len(a)) + i = k + 1
        BY ONLY <1>0, <1>1, <2>3, <3>2
      <4> QED
        BY <1>2, <2>1, <2>2, <2>3, <3>2, <4>1
    <3> QED
      BY <3>1, <3>2
  <2> QED
    BY <2>1, <2>2, <2>3
<1>5. \A k \in 1 .. Len(queue) - 1 : k + 1 \in 1 .. Len(queue) /\ k \in 1 .. Len(queue) /\ k \in Nat
  BY ONLY <1>0
<1>6. \A j, k \in 1 .. Len(queue') : queue'[j] = queue'[k] => j = k
  <2> SUFFICES ASSUME NEW j \in 1 .. Len(queue) - 1, NEW k \in 1 .. Len(queue) - 1, queue'[j] = queue'[k]
               PROVE  j = k
    BY <1>4
  <2>1. PICK x \in 1 .. Len(queue) : queue'[j] = queue[x] /\ ((j < i /\ x = j) \/ (~(j < i) /\ x = j + 1))
    BY <1>4, <1>5
  <2>2. PICK y \in 1 .. Len(queue) : queue'[k] = queue[y] /\ ((k < i /\ y = k) \/ (~(k < i) /\ y = k + 1))
    BY <1>4, <1>5
  <2>3. x = y
    BY <2>1, <2>2 DEF QueueInv
  <2> QED
    BY ONLY <1>0, <1>5, <2>1, <2>2, <2>3
<1>7. \A n : IsQueued(n)' <=> IsQueued(n) /\ n # queue[i]
  <2>1. ASSUME NEW n, IsQueued(n)' PROVE IsQueued(n) /\ n # queue[i]
    <3>1. PICK k \in 1 .. Len(queue) - 1 : queue'[k] = n
      BY <1>4, <2>1 DEF IsQueued
    <3>2. PICK y \in 1 .. Len(queue) : n = queue[y] /\ y # i
      BY <1>0, <1>4, <1>5, <3>1
    <3>3. n # queue[i]
      BY <1>0, <3>2 DEF QueueInv
    <3> QED
      BY <1>0, <3>2, <3>3 DEF IsQueued
  <2>2. ASSUME NEW n, IsQueued(n), n # queue[i] PROVE IsQueued(n)'
    <3>1. PICK y \in 1 .. Len(queue) : queue[y] = n /\ y # i
      BY <1>0, <2>2 DEF IsQueued
    <3>2. PICK k \in 1 .. Len(queue) - 1 : (k < i /\ y = k) \/ (~(k < i) /\ y = k + 1)
      <4>1. CASE y < i
        BY ONLY <1>0, <4>1
      <4>2. CASE y > i
        <5>1. y - 1 \in 1 .. Len(queue) - 1 /\ ~(y - 1 < i) /\ y = (y - 1) + 1
          BY ONLY <1>0, <4>2
        <5> QED
          BY <5>1
      <4> QED
        BY ONLY <1>0, <3>1, <4>1, <4>2
    <3>3. queue'[k] = n
      BY <1>4, <3>1, <3>2
    <3>4. k \in DOMAIN queue'
      BY <1>4
    <3> QED
      BY <3>3, <3>4 DEF IsQueued
  <2> QED
    BY <2>1, <2>2
<1>8. Len(queue') <= MaxQueuedRequests
  BY ONLY <1>0, <1>4
<1> QED
  BY <1>0, <1>4, <1>6, <1>7, <1>8 DEF QueueInv

LEMMA HandleCancelKeeps ==
    ASSUME SessionInv, UNCHANGED clientVars, WireStays, UNCHANGED <<granted, aborted>>,
           NEW m \in Requests, NEW why \in Causes, HandleCancel(m, why)
    PROVE  SessionInv'
<1>1. DuplexInv /\ DuplexType /\ ServerInv /\ CallsInv /\ ClientEndInv /\ \A n \in Messages : MessageInv(n)
  BY DEF SessionInv, DuplexInv
<1>2. TablesType /\ CloseType /\ QueueInv /\ RunInv
  BY <1>1, ServerInvParts
<1>m. m \in Messages /\ why \in Outcomes
  BY MessageFacts DEF Outcomes
<1>3. LoopGoesOn /\ UNCHANGED <<failure, serverClosed, serverShutdown, ringState, shut, jobs>>
  BY DEF HandleCancel
<1>4. RingsType'
  BY <1>1, <1>3 DEF DuplexInv, DuplexType, RingsType
<1>5. /\ DuplexInv' /\ jobs'[Client] = jobs[Client]
      /\ \A n : Coming(n)' => Coming(n)
      /\ \A n : ToSend(Server, Answering, n)' <=> ToSend(Server, Answering, n)
  BY <1>1, <1>3, <1>4, NothingSent
<1>6. Still /\ \A n : OnWire(Server, Answering, n)' <=> OnWire(Server, Answering, n)
  BY <1>5 DEF Still, WireStays
<1>7. CASE /\ \E i \in DOMAIN queue : queue[i] = m /\ queue' = Splice(i)
           /\ Record(m, why) /\ phase' = [phase EXCEPT ![m] = "over"] /\ UNCHANGED abortReason
  <2>1. PICK i \in DOMAIN queue : queue[i] = m /\ queue' = Splice(i)
    BY <1>7
  <2>2. /\ QueueInv' /\ queue # <<>> /\ IsQueued(m)
        /\ \A n : IsQueued(n)' <=> IsQueued(n) /\ n # m
    BY <1>2, <2>1, Splices DEF IsQueued
  <2>3. /\ Known(m) /\ phase[m] = "idle" /\ outcomes[m] = {} /\ ~Coming(m) /\ ~ToSend(Client, Opening, m)
        /\ ~ToSend(Server, Answering, m) /\ ~OnWire(Server, Answering, m) /\ settled[m] # "completed"
    BY <1>1, <1>m, <2>2 DEF MessageInv, Coming
  <2>4. /\ outcomes' \in [Messages -> SUBSET Outcomes] /\ outcomes'[m] = {why}
        /\ \A n \in Messages : n # m => outcomes'[n] = outcomes[n]
    BY <1>2, <1>m, <1>7, <2>3 DEF TablesType, Record
  <2>5. TablesType' /\ CloseType'
    BY <1>2, <1>3, <1>7, <2>2, <2>4 DEF TablesType, CloseType, LoopGoesOn
  <2>6. Enter(m, "over") /\ "over" \in Phases /\ "over" \notin InFlightPhases /\ phase[m] \notin InFlightPhases
    BY <1>7, <2>3 DEF Enter, Phases, InFlightPhases
  <2>7. RunInv'
    <3>1. serverShutdown # "done"
      BY <1>2, <2>2 DEF CloseType
    <3> QED
      BY <1>m, <1>2, <1>3, <2>2, <2>6, <3>1, MovesWithin
  <2>8. phase'[m] = "over" /\ \A n \in Messages : n # m => phase'[n] = phase[n]
    BY <1>2, <1>m, <2>6, Moves DEF RunInv
  <2>9. MessageInv(m)'
    <3>1. /\ UNCHANGED <<settled, made>> /\ (Known(m)' <=> Known(m))
          /\ ~ToSend(Client, Opening, m)' /\ ~Coming(m)'
      BY <1>1, <1>5, <1>6, <2>3, ClientKept
    <3> QED
      BY <1>m, <1>3, <1>5, <1>6, <2>2, <2>3, <2>4, <2>8, <3>1 DEF MessageInv
  <2>10. ASSUME NEW n \in Messages, n # m PROVE MessageInv(n)'
    <3>1. Same(n)
      BY <1>3, <1>5, <1>6, <2>2, <2>4, <2>8, <2>10 DEF Same
    <3> QED
      BY <1>1, <1>3, <1>6, <3>1, SameKept
  <2> QED
    BY <1>5, <1>6, <2>2, <2>5, <2>7, <2>9, <2>10, PartsKeep, ServerStepKeeps
<1>8. CASE /\ abortReason' = IF m \in inFlight /\ abortReason[m] = NoCause
                            THEN [abortReason EXCEPT ![m] = why] ELSE abortReason
           /\ UNCHANGED <<queue, outcomes, phase>>
  <2>1. QueueInv' /\ \A n : IsQueued(n)' <=> IsQueued(n)
    BY <1>2, <1>8, QueueKept
  <2>2. TablesType' /\ CloseType'
    BY <1>2, <1>3, <1>8 DEF TablesType, CloseType, LoopGoesOn
  <2>3. RunInv'
    BY <1>2, <1>3, <1>8 DEF RunInv, ShutdownLeavesNothing, inFlight
  <2>4. ASSUME NEW n \in Messages PROVE MessageInv(n)'
    <3>1. Same(n)
      BY <1>3, <1>5, <1>6, <1>8, <2>1 DEF Same
    <3> QED
      BY <1>1, <1>3, <1>6, <3>1, SameKept
  <2> QED
    BY <1>5, <1>6, <2>1, <2>2, <2>3, <2>4, PartsKeep, ServerStepKeeps
<1> QED
  BY <1>7, <1>8 DEF HandleCancel

(* The loop ends, or the server does, with the frame it has taken.         *)
LEMMA DiscardKeeps ==
    ASSUME SessionInv, UNCHANGED clientVars, WireStays, UNCHANGED <<granted, aborted>>, Discard
    PROVE  SessionInv'
<1>1. DuplexInv /\ DuplexType /\ ServerInv /\ CallsInv /\ ClientEndInv /\ \A n \in Messages : MessageInv(n)
  BY DEF SessionInv, DuplexInv
<1>2. serverLoop' = "ended" /\ UNCHANGED <<ringState, shut, jobs>>
      /\ UNCHANGED <<phase, failure, abortReason, queue, outcomes, serverClosed, serverShutdown>>
  BY DEF Discard
<1>3. RingsType'
  BY <1>1, <1>2 DEF DuplexInv, DuplexType, RingsType
<1>4. /\ DuplexInv' /\ jobs'[Client] = jobs[Client]
      /\ \A n : Coming(n)' => Coming(n)
      /\ \A n : ToSend(Server, Answering, n)' <=> ToSend(Server, Answering, n)
  BY <1>1, <1>2, <1>3, NothingSent
<1>5. \A n : OnWire(Server, Answering, n)' <=> OnWire(Server, Answering, n)
  BY DEF WireStays
<1> QED
  BY <1>2, <1>4, <1>5, SendEnds

LEMMA ClosedByClientKeeps ==
    ASSUME SessionInv, UNCHANGED clientVars, WireStays, UNCHANGED <<granted, aborted, phase, failure, jobs>>,
           ShutdownNow("cancelled", "closed"), serverLoop' = "ended"
    PROVE  SessionInv'
<1>1. DuplexInv /\ DuplexType /\ ServerInv /\ CallsInv /\ ClientEndInv /\ \A n \in Messages : MessageInv(n)
  BY DEF SessionInv, DuplexInv
<1>2. TablesType /\ CloseType /\ QueueInv /\ RunInv
  BY <1>1, ServerInvParts
<1>3. RingsType' /\ (serverClosed => serverClosed')
  BY <1>1, RingsEnd, SideFacts DEF ShutdownNow, DuplexInv, DuplexType
<1>4. /\ DuplexInv' /\ jobs'[Client] = jobs[Client]
      /\ \A n : Coming(n)' => Coming(n)
      /\ \A n : ToSend(Server, Answering, n)' <=> ToSend(Server, Answering, n)
  BY <1>1, <1>3, NothingSent
<1>5. Still /\ \A n : OnWire(Server, Answering, n)' <=> OnWire(Server, Answering, n)
  BY <1>4 DEF Still, WireStays
<1>6. StopTasks("cancelled") /\ serverClosed' = TRUE /\ "cancelled" \in Causes
  BY DEF ShutdownNow, Causes
<1>7. ServerInv'
  BY <1>1, <1>2, <1>6, StopsServer DEF RunInv, inFlight
<1>8. ASSUME NEW n \in Messages PROVE MessageInv(n)'
  BY <1>1, <1>4, <1>5, <1>6, StopsMessage
<1> QED
  BY <1>4, <1>5, <1>7, <1>8, ServerStepKeeps

LEMMA ServerReceiveKeeps ==
    ASSUME SessionInv, ServerReceive, UNCHANGED clientVars
    PROVE  SessionInv'
<1>0. PICK f : f = Arrival(Server)
  OBVIOUS
<1>1. /\ Arrived(Server) /\ TakeFrame(Server) /\ UNCHANGED <<granted, aborted>>
      /\ \/ f.op \in {"REQUEST", "NOTIFY"} /\ ~serverClosed /\ Dispatch(f.of)
         \/ f.op \in {"REQUEST", "NOTIFY"} /\ serverClosed /\ Discard
         \/ f.op = "CANCEL" /\ HandleCancel(f.of, f.why)
         \/ /\ f.op = "CLOSE" /\ ~serverClosed
            /\ ShutdownNow("cancelled", "closed") /\ serverLoop' = "ended" /\ UNCHANGED <<phase, failure, jobs>>
         \/ f.op = "CLOSE" /\ serverClosed /\ Discard
  BY <1>0 DEF ServerReceive
<1>2. /\ WireStays /\ f \in ClientFrames
      /\ f.op \in Opening => OnWire(Client, Opening, f.of) /\ ~OnWire(Client, Opening, f.of)'
  BY <1>0, <1>1, Hears DEF SessionInv
<1>3. CASE f.op \in {"REQUEST", "NOTIFY"} /\ ~serverClosed /\ Dispatch(f.of)
  <2>1. /\ f.of \in Messages /\ (f.of \in Notes \/ f.of \in Requests)
        /\ OnWire(Client, Opening, f.of) /\ ~OnWire(Client, Opening, f.of)'
    BY <1>2, <1>3, MessageFacts DEF ClientFrames, Opening
  <2>2. PICK m \in Messages : m = f.of
    BY <2>1
  <2>3. OnWire(Client, Opening, m) /\ ~OnWire(Client, Opening, m)'
    BY <2>1, <2>2
  <2>4. CASE HasRoom /\ Start(m)
    BY <1>1, <1>2, <1>3, <2>3, <2>4, StartKeeps
  <2>5. CASE ~HasRoom /\ MayQueue(m) /\ Push(m)
    <3>1. m \in Requests
      BY <2>1, <2>2, <2>5 DEF MayQueue
    <3> QED
      BY <1>1, <1>2, <1>3, <2>3, <2>5, <3>1, PushKeeps
  <2>6. CASE m \notin Notes /\ Refuse(m)
    <3>1. m \in Requests
      BY <2>1, <2>2, <2>6
    <3> QED
      BY <1>1, <1>2, <2>3, <2>6, <3>1, RefuseKeeps
  <2>7. CASE m \in Notes /\ RefuseNote(m)
    BY <1>1, <1>2, <2>3, <2>7, RefuseNoteKeeps
  <2> QED
    BY <1>3, <2>2, <2>4, <2>5, <2>6, <2>7 DEF Dispatch
<1>4. CASE Discard
  BY <1>1, <1>2, <1>4, DiscardKeeps
<1>5. CASE f.op = "CANCEL" /\ HandleCancel(f.of, f.why)
  <2>1. f.of \in Requests /\ f.why \in Causes
    BY <1>2, <1>5 DEF ClientFrames
  <2>2. PICK m \in Requests, why \in Causes : m = f.of /\ why = f.why
    BY <2>1
  <2>3. HandleCancel(m, why)
    BY <1>5, <2>2
  <2> QED
    BY <1>1, <1>2, <2>3, HandleCancelKeeps
<1>6. CASE ShutdownNow("cancelled", "closed") /\ serverLoop' = "ended" /\ UNCHANGED <<phase, failure, jobs>>
  BY <1>1, <1>2, <1>6, ClosedByClientKeeps
<1> QED
  BY <1>1, <1>3, <1>4, <1>5, <1>6

(* drainQueue takes requests off the front of the queue.                   *)
LEMMA Drains ==
    ASSUME QueueInv, NEW D \in 0 .. Len(queue), queue' = SubSeq(queue, D + 1, Len(queue)),
           NEW next, next = {queue[i] : i \in 1 .. D}
    PROVE  /\ QueueInv' /\ Len(queue') = Len(queue) - D
           /\ IsFiniteSet(next) /\ Cardinality(next) = D /\ next \subseteq Requests
           /\ \A n : IsQueued(n) <=> IsQueued(n)' \/ n \in next
           /\ \A n : ~(IsQueued(n)' /\ n \in next)
<1>0. /\ queue \in Seq(Requests) /\ Len(queue) \in Nat /\ Len(queue) <= MaxQueuedRequests
      /\ DOMAIN queue = 1 .. Len(queue) /\ MaxQueuedRequests \in Nat /\ D \in Nat /\ D <= Len(queue)
      /\ \A j \in 1 .. Len(queue) : queue[j] \in Requests
  BY ServerAssumption DEF QueueInv
<1>1. /\ queue' \in Seq(Requests) /\ Len(queue') = Len(queue) - D
      /\ \A k \in 1 .. Len(queue) - D : queue'[k] = queue[k + D]
  <2>a. PICK L : L = Len(queue)
    OBVIOUS
  <2>0. L \in Nat /\ D <= L /\ D \in Nat /\ \A j \in 1 .. L : queue[j] \in Requests
    BY ONLY <1>0, <2>a
  <2>1. /\ D + 1 \in Int /\ L \in Int /\ \A k \in (D + 1) .. L : k \in 1 .. L
        /\ (IF D + 1 <= L THEN L - (D + 1) + 1 ELSE 0) = L - D
        /\ L - (D + 1) + 1 = L - D
        /\ \A k \in 1 .. L - D : (D + 1) + k - 1 = k + D
    BY ONLY <2>0
  <2>2. \A k \in (D + 1) .. L : queue[k] \in Requests
    BY ONLY <2>0, <2>1
  <2>3. /\ SubSeq(queue, D + 1, L) \in Seq(Requests)
        /\ Len(SubSeq(queue, D + 1, L)) = IF D + 1 <= L THEN L - (D + 1) + 1 ELSE 0
        /\ \A k \in 1 .. L - (D + 1) + 1 : SubSeq(queue, D + 1, L)[k] = queue[(D + 1) + k - 1]
    BY <2>1, <2>2, SubSeqProperties
  <2>4. queue' = SubSeq(queue, D + 1, L)
    BY <2>a
  <2> QED
    BY <2>a, <2>1, <2>3, <2>4
<1>2. /\ \A k \in 1 .. Len(queue) - D : k + D \in 1 .. Len(queue) /\ k + D \notin 1 .. D
      /\ 1 .. D \subseteq 1 .. Len(queue)
      /\ \A y \in 1 .. Len(queue) : y \notin 1 .. D => y - D \in 1 .. Len(queue) - D /\ (y - D) + D = y
      /\ \A j, k \in 1 .. Len(queue) - D : j + D = k + D => j = k
  BY ONLY <1>0
<1>3. /\ QueueInv'
  <2>1. Len(queue') <= MaxQueuedRequests
    BY ONLY <1>0, <1>1
  <2>2. ASSUME NEW j \in 1 .. Len(queue) - D, NEW k \in 1 .. Len(queue) - D, queue'[j] = queue'[k]
        PROVE  j = k
    <3>1. queue[j + D] = queue[k + D]
      BY <1>1, <2>2
    <3> QED
      BY <1>2, <3>1 DEF QueueInv
  <2> QED
    BY <1>1, <2>1, <2>2 DEF QueueInv
<1>4. IsFiniteSet(next) /\ Cardinality(next) = D /\ next \subseteq Requests
  <2> DEFINE enum == [k \in 1 .. D |-> queue[k]]
  <2>1. enum \in [1 .. D -> next] /\ \A n \in next : \E k \in 1 .. D : enum[k] = n
    OBVIOUS
  <2>2. \A j, k \in 1 .. D : enum[j] = enum[k] => j = k
    BY <1>2 DEF QueueInv
  <2>3. enum \in Bijection(1 .. D, next)
    BY <2>1, <2>2 DEF Bijection, Injection, Surjection, IsInjective
  <2>4. ExistsBijection(1 .. D, next)
    BY <2>3 DEF ExistsBijection
  <2>5. IsFiniteSet(next) /\ Cardinality(next) = D
    BY <1>0, <2>4, FS_CountingElements, FS_NatBijection
  <2> QED
    BY <1>0, <1>2, <2>5
<1>5. \A n : IsQueued(n) <=> \E y \in 1 .. Len(queue) : queue[y] = n
  BY <1>0 DEF IsQueued
<1>6. \A n : IsQueued(n)' <=> \E k \in 1 .. Len(queue) - D : queue[k + D] = n
  <2>1. DOMAIN queue' = 1 .. Len(queue) - D
    BY <1>1
  <2> QED
    BY <1>1, <2>1 DEF IsQueued
<1>7. \A n : IsQueued(n) <=> IsQueued(n)' \/ n \in next
  <2> SUFFICES ASSUME NEW n PROVE IsQueued(n) <=> IsQueued(n)' \/ n \in next
    OBVIOUS
  <2>1. ASSUME IsQueued(n) PROVE IsQueued(n)' \/ n \in next
    <3>1. PICK y \in 1 .. Len(queue) : queue[y] = n
      BY <1>5, <2>1
    <3>2. CASE y \in 1 .. D
      BY <3>1, <3>2
    <3>3. CASE y \notin 1 .. D
      <4>1. y - D \in 1 .. Len(queue) - D /\ queue[(y - D) + D] = n
        BY <1>2, <3>1, <3>3
      <4> QED
        BY <1>6, <4>1
    <3> QED
      BY <3>2, <3>3
  <2>2. IsQueued(n)' => IsQueued(n)
    BY <1>2, <1>5, <1>6
  <2>3. n \in next => IsQueued(n)
    BY <1>2, <1>5
  <2> QED
    BY <2>1, <2>2, <2>3
<1>8. \A n : ~(IsQueued(n)' /\ n \in next)
  <2> SUFFICES ASSUME NEW n, IsQueued(n)', n \in next PROVE FALSE
    OBVIOUS
  <2>1. PICK k \in 1 .. Len(queue) - D : queue[k + D] = n
    BY <1>6
  <2>2. PICK i \in 1 .. D : queue[i] = n
    OBVIOUS
  <2>3. k + D = i
    BY <1>2, <2>1, <2>2 DEF QueueInv
  <2> QED
    BY <1>2, <2>3
<1> QED
  BY <1>1, <1>3, <1>4, <1>7, <1>8

(* A task that ends makes room, and what waits in the queue takes it.      *)
LEMMA DrainFits ==
    ASSUME RunInv, QueueInv, serverClosed \in BOOLEAN
    PROVE  /\ Drained \in 0 .. Len(queue) /\ (serverClosed => Drained = 0)
           /\ Cardinality(inFlight) - 1 + Drained <= MaxInFlight
           /\ ~serverClosed => Drained = Len(queue) \/ Cardinality(inFlight) - 1 + Drained = MaxInFlight
<1>1. /\ Cardinality(inFlight) \in Nat /\ MaxInFlight \in Nat /\ Len(queue) \in Nat
      /\ Cardinality(inFlight) <= MaxInFlight
  BY InFlightFinite, ServerAssumption DEF RunInv, QueueInv
<1>2. CASE serverClosed
  <2>1. Drained = 0
    BY <1>2 DEF Drained
  <2> QED
    BY ONLY <1>1, <1>2, <2>1
<1>3. CASE ~serverClosed
  <2>0. PICK d : d = Drained
    OBVIOUS
  <2>1. PICK used \in Nat, limit \in Nat, waiting \in Nat :
            used = Cardinality(inFlight) /\ limit = MaxInFlight /\ waiting = Len(queue)
    BY <1>1
  <2>2. d = IF limit + (1 - used) < waiting THEN limit + (1 - used) ELSE waiting
    BY <1>3, <2>0, <2>1 DEF Drained, NextInLine, Room
  <2>3. used <= limit
    BY <1>1, <2>1
  <2>4. d \in 0 .. waiting /\ used - 1 + d <= limit /\ (d = waiting \/ used - 1 + d = limit)
    <3>1. CASE limit + (1 - used) < waiting
      <4>1. d = limit + (1 - used)
        BY ONLY <2>2, <3>1
      <4> QED
        BY ONLY used \in Nat, limit \in Nat, waiting \in Nat, <2>3, <3>1, <4>1
    <3>2. CASE ~(limit + (1 - used) < waiting)
      <4>1. d = waiting
        BY ONLY <2>2, <3>2
      <4> QED
        BY ONLY used \in Nat, limit \in Nat, waiting \in Nat, <2>3, <3>2, <4>1
    <3> QED
      BY ONLY <3>1, <3>2
  <2> QED
    BY <1>3, <2>0, <2>1, <2>4
<1> QED
  BY <1>2, <1>3

LEMMA TaskEndsKeeps ==
    ASSUME SessionInv, NEW m \in Messages, TaskEnds(m), UNCHANGED clientVars
    PROVE  SessionInv'
<1>0. PICK next : next = {queue[i] : i \in 1 .. Drained}
  OBVIOUS
<1>1. /\ phase[m] = "ending" /\ UNCHANGED duplexVars
      /\ UNCHANGED <<abortReason, outcomes, serverClosed, serverShutdown, serverLoop>>
      /\ phase' = [n \in Messages |-> IF n = m THEN "over" ELSE IF n \in next THEN Invoked(n) ELSE phase[n]]
      /\ FailWhenRead(next) /\ queue' = SubSeq(queue, Drained + 1, Len(queue))
  BY <1>0 DEF TaskEnds
<1>2. DuplexInv /\ DuplexType /\ ServerInv /\ CallsInv /\ ClientEndInv /\ \A n \in Messages : MessageInv(n)
  BY DEF SessionInv, DuplexInv
<1>3. TablesType /\ CloseType /\ QueueInv /\ RunInv
  BY <1>2, ServerInvParts
<1>4. WireStays /\ RingsType' /\ UNCHANGED <<jobs, granted, aborted>>
  BY <1>1, <1>2, WireUntouched DEF DuplexInv, DuplexType, RingsType, duplexVars
<1>5. /\ DuplexInv' /\ jobs'[Client] = jobs[Client]
      /\ \A n : Coming(n)' => Coming(n)
      /\ \A n : ToSend(Server, Answering, n)' <=> ToSend(Server, Answering, n)
  BY <1>1, <1>2, <1>4, NothingSent
<1>6. Still /\ \A n : OnWire(Server, Answering, n)' <=> OnWire(Server, Answering, n)
  BY <1>4, <1>5 DEF Still, WireStays
<1>7. /\ Drained \in 0 .. Len(queue) /\ (serverClosed => Drained = 0)
      /\ Cardinality(inFlight) - 1 + Drained <= MaxInFlight
      /\ ~serverClosed => Drained = Len(queue) \/ Cardinality(inFlight) - 1 + Drained = MaxInFlight
  BY <1>3, DrainFits DEF CloseType
<1>8. /\ QueueInv' /\ Len(queue') = Len(queue) - Drained
      /\ IsFiniteSet(next) /\ Cardinality(next) = Drained /\ next \subseteq Requests
      /\ \A n : IsQueued(n) <=> IsQueued(n)' \/ n \in next
      /\ \A n : ~(IsQueued(n)' /\ n \in next)
  <2>1. PICK D \in 0 .. Len(queue) : D = Drained
    BY <1>7
  <2>2. queue' = SubSeq(queue, D + 1, Len(queue)) /\ next = {queue[i] : i \in 1 .. D}
    BY <1>0, <1>1, <2>1
  <2>3. /\ QueueInv' /\ Len(queue') = Len(queue) - D
        /\ IsFiniteSet(next) /\ Cardinality(next) = D /\ next \subseteq Requests
        /\ \A n : IsQueued(n) <=> IsQueued(n)' \/ n \in next
        /\ \A n : ~(IsQueued(n)' /\ n \in next)
    BY <1>3, <2>2, Drains
  <2> QED
    BY <2>1, <2>3
<1>9. ASSUME NEW n \in next
      PROVE  /\ n \in Messages /\ n \in Requests /\ phase[n] = "idle" /\ outcomes[n] = {} /\ ~Coming(n) /\ Known(n)
             /\ ~ToSend(Server, Answering, n) /\ ~OnWire(Server, Answering, n) /\ settled[n] # "completed"
             /\ Invoked(n) \in {"running", "failed"} /\ n # m
  <2>1. n \in Messages /\ n \in Requests /\ IsQueued(n)
    BY <1>8, MessageFacts
  <2>2. phase[n] = "idle" /\ outcomes[n] = {} /\ ~Coming(n) /\ Known(n)
    BY <1>2, <2>1 DEF MessageInv
  <2>3. ~ToSend(Server, Answering, n) /\ ~OnWire(Server, Answering, n) /\ settled[n] # "completed"
    BY <1>2, <2>1, <2>2 DEF MessageInv
  <2> QED
    BY <1>1, <2>1, <2>2, <2>3 DEF Invoked
<1>10. /\ failure' \in [Messages -> Causes \cup {NoCause}]
       /\ \A n \in next : Invoked(n) = "failed" => failure'[n] # NoCause
       /\ \A n \in Messages : n \notin next => failure'[n] = failure[n]
  BY <1>1, <1>3, <1>9 DEF FailWhenRead, Invoked, TablesType, Causes, NoCause
<1>11. TablesType' /\ CloseType'
  <2>1. queue = <<>> => queue' = <<>>
    BY <1>3, <1>7, <1>8 DEF QueueInv
  <2> QED
    BY <1>1, <1>3, <1>10, <2>1 DEF TablesType, CloseType
<1>12. /\ phase' \in [Messages -> Phases] /\ phase'[m] = "over" /\ m \notin next
       /\ \A n \in next : phase'[n] = Invoked(n)
       /\ \A n \in Messages : n # m /\ n \notin next => phase'[n] = phase[n]
  <2>1. \A n \in next : Invoked(n) \in Phases /\ n \in Messages /\ n # m
    BY <1>9 DEF Phases, InFlightPhases
  <2>2. "over" \in Phases
    BY DEF Phases
  <2> QED
    BY <1>1, <1>3, <2>1, <2>2 DEF RunInv
<1>13. inFlight' = (inFlight \ {m}) \cup next /\ m \in inFlight /\ (inFlight \ {m}) \cap next = {}
  <2>1. \A n \in next : n \in Messages /\ phase[n] \notin InFlightPhases /\ phase'[n] \in InFlightPhases
    BY <1>9, <1>12 DEF InFlightPhases
  <2>2. phase[m] \in InFlightPhases /\ phase'[m] \notin InFlightPhases
    BY <1>1, <1>12 DEF InFlightPhases
  <2> QED
    BY <1>12, <2>1, <2>2 DEF inFlight
<1>14. Cardinality(inFlight') = Cardinality(inFlight) - 1 + Drained
  <2>1. IsFiniteSet(inFlight \ {m}) /\ Cardinality(inFlight \ {m}) = Cardinality(inFlight) - 1
    BY <1>13, InFlightFinite, FS_RemoveElement
  <2>2. Cardinality((inFlight \ {m}) \cap next) = 0
    BY <1>13, FS_EmptySet
  <2>3. Cardinality(inFlight') = Cardinality(inFlight \ {m}) + Cardinality(next)
                                 - Cardinality((inFlight \ {m}) \cap next)
    BY <1>8, <1>13, <2>1, FS_Union
  <2>4. Cardinality(inFlight) \in Nat /\ Cardinality(next) \in Nat /\ Drained \in Nat
    BY <1>7, <1>8, InFlightFinite, FS_CardinalityType
  <2> QED
    BY ONLY <1>8, <2>1, <2>2, <2>3, <2>4
<1>15. RunInv'
  <2>1. Cardinality(inFlight') <= MaxInFlight
    BY <1>7, <1>14
  <2>2. queue' # <<>> /\ ~serverClosed' => Cardinality(inFlight') = MaxInFlight
    <3>1. Drained = Len(queue) => queue' = <<>>
      <4> SUFFICES ASSUME Drained = Len(queue) PROVE queue' = <<>>
        OBVIOUS
      <4>1. Len(queue') = 0 /\ queue' \in Seq(Requests)
        BY <1>7, <1>8 DEF QueueInv
      <4> QED
        BY <4>1
    <3> QED
      BY <1>1, <1>7, <1>14, <3>1
  <2>3. ShutdownLeavesNothing'
    <3> SUFFICES ASSUME serverShutdown' = "done"
                 PROVE  queue' = <<>> /\ \A n \in inFlight' : phase'[n] \in {"stopping", "ending"}
      BY DEF ShutdownLeavesNothing
    <3>1. serverShutdown = "done" /\ serverClosed
      BY <1>1, <1>3 DEF CloseType
    <3>2. next = {}
      BY <1>0, <1>7, <3>1
    <3>3. queue' = <<>>
      BY <1>1, <1>11, <3>1 DEF CloseType
    <3> QED
      BY <1>3, <1>12, <1>13, <3>1, <3>2, <3>3 DEF RunInv, ShutdownLeavesNothing, inFlight
  <2> QED
    BY <1>12, <2>1, <2>2, <2>3 DEF RunInv
<1>16. ASSUME NEW n \in Messages PROVE MessageInv(n)'
  <2>0. /\ UNCHANGED <<settled, made>> /\ (Known(n)' <=> Known(n))
        /\ ToSend(Client, Opening, n)' <=> ToSend(Client, Opening, n)
    BY <1>2, <1>6, ClientKept
  <2>1. CASE n = m
    <3>1. MessageInv(n) /\ ~Coming(n) /\ ~IsQueued(n)
      BY <1>1, <1>2, <2>1 DEF MessageInv
    <3>2. ~Coming(n)' /\ ~IsQueued(n)' /\ ~ToSend(Client, Opening, n)' /\ ~ToSend(Server, Answering, n)
      BY <1>1, <1>5, <1>8, <2>0, <2>1, <3>1 DEF Coming, MessageInv
    <3>3. phase'[n] = "over" /\ phase[n] = "ending" /\ UNCHANGED <<outcomes, serverClosed>>
      BY <1>1, <1>12, <2>1
    <3> QED
      BY <1>5, <1>6, <2>0, <3>1, <3>2, <3>3 DEF MessageInv
  <2>2. CASE n \in next
    <3>1. ~Coming(n)' /\ ~IsQueued(n)' /\ ~ToSend(Client, Opening, n)'
      BY <1>5, <1>8, <1>9, <2>0, <2>2 DEF Coming
    <3>2. phase'[n] \in {"running", "failed"} /\ (phase'[n] = "failed" => failure'[n] # NoCause)
      BY <1>9, <1>10, <1>12, <2>2
    <3>3. UNCHANGED <<outcomes, serverClosed>>
      BY <1>1
    <3> QED
      BY <1>5, <1>6, <1>9, <2>0, <2>2, <3>1, <3>2, <3>3 DEF MessageInv
  <2>3. CASE n # m /\ n \notin next
    <3>1. Same(n)
      BY <1>1, <1>5, <1>6, <1>8, <1>10, <1>12, <2>3 DEF Same
    <3> QED
      BY <1>1, <1>2, <1>6, <3>1, SameKept
  <2> QED
    BY <2>1, <2>2, <2>3
<1> QED
  BY <1>5, <1>6, <1>8, <1>11, <1>15, <1>16, PartsKeep, ServerStepKeeps

-----------------------------------------------------------------------------
(* The invariant of the session.                                           *)
LEMMA SessionInit ==
    ASSUME Init
    PROVE  SessionInv
<1> USE DEF Init
<1>1. /\ jobs = [side \in Sides |-> <<>>] /\ wire = [side \in Sides |-> <<>>]
      /\ jobs[Client] = <<>> /\ jobs[Server] = <<>> /\ wire[Client] = <<>> /\ wire[Server] = <<>>
  BY SideFacts DEF DuplexInit
<1>2. \A side \in Sides : \A ops, m : ~ToSend(side, ops, m) /\ ~OnWire(side, ops, m)
  <2> SUFFICES ASSUME NEW side \in Sides, NEW ops, NEW m PROVE ~ToSend(side, ops, m) /\ ~OnWire(side, ops, m)
    OBVIOUS
  <2>1. jobs[side] = <<>> /\ wire[side] = <<>>
    BY <1>1
  <2>2. Len(FramesOf(jobs[side])) = 0 /\ Len(wire[side]) = 0
    BY <2>1 DEF FramesOf
  <2> QED
    BY <2>2 DEF ToSend, OnWire, Has
<1>3. \A m : ~Coming(m)
  BY <1>2, SideFacts DEF Coming
<1>4. DuplexType
  <2>1. WireType /\ JobsType
    BY <1>1, SideFacts DEF WireType, JobsType
  <2>2. RingsType
    BY DEF DuplexInit, RingsType
  <2>3. Granting
    BY <1>1, DuplexAssumption DEF DuplexInit, Granting
  <2> QED
    BY <2>1, <2>2, <2>3 DEF DuplexType
<1>5. SentOnce
  <2>1. Len(FramesOf(jobs[Client])) = 0 /\ Len(FramesOf(jobs[Server])) = 0 /\ Len(wire[Client]) = 0
    BY <1>1 DEF FramesOf
  <2> QED
    BY <1>2, <2>1, SideFacts DEF SentOnce, Once
<1>6. CloseInv
  BY <1>2, SideFacts DEF CloseInv
<1>7. \A c \in Requests : registered[c] = 0 /\ ~Store!Holds(c) /\ settled[c] = NoCause
  BY IdFacts, MessageFacts DEF ClientInit, Store!Holds
<1>8. CallsInv
  <2>1. made \in 0 .. Made /\ nextRequestId \in 1 .. made + 1
    BY IdFacts DEF ClientInit
  <2>2. /\ pending \in [Store!Ids -> Requests \cup {0}] /\ \A id \in Store!Ids : pending[id] = 0
        /\ registered \in [Requests -> Store!Ids \cup {0}] /\ releases \in [Requests -> Nat]
    BY IdFacts DEF ClientInit
  <2>3. witnessed = {c \in Requests : registered[c] # 0} /\ released = {c \in witnessed : ~Store!Holds(c)}
    BY <1>7 DEF ClientInit
  <2>4. /\ settled \in [Messages -> Causes \cup {NoCause, "completed"}]
        /\ \A m \in Messages : settled[m] = NoCause
    BY DEF ClientInit
  <2> QED
    BY <1>7, <2>1, <2>2, <2>3, <2>4 DEF CallsInv, PendingIffUnsettled
<1>9. ClientEndInv
  BY <1>2, SideFacts DEF ClientInit, ClientEndInv
<1>10. \A m \in Messages : phase[m] = "idle" /\ outcomes[m] = {} /\ failure[m] = NoCause /\ ~IsQueued(m)
  BY DEF ServerInit, IsQueued
<1>11. ServerInv
  <2>1. ServerTypeOK
    <3>1. queue \in Seq(Requests)
      BY DEF ServerInit
    <3> QED
      BY <3>1 DEF ServerInit, ServerTypeOK
  <2>2. inFlight = {}
    BY <1>10 DEF inFlight, InFlightPhases
  <2>3. LimitsExact
    <3>1. Len(queue) = 0 /\ queue = <<>> /\ Cardinality(inFlight) = 0
      BY <2>2, FS_EmptySet DEF ServerInit
    <3> QED
      BY <3>1, ServerAssumption DEF LimitsExact
  <2>4. Len(queue) = 0
    BY DEF ServerInit
  <2> QED
    BY <2>1, <2>2, <2>3, <2>4 DEF ServerInit, ServerInv, ShutdownLeavesNothing
<1>12. ASSUME NEW m \in Messages PROVE MessageInv(m)
  <2>1. ~Coming(m) /\ ~ToSend(Client, Opening, m) /\ ~ToSend(Server, Answering, m) /\ ~OnWire(Server, Answering, m)
    BY <1>2, <1>3, SideFacts
  <2>2. settled[m] = NoCause /\ NoCause # "completed"
    BY DEF ClientInit, NoCause
  <2> QED
    BY <1>10, <2>1, <2>2 DEF MessageInv
<1> QED
  BY <1>4, <1>5, <1>6, <1>8, <1>9, <1>11, <1>12 DEF SessionInv

LEMMA ClientStepKeeps ==
    ASSUME SessionInv, ClientStep \/ ClientUser, UNCHANGED serverVars
    PROVE  SessionInv'
<1>1. CASE ClientGrant \/ ClientSent \/ ClientSendFails \/ ClientCloseEnds
  BY <1>1, ClientGrantKeeps, ClientSentKeeps, ClientSendFailsKeeps, ClientCloseEndsKeeps
<1>2. CASE ClientReceive \/ ClientReceiveFails
  BY <1>2, ClientReceiveKeeps, ClientReceiveFailsKeeps
<1>3. ASSUME NEW c \in Requests, CallTimeout(c) \/ CallAbort(c) PROVE SessionInv'
  <2>1. PICK why \in {"timed-out", "cancelled"} : CallEnds(c, why)
    BY <1>3 DEF CallTimeout, CallAbort
  <2>2. why \in Causes
    BY DEF Causes
  <2> QED
    BY <2>1, <2>2, CallEndsKeeps
<1>4. CASE Call \/ Notify \/ MakeInVain \/ ClientClose \/ ClientAbort
  BY <1>4, CallKeeps, NotifyKeeps, MakeInVainKeeps, ClientCloseKeeps, ClientAbortKeeps
<1>5. ASSUME NEW m \in Notes, NotifyAbort(m) PROVE SessionInv'
  BY <1>5, NotifyAbortKeeps
<1> QED
  BY <1>1, <1>2, <1>3, <1>4, <1>5 DEF ClientStep, ClientUser

LEMMA ServerMoves ==
    ASSUME SessionInv, ServerStep \/ ServerClose, UNCHANGED clientVars
    PROVE  SessionInv'
<1>1. CASE ServerGrant \/ ServerSent \/ ServerSendFails \/ ServerCloseEnds \/ ServerDrained
  BY <1>1, ServerGrantKeeps, ServerSentKeeps, ServerSendFailsKeeps, ServerCloseEndsKeeps,
     ServerDrainedKeeps
<1>2. CASE ServerReceive \/ ServeLoopFails \/ ServerClose
  BY <1>2, ServerReceiveKeeps, ServeLoopFailsKeeps, ServerCloseKeeps
<1>3. ASSUME NEW m \in Messages, HandlerStep(m) PROVE SessionInv'
  BY <1>3, HandlerEndsKeeps, HandlerClosesKeeps DEF HandlerStep
<1>4. ASSUME NEW m \in Messages, TaskStep(m) PROVE SessionInv'
  BY <1>4, TaskFailsKeeps, TaskStoppedKeeps, TaskEndsKeeps DEF TaskStep
<1> QED
  BY <1>1, <1>2, <1>3, <1>4 DEF ServerStep

LEMMA NothingKeeps ==
    ASSUME SessionInv, UNCHANGED vars
    PROVE  SessionInv'
<1>1. UNCHANGED clientVars /\ UNCHANGED duplexVars /\ UNCHANGED serverVars
  BY DEF vars
<1>2. DuplexInv /\ DuplexType /\ ServerInv /\ CallsInv /\ ClientEndInv /\ \A n \in Messages : MessageInv(n)
  BY DEF SessionInv, DuplexInv
<1>3. WireStays /\ RingsType' /\ UNCHANGED <<jobs, granted, aborted>> /\ UNCHANGED serverClosed
  BY <1>1, <1>2, WireUntouched DEF DuplexInv, DuplexType, RingsType, duplexVars, serverVars
<1>4. /\ DuplexInv' /\ jobs'[Client] = jobs[Client]
      /\ \A n : Coming(n)' => Coming(n)
      /\ \A n : ToSend(Server, Answering, n)' <=> ToSend(Server, Answering, n)
  BY <1>2, <1>3, NothingSent
<1>5. Still
  BY <1>1, <1>4 DEF Still
<1>6. \A m \in Messages : Same(m)
  BY <1>1, <1>3, <1>4 DEF Same, serverVars, IsQueued, WireStays
<1>7. \A m \in Messages : MessageInv(m)'
  BY <1>2, <1>3, <1>5, <1>6, SameKept
<1>8. ServerInv'
  BY <1>1, <1>2, ServerKept
<1> QED
  BY <1>4, <1>5, <1>7, <1>8, ServerStepKeeps

(* SessionInv is an invariant, whatever the limits of the session are.     *)
THEOREM SessionInvariant == Spec => []SessionInv
<1>1. Init => SessionInv
  BY SessionInit
<1>2. SessionInv /\ [Next]_vars => SessionInv'
  BY ClientStepKeeps, ServerMoves, NothingKeeps DEF Next
<1> QED
  BY <1>1, <1>2, PTL DEF Spec

(* A call is pending exactly while its promise is open, however responses, *)
(* timers, aborts, failed sends and shutdowns of client.ts interleave.     *)
THEOREM PendingMeansUnsettled == Spec => []PendingIffUnsettled
<1>1. SessionInv => PendingIffUnsettled
  BY DEF SessionInv, CallsInv
<1> QED
  BY <1>1, SessionInvariant, PTL

(* A call has an answer on its way, or has succeeded, only if server.ts    *)
(* counted it as completed and as nothing else.                            *)
THEOREM AnswersAreCounted == Spec => []AnswersAreCompletions
<1>1. SessionInv => AnswersAreCompletions
  <2> SUFFICES ASSUME SessionInv, NEW c \in Requests, Answered(c) \/ settled[c] = "completed"
               PROVE  outcomes[c] = {"completed"}
    BY DEF AnswersAreCompletions
  <2>1. MessageInv(c) /\ wire[Server] \in Seq(ServerFrames)
    BY MessageFacts DEF SessionInv, DuplexType, WireType
  <2>2. CASE Answered(c)
    <3>1. PICK i \in 1 .. Len(wire[Server]) : wire[Server][i].of = c
      BY <2>1, <2>2 DEF Answered
    <3>2. wire[Server][i] \in ServerFrames /\ c # 0
      BY <2>1, MessageFacts
    <3>3. wire[Server][i].op \in Answering
      BY <3>1, <3>2 DEF ServerFrames
    <3>4. OnWire(Server, Answering, c)
      BY <3>1, <3>3 DEF OnWire, Has
    <3> QED
      BY <2>1, <3>4 DEF MessageInv
  <2>3. CASE settled[c] = "completed"
    BY <2>1, <2>3 DEF MessageInv
  <2> QED
    BY <2>2, <2>3
<1> QED
  BY <1>1, SessionInvariant, PTL

(* The server never exceeds its two limits, and never lets a request wait  *)
(* while there is room for it to run.                                      *)
THEOREM LimitsHold == Spec => []LimitsExact
<1>1. SessionInv => LimitsExact
  BY DEF SessionInv, ServerInv
<1> QED
  BY <1>1, SessionInvariant, PTL

(* Every request an open server took is queued, under way, or accounted    *)
(* for by exactly one outcome.                                             *)
THEOREM RequestsAccounted == Spec => []AccountedOnce
<1>1. SessionInv => AccountedOnce
  <2> SUFFICES ASSUME SessionInv, NEW c \in Requests
               PROVE  /\ Cardinality(outcomes[c]) <= 1
                      /\ ~serverClosed => (phase[c] = "over" => Cardinality(outcomes[c]) = 1)
    BY DEF AccountedOnce
  <2>1. MessageInv(c)
    BY MessageFacts DEF SessionInv
  <2>2. outcomes[c] = {} => Cardinality(outcomes[c]) = 0
    BY FS_EmptySet
  <2>3. outcomes[c] # {} => Cardinality(outcomes[c]) = 1
    BY <2>1, FS_Singleton DEF MessageInv
  <2> QED
    BY <2>1, <2>2, <2>3 DEF MessageInv
<1> QED
  BY <1>1, SessionInvariant, PTL

(* Once the server's shutdown is done, its queue is empty and no handler   *)
(* runs any more.                                                          *)
THEOREM NothingAfterShutdown == Spec => []ShutdownLeavesNothing
<1>1. SessionInv => ShutdownLeavesNothing
  BY DEF SessionInv, ServerInv
<1> QED
  BY <1>1, SessionInvariant, PTL

-----------------------------------------------------------------------------
(* The refinement: what steps of the client are to a caller.               *)
Stage == [m \in Messages |-> CASE phase[m] = "idle" -> "ahead" [] phase[m] = "over" -> "over"
                               [] OTHER -> "taken"]
callersView == <<made, settled, Stage, serverClosed>>

LEMMA StageKept == ASSUME UNCHANGED serverVars PROVE Stage' = Stage /\ UNCHANGED serverClosed
BY DEF Stage, serverVars

LEMMA NothingSeen ==
    ASSUME UNCHANGED <<made, settled>>, UNCHANGED serverVars
    PROVE  [Calls!CallsNext]_(Calls!callVars)
<1>1. UNCHANGED callersView
  BY StageKept DEF callersView
<1> QED
  BY <1>1 DEF callersView, Stage, Calls!callVars

LEMMA MakesOne ==
    ASSUME SessionInv, UNCHANGED serverVars, made + 1 \in Messages, made' = made + 1,
           NEW how \in Causes \cup {NoCause}, settled' = [settled EXCEPT ![made + 1] = how]
    PROVE  Calls!CallsNext
<1>1. Stage' = Stage /\ UNCHANGED serverClosed
  BY StageKept
<1>2. Calls!Make
  BY <1>1 DEF Calls!Make, Stage
<1> QED
  BY <1>2 DEF Calls!CallsNext

LEMMA SettlesSome ==
    ASSUME SessionInv, UNCHANGED serverVars, UNCHANGED made, NEW S \in SUBSET Messages,
           NEW how \in Causes \cup {"completed"},
           \A m \in S : m <= made /\ settled[m] = NoCause,
           how = "completed" => \A m \in S \cap Requests : phase[m] # "idle",
           settled' = [m \in Messages |-> IF m \in S THEN how ELSE settled[m]]
    PROVE  Calls!CallsNext
<1>1. Stage' = Stage /\ UNCHANGED serverClosed
  BY StageKept
<1>2. \A m \in Messages : phase[m] # "idle" => Stage[m] # "ahead"
  BY DEF Stage
<1>3. how = "completed" => \A m \in S \cap Requests : Stage[m] # "ahead"
  BY <1>2
<1>4. Calls!Settle(S, how)
  BY <1>1, <1>3 DEF Calls!Settle, Stage
<1> QED
  BY <1>4 DEF Calls!CallsNext

LEMMA SettlesTaken ==
    ASSUME SessionInv, UNCHANGED serverVars, UNCHANGED made, NEW es \in SUBSET Requests, Taken(es),
           NEW how \in Causes \cup {"completed"}, Settle(how),
           how = "completed" => \A m \in es : phase[m] # "idle"
    PROVE  Calls!CallsNext
<1>1. settled' = [m \in Messages |-> IF m \in es THEN how ELSE settled[m]]
  BY TakenSettles DEF SessionInv
<1>2. \A c \in es : c <= made /\ settled[c] = NoCause
  BY IdFacts DEF SessionInv, CallsInv, PendingIffUnsettled, Taken, Store!Holds
<1> QED
  BY <1>1, <1>2, MessageFacts, SettlesSome

LEMMA MakeSeen ==
    ASSUME SessionInv, Call \/ Notify \/ MakeInVain, UNCHANGED serverVars
    PROVE  Calls!CallsNext
<1>1. made + 1 \in Messages /\ made' = made + 1
  BY MessageFacts DEF Call, Notify, MakeInVain
<1>2. CASE Call \/ Notify
  <2>1. UNCHANGED settled
    BY <1>2 DEF Call, Notify
  <2>2. settled[made + 1] = NoCause
    BY <1>1 DEF SessionInv, CallsInv, Messages
  <2>3. settled' = [settled EXCEPT ![made + 1] = NoCause]
    BY <1>1, <2>1, <2>2 DEF SessionInv, CallsInv
  <2> QED
    BY <1>1, <2>3, MakesOne
<1>3. CASE MakeInVain
  <2>1. settled' = [settled EXCEPT ![made + 1] = "cancelled"] /\ "cancelled" \in Causes
    BY <1>3 DEF MakeInVain, Causes
  <2> QED
    BY <1>1, <2>1, MakesOne
<1> QED
  BY <1>2, <1>3

LEMMA CallEndSeen ==
    ASSUME SessionInv, NEW c \in Requests, CallTimeout(c) \/ CallAbort(c), UNCHANGED serverVars
    PROVE  Calls!CallsNext
<1>1. PICK why \in {"timed-out", "cancelled"} : CallEnds(c, why)
  BY DEF CallTimeout, CallAbort
<1>2. /\ registered[c] # 0 /\ Store!ReleaseRegistration(c) /\ Settle(why) /\ UNCHANGED made
      /\ why \in Causes /\ why # "completed"
  BY <1>1, IdFacts DEF CallEnds, Reject, Store!Holds, Causes
<1>3. PICK es \in SUBSET {c} : Taken(es)
  BY <1>2, RegistrationTaken DEF SessionInv
<1> QED
  BY <1>2, <1>3, SettlesTaken

LEMMA SweepSeen ==
    ASSUME SessionInv, NEW why \in Causes, RejectAllPending(why), UNCHANGED made, UNCHANGED serverVars
    PROVE  Calls!CallsNext
<1>1. Taken(Store!Present) /\ Store!Present \in SUBSET Requests
  BY SweepTaken DEF RejectAllPending, SessionInv, Store!Present
<1>2. Settle(why) /\ why # "completed"
  BY DEF RejectAllPending, Causes
<1> QED
  BY <1>1, <1>2, SettlesTaken

LEMMA NoteSeen ==
    ASSUME SessionInv, UNCHANGED serverVars, UNCHANGED made, NEW m \in Notes, ToSend(Client, Opening, m),
           NEW how \in Causes \cup {"completed"}, settled' = [settled EXCEPT ![m] = how]
    PROVE  Calls!CallsNext
<1>1. m \in Messages /\ {m} \cap Requests = {} /\ MessageInv(m)
  BY MessageFacts DEF SessionInv
<1>2. m <= made /\ settled[m] = NoCause
  BY <1>1 DEF MessageInv, Coming, Known
<1>3. PICK S \in SUBSET Messages : S = {m}
  BY <1>1
<1>4. settled' = [n \in Messages |-> IF n \in S THEN how ELSE settled[n]]
  BY <1>3 DEF SessionInv, CallsInv
<1>5. \A n \in S : n <= made /\ settled[n] = NoCause
  BY <1>2, <1>3
<1>6. \A n \in S \cap Requests : phase[n] # "idle"
  BY <1>1, <1>3
<1> QED
  BY <1>4, <1>5, <1>6, SettlesSome

LEMMA SentSeen ==
    ASSUME SessionInv, ClientSent \/ ClientSendFails, UNCHANGED serverVars
    PROVE  [Calls!CallsNext]_(Calls!callVars)
<1>0. PICK f : f = HeadJob(Client).frame
  OBVIOUS
<1>1. /\ jobs[Client] # <<>> /\ jobs' = [jobs EXCEPT ![Client] = Tail(@)] /\ UNCHANGED made
  BY DEF ClientSent, ClientSendFails, CommitFrame, DropHead, SessionInv, DuplexType, Granting,
         Sides, Client
<1>2. JobPopped(Client, f)
  BY <1>0, <1>1, Pops, SideFacts DEF SessionInv, DuplexType
<1>3. f \in ClientFrames /\ (f.op \in Opening => ToSend(Client, Opening, f.of))
  BY <1>2 DEF JobPopped, FramesFrom
<1>4. ASSUME f.op = "NOTIFY", NEW how \in Causes \cup {"completed"}, settled' = [settled EXCEPT ![f.of] = how]
      PROVE  Calls!CallsNext
  <2>1. PICK m \in Notes : m = f.of
    BY <1>3, <1>4 DEF ClientFrames
  <2>2. ToSend(Client, Opening, m) /\ settled' = [settled EXCEPT ![m] = how]
    BY <1>3, <1>4, <2>1 DEF Opening
  <2> QED
    BY <1>1, <1>4, <2>2, NoteSeen
<1>5. CASE ClientSent
  <2>1. f.op = "NOTIFY" => settled' = [settled EXCEPT ![f.of] = "completed"]
    BY <1>0, <1>5 DEF ClientSent
  <2>2. f.op # "NOTIFY" => UNCHANGED settled
    BY <1>0, <1>5 DEF ClientSent
  <2> QED
    BY <1>1, <1>4, <2>1, <2>2, NothingSeen
<1>6. CASE ClientSendFails
  <2>1. PICK why \in Causes :
            \/ f.op = "REQUEST" /\ Reject(f.of, why)
            \/ f.op = "NOTIFY" /\ settled' = [settled EXCEPT ![f.of] = why]
            \/ UNCHANGED settled
    BY <1>0, <1>6 DEF ClientSendFails
  <2>2. CASE f.op = "REQUEST" /\ Reject(f.of, why)
    <3>1. PICK c \in Requests : c = f.of
      BY <1>3, <2>2 DEF ClientFrames
    <3>2. Reject(c, why) /\ ToSend(Client, Opening, c) /\ c \in Messages
      BY <1>3, <2>2, <3>1, MessageFacts DEF Opening
    <3>3. registered[c] # 0
      BY <3>2 DEF SessionInv, MessageInv, Coming, Known
    <3>4. PICK es \in SUBSET {c} : Taken(es)
      BY <3>2, <3>3, RegistrationTaken DEF Reject, SessionInv
    <3>5. Settle(why) /\ why # "completed" /\ why \in Causes \cup {"completed"} /\ es \in SUBSET Requests
      BY <3>2 DEF Reject, Causes
    <3> QED
      BY <1>1, <3>4, <3>5, SettlesTaken
  <2> QED
    BY <1>1, <1>4, <2>1, <2>2, NothingSeen
<1> QED
  BY <1>5, <1>6

LEMMA ReceiptSeen ==
    ASSUME SessionInv, ClientReceive \/ ClientReceiveFails, UNCHANGED serverVars
    PROVE  [Calls!CallsNext]_(Calls!callVars)
<1>1. ASSUME NEW why \in Causes, NEW state, AbortNow(why, state) PROVE Calls!CallsNext
  BY <1>1, SweepSeen DEF AbortNow
<1>2. CASE ClientReceiveFails
  <2>1. EndCause \in Causes
    BY DEF EndCause, Causes
  <2>2. CASE clientClosed
    BY <1>2, <2>2, NothingSeen DEF ClientReceiveFails
  <2>3. CASE ~clientClosed
    BY <1>1, <1>2, <2>1, <2>3 DEF ClientReceiveFails
  <2> QED
    BY <2>2, <2>3
<1>3. CASE ClientReceive
  <2>0. PICK f : f = Arrival(Client)
    OBVIOUS
  <2>1. /\ Arrived(Client) /\ TakeFrame(Client)
        /\ \/ f.op \in Answering /\ (Answer(f) \/ AnswerFails(f))
           \/ f.op = "CLOSE" /\ AbortNow("cancelled", "closed")
           \/ f.op = "CLOSE" /\ UNCHANGED <<made, settled>>
    BY <1>3, <2>0 DEF ClientReceive, Answering
  <2>2. UNCHANGED jobs
    BY <1>3 DEF ClientReceive, Answer, AnswerFails, AbortNow
  <2>3. f \in ServerFrames /\ (f.op \in Answering => OnWire(Server, Answering, f.of))
    BY <2>0, <2>1, <2>2, QuietTake DEF SessionInv
  <2>4. CASE f.op \in Answering /\ Answer(f)
    <3>1. PICK c \in Requests : c = f.of
      BY <2>3, <2>4 DEF ServerFrames, Answering
    <3>2. MessageInv(c) /\ OnWire(Server, Answering, c)
      BY <2>3, <2>4, <3>1, MessageFacts DEF SessionInv
    <3>3. registered[c] # 0 /\ phase[c] # "idle"
      BY <3>2 DEF MessageInv, Known
    <3>4. PICK how \in {"completed", "failed"} : Settle(how)
      BY <2>4 DEF Answer
    <3>5. PICK es \in SUBSET {c} : Taken(es)
      BY <2>4, <3>1, <3>3, UntrustedTaken DEF Answer, SessionInv
    <3>6. es \in SUBSET Requests /\ how \in Causes \cup {"completed"} /\ UNCHANGED made
          /\ \A m \in es : phase[m] # "idle"
      BY <2>4, <3>3 DEF Causes, Answer
    <3> QED
      BY <3>4, <3>5, <3>6, SettlesTaken
  <2>5. CASE AnswerFails(f)
    <3>1. CASE clientClosed
      BY <2>5, <3>1, NothingSeen DEF AnswerFails
    <3>2. CASE ~clientClosed
      BY <1>1, <2>5, <3>2 DEF AnswerFails, Causes
    <3> QED
      BY <3>1, <3>2
  <2>6. CASE f.op = "CLOSE" /\ AbortNow("cancelled", "closed")
    BY <1>1, <2>6 DEF Causes
  <2> QED
    BY <2>1, <2>4, <2>5, <2>6, NothingSeen
<1> QED
  BY <1>2, <1>3

LEMMA ClientSeen ==
    ASSUME SessionInv, ClientStep \/ ClientUser, UNCHANGED serverVars
    PROVE  [Calls!CallsNext]_(Calls!callVars)
<1>1. CASE ClientGrant \/ ClientClose \/ (\E m \in Notes : NotifyAbort(m))
  BY <1>1, NothingSeen DEF ClientGrant, ClientClose, NotifyAbort, clientVars
<1>2. CASE ClientSent \/ ClientSendFails
  BY <1>2, SentSeen
<1>3. CASE ClientCloseEnds \/ ClientAbort
  BY <1>3, SweepSeen DEF ClientCloseEnds, ClientAbort, AbortNow, Causes
<1>4. CASE ClientReceive \/ ClientReceiveFails
  BY <1>4, ReceiptSeen
<1>5. ASSUME NEW c \in Requests, CallTimeout(c) \/ CallAbort(c) PROVE Calls!CallsNext
  BY <1>5, CallEndSeen
<1>6. CASE Call \/ Notify \/ MakeInVain
  BY <1>6, MakeSeen
<1> QED
  BY <1>1, <1>2, <1>3, <1>4, <1>5, <1>6 DEF ClientStep, ClientUser

(* What steps of the server are to a caller: no message goes back to an    *)
(* earlier stage, and nothing is taken up once the server is closed.       *)
Onward(m) ==
    /\ phase[m] # "idle" => phase'[m] # "idle"
    /\ phase[m] = "over" => phase'[m] = "over"
    /\ phase[m] = "idle" /\ serverClosed => phase'[m] \in {"idle", "over"}
Advances == (serverClosed => serverClosed') /\ \A m \in Messages : Onward(m)

LEMMA AdvancesServe ==
    ASSUME SessionInv, SessionInv', UNCHANGED clientVars, Advances
    PROVE  Calls!CallsNext
<1>1. PICK taken \in SUBSET Messages :
          taken = {m \in Messages : phase[m] = "idle" /\ phase'[m] \notin {"idle", "over"}}
  OBVIOUS
<1>2. PICK over \in SUBSET Messages :
          over = {m \in Messages : phase[m] # "over" /\ phase'[m] = "over"}
  OBVIOUS
<1>3. \A m \in taken \cup over : m <= made
  <2> SUFFICES ASSUME NEW m \in taken \cup over PROVE m <= made
    OBVIOUS
  <2>1. m \in Messages /\ phase'[m] # "idle"
    BY <1>1, <1>2
  <2>2. MessageInv(m)'
    BY <2>1 DEF SessionInv
  <2>3. m <= made'
    BY <2>1, <2>2 DEF MessageInv, Known
  <2> QED
    BY <2>3 DEF clientVars
<1>4. /\ ~serverClosed \/ taken = {}
      /\ \A m \in taken : phase[m] = "idle" /\ m \notin over
      /\ \A m \in over : phase[m] # "over"
      /\ serverClosed \in BOOLEAN /\ serverClosed' \in BOOLEAN /\ (serverClosed => serverClosed')
  BY <1>1, <1>2 DEF Advances, Onward, SessionInv, ServerInv, ServerTypeOK
<1>5. /\ \A m \in taken : Stage[m] = "ahead"
      /\ \A m \in over : Stage[m] # "over"
  BY <1>1, <1>2 DEF Stage
<1>6. Stage' = [m \in Messages |-> IF m \in taken THEN "taken" ELSE IF m \in over THEN "over" ELSE Stage[m]]
  <2> SUFFICES ASSUME NEW m \in Messages
               PROVE  Stage'[m] = IF m \in taken THEN "taken" ELSE IF m \in over THEN "over" ELSE Stage[m]
    BY DEF Stage
  <2>1. Onward(m)
    BY DEF Advances
  <2> QED
    BY <1>1, <1>2, <2>1 DEF Stage, Onward
<1>7. (~serverClosed)' \in {~serverClosed, FALSE}
  BY <1>4
<1>8. UNCHANGED <<made, settled>>
  BY DEF clientVars
<1>9. Calls!Serve(taken, over)
  BY <1>3, <1>4, <1>5, <1>6, <1>7, <1>8 DEF Calls!Serve, Stage
<1> QED
  BY <1>9 DEF Calls!CallsNext

LEMMA StaysAdvances == ASSUME UNCHANGED phase, serverClosed => serverClosed' PROVE Advances
BY DEF Advances, Onward

LEMMA EnterAdvances ==
    ASSUME SessionInv, NEW m \in Messages, NEW p, Enter(m, p), p # "idle", phase[m] # "over",
           phase[m] = "idle" => p = "over" \/ ~serverClosed, serverClosed => serverClosed'
    PROVE  Advances
<1>1. phase'[m] = p /\ \A n \in Messages : n # m => phase'[n] = phase[n]
  BY DEF SessionInv, ServerInv, ServerTypeOK, Enter
<1>2. \A n \in Messages : Onward(n)
  BY <1>1 DEF Onward
<1> QED
  BY <1>2 DEF Advances

LEMMA SendAdvances ==
    ASSUME SessionInv, ServerSent \/ ServerSendFails
    PROVE  Advances
<1>0. PICK f : f = HeadJob(Server).frame
  OBVIOUS
<1>1. jobs[Server] # <<>> /\ jobs' = [jobs EXCEPT ![Server] = Tail(@)] /\ UNCHANGED serverClosed
  BY SideFacts DEF ServerSent, ServerSendFails, CommitFrame, DropHead, SessionInv, DuplexType,
     Granting
<1>2. JobPopped(Server, f)
  BY <1>0, <1>1, Pops, SideFacts DEF SessionInv, DuplexType
<1>3. f \in ServerFrames /\ (f.op \in Answering => ToSend(Server, Answering, f.of))
  BY <1>2, SideFacts DEF JobPopped, FramesFrom
<1>4. CASE UNCHANGED phase
  BY <1>1, <1>4, StaysAdvances
<1>5. CASE f.op # "CLOSE"
  <2>1. PICK m \in Requests : m = f.of
    BY <1>3, <1>5 DEF ServerFrames
  <2>2. m \in Messages /\ ToSend(Server, Answering, m)
    BY <1>3, <1>5, <2>1, MessageFacts DEF ServerFrames
  <2>3. phase[m] \in {"replying", "refusing"}
    BY <2>2 DEF SessionInv, MessageInv
  <2>4. ASSUME NEW p \in {"over", "ending", "failed"}, Enter(m, p) PROVE Advances
    BY <1>1, <2>2, <2>3, <2>4, EnterAdvances
  <2>5. AfterReply(m) => \E p \in {"over", "ending", "failed"} : Enter(m, p)
    BY DEF AfterReply
  <2>6. UNCHANGED phase \/ AfterReply(m) \/ Enter(m, "failed")
    BY <1>0, <2>1 DEF ServerSent, ServerSendFails
  <2> QED
    BY <1>4, <2>4, <2>5, <2>6
<1> QED
  BY <1>0, <1>4, <1>5 DEF ServerSent, ServerSendFails

LEMMA ReceiptAdvances ==
    ASSUME SessionInv, ServerReceive
    PROVE  Advances
<1>0. PICK f : f = Arrival(Server)
  OBVIOUS
<1>1. /\ Arrived(Server) /\ TakeFrame(Server)
      /\ \/ f.op \in {"REQUEST", "NOTIFY"} /\ ~serverClosed /\ Dispatch(f.of)
         \/ Discard
         \/ f.op = "CANCEL" /\ HandleCancel(f.of, f.why)
         \/ ShutdownNow("cancelled", "closed") /\ UNCHANGED phase
  BY <1>0 DEF ServerReceive
<1>2. /\ f \in ClientFrames
      /\ f.op \in Opening => OnWire(Client, Opening, f.of)
  BY <1>0, <1>1, Hears DEF SessionInv
<1>3. CASE f.op \in {"REQUEST", "NOTIFY"} /\ ~serverClosed /\ Dispatch(f.of)
  <2>1. f.of \in Messages /\ OnWire(Client, Opening, f.of)
    BY <1>2, <1>3, MessageFacts DEF ClientFrames, Opening
  <2>2. PICK m \in Messages : m = f.of
    BY <2>1
  <2>3. phase[m] = "idle"
    BY <2>1, <2>2 DEF SessionInv, MessageInv, Coming
  <2>4. ASSUME NEW p, p # "idle", Enter(m, p) PROVE Advances
    BY <1>3, <2>3, <2>4, EnterAdvances
  <2>5. \/ UNCHANGED phase /\ UNCHANGED serverClosed
        \/ \E p \in {"over", "refusing", "running", "failed"} : Enter(m, p)
    BY <1>3, <2>2 DEF Dispatch, Start, Push, Refuse, RefuseNote, Invoked, Enter
  <2> QED
    BY <2>4, <2>5, StaysAdvances
<1>4. CASE f.op = "CANCEL" /\ HandleCancel(f.of, f.why)
  <2>1. PICK m \in Messages : m = f.of
    BY <1>2, <1>4, MessageFacts DEF ClientFrames
  <2>2. UNCHANGED serverClosed /\ (UNCHANGED phase \/ (IsQueued(m) /\ Enter(m, "over")))
    BY <1>4, <2>1 DEF HandleCancel, IsQueued, Enter
  <2>3. IsQueued(m) => phase[m] = "idle"
    BY DEF SessionInv, MessageInv
  <2> QED
    BY <2>2, <2>3, StaysAdvances, EnterAdvances
<1>5. CASE Discard
  BY <1>5, StaysAdvances DEF Discard
<1>6. CASE ShutdownNow("cancelled", "closed") /\ UNCHANGED phase
  BY <1>6, StaysAdvances DEF ShutdownNow
<1> QED
  BY <1>1, <1>3, <1>4, <1>5, <1>6

LEMMA TaskAdvances ==
    ASSUME SessionInv, NEW m \in Messages, HandlerStep(m) \/ TaskStep(m)
    PROVE  Advances
<1>1. CASE HandlerStep(m) \/ TaskFails(m) \/ TaskStopped(m)
  <2>1. phase[m] \in {"running", "awaiting", "failed", "stopping"}
    BY <1>1 DEF HandlerStep, HandlerEnds, HandlerCloses, TaskFails, TaskStopped
  <2>2. \E p \in {"awaiting", "ending", "failed", "replying", "stopping"} : Enter(m, p)
    BY <1>1 DEF HandlerStep, HandlerEnds, HandlerCloses, TaskFails, TaskStopped, NoteEnds, Reply,
       SuppressReply
  <2>3. serverClosed => serverClosed'
    BY <1>1 DEF HandlerStep, HandlerEnds, HandlerCloses, TaskFails, TaskStopped, SendClose,
       ShutdownNow
  <2> QED
    BY <2>1, <2>2, <2>3, EnterAdvances
<1>2. CASE TaskEnds(m)
  <2>0. PICK next : next = {queue[i] : i \in 1 .. Drained}
    OBVIOUS
  <2>1. /\ phase[m] = "ending" /\ UNCHANGED serverClosed
        /\ phase' = [n \in Messages |-> IF n = m THEN "over" ELSE IF n \in next THEN Invoked(n) ELSE phase[n]]
    BY <1>2, <2>0 DEF TaskEnds
  <2>2. Drained \in 0 .. Len(queue) /\ (serverClosed => Drained = 0)
    BY DrainFits, ServerInvParts DEF SessionInv, CloseType
  <2>3. \A n \in next : ~serverClosed /\ phase[n] = "idle"
    <3> SUFFICES ASSUME NEW n \in next PROVE ~serverClosed /\ phase[n] = "idle"
      OBVIOUS
    <3>1. PICK i \in 1 .. Drained : n = queue[i]
      BY <2>0
    <3>2. queue \in Seq(Requests) /\ Len(queue) \in Nat
      BY DEF SessionInv, ServerInv, ServerTypeOK
    <3>3. i \in 1 .. Len(queue)
      BY <2>2, <3>2
    <3>4. n \in Requests /\ i \in DOMAIN queue
      BY <3>1, <3>2, <3>3
    <3>5. IsQueued(n) /\ n \in Messages
      BY <3>1, <3>4, MessageFacts DEF IsQueued
    <3>6. phase[n] = "idle"
      BY <3>5 DEF SessionInv, MessageInv
    <3>7. ~serverClosed
      BY <2>2, <3>1
    <3> QED
      BY <3>6, <3>7
  <2>4. \A n \in Messages : Onward(n)
    BY <2>1, <2>3 DEF Onward, Invoked
  <2> QED
    BY <2>1, <2>4 DEF Advances
<1> QED
  BY <1>1, <1>2 DEF TaskStep

LEMMA ServerSeen ==
    ASSUME SessionInv, ServerStep \/ ServerClose, UNCHANGED clientVars
    PROVE  Calls!CallsNext
<1>1. SessionInv'
  BY ServerMoves
<1>2. CASE ServerGrant \/ ServerCloseEnds \/ ServerDrained
  <2>1. UNCHANGED phase /\ (serverClosed => serverClosed')
    BY <1>2 DEF ServerGrant, ServerCloseEnds, ServerDrained, serverVars
  <2> QED
    BY <1>1, <2>1, StaysAdvances, AdvancesServe
<1>6. CASE ServeLoopFails
  <2>1. UNCHANGED phase /\ (serverClosed => serverClosed')
    BY <1>6 DEF ServeLoopFails, ShutdownNow
  <2> QED
    BY <1>1, <2>1, StaysAdvances, AdvancesServe
<1>7. CASE ServerClose
  <2>1. UNCHANGED phase /\ serverClosed' = TRUE
    BY <1>7 DEF ServerClose, SendClose
  <2> QED
    BY <1>1, <2>1, StaysAdvances, AdvancesServe
<1>3. CASE ServerSent \/ ServerSendFails
  BY <1>1, <1>3, SendAdvances, AdvancesServe
<1>4. CASE ServerReceive
  BY <1>1, <1>4, ReceiptAdvances, AdvancesServe
<1>5. ASSUME NEW m \in Messages, HandlerStep(m) \/ TaskStep(m) PROVE Calls!CallsNext
  BY <1>1, <1>5, TaskAdvances, AdvancesServe
<1> QED
  BY <1>2, <1>3, <1>4, <1>5, <1>6, <1>7 DEF ServerStep

(* Every step of the session is one of RemoteCalls, or none: a promise     *)
(* settles once, a message is taken up at most once and never by a closed  *)
(* server, and a call completes only after the server took it up.          *)
THEOREM SessionImplementsCalls == Spec => ImplementsCalls
<1>1. Init => Calls!CallsInit
  BY DEF Init, ClientInit, ServerInit, Calls!CallsInit
<1>2. SessionInv /\ [Next]_vars => [Calls!CallsNext]_(Calls!callVars)
  <2> SUFFICES ASSUME SessionInv, [Next]_vars PROVE [Calls!CallsNext]_(Calls!callVars)
    OBVIOUS
  <2>1. CASE (ClientStep \/ ClientUser) /\ UNCHANGED serverVars
    BY <2>1, ClientSeen
  <2>2. CASE (ServerStep \/ ServerClose) /\ UNCHANGED clientVars
    BY <2>2, ServerSeen
  <2>3. CASE UNCHANGED vars
    BY <2>3, NothingSeen DEF vars, clientVars
  <2> QED
    BY <2>1, <2>2, <2>3 DEF Next
<1> QED
  BY <1>1, <1>2, SessionInvariant, PTL DEF Spec, ImplementsCalls, Calls!CallsSpec

-----------------------------------------------------------------------------
(* The store of pending calls that the client runs is the one of           *)
(* PendingRequests: every step of the session is one of the store's or     *)
(* leaves it alone.  No step of the server touches the client's queue.     *)
LEMMA ServerLeavesClientJobs ==
    ASSUME SessionInv, ServerStep \/ ServerClose
    PROVE  jobs'[Client] = jobs[Client]
<1>0. Client # Server /\ Client \in Sides /\ DOMAIN jobs = Sides
  BY SideFacts DEF SessionInv, DuplexType, JobsType
<1>1. ASSUME NEW x, jobs' = [jobs EXCEPT ![Server] = x] PROVE jobs'[Client] = jobs[Client]
  BY <1>0, <1>1
<1>2. ASSUME NEW f, NEW timed, NEW fits, Enqueue(Server, f, timed, fits) PROVE jobs'[Client] = jobs[Client]
  BY <1>1, <1>2 DEF Enqueue
<1>3. CASE ServerGrant
  BY <1>3 DEF ServerGrant, Grant
<1>4. CASE ServerSent \/ ServerSendFails
  BY <1>1, <1>4 DEF ServerSent, ServerSendFails, CommitFrame, DropHead
<1>5. CASE ServerCloseEnds \/ ServerDrained \/ ServeLoopFails
  BY <1>5 DEF ServerCloseEnds, ServerDrained, ServeLoopFails, duplexVars
<1>6. CASE ServerClose
  BY <1>2, <1>6 DEF ServerClose, SendClose
<1>7. CASE ServerReceive
  <2>1. ASSUME NEW m, Refuse(m) PROVE jobs'[Client] = jobs[Client]
    BY <1>2, <2>1 DEF Refuse
  <2>2. ASSUME NEW m, Dispatch(m) PROVE jobs'[Client] = jobs[Client]
    BY <2>1, <2>2 DEF Dispatch, Start, Push, RefuseNote
  <2> QED  BY <1>7, <2>2 DEF ServerReceive, Discard, HandleCancel
<1>8. ASSUME NEW m, HandlerStep(m) PROVE jobs'[Client] = jobs[Client]
  <2>1. CASE HandlerCloses(m)
    BY <1>2, <2>1 DEF HandlerCloses, SendClose
  <2>2. CASE HandlerEnds(m)
    BY <1>2, <2>2 DEF HandlerEnds, NoteEnds, Reply, SuppressReply
  <2> QED  BY <1>8, <2>1, <2>2 DEF HandlerStep
<1>9. ASSUME NEW m, TaskStep(m) PROVE jobs'[Client] = jobs[Client]
  BY <1>9 DEF TaskStep, TaskFails, TaskStopped, TaskEnds, duplexVars
<1> QED  BY <1>3, <1>4, <1>5, <1>6, <1>7, <1>8, <1>9 DEF ServerStep

(* CLOSE is sent once by the client, and its shutdown waits for it.        *)
CloseOnce ==
    /\ Once(FramesOf(jobs[Client]), {"CLOSE"})
    /\ ToSend(Client, {"CLOSE"}, 0) => clientShutdown = "closing"

LEMMA CloseKept ==
    ASSUME CloseOnce, jobs'[Client] = jobs[Client],
           clientShutdown' = clientShutdown \/ ~ToSend(Client, {"CLOSE"}, 0)
    PROVE  CloseOnce'
BY DEF CloseOnce, ToSend

LEMMA ClosePushed ==
    ASSUME SessionInv, CloseOnce, NEW f \in ClientFrames, NEW timed \in BOOLEAN, NEW fits \in BOOLEAN,
           Enqueue(Client, f, timed, fits),
           \/ f.op # "CLOSE" /\ UNCHANGED clientShutdown
           \/ ~clientClosed /\ clientShutdown' = "closing"
    PROVE  CloseOnce'
<1>1. JobPushed(Client, f)
  BY Pushes, SideFacts DEF FramesFrom, SessionInv, DuplexType
<1>2. f.op = "CLOSE" => f.of = 0
  BY DEF ClientFrames
<1>3. ~clientClosed => ~ToSend(Client, {"CLOSE"}, 0)
  BY DEF SessionInv, ClientEndInv
<1> QED  BY <1>1, <1>2, <1>3 DEF JobPushed, CloseOnce

LEMMA ClosePopped ==
    ASSUME SessionInv, CloseOnce, jobs[Client] # <<>>, jobs' = [jobs EXCEPT ![Client] = Tail(@)],
           NEW f, f = HeadJob(Client).frame, f.op # "CLOSE" => UNCHANGED clientShutdown
    PROVE  CloseOnce' /\ (f.op = "CLOSE" => clientShutdown = "closing")
<1>1. JobPopped(Client, f)
  BY Pops, SideFacts DEF SessionInv, DuplexType
<1>2. f.op = "CLOSE" => f.of = 0
  BY <1>1, SideFacts DEF JobPopped, FramesFrom, ClientFrames
<1> QED  BY <1>1, <1>2 DEF JobPopped, CloseOnce

LEMMA CloseOnceKeeps == SessionInv /\ CloseOnce /\ [Next]_vars => CloseOnce'
<1> SUFFICES ASSUME SessionInv, CloseOnce, [Next]_vars PROVE CloseOnce'
  OBVIOUS
<1>0. ~clientClosed => ~ToSend(Client, {"CLOSE"}, 0)
  BY DEF SessionInv, ClientEndInv
<1>1. CASE UNCHANGED vars
  BY <1>1, CloseKept DEF vars, duplexVars, clientVars
<1>2. CASE (ServerStep \/ ServerClose) /\ UNCHANGED clientVars
  BY <1>2, ServerLeavesClientJobs, CloseKept DEF clientVars
<1>3. CASE ClientGrant \/ MakeInVain \/ \E m \in Notes : NotifyAbort(m)
  BY <1>3, CloseKept DEF ClientGrant, MakeInVain, NotifyAbort, Grant, clientVars, duplexVars
<1>4. ASSUME NEW why, NEW state, AbortNow(why, state) PROVE ~clientClosed => CloseOnce'
  BY <1>0, <1>4, CloseKept DEF AbortNow
<1>5. CASE ClientAbort \/ ClientReceiveFails
  BY <1>4, <1>5, CloseKept DEF ClientAbort, ClientReceiveFails
<1>6. CASE ClientReceive
  <2>1. ASSUME NEW f, Answer(f) \/ AnswerFails(f) PROVE CloseOnce'
    BY <1>4, <2>1, CloseKept DEF Answer, AnswerFails
  <2> QED  BY <1>4, <1>6, <2>1, CloseKept DEF ClientReceive
<1>7. CASE ClientCloseEnds
  <2>1. jobs'[Client] = jobs[Client] /\ clientShutdown # "closing"
    BY <1>7 DEF ClientCloseEnds
  <2> QED  BY <2>1, CloseKept DEF CloseOnce
<1>8. CASE ClientSent \/ ClientSendFails
  <2>1. /\ jobs[Client] # <<>> /\ jobs' = [jobs EXCEPT ![Client] = Tail(@)]
        /\ HeadJob(Client).frame.op # "CLOSE" => UNCHANGED clientShutdown
    BY <1>8 DEF ClientSent, ClientSendFails, CommitFrame, DropHead, SessionInv, DuplexType, Granting,
                Sides, Client
  <2> QED  BY <2>1, ClosePopped
<1>9. CASE ClientClose
  <2>1. Frame("CLOSE", 0) \in ClientFrames
    BY DEF Frame, ClientFrames
  <2> QED  BY <1>9, <2>1, ClosePushed DEF ClientClose
<1>10. CASE Call \/ Notify
  <2>1. PICK m \in Messages, op \in Opening :
           /\ Enqueue(Client, Frame(op, m), m \in Timed, m \notin Oversize) /\ UNCHANGED clientShutdown
           /\ m \in (IF op = "REQUEST" THEN Requests ELSE Notes)
    <3>1. "REQUEST" \in Opening /\ "NOTIFY" \in Opening
      BY DEF Opening
    <3> QED  BY <1>10, <3>1, MessageFacts DEF Call, Notify
  <2>2. Frame(op, m) \in ClientFrames /\ Frame(op, m).op # "CLOSE"
    BY <2>1 DEF Frame, ClientFrames, Opening
  <2>3. PICK timed \in BOOLEAN, fits \in BOOLEAN : Enqueue(Client, Frame(op, m), timed, fits)
    <3>1. (m \in Timed) \in BOOLEAN /\ (m \notin Oversize) \in BOOLEAN
      OBVIOUS
    <3> QED  BY <2>1, <3>1, Zenon
  <2> QED  BY <2>1, <2>2, <2>3, ClosePushed
<1>11. ASSUME NEW c \in Requests, CallTimeout(c) \/ CallAbort(c) PROVE CloseOnce'
  <2>1. PICK why \in Causes : CallEnds(c, why)
    BY <1>11 DEF CallTimeout, CallAbort, Causes
  <2>2. CASE clientClosed
    BY <2>1, <2>2, CloseKept DEF CallEnds
  <2>3. CASE ~clientClosed
    <3> DEFINE f == [op |-> "CANCEL", of |-> c, why |-> why]
    <3>1. f \in ClientFrames /\ f.op # "CLOSE" /\ Enqueue(Client, f, TRUE, TRUE) /\ UNCHANGED clientShutdown
      BY <2>1, <2>3 DEF ClientFrames, CallEnds
    <3> QED  BY <3>1, ClosePushed
  <2> QED  BY <2>2, <2>3
<1> QED
  BY <1>1, <1>2, <1>3, <1>5, <1>6, <1>7, <1>8, <1>9, <1>10, <1>11 DEF Next, ClientStep, ClientUser

(* The steps of the session as steps of its store.                         *)
LEMMA StoreUntouched ==
    ASSUME UNCHANGED storeVars, (clientShutdown = "done")' <=> (clientShutdown = "done")
    PROVE  [Store!Next]_(Store!pendingVars)
BY DEF storeVars, Store!pendingVars, Store!storeVars

LEMMA StoreSwept ==
    ASSUME NEW why, RejectAllPending(why), clientShutdown # "done", clientShutdown' = "done"
    PROVE  Store!Next
BY DEF RejectAllPending, Store!Next

LEMMA StoreReleases ==
    ASSUME NEW c \in Requests, Store!ReleaseRegistration(c), UNCHANGED clientShutdown
    PROVE  Store!Next
BY DEF Store!Next

LEMMA StoreSeen ==
    ASSUME SessionInv, CloseOnce, ClientStep \/ ClientUser, UNCHANGED serverVars
    PROVE  [Store!Next]_(Store!pendingVars)
<1>0. ~clientClosed => clientShutdown # "done"
  BY DEF SessionInv, ClientEndInv
<1>1. CASE ClientGrant \/ Notify \/ MakeInVain \/ (\E m \in Notes : NotifyAbort(m))
  BY <1>1, StoreUntouched DEF ClientGrant, Notify, MakeInVain, NotifyAbort, clientVars
<1>2. CASE ClientClose
  BY <1>0, <1>2, StoreUntouched DEF ClientClose
<1>3. CASE ClientSent \/ ClientSendFails
  <2>0. PICK f : f = HeadJob(Client).frame
    OBVIOUS
  <2>1. /\ jobs[Client] # <<>> /\ jobs' = [jobs EXCEPT ![Client] = Tail(@)]
        /\ f.op # "CLOSE" => UNCHANGED clientShutdown
    BY <1>3, <2>0 DEF ClientSent, ClientSendFails, CommitFrame, DropHead, SessionInv, DuplexType,
                      Granting, Sides, Client
  <2>2. f.op = "CLOSE" => clientShutdown = "closing"
    BY <2>0, <2>1, ClosePopped
  <2>3. f.op = "CLOSE" => clientShutdown' \in {"closeSent", "closeFailed"}
    BY <1>3, <2>0 DEF ClientSent, ClientSendFails
  <2>4. UNCHANGED storeVars \/ (f.op = "REQUEST" /\ \E why : Reject(f.of, why))
    BY <1>3, <2>0 DEF ClientSent, ClientSendFails
  <2>5. CASE UNCHANGED storeVars
    BY <2>1, <2>2, <2>3, <2>5, StoreUntouched
  <2>6. CASE f.op = "REQUEST" /\ \E why : Reject(f.of, why)
    <3>1. JobPopped(Client, f)
      BY <2>0, <2>1, Pops, SideFacts DEF SessionInv, DuplexType
    <3>2. f.of \in Requests
      BY <2>6, <3>1, SideFacts DEF JobPopped, FramesFrom, ClientFrames
    <3> QED  BY <2>1, <2>6, <3>2, StoreReleases DEF Reject
  <2> QED  BY <2>4, <2>5, <2>6
<1>4. ASSUME NEW why, NEW state, AbortNow(why, state), ~clientClosed PROVE Store!Next
  BY <1>0, <1>4, StoreSwept DEF AbortNow
<1>5. CASE ClientCloseEnds
  BY <1>5, StoreSwept DEF ClientCloseEnds
<1>6. CASE ClientAbort \/ ClientReceiveFails
  BY <1>4, <1>6, StoreUntouched DEF ClientAbort, ClientReceiveFails
<1>7. CASE ClientReceive
  <2>0. PICK f : f = Arrival(Client)
    OBVIOUS
  <2>1. /\ Arrived(Client) /\ TakeFrame(Client)
        /\ \/ f.op \in Answering /\ (Answer(f) \/ AnswerFails(f))
           \/ ~clientClosed /\ AbortNow("cancelled", "closed")
           \/ UNCHANGED <<storeVars, clientShutdown>>
    BY <1>7, <2>0 DEF ClientReceive, Answering
  <2>2. UNCHANGED jobs
    BY <1>7 DEF ClientReceive, Answer, AnswerFails, AbortNow
  <2>3. f \in ServerFrames /\ (f.op \in Answering => OnWire(Server, Answering, f.of))
    BY <2>0, <2>1, <2>2, QuietTake DEF SessionInv
  <2>4. CASE f.op \in Answering /\ Answer(f)
    <3>1. PICK c \in Requests : c = f.of
      BY <2>3, <2>4 DEF ServerFrames, Answering
    <3>2. registered[c] # 0
      BY <2>3, <2>4, <3>1, MessageFacts DEF SessionInv, MessageInv, Known
    <3>3. registered[c] \in Store!Ids
      BY <3>2 DEF SessionInv, CallsInv
    <3>4. Store!ReleaseUntrusted(registered[c]) /\ UNCHANGED clientShutdown
      BY <2>4, <3>1 DEF Answer
    <3> QED  BY <3>3, <3>4 DEF Store!Next
  <2>5. CASE AnswerFails(f)
    BY <1>4, <2>5, StoreUntouched DEF AnswerFails
  <2> QED  BY <1>4, <2>1, <2>4, <2>5, StoreUntouched
<1>8. ASSUME NEW c \in Requests, CallTimeout(c) \/ CallAbort(c) PROVE Store!Next
  <2>1. Store!ReleaseRegistration(c) /\ UNCHANGED clientShutdown
    BY <1>8 DEF CallTimeout, CallAbort, CallEnds, Reject
  <2> QED  BY <2>1, StoreReleases
<1>9. CASE Call
  <2>1. made + 1 \in Requests /\ Store!Insert(made + 1) /\ ~clientClosed /\ UNCHANGED clientShutdown
    BY <1>9 DEF Call
  <2> QED  BY <1>0, <2>1 DEF Store!Next
<1> QED
  BY <1>1, <1>2, <1>3, <1>5, <1>6, <1>7, <1>8, <1>9 DEF ClientStep, ClientUser

(* The client's use of its store is the one that PendingRequests and its   *)
(* proofs are about: a sweep at the end of shutdown and no call after it,  *)
(* and every other release by its owner's registration or by an answer.    *)
THEOREM SessionImplementsStore == Spec => ImplementsStore
<1>1. Init => Store!Init
  BY IdFacts DEF Init, ClientInit, Store!Init
<1>2. Init => CloseOnce
  BY DEF Init, DuplexInit, CloseOnce, ToSend, Has, Once, FramesOf, Sides, Client
<1>3. SessionInv /\ CloseOnce /\ [Next]_vars => [Store!Next]_(Store!pendingVars)
  <2> SUFFICES ASSUME SessionInv, CloseOnce, [Next]_vars PROVE [Store!Next]_(Store!pendingVars)
    OBVIOUS
  <2>1. CASE (ClientStep \/ ClientUser) /\ UNCHANGED serverVars
    BY <2>1, StoreSeen
  <2>2. CASE UNCHANGED clientVars
    BY <2>2, StoreUntouched DEF clientVars
  <2> QED  BY <2>1, <2>2 DEF Next, vars
<1> QED
  BY <1>1, <1>2, <1>3, CloseOnceKeeps, SessionInvariant, PTL DEF Spec, ImplementsStore, Store!Spec

(* What is proved of the store therefore holds in a session.               *)
StoreProofs == INSTANCE PendingRequests_proofs WITH
    Entries <- Requests, UINT32_MAX <- Made + 1, NoEntry <- 0,
    Response <- Made + 1, Shutdown <- Made + 2,
    swept <- clientShutdown = "done", enabled <- TRUE

LEMMA StoreAssumption ==
    /\ Made + 1 \in Nat /\ Made + 1 > 0
    /\ {0, Made + 1, Made + 2} \cap Requests = {}
BY DuplexAssumption DEF Requests, Messages

LEMMA SameStore == Store!Spec <=> StoreProofs!Spec
<1>1. Store!Init <=> StoreProofs!Init
  BY DEF Store!Init, StoreProofs!Init, Store!Ids, StoreProofs!Ids, Store!NoId, StoreProofs!NoId
<1>2. /\ UNCHANGED Store!storeVars <=> UNCHANGED StoreProofs!storeVars
      /\ UNCHANGED Store!pendingVars <=> UNCHANGED StoreProofs!pendingVars
  BY DEF Store!storeVars, StoreProofs!storeVars, Store!pendingVars, StoreProofs!pendingVars
<1>3. Store!Ids = StoreProofs!Ids /\ Store!NoId = StoreProofs!NoId
  BY DEF Store!Ids, StoreProofs!Ids, Store!NoId, StoreProofs!NoId
<1>4. \A e : Store!Holds(e) <=> StoreProofs!Holds(e)
  BY <1>3 DEF Store!Holds, StoreProofs!Holds
<1>5. \A es, by : Store!Detach(es, by) <=> StoreProofs!Detach(es, by)
  BY <1>3 DEF Store!Detach, StoreProofs!Detach
<1>6. \A e : Store!Insert(e) <=> StoreProofs!Insert(e)
  BY <1>3 DEF Store!Insert, StoreProofs!Insert, Store!IsAllocated, StoreProofs!IsAllocated,
              Store!Distance, StoreProofs!Distance, Store!Successor, StoreProofs!Successor
<1>7. \A e : Store!ReleaseRegistration(e) <=> StoreProofs!ReleaseRegistration(e)
  BY <1>2, <1>3, <1>4, <1>5
     DEF Store!ReleaseRegistration, StoreProofs!ReleaseRegistration, Store!ReleaseByWitness,
         StoreProofs!ReleaseByWitness, Store!ReleaseKnownEntry, StoreProofs!ReleaseKnownEntry
<1>8. \A id : Store!ReleaseUntrusted(id) <=> StoreProofs!ReleaseUntrusted(id)
  BY <1>2, <1>5 DEF Store!ReleaseUntrusted, StoreProofs!ReleaseUntrusted
<1>9. Store!Sweep <=> StoreProofs!Sweep
  BY <1>4, <1>5 DEF Store!Sweep, StoreProofs!Sweep, Store!Present, StoreProofs!Present
<1>10. Store!Next <=> StoreProofs!Next
  BY <1>2, <1>3, <1>6, <1>7, <1>8, <1>9 DEF Store!Next, StoreProofs!Next
<1>11. [Store!Next]_(Store!pendingVars) <=> [StoreProofs!Next]_(StoreProofs!pendingVars)
  BY <1>2, <1>10
<1> QED
  BY <1>1, <1>11, PTL DEF Store!Spec, StoreProofs!Spec

(* A registration is taken out of the store of a session exactly once,     *)
(* whatever takes it, by its owner, an answer or the shutdown.             *)
THEOREM SessionReleasesOnce == Spec => [](Store!ReleasedOnce /\ Store!OwnReleaseOnly)
<1>1. StoreProofs!Spec => []StoreProofs!ReleasedOnce
  BY StoreAssumption, StoreProofs!ReleasedExactlyOnce
<1>2. StoreProofs!Spec => []StoreProofs!OwnReleaseOnly
  BY StoreAssumption, StoreProofs!NoForeignRelease
<1>3. StoreProofs!ReleasedOnce => Store!ReleasedOnce
  BY DEF StoreProofs!ReleasedOnce, Store!ReleasedOnce, StoreProofs!HandedOutOnce, Store!HandedOutOnce,
         StoreProofs!WitnessTracksSlot, Store!WitnessTracksSlot, StoreProofs!Holds, Store!Holds,
         StoreProofs!NoId, Store!NoId
<1>4. StoreProofs!OwnReleaseOnly => Store!OwnReleaseOnly
  BY DEF StoreProofs!OwnReleaseOnly, Store!OwnReleaseOnly
<1> QED
  BY <1>1, <1>2, <1>3, <1>4, SameStore, SessionImplementsStore, PTL DEF ImplementsStore

-----------------------------------------------------------------------------
(* Every step, seen from the rings: a grant, the commit of the frame it    *)
(* was for, the loss of one that had none, or a turn that may put a frame  *)
(* in line, take one and end the rings, but grants nothing.                *)
Turn ==
    /\ UNCHANGED granted
    /\ UNCHANGED jobs \/ \E side \in Sides : \E f, timed, fits : Enqueue(side, f, timed, fits)
    /\ UNCHANGED wire \/ \E side \in Sides : Arrived(side) /\ TakeFrame(side)
    /\ UNCHANGED ringState \/ \E side \in Sides, state \in {"closed", "errored"} : EndRings(side, state)
RingStep ==
    \/ \E side \in Sides :
          \/ Grant(side)
          \/ UNCHANGED ringState /\ (CommitFrame(side) \/ \E why : DropHead(side, why))
    \/ Turn

LEMMA ClientTurns == ASSUME ClientStep \/ ClientUser PROVE RingStep
<1>0. Client \in Sides /\ "closed" \in {"closed", "errored"}
  BY DEF Sides
<1>1. CASE ClientGrant \/ ClientSent
  BY <1>0, <1>1 DEF ClientGrant, ClientSent, RingStep
<1>2. CASE ClientSendFails
  BY <1>0, <1>2 DEF ClientSendFails, RingStep
<1>3. ASSUME NEW why, NEW state \in {"closed", "errored"}, AbortNow(why, state),
             UNCHANGED wire \/ (Arrived(Client) /\ TakeFrame(Client))
      PROVE  Turn
  BY <1>0, <1>3 DEF AbortNow, Turn
<1>4. CASE ClientCloseEnds
  BY <1>0, <1>4 DEF ClientCloseEnds, ForceClose, Turn, RingStep
<1>5. CASE ClientReceive
  <2>1. Arrived(Client) /\ TakeFrame(Client)
    BY <1>5 DEF ClientReceive
  <2>2. CASE UNCHANGED <<ringState, shut, jobs, granted, aborted>>
    BY <1>0, <2>1, <2>2 DEF Turn, RingStep
  <2>3. ASSUME NEW f, Answer(f) PROVE UNCHANGED <<ringState, shut, jobs, granted, aborted>>
    BY <2>3 DEF Answer
  <2>4. ASSUME NEW f, AnswerFails(f) PROVE RingStep
    BY <1>3, <2>1, <2>2, <2>4 DEF AnswerFails, RingStep
  <2>5. CASE AbortNow("cancelled", "closed")
    BY <1>3, <2>1, <2>5 DEF RingStep
  <2> QED  BY <1>5, <2>2, <2>3, <2>4, <2>5 DEF ClientReceive
<1>6. CASE ClientReceiveFails
  <2>1. UNCHANGED wire
    BY <1>6 DEF ClientReceiveFails
  <2>2. CASE UNCHANGED <<ringState, shut, jobs, granted, aborted>>
    BY <2>1, <2>2 DEF Turn, RingStep
  <2> QED  BY <1>3, <1>6, <2>1, <2>2 DEF ClientReceiveFails, RingStep
<1>7. ASSUME NEW c \in Requests, CallTimeout(c) \/ CallAbort(c) PROVE RingStep
  BY <1>0, <1>7 DEF CallTimeout, CallAbort, CallEnds, Turn, RingStep
<1>8. CASE Call \/ Notify \/ ClientClose
  BY <1>0, <1>8 DEF Call, Notify, ClientClose, Turn, RingStep
<1>9. CASE ClientAbort
  BY <1>3, <1>9 DEF ClientAbort, RingStep
<1>10. CASE MakeInVain \/ \E m \in Notes : NotifyAbort(m)
  BY <1>10 DEF MakeInVain, NotifyAbort, duplexVars, Turn, RingStep
<1> QED
  BY <1>1, <1>2, <1>4, <1>5, <1>6, <1>7, <1>8, <1>9, <1>10 DEF ClientStep, ClientUser

LEMMA ServerTurns == ASSUME ServerStep \/ ServerClose PROVE RingStep
<1>0. Server \in Sides /\ "closed" \in {"closed", "errored"}
  BY DEF Sides
<1>1. CASE ServerGrant \/ ServerSent
  BY <1>0, <1>1 DEF ServerGrant, ServerSent, RingStep
<1>2. CASE ServerSendFails
  BY <1>0, <1>2 DEF ServerSendFails, RingStep
<1>3. CASE ServerCloseEnds
  BY <1>0, <1>3 DEF ServerCloseEnds, ForceClose, Turn, RingStep
<1>4. CASE ServerClose
  BY <1>0, <1>4 DEF ServerClose, SendClose, Turn, RingStep
<1>5. CASE ServerDrained
  BY <1>5 DEF ServerDrained, duplexVars, Turn, RingStep
<1>6. CASE ServerReceive
  <2>1. Arrived(Server) /\ TakeFrame(Server) /\ UNCHANGED granted
    BY <1>6 DEF ServerReceive
  <2>2. CASE UNCHANGED <<ringState, jobs>>
    BY <1>0, <2>1, <2>2 DEF Turn, RingStep
  <2>3. ASSUME NEW f, NEW timed, NEW fits, Enqueue(Server, f, timed, fits), UNCHANGED ringState
        PROVE  RingStep
    BY <1>0, <2>1, <2>3 DEF Turn, RingStep
  <2>4. CASE ShutdownNow("cancelled", "closed") /\ UNCHANGED jobs
    BY <1>0, <2>1, <2>4 DEF ShutdownNow, Turn, RingStep
  <2>5. CASE ShutdownNow("failed", "closed") /\ UNCHANGED jobs
    BY <1>0, <2>1, <2>5 DEF ShutdownNow, Turn, RingStep
  <2>6. ASSUME NEW m, Dispatch(m) PROVE RingStep
    <3>1. CASE Start(m) \/ Push(m)
      BY <2>2, <3>1 DEF Start, Push
    <3>2. CASE Refuse(m)
      BY <2>2, <2>3, <3>2 DEF Refuse
    <3>3. CASE RefuseNote(m)
      BY <2>2, <2>5, <3>3 DEF RefuseNote
    <3> QED  BY <2>6, <3>1, <3>2, <3>3 DEF Dispatch
  <2>7. ASSUME NEW m, NEW why, HandleCancel(m, why) \/ Discard PROVE RingStep
    BY <2>2, <2>7 DEF HandleCancel, Discard
  <2> QED  BY <1>6, <2>4, <2>6, <2>7 DEF ServerReceive
<1>7. CASE ServeLoopFails
  BY <1>0, <1>7 DEF ServeLoopFails, ShutdownNow, Turn, RingStep
<1>8. ASSUME NEW m, HandlerStep(m) PROVE RingStep
  <2>1. CASE HandlerCloses(m)
    BY <1>0, <2>1 DEF HandlerCloses, SendClose, Turn, RingStep
  <2>2. CASE HandlerEnds(m)
    <3>1. UNCHANGED <<ringState, wire, granted>>
      BY <2>2 DEF HandlerEnds
    <3>2. UNCHANGED jobs \/ \E f, timed, fits : Enqueue(Server, f, timed, fits)
      BY <2>2 DEF HandlerEnds, NoteEnds, Reply, SuppressReply
    <3> QED  BY <1>0, <3>1, <3>2 DEF Turn, RingStep
  <2> QED  BY <1>8, <2>1, <2>2 DEF HandlerStep
<1>9. ASSUME NEW m, TaskStep(m) PROVE RingStep
  <2>1. CASE TaskFails(m)
    <3>1. UNCHANGED <<wire, jobs, granted>>
      BY <2>1 DEF TaskFails
    <3>2. CASE serverClosed
      BY <2>1, <3>1, <3>2 DEF TaskFails, Turn, RingStep
    <3>3. CASE ~serverClosed
      <4>1. PICK state \in {"closed", "errored"} : ShutdownNow(failure[m], state)
        BY <2>1, <3>3 DEF TaskFails
      <4> QED  BY <1>0, <3>1, <4>1 DEF ShutdownNow, Turn, RingStep
    <3> QED  BY <3>2, <3>3
  <2>2. CASE TaskStopped(m) \/ TaskEnds(m)
    BY <2>2 DEF TaskStopped, TaskEnds, duplexVars, Turn, RingStep
  <2> QED  BY <1>9, <2>1, <2>2 DEF TaskStep
<1> QED
  BY <1>1, <1>2, <1>3, <1>4, <1>5, <1>6, <1>7, <1>8, <1>9 DEF ServerStep

(* One side's channel: what is granted is what will be published, and a    *)
(* turn at most takes a frame and ends the rings.                          *)
LEMMA Grants ==
    ASSUME SessionInv, NEW side \in Sides, Grant(side)
    PROVE  /\ Status = 0 /\ Admitted(side) = Nothing /\ Len(wire[side]) + 1 <= Slots
           /\ \E f \in FramesFrom(side) : Admitted(side)' = Sized(f)
           /\ UNCHANGED <<wire, Status>>
           /\ \A other \in Sides : other # side => UNCHANGED Admitted(other)
<1>1. jobs[side] \in Seq(JobsOf(FramesFrom(side))) /\ jobs[side] # <<>>
  BY SideFacts DEF SessionInv, DuplexType, JobsType, FramesFrom, Grant
<1>2. Head(jobs[side]).frame \in FramesFrom(side)
  <2>1. Head(jobs[side]) \in JobsOf(FramesFrom(side))
    BY <1>1
  <2> QED  BY <2>1 DEF JobsOf
<1>3. granted \in [Sides -> BOOLEAN] /\ wire[side] \in Seq(FramesFrom(side))
  BY SideFacts DEF SessionInv, DuplexType, WireType, Granting, FramesFrom
<1>4. UNCHANGED <<jobs, wire, ringState>> /\ granted' = [granted EXCEPT ![side] = TRUE]
  BY DEF Grant
<1>5. Len(wire[side]) + 1 <= Slots
  BY <1>3, DuplexAssumption DEF Grant
<1>6. Admitted(side)' = Sized(HeadJob(side).frame)
  BY <1>3, <1>4 DEF Admitted, HeadJob
<1>7. \A other \in Sides : other # side => UNCHANGED Admitted(other)
  BY <1>3, <1>4 DEF Admitted, HeadJob
<1>8. Status = 0 /\ UNCHANGED Status /\ Admitted(side) = Nothing
  BY <1>4 DEF Grant, open, Status, Admitted
<1> QED  BY <1>2, <1>4, <1>5, <1>6, <1>7, <1>8 DEF HeadJob

LEMMA SentAppends ==
    ASSUME NEW F, NEW s \in Seq(F), NEW f \in F
    PROVE  /\ [i \in 1 .. Len(Append(s, f)) |-> Sized(Append(s, f)[i])]
                 = Append([i \in 1 .. Len(s) |-> Sized(s[i])], Sized(f))
           /\ Len(Append(s, f)) = Len(s) + 1
<1> DEFINE t == [i \in 1 .. Len(s) |-> Sized(s[i])]
           u == [i \in 1 .. Len(Append(s, f)) |-> Sized(Append(s, f)[i])]
           S == {Sized(g) : g \in F}
<1>1. /\ Append(s, f) \in Seq(F) /\ Len(Append(s, f)) = Len(s) + 1 /\ Len(s) \in Nat
      /\ Append(s, f)[Len(s) + 1] = f
      /\ \A i \in 1 .. Len(s) : s[i] \in F /\ Append(s, f)[i] = s[i]
  OBVIOUS
<1>2. t \in Seq(S) /\ Len(t) = Len(s) /\ Sized(f) \in S
  <2>1. \A i \in 1 .. Len(s) : Sized(s[i]) \in S
    BY <1>1
  <2> HIDE DEF S
  <2> QED  BY <1>1, <2>1 DEF S
<1>3. u \in Seq(S) /\ Len(u) = Len(s) + 1
  <2>1. \A i \in 1 .. Len(s) + 1 : Sized(Append(s, f)[i]) \in S
    BY <1>1
  <2> HIDE DEF S
  <2> QED  BY <1>1, <2>1
<1>4. \A i \in 1 .. Len(s) + 1 : u[i] = Append(t, Sized(f))[i]
  <2>1. ASSUME NEW i \in 1 .. Len(s) PROVE u[i] = Append(t, Sized(f))[i]
    <3>1. t[i] = Sized(s[i]) /\ u[i] = Sized(s[i])
      BY <1>1
    <3>2. Append(t, Sized(f))[i] = t[i]
      <4> HIDE DEF t, u, S
      <4> QED  BY <1>2
    <3> QED  BY <3>1, <3>2
  <2>2. u[Len(s) + 1] = Append(t, Sized(f))[Len(s) + 1]
    <3>1. u[Len(s) + 1] = Sized(f)
      BY <1>1
    <3>2. Append(t, Sized(f))[Len(s) + 1] = Sized(f)
      <4> HIDE DEF t, u, S
      <4> QED  BY <1>2
    <3> QED  BY <3>1, <3>2
  <2>3. \A i \in 1 .. Len(s) + 1 : i \in 1 .. Len(s) \/ i = Len(s) + 1
    BY <1>1
  <2> QED  BY <2>1, <2>2, <2>3
<1>5. u = Append(t, Sized(f))
  <2> HIDE DEF t, u, S
  <2> QED  BY <1>1, <1>2, <1>3, <1>4
<1> QED  BY <1>1, <1>5

LEMMA SentTails ==
    ASSUME NEW F, NEW s \in Seq(F), s # <<>>
    PROVE  /\ [i \in 1 .. Len(Tail(s)) |-> Sized(Tail(s)[i])] = Tail([i \in 1 .. Len(s) |-> Sized(s[i])])
           /\ Len(Tail(s)) = Len(s) - 1
           /\ [i \in 1 .. Len(s) |-> Sized(s[i])] # <<>>
           /\ Head([i \in 1 .. Len(s) |-> Sized(s[i])]).size = 1
<1> DEFINE t == [i \in 1 .. Len(s) |-> Sized(s[i])]
           u == [i \in 1 .. Len(Tail(s)) |-> Sized(Tail(s)[i])]
           S == {Sized(g) : g \in F}
<1>1. /\ Tail(s) \in Seq(F) /\ Len(Tail(s)) = Len(s) - 1 /\ Len(s) \in Nat /\ Len(s) > 0
      /\ \A i \in 1 .. Len(s) : s[i] \in F
      /\ \A i \in 1 .. Len(s) - 1 : Tail(s)[i] = s[i + 1] /\ i + 1 \in 1 .. Len(s)
  OBVIOUS
<1>2. t \in Seq(S) /\ Len(t) = Len(s)
  <2>1. \A i \in 1 .. Len(s) : Sized(s[i]) \in S
    BY <1>1
  <2> HIDE DEF S
  <2> QED  BY <1>1, <2>1
<1>3. u \in Seq(S) /\ Len(u) = Len(s) - 1
  <2>1. \A i \in 1 .. Len(s) - 1 : Sized(Tail(s)[i]) \in S
    BY <1>1
  <2> HIDE DEF S
  <2> QED  BY <1>1, <2>1
<1>4. \A i \in 1 .. Len(s) - 1 : u[i] = t[i + 1]
  BY <1>1
<1>5. u = Tail(t)
  <2> HIDE DEF t, u, S
  <2> QED  BY <1>1, <1>2, <1>3, <1>4
<1>6. t # <<>> /\ Head(t) = t[1]
  <2> HIDE DEF t, u, S
  <2> QED  BY <1>1, <1>2
<1>7. t[1].size = 1
  BY <1>1 DEF Sized
<1> QED  BY <1>1, <1>5, <1>6, <1>7

LEMMA Publishes ==
    ASSUME SessionInv, NEW side \in Sides, CommitFrame(side), UNCHANGED ringState
    PROVE  /\ Admitted(side) # Nothing /\ Admitted(side).size = 1
           /\ Sent(side)' = Append(Sent(side), Admitted(side))
           /\ Len(wire'[side]) = Len(wire[side]) + 1
           /\ Admitted(side)' = Nothing /\ UNCHANGED Status
           /\ \A other \in Sides : other # side => UNCHANGED <<Admitted(other), wire[other]>>
<1>1. /\ jobs[side] \in Seq(JobsOf(FramesFrom(side))) /\ jobs[side] # <<>>
      /\ granted \in [Sides -> BOOLEAN] /\ granted[side]
      /\ wire \in [Sides -> Seq(AnyFrames)] /\ wire[side] \in Seq(FramesFrom(side))
      /\ jobs \in [Sides -> Seq(JobsOf(AnyFrames))]
  BY SideFacts DEF SessionInv, DuplexType, WireType, JobsType, Granting, FramesFrom, CommitFrame
<1>2. HeadJob(side).frame \in FramesFrom(side)
  <2>1. HeadJob(side) \in JobsOf(FramesFrom(side))
    BY <1>1 DEF HeadJob
  <2> QED  BY <2>1 DEF JobsOf
<1>3. Admitted(side) = Sized(HeadJob(side).frame)
  BY <1>1 DEF Admitted
<1>4. Admitted(side).size = 1 /\ Admitted(side) # Nothing
  BY <1>3 DEF Sized, Nothing
<1>5. wire'[side] = Append(wire[side], HeadJob(side).frame)
  BY <1>1 DEF CommitFrame
<1>6. Sent(side)' = Append(Sent(side), Sized(HeadJob(side).frame)) /\ Len(wire'[side]) = Len(wire[side]) + 1
  BY <1>1, <1>2, <1>5, SentAppends DEF Sent
<1>7. Admitted(side)' = Nothing
  BY <1>1 DEF CommitFrame, Admitted
<1>8. \A other \in Sides : other # side => UNCHANGED <<Admitted(other), wire[other]>>
  BY <1>1 DEF CommitFrame, Admitted, HeadJob
<1> QED  BY <1>3, <1>4, <1>6, <1>7, <1>8 DEF Status

LEMMA Loses ==
    ASSUME SessionInv, NEW side \in Sides, NEW why, DropHead(side, why), UNCHANGED ringState
    PROVE  \A other \in Sides : UNCHANGED <<Admitted(other), wire[other], Status>>
<1>1. jobs \in [Sides -> Seq(JobsOf(AnyFrames))] /\ granted \in [Sides -> BOOLEAN]
  BY DEF SessionInv, DuplexType, JobsType, Granting
<1>2. ~granted[side] /\ UNCHANGED <<wire, granted>> /\ jobs' = [jobs EXCEPT ![side] = Tail(@)]
  BY DEF DropHead
<1>3. \A other \in Sides : other # side => jobs'[other] = jobs[other]
  BY <1>1, <1>2
<1> QED  BY <1>1, <1>2, <1>3 DEF Admitted, HeadJob, Status

LEMMA Turns ==
    ASSUME SessionInv, Turn, NEW side \in Sides
    PROVE  /\ UNCHANGED Admitted(side)
           /\ wire'[side] = wire[side] \/ (wire[side] # <<>> /\ wire'[side] = Tail(wire[side]))
           /\ UNCHANGED Status \/ (Status' \in 1 .. 3 /\ Status' > Status)
<1>1. /\ jobs \in [Sides -> Seq(JobsOf(AnyFrames))] /\ granted \in [Sides -> BOOLEAN]
      /\ wire \in [Sides -> Seq(AnyFrames)]
      /\ granted[side] => jobs[side] # <<>>
      /\ ringState \in {"open", "closed", "errored"}
  BY DEF SessionInv, DuplexType, WireType, JobsType, Granting, RingsType
<1>2. granted[side] => HeadJob(side)' = HeadJob(side)
  <2>1. CASE UNCHANGED jobs
    BY <2>1 DEF HeadJob
  <2>2. ASSUME NEW other \in Sides, NEW f, NEW timed, NEW fits, Enqueue(other, f, timed, fits), granted[side]
        PROVE  HeadJob(side)' = HeadJob(side)
    <3>1. jobs'[side] = jobs[side] \/ \E job : jobs'[side] = Append(jobs[side], job)
      BY <1>1, <2>2 DEF Enqueue
    <3>2. ASSUME NEW job, jobs'[side] = Append(jobs[side], job) PROVE HeadJob(side)' = HeadJob(side)
      <4>1. Head(Append(jobs[side], job)) = Head(jobs[side])
        BY <1>1, <2>2
      <4> QED  BY <3>2, <4>1 DEF HeadJob
    <3> QED  BY <3>1, <3>2 DEF HeadJob
  <2> QED  BY <2>1, <2>2 DEF Turn
<1>3. UNCHANGED Admitted(side)
  BY <1>2 DEF Turn, Admitted
<1>4. wire'[side] = wire[side] \/ (wire[side] # <<>> /\ wire'[side] = Tail(wire[side]))
  <2>1. CASE UNCHANGED wire
    BY <2>1
  <2>2. ASSUME NEW other \in Sides, Arrived(other), TakeFrame(other)
        PROVE  wire'[side] = wire[side] \/ (wire[side] # <<>> /\ wire'[side] = Tail(wire[side]))
    BY <1>1, <2>2 DEF Arrived, TakeFrame
  <2> QED  BY <2>1, <2>2 DEF Turn
<1>5. UNCHANGED Status \/ (Status' \in 1 .. 3 /\ Status' > Status)
  BY <1>1 DEF Turn, EndRings, Status
<1> QED  BY <1>3, <1>4, <1>5

LEMMA ChannelTurns ==
    ASSUME SessionInv, RingStep, NEW side \in Sides
    PROVE  \/ /\ Status = 0 /\ Admitted(side) = Nothing
              /\ \E f \in FramesFrom(side) : /\ Len(wire[side]) + Sized(f).size <= Slots
                                            /\ Admitted(side)' = Sized(f)
              /\ UNCHANGED <<wire[side], Status>>
           \/ /\ Admitted(side) # Nothing
              /\ Sent(side)' = Append(Sent(side), Admitted(side))
              /\ Len(wire'[side]) = Len(wire[side]) + Admitted(side).size
              /\ Admitted(side)' = Nothing
              /\ UNCHANGED Status
           \/ /\ UNCHANGED Admitted(side)
              /\ \/ UNCHANGED wire[side]
                 \/ /\ Sent(side) # <<>> /\ Sent(side)' = Tail(Sent(side))
                    /\ Len(wire'[side]) = Len(wire[side]) - Head(Sent(side)).size
              /\ UNCHANGED Status \/ (Status' \in 1 .. 3 /\ Status' > Status)
<1>0. wire[side] \in Seq(AnyFrames)
  BY DEF SessionInv, DuplexType, WireType
<1>1. ASSUME NEW other \in Sides, other # side, Grant(other) PROVE UNCHANGED <<Admitted(side), wire[side], Status>>
  BY <1>1, Grants
<1>2. ASSUME NEW other \in Sides, other # side, UNCHANGED ringState, CommitFrame(other)
      PROVE  UNCHANGED <<Admitted(side), wire[side], Status>>
  BY <1>2, Publishes
<1>3. ASSUME NEW other \in Sides, NEW why, UNCHANGED ringState, DropHead(other, why)
      PROVE  UNCHANGED <<Admitted(side), wire[side], Status>>
  BY <1>3, Loses
<1>4. CASE Grant(side)
  BY <1>4, Grants DEF Sized
<1>5. CASE UNCHANGED ringState /\ CommitFrame(side)
  BY <1>5, Publishes
<1>6. CASE Turn
  <2>1. ASSUME wire[side] # <<>>, wire'[side] = Tail(wire[side])
        PROVE  /\ Sent(side) # <<>> /\ Sent(side)' = Tail(Sent(side))
               /\ Len(wire'[side]) = Len(wire[side]) - Head(Sent(side)).size
    BY <1>0, <2>1, SentTails DEF Sent
  <2> QED  BY <1>6, <2>1, Turns
<1> QED
  BY <1>1, <1>2, <1>3, <1>4, <1>5, <1>6 DEF RingStep

(* The two directions of a session are channels as RingChannel has them:   *)
(* so what is proved of SharedRing, which implements RingChannel, is what  *)
(* the session takes for granted of its rings.                             *)
THEOREM SessionKeepsToRings == Spec => KeepsToRings
<1>1. Init => Up!ChanInit /\ Down!ChanInit
  BY SideFacts DEF Init, DuplexInit, Up!ChanInit, Down!ChanInit, Sent, Admitted, Status
<1>2. SessionInv /\ [Next]_vars => [RingStep]_duplexVars
  BY ClientTurns, ServerTurns DEF Next, vars
<1>3. ASSUME SessionInv, [RingStep]_duplexVars PROVE [Up!ChanTurn]_(Up!chanVars)
  <2>1. CASE UNCHANGED duplexVars
    BY <2>1 DEF duplexVars, Up!chanVars, Sent, Admitted, Status, HeadJob
  <2>2. CASE RingStep
    <3>1. wire'[Client] = wire[Client] => Sent(Client)' = Sent(Client) /\ Len(wire[Client])' = Len(wire[Client])
      BY DEF Sent
    <3>2. FramesFrom(Client) = ClientFrames /\ Client \in Sides
      BY SideFacts DEF FramesFrom
    <3>3. CASE /\ Status = 0 /\ Admitted(Client) = Nothing
               /\ \E f \in ClientFrames : Len(wire[Client]) + Sized(f).size <= Slots /\ Admitted(Client)' = Sized(f)
               /\ UNCHANGED <<wire[Client], Status>>
      <4>1. PICK f \in {Sized(f) : f \in ClientFrames} : Len(wire[Client]) + f.size <= Slots /\ Admitted(Client)' = f
        BY <3>3
      <4>2. Up!Admit(f)
        BY <3>1, <3>3, <4>1 DEF Up!Admit
      <4> QED  BY <4>2 DEF Up!ChanTurn, Up!ChanNext
    <3>4. CASE /\ Admitted(Client) # Nothing
               /\ Sent(Client)' = Append(Sent(Client), Admitted(Client))
               /\ Len(wire'[Client]) = Len(wire[Client]) + Admitted(Client).size
               /\ Admitted(Client)' = Nothing
               /\ UNCHANGED Status
      <4>1. Up!Publish
        BY <3>4 DEF Up!Publish
      <4> QED  BY <4>1 DEF Up!ChanTurn, Up!ChanNext
    <3>5. CASE /\ UNCHANGED Admitted(Client) /\ UNCHANGED wire[Client]
               /\ UNCHANGED Status \/ (Status' \in 1 .. 3 /\ Status' > Status)
      <4>1. Up!End(Status') \/ UNCHANGED Status
        BY <3>1, <3>5 DEF Up!End
      <4> QED  BY <3>1, <3>5, <4>1 DEF Up!ChanTurn, Up!ChanNext, Up!chanVars
    <3>6. CASE /\ UNCHANGED Admitted(Client)
               /\ Sent(Client) # <<>> /\ Sent(Client)' = Tail(Sent(Client))
               /\ Len(wire'[Client]) = Len(wire[Client]) - Head(Sent(Client)).size
               /\ UNCHANGED Status \/ (Status' \in 1 .. 3 /\ Status' > Status)
      <4>1. Up!Release \/ Up!ReleaseThenEnd(Status')
        BY <3>6 DEF Up!Release, Up!ReleaseThenEnd
      <4> QED  BY <3>6, <4>1 DEF Up!ChanTurn, Up!ChanNext, Up!Release
    <3> QED
      BY <1>3, <2>2, <3>2, <3>3, <3>4, <3>5, <3>6, ChannelTurns
  <2> QED  BY <1>3, <2>1, <2>2
<1>4. ASSUME SessionInv, [RingStep]_duplexVars PROVE [Down!ChanTurn]_(Down!chanVars)
  <2>1. CASE UNCHANGED duplexVars
    BY <2>1 DEF duplexVars, Down!chanVars, Sent, Admitted, Status, HeadJob
  <2>2. CASE RingStep
    <3>1. wire'[Server] = wire[Server] => Sent(Server)' = Sent(Server) /\ Len(wire[Server])' = Len(wire[Server])
      BY DEF Sent
    <3>2. FramesFrom(Server) = ServerFrames /\ Server \in Sides
      BY SideFacts DEF FramesFrom
    <3>3. CASE /\ Status = 0 /\ Admitted(Server) = Nothing
               /\ \E f \in ServerFrames : Len(wire[Server]) + Sized(f).size <= Slots /\ Admitted(Server)' = Sized(f)
               /\ UNCHANGED <<wire[Server], Status>>
      <4>1. PICK f \in {Sized(f) : f \in ServerFrames} : Len(wire[Server]) + f.size <= Slots /\ Admitted(Server)' = f
        BY <3>3
      <4>2. Down!Admit(f)
        BY <3>1, <3>3, <4>1 DEF Down!Admit
      <4> QED  BY <4>2 DEF Down!ChanTurn, Down!ChanNext
    <3>4. CASE /\ Admitted(Server) # Nothing
               /\ Sent(Server)' = Append(Sent(Server), Admitted(Server))
               /\ Len(wire'[Server]) = Len(wire[Server]) + Admitted(Server).size
               /\ Admitted(Server)' = Nothing
               /\ UNCHANGED Status
      <4>1. Down!Publish
        BY <3>4 DEF Down!Publish
      <4> QED  BY <4>1 DEF Down!ChanTurn, Down!ChanNext
    <3>5. CASE /\ UNCHANGED Admitted(Server) /\ UNCHANGED wire[Server]
               /\ UNCHANGED Status \/ (Status' \in 1 .. 3 /\ Status' > Status)
      <4>1. Down!End(Status') \/ UNCHANGED Status
        BY <3>1, <3>5 DEF Down!End
      <4> QED  BY <3>1, <3>5, <4>1 DEF Down!ChanTurn, Down!ChanNext, Down!chanVars
    <3>6. CASE /\ UNCHANGED Admitted(Server)
               /\ Sent(Server) # <<>> /\ Sent(Server)' = Tail(Sent(Server))
               /\ Len(wire'[Server]) = Len(wire[Server]) - Head(Sent(Server)).size
               /\ UNCHANGED Status \/ (Status' \in 1 .. 3 /\ Status' > Status)
      <4>1. Down!Release \/ Down!ReleaseThenEnd(Status')
        BY <3>6 DEF Down!Release, Down!ReleaseThenEnd
      <4> QED  BY <3>6, <4>1 DEF Down!ChanTurn, Down!ChanNext, Down!Release
    <3> QED
      BY <1>4, <2>2, <3>2, <3>3, <3>4, <3>5, <3>6, ChannelTurns
  <2> QED  BY <1>4, <2>1, <2>2
<1> QED
  BY <1>1, <1>2, <1>3, <1>4, SessionInvariant, PTL DEF Spec, KeepsToRings, Up!TurnSpec, Down!TurnSpec

(* Both together: the client and the server use their store and their      *)
(* rings as those were shown to be used.                                   *)
THEOREM SessionKeepsToLayers == Spec => KeepsToLayers
BY SessionImplementsStore, SessionKeepsToRings, PTL DEF KeepsToLayers
================================================================================

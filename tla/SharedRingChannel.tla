-------------------------- MODULE SharedRingChannel --------------------------
(***************************************************************************)
(* What the ring is for: the frames between READ_SEQ and WRITE_SEQ are     *)
(* those that were committed and not yet released, and the ring as a whole *)
(* implements the bounded first-in first-out channel of RingChannel.       *)
(***************************************************************************)
EXTENDS SharedRing

(* Where each queued frame begins, in units from READ_SEQ on; the last     *)
(* number is where the next one will.                                      *)
Starts ==
    LET at[k \in 1 .. Len(queue) + 1] == IF k = 1 THEN 0 ELSE at[k - 1] + queue[k - 1].size
    IN  at

CellOf(f, i) == [kind |-> IF i = 0 THEN "head" ELSE "body", frame |-> f]

(* The bytes between READ_SEQ and WRITE_SEQ are exactly the frames that    *)
(* were committed and not yet released, in order, header first; the view   *)
(* the reader holds is the oldest of them.  (Until a normalization hits an *)
(* open transaction, and between its two stores.)                          *)
RingHoldsQueue ==
    ~overlap /\ ~Rewinding =>
        /\ Used(readSeq, writeSeq) = Starts[Len(queue) + 1]
        /\ \A k \in 1 .. Len(queue) : \A i \in 0 .. queue[k].size - 1 :
              mem[toOffset(Advance(readSeq, Starts[k] + i))] = CellOf(queue[k], i)
        /\ pc[Reader] \in {"granted", "holding"} => queue # <<>>
        /\ pc[Reader] = "holding" => view = Head(queue)

(* The ring implements the abstract channel.                               *)
Chan == INSTANCE RingChannel WITH
    Bound    <- Capacity,
    sent     <- queue,
    occupied <- IF Rewinding THEN 0 ELSE Used(readSeq, writeSeq),
    admitted <- IF pc[Writer] \in {"granted", "store"} THEN frame ELSE NoFrame,
    status   <- state

(* Every step of the ring is a step of RingChannel or leaves it alone, up  *)
(* to the step in which a normalization hits an open transaction.          *)
ImplementsChannel ==
    Chan!ChanInit /\ [][Chan!ChanNext \/ overlap']_(Chan!chanVars)
=============================================================================

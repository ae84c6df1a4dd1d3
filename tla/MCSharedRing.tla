---------------------------- MODULE MCSharedRing ----------------------------
(***************************************************************************)
(* SharedRing for TLC: its liveness, and what it is not.                   *)
(***************************************************************************)
EXTENDS SharedRingChannel

(* A send ends (delivered, timed out, aborted or refused) as long as the   *)
(* peer keeps receiving.                                                   *)
SendEnds == pc[Writer] # "idle" ~> pc[Writer] = "idle"

(* A frame committed to a ring whose reader keeps receiving is eventually  *)
(* handed over, unless the transport ends first.                           *)
FrameArrives == queue # <<>> ~> (pc[Reader] = "holding" \/ state # Open \/ overlap)

(* A send that waits for room resumes once there is room for its frame     *)
(* (or a normalization has hit an open transaction).                       *)
BlockedSendResumes == waiting[Writer] /\ SpaceNews ~> ~waiting[Writer] \/ overlap

(* What computeUsedBytes takes for granted at all times, the history       *)
(* variable aside: a pair of sequence numbers a thread loaded never spans  *)
(* more than the ring.                                                     *)
UsedWithinCapacity ==
    \A t \in Threads : pc[t] = "acquire" => Used(rs[t], ws[t]) <= Capacity
=============================================================================

---------------------------- MODULE RingChannel -----------------------------
(***************************************************************************)
(* What one direction of a channel promises the layers above: a bounded    *)
(* first-in first-out queue of frames between one sender and one receiver. *)
(* A send is admitted while the transport is open and the frame fits, and  *)
(* is published later: a frame admitted before the transport ended may     *)
(* still be published after it.  Frames published before the end stay      *)
(* readable.                                                               *)
(***************************************************************************)
EXTENDS Integers, Sequences

CONSTANTS Frames, NoFrame, Bound

VARIABLES sent,       \* frames published and not yet released
          occupied,   \* units they take
          admitted,   \* the frame the sender may publish, or NoFrame
          status      \* 0 open, 1 closing, 2 closed, 3 errored

chanVars == <<sent, occupied, admitted, status>>

ChanInit == sent = <<>> /\ occupied = 0 /\ admitted = NoFrame /\ status = 0

Admit(f) ==
    /\ status = 0 /\ admitted = NoFrame
    /\ occupied + f.size <= Bound
    /\ admitted' = f
    /\ UNCHANGED <<sent, occupied, status>>

Publish ==
    /\ admitted # NoFrame
    /\ sent' = Append(sent, admitted)
    /\ occupied' = occupied + admitted.size
    /\ admitted' = NoFrame
    /\ UNCHANGED status

Release ==
    /\ sent # <<>>
    /\ sent' = Tail(sent)
    /\ occupied' = occupied - Head(sent).size
    /\ UNCHANGED <<admitted, status>>

End(s) ==
    /\ s > status
    /\ status' = s
    /\ UNCHANGED <<sent, occupied, admitted>>

ChanNext ==
    \/ \E f \in Frames : Admit(f)
    \/ Publish
    \/ Release
    \/ \E s \in 1 .. 3 : End(s)

ChanSpec == ChanInit /\ [][ChanNext]_chanVars

(* The same in turns of an event loop: the receiver may release a frame    *)
(* and, on account of it, end the transport before anyone else runs.       *)
ReleaseThenEnd(s) ==
    /\ sent # <<>> /\ s > status
    /\ sent' = Tail(sent)
    /\ occupied' = occupied - Head(sent).size
    /\ status' = s
    /\ UNCHANGED admitted

ChanTurn == ChanNext \/ \E s \in 1 .. 3 : ReleaseThenEnd(s)

TurnSpec == ChanInit /\ [][ChanTurn]_chanVars
=============================================================================

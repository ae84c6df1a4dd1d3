-------------------------------- MODULE Duplex --------------------------------
(***************************************************************************)
(* Two DuplexEndpoints (core/ring/endpoint.ts) over one pair of rings.     *)
(* Each ring is the FIFO channel that RingChannel promises and SharedRing  *)
(* is shown to implement, counted in frames.  What the endpoint adds is    *)
(* modelled here: the promise chain `#sendQueue' that sends one frame at a *)
(* time, so that a send waiting for space holds up every later one; the    *)
(* gap between the grant of the space and the commit of the frame, which   *)
(* are in different turns of the event loop; and the closing of both rings *)
(* by either side, after which what is in them can still be read.          *)
(*                                                                         *)
(* Calls and notifications are numbered in the order they are made.  A     *)
(* frame is [op, of, why]: `of' is the one it is about (its requestId is   *)
(* the client's business) and `why' is the code of a CANCEL.  A job is a   *)
(* frame with what bounds its sending.                                     *)
(***************************************************************************)
EXTENDS Naturals, Sequences

CONSTANTS
    Made,    \* how many calls and notifications the client's user makes
    Notes,   \* those that are notifications
    Timed,   \* those with a timeout, whose frame has the HAS_DEADLINE flag
    Slots    \* frames that fit in a ring

Messages == 1 .. Made
Requests == Messages \ Notes

ASSUME DuplexAssumption ==
    /\ Made \in Nat
    /\ Notes \subseteq Messages /\ Timed \subseteq Messages
    /\ Slots \in Nat /\ Slots > 0

Client == "client"
Server == "server"
Sides == {Client, Server}
Peer(side) == IF side = Client THEN Server ELSE Client

NoCause == "none"
Causes == {"timed-out", "cancelled", "failed"}

VARIABLES
    ringState, \* the rings' STATE (either side ends both of them)
    shut,      \* #closed of each side's endpoint
    wire,      \* the frames committed to each side's outbound ring
    jobs,      \* each side's #sendQueue; only its head runs
    granted,   \* waitForWritable of the head's frame has succeeded
    aborted    \* the calls whose sendController, and the notifications whose signal, has aborted

duplexVars == <<ringState, shut, wire, jobs, granted, aborted>>

open == ringState = "open"
(* The class of the error that ended rings give.                           *)
EndCause == IF ringState = "errored" THEN "failed" ELSE "cancelled"

DuplexInit ==
    /\ ringState = "open"
    /\ shut = [side \in Sides |-> FALSE]
    /\ wire = [side \in Sides |-> <<>>]
    /\ jobs = [side \in Sides |-> <<>>]
    /\ granted = [side \in Sides |-> FALSE]
    /\ aborted = {}

Frame(op, of) == [op |-> op, of |-> of, why |-> NoCause]

(* send: `timed' when it has a timeout or a deadline, `fits' when the      *)
(* frame is no larger than the ring, `waits' when another send is ahead.   *)
Enqueue(side, frame, timed, fits) ==
    LET job == [frame |-> frame, timed |-> timed, fits |-> fits, waits |-> jobs[side] # <<>>]
    IN  jobs' = [jobs EXCEPT ![side] = Append(@, job)]

HeadJob(side) == Head(jobs[side])
HeadAborted(side) == HeadJob(side).frame.op \in {"REQUEST", "NOTIFY"} /\ HeadJob(side).frame.of \in aborted

(* run and waitForWritable, up to the return of the latter.                *)
GrantEnded(side) ==   \* a mutated form
    /\ jobs[side] # <<>> /\ ~granted[side]
    /\ ~HeadAborted(side) /\ ~shut[side] /\ HeadJob(side).fits
    /\ Len(wire[side]) < Slots
    /\ granted' = [granted EXCEPT ![side] = TRUE]
    /\ UNCHANGED <<ringState, shut, wire, jobs, aborted>>
Grant(side) ==
    /\ jobs[side] # <<>> /\ ~granted[side]
    /\ ~HeadAborted(side) /\ ~shut[side] /\ HeadJob(side).fits /\ open
    /\ Len(wire[side]) < Slots
    /\ granted' = [granted EXCEPT ![side] = TRUE]
    /\ UNCHANGED <<ringState, shut, wire, jobs, aborted>>

(* The rest of writeFrame: whatever has happened since the grant, the      *)
(* frame is committed, to a closed ring if need be, and the send succeeds. *)
CommitFrame(side) ==
    /\ granted[side]
    /\ wire' = [wire EXCEPT ![side] = Append(@, HeadJob(side).frame)]
    /\ jobs' = [jobs EXCEPT ![side] = Tail(@)]
    /\ granted' = [granted EXCEPT ![side] = FALSE]

(* The send rejects: the signal, a closed endpoint or ring, a frame that   *)
(* does not fit, or the time limit.  A limit only ever strikes the head,   *)
(* as no timer runs for a job behind another, and only if it has had to    *)
(* wait, for its turn or for space.                                        *)
MayFail(side, why) ==
    \/ why = "cancelled" /\ (HeadAborted(side) \/ shut[side])
    \/ why = "failed" /\ ~shut[side] /\ ~HeadJob(side).fits
    \/ why = "timed-out" /\ ~shut[side] /\ HeadJob(side).fits /\ HeadJob(side).timed
       /\ (HeadJob(side).waits \/ Len(wire[side]) = Slots)
    \/ why = EndCause /\ ~shut[side] /\ HeadJob(side).fits /\ ~open

DropHeadUnlessTimedOut(side, why) ==   \* a mutated form
    /\ jobs[side] # <<>> /\ ~granted[side]
    /\ MayFail(side, why)
    /\ jobs' = IF why = "timed-out" THEN jobs ELSE [jobs EXCEPT ![side] = Tail(@)]
    /\ UNCHANGED <<wire, granted>>
DropHead(side, why) ==
    /\ jobs[side] # <<>> /\ ~granted[side]
    /\ MayFail(side, why)
    /\ jobs' = [jobs EXCEPT ![side] = Tail(@)]
    /\ UNCHANGED <<wire, granted>>

(* receive: the next frame, which is there even if the rings are closed.   *)
Arrived(side) == wire[Peer(side)] # <<>>
Arrival(side) == Head(wire[Peer(side)])
TakeFrame(side) == wire' = [wire EXCEPT ![Peer(side)] = Tail(@)]

(* receive: the rings are closed and there is nothing left to read.        *)
RingEnded(side) == ~open /\ ~Arrived(side)

(* forceClose, or markErrored after a protocol error; a state only rises.  *)
EndRings(side, state) ==
    /\ shut' = [shut EXCEPT ![side] = TRUE]
    /\ ringState' = IF ringState = "errored" THEN "errored" ELSE state
ForceClose(side) == EndRings(side, "closed")

DuplexTypeOK ==
    LET Frames == [op : {"REQUEST", "NOTIFY", "CANCEL", "RESPONSE_OK", "RESPONSE_ERR", "CLOSE"},
                   of : Messages \cup {0}, why : Causes \cup {NoCause}]
    IN  /\ ringState \in {"open", "closed", "errored"}
        /\ shut \in [Sides -> BOOLEAN]
        /\ wire \in [Sides -> Seq(Frames)]
        /\ \A side \in Sides : Len(wire[side]) <= Slots
        /\ jobs \in [Sides -> Seq([frame : Frames, timed : BOOLEAN, fits : BOOLEAN, waits : BOOLEAN])]
        /\ granted \in [Sides -> BOOLEAN]
        /\ \A side \in Sides : granted[side] => jobs[side] # <<>>
        /\ aborted \subseteq Messages
===============================================================================

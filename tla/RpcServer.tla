------------------------------- MODULE RpcServer -------------------------------
(***************************************************************************)
(* RpcServerImpl (core/rpc/server.ts): a serve loop takes frames off the   *)
(* ring and starts invocations, queues them or turns them away; each       *)
(* invocation is a task of its own that runs the handler, sends the reply  *)
(* and, when it ends, lets queued requests start; cancellation, a fatal    *)
(* error of a task or of the loop, and shutdown cut across them.           *)
(***************************************************************************)
EXTENDS Duplex, FiniteSets

CONSTANTS
    BigAnswers,          \* the requests whose result is larger than the ring
    Unreadable,          \* the messages whose payload the method's codec does not take
    Closing,             \* those whose handler awaits the server's close()
    MaxInFlight, MaxQueuedRequests, OverloadPolicy, NotifyErrorPolicy,
    ResponseTimeout,     \* defaultResponseTimeoutMs is set
    ServerMayClose       \* the user may call close()

ASSUME ServerAssumption ==
    /\ BigAnswers \subseteq Requests /\ Unreadable \subseteq Messages /\ Closing \subseteq Messages
    /\ MaxInFlight \in Nat /\ MaxInFlight > 0
    /\ MaxQueuedRequests \in Nat
    /\ OverloadPolicy \in {"queue", "reject"}
    /\ NotifyErrorPolicy \in {"log", "throw"}
    /\ ResponseTimeout \in BOOLEAN /\ ServerMayClose \in BOOLEAN

VARIABLES
    phase,            \* where the invocation of each message is
    abortReason,      \* the class of the reason its controller aborted with
    queue,            \* #pendingQueue
    outcomes,         \* history: the outcomes recorded for each request
    failure,          \* the class of the error a failed task rejects with
    serverClosed,     \* #closed
    serverShutdown,   \* how far shutdown is
    serverLoop        \* where runServeLoop is

serverVars == <<phase, abortReason, queue, outcomes, failure, serverClosed, serverShutdown, serverLoop>>

Outcomes == Causes \cup {"completed"}

(* The stages of a message: "idle" until it is received and, if it is      *)
(* queued, until it starts; "running" the handler, which may be "awaiting" *)
(* the close of the server; "replying"; "failed" when handleFrame has      *)
(* rejected; "stopping" while it awaits the shutdown it caused; "ending"   *)
(* before its finally; "over".  A request turned away is "refusing" while  *)
(* the overload error is being sent.                                       *)
InFlightPhases == {"running", "awaiting", "replying", "failed", "stopping", "ending"}
inFlight == {m \in Messages : phase[m] \in InFlightPhases}

ServerInit ==
    /\ phase = [m \in Messages |-> "idle"]
    /\ abortReason = [m \in Messages |-> NoCause]
    /\ queue = <<>>
    /\ outcomes = [m \in Messages |-> {}]
    /\ failure = [m \in Messages |-> NoCause]
    /\ serverClosed = FALSE /\ serverShutdown = "none" /\ serverLoop = "receiving"

Record(m, outcome) == outcomes' = [outcomes EXCEPT ![m] = @ \cup {outcome}]
IsQueued(m) == \E i \in DOMAIN queue : queue[i] = m

(* shutdown once the rings are dealt with: empty the queue, abort what is  *)
(* active, and wait for the tasks.                                         *)
StopTasks(why) ==
    /\ queue' = <<>>
    /\ outcomes' = [m \in Messages |-> IF IsQueued(m) THEN outcomes[m] \cup {why} ELSE outcomes[m]]
    /\ abortReason' = [m \in Messages |->
                          IF m \in inFlight /\ abortReason[m] = NoCause THEN why ELSE abortReason[m]]
    /\ serverShutdown' = "draining"

ShutdownNow(why, state) ==
    /\ serverClosed' = TRUE
    /\ EndRings(Server, state)
    /\ StopTasks(why)

(* close(): CLOSE goes first, and the rings are closed only if it was sent. *)
SendClose ==
    /\ serverClosed' = TRUE /\ serverShutdown' = "closing"
    /\ Enqueue(Server, Frame("CLOSE", 0), TRUE, TRUE)

ServerClose ==
    /\ ServerMayClose /\ ~serverClosed
    /\ SendClose
    /\ UNCHANGED <<phase, abortReason, queue, outcomes, failure, serverLoop>>
    /\ UNCHANGED <<ringState, shut, wire, granted, aborted>>

ServerCloseEnds ==
    /\ \/ serverShutdown = "closeSent" /\ ForceClose(Server)
       \/ serverShutdown = "closeFailed" /\ UNCHANGED <<ringState, shut>>
    /\ StopTasks("cancelled")
    /\ UNCHANGED <<phase, failure, serverClosed, serverLoop, wire, jobs, granted, aborted>>

(* The tasks that shutdown awaits have ended: all but the one it skips.    *)
ServerDrainedAtOnce ==   \* a mutated form
    /\ serverShutdown = "draining"
    /\ serverShutdown' = "done"
    /\ UNCHANGED <<phase, abortReason, queue, outcomes, failure, serverClosed, serverLoop, duplexVars>>
ServerDrainedByAll ==   \* a mutated form
    /\ serverShutdown = "draining"
    /\ inFlight = {}
    /\ serverShutdown' = "done"
    /\ UNCHANGED <<phase, abortReason, queue, outcomes, failure, serverClosed, serverLoop, duplexVars>>
ServerDrained ==
    /\ serverShutdown = "draining"
    /\ \A m \in inFlight : phase[m] = "stopping"
    /\ serverShutdown' = "done"
    /\ UNCHANGED <<phase, abortReason, queue, outcomes, failure, serverClosed, serverLoop, duplexVars>>

-----------------------------------------------------------------------------
(* dispatchFrame.                                                          *)
HasRoomForOneMore == Cardinality(inFlight) <= MaxInFlight   \* a mutated form
HasRoom == Cardinality(inFlight) < MaxInFlight
MayQueue(m) == m \notin Notes /\ OverloadPolicy = "queue" /\ Len(queue) < MaxQueuedRequests

(* startInvocation: the request is decoded at once, and outside the try    *)
(* of handleFrame.  (A method that is unknown answers as a handler does.)  *)
Invoked(m) == IF m \in Unreadable THEN "failed" ELSE "running"
FailWhenRead(S) == failure' = [m \in Messages |-> IF m \in S \cap Unreadable THEN "failed" ELSE failure[m]]

Start(m) ==
    /\ phase' = [phase EXCEPT ![m] = Invoked(m)] /\ FailWhenRead({m})
    /\ UNCHANGED <<queue, outcomes, abortReason, serverClosed, serverShutdown, serverLoop, ringState, shut, jobs>>
Push(m) ==
    /\ queue' = Append(queue, m)
    /\ UNCHANGED <<phase, failure, outcomes, abortReason, serverClosed, serverShutdown, serverLoop,
                   ringState, shut, jobs>>
(* The serve loop awaits the sending of the overload error, unless the     *)
(* deadline has passed already.                                            *)
Refuse(m) ==
    \/ /\ phase' = [phase EXCEPT ![m] = "refusing"]
       /\ Enqueue(Server, Frame("RESPONSE_ERR", m), m \in Timed \/ ResponseTimeout, TRUE)
       /\ serverLoop' = "refusing"
       /\ UNCHANGED <<failure, queue, outcomes, abortReason, serverClosed, serverShutdown, ringState, shut>>
    \/ /\ m \in Timed
       /\ phase' = [phase EXCEPT ![m] = "over"]
       /\ Record(m, "timed-out")
       /\ UNCHANGED <<failure, queue, abortReason, serverClosed, serverShutdown, serverLoop, ringState, shut, jobs>>
(* A notification turned away is a notify error; with the policy "throw"   *)
(* the loop fails with it.                                                 *)
RefuseNote(m) ==
    /\ phase' = [phase EXCEPT ![m] = "over"]
    /\ IF NotifyErrorPolicy = "throw"
       THEN ShutdownNow("failed", "closed") /\ serverLoop' = "ended" /\ UNCHANGED <<failure, jobs>>
       ELSE UNCHANGED <<failure, queue, outcomes, abortReason, serverClosed, serverShutdown,
                        serverLoop, ringState, shut, jobs>>

Dispatch(m) ==
    \/ HasRoom /\ Start(m)
    \/ ~HasRoom /\ MayQueue(m) /\ Push(m)
    \/ ~HasRoom /\ ~MayQueue(m) /\ m \notin Notes /\ Refuse(m)
    \/ ~HasRoom /\ m \in Notes /\ RefuseNote(m)

Discard ==
    /\ serverLoop' = "ended"
    /\ UNCHANGED <<phase, failure, abortReason, queue, outcomes, serverClosed, serverShutdown>>
    /\ UNCHANGED <<ringState, shut, jobs>>

(* handleCancel: a queued request is dropped, an active one is aborted,    *)
(* and there is nothing to do for any other.                               *)
LoopGoesOn == serverLoop' = IF serverClosed THEN "ended" ELSE "receiving"
Splice(i) == SubSeq(queue, 1, i - 1) \o SubSeq(queue, i + 1, Len(queue))
HandleCancelRecording(m, why) ==   \* a mutated form
    /\ Record(m, why)
    /\ IF IsQueued(m)
       THEN \E i \in DOMAIN queue :
               queue[i] = m /\ queue' = Splice(i) /\ phase' = [phase EXCEPT ![m] = "over"]
       ELSE UNCHANGED <<queue, phase>>
    /\ LoopGoesOn
    /\ UNCHANGED <<failure, abortReason, serverClosed, serverShutdown, ringState, shut, jobs>>
HandleCancel(m, why) ==
    /\ \/ /\ \E i \in DOMAIN queue : queue[i] = m /\ queue' = Splice(i)
          /\ Record(m, why)
          /\ phase' = [phase EXCEPT ![m] = "over"]
          /\ UNCHANGED abortReason
       \/ /\ ~IsQueued(m)
          /\ abortReason' = IF m \in inFlight /\ abortReason[m] = NoCause
                            THEN [abortReason EXCEPT ![m] = why] ELSE abortReason
          /\ UNCHANGED <<queue, outcomes, phase>>
    /\ LoopGoesOn
    /\ UNCHANGED <<failure, serverClosed, serverShutdown, ringState, shut, jobs>>

(* runServeLoop: one frame.                                                *)
ServerReceive ==
    LET f == Arrival(Server) IN
    /\ serverLoop = "receiving" /\ Arrived(Server) /\ TakeFrame(Server)
    /\ \/ f.op \in {"REQUEST", "NOTIFY"} /\ ~serverClosed /\ Dispatch(f.of)
       \/ f.op \in {"REQUEST", "NOTIFY"} /\ serverClosed /\ Discard
       \/ f.op = "CANCEL" /\ HandleCancel(f.of, f.why)
       \/ /\ f.op = "CLOSE" /\ ~serverClosed
          /\ ShutdownNow("cancelled", "closed") /\ serverLoop' = "ended" /\ UNCHANGED <<phase, failure, jobs>>
       \/ f.op = "CLOSE" /\ serverClosed /\ Discard
    /\ UNCHANGED <<granted, aborted>>

(* The loop fails: the rings have ended, or the overload error could not   *)
(* be sent.                                                                *)
ServeLoopFails ==
    /\ \/ serverLoop = "receiving" /\ RingEnded(Server)
       \/ serverLoop = "failed"
    /\ serverLoop' = "ended"
    /\ IF serverClosed
       THEN UNCHANGED <<abortReason, queue, outcomes, serverClosed, serverShutdown, ringState, shut>>
       ELSE ShutdownNow(EndCause, "closed")
    /\ UNCHANGED <<phase, failure, wire, jobs, granted, aborted>>

-----------------------------------------------------------------------------
(* handleFrame, once the handler has returned or thrown.  No reply is sent *)
(* for a request whose controller aborted or whose deadline has passed.    *)
Enter(m, where) == phase' = [phase EXCEPT ![m] = where]

Reply(m, answer) ==
    /\ abortReason[m] = NoCause
    /\ Enter(m, "replying")
    /\ Enqueue(Server, Frame(answer, m), m \in Timed \/ ResponseTimeout,
               answer = "RESPONSE_ERR" \/ m \notin BigAnswers)
    /\ UNCHANGED <<outcomes, failure>>
SuppressReply(m) ==
    /\ abortReason[m] # NoCause \/ m \in Timed
    /\ Enter(m, "ending")
    /\ Record(m, IF abortReason[m] = NoCause THEN "timed-out" ELSE abortReason[m])
    /\ UNCHANGED <<failure, jobs>>
NoteEnds(m) ==
    \/ Enter(m, "ending") /\ UNCHANGED <<outcomes, failure, jobs>>
    \/ /\ NotifyErrorPolicy = "throw"
       /\ Enter(m, "failed") /\ failure' = [failure EXCEPT ![m] = "failed"]
       /\ UNCHANGED <<outcomes, jobs>>

(* A handler may close the server and await that.                          *)
HandlerCloses(m) ==
    /\ m \in Closing /\ phase[m] = "running" /\ Enter(m, "awaiting")
    /\ IF serverClosed THEN UNCHANGED <<serverClosed, serverShutdown, jobs>> ELSE SendClose
    /\ UNCHANGED <<abortReason, queue, outcomes, failure, serverLoop>>
    /\ UNCHANGED <<ringState, shut, wire, granted, aborted>>

HandlerEnds(m) ==
    /\ phase[m] = "running" \/ (phase[m] = "awaiting" /\ serverShutdown = "done")
    /\ \/ m \in Notes /\ NoteEnds(m)
       \/ m \notin Notes /\ \E answer \in {"RESPONSE_OK", "RESPONSE_ERR"} : Reply(m, answer)
       \/ m \notin Notes /\ SuppressReply(m)
    /\ UNCHANGED <<abortReason, queue, serverClosed, serverShutdown, serverLoop>>
    /\ UNCHANGED <<ringState, shut, wire, granted, aborted>>

(* The send of a reply, of an overload error or of CLOSE settles.          *)
ServerGrant == Grant(Server) /\ UNCHANGED serverVars

AfterReply(m) ==
    /\ Enter(m, IF phase[m] = "refusing" THEN "over" ELSE "ending")
    /\ IF phase[m] = "refusing" THEN LoopGoesOn ELSE UNCHANGED serverLoop

ServerSent ==
    LET f == HeadJob(Server).frame IN
    /\ CommitFrame(Server)
    /\ \/ /\ f.op = "CLOSE" /\ serverShutdown' = "closeSent"
          /\ UNCHANGED <<phase, outcomes, serverLoop>>
       \/ /\ f.op # "CLOSE" /\ Record(f.of, "completed") /\ AfterReply(f.of)
          /\ UNCHANGED serverShutdown
    /\ UNCHANGED <<abortReason, queue, failure, serverClosed, ringState, shut, aborted>>

ServerSendFails ==
    LET f == HeadJob(Server).frame IN
    \E why \in Causes :
        /\ DropHead(Server, why)
        /\ \/ /\ f.op = "CLOSE" /\ serverShutdown' = "closeFailed"
              /\ UNCHANGED <<phase, outcomes, failure, serverLoop>>
           \/ /\ f.op # "CLOSE" /\ why = "timed-out"
              /\ Record(f.of, "timed-out") /\ AfterReply(f.of)
              /\ UNCHANGED <<failure, serverShutdown>>
           \/ /\ f.op # "CLOSE" /\ why # "timed-out" /\ phase[f.of] = "refusing"
              /\ serverLoop' = "failed"
              /\ UNCHANGED <<phase, outcomes, failure, serverShutdown>>
           \/ /\ f.op # "CLOSE" /\ why # "timed-out" /\ phase[f.of] = "replying"
              /\ Enter(f.of, "failed") /\ failure' = [failure EXCEPT ![f.of] = why]
              /\ UNCHANGED <<outcomes, serverLoop, serverShutdown>>
    /\ UNCHANGED <<abortReason, queue, serverClosed, ringState, shut, aborted>>

(* The catch of startInvocation: unless the server is closed already, the  *)
(* error is fatal, and the task awaits the shutdown without itself.        *)
TaskFails(m) ==
    /\ phase[m] = "failed"
    /\ IF serverClosed
       THEN /\ Enter(m, "ending")
            /\ UNCHANGED <<abortReason, queue, outcomes, serverClosed, serverShutdown, ringState, shut>>
       ELSE /\ Enter(m, "stopping")
            /\ \E state \in (IF m \in Unreadable THEN {"closed", "errored"} ELSE {"closed"}) :
                  ShutdownNow(failure[m], state)
    /\ UNCHANGED <<failure, serverLoop, wire, jobs, granted, aborted>>

TaskStopped(m) ==
    /\ phase[m] = "stopping" /\ serverShutdown = "done"
    /\ Enter(m, "ending")
    /\ UNCHANGED <<abortReason, queue, outcomes, failure, serverClosed, serverShutdown, serverLoop, duplexVars>>

(* The finally of startInvocation, drainQueue included.                    *)
TaskEndsOnly(m) ==   \* a mutated form
    /\ phase[m] = "ending"
    /\ Enter(m, "over")
    /\ UNCHANGED <<queue, abortReason, outcomes, failure, serverClosed, serverShutdown, serverLoop, duplexVars>>
Room == MaxInFlight + 1 - Cardinality(inFlight)
NextInLine == IF Room < Len(queue) THEN Room ELSE Len(queue)
Drained == IF serverClosed THEN 0 ELSE NextInLine
TaskEnds(m) ==
    LET next == {queue[i] : i \in 1 .. Drained} IN
    /\ phase[m] = "ending"
    /\ phase' = [other \in Messages |->
                    IF other = m THEN "over" ELSE IF other \in next THEN Invoked(other) ELSE phase[other]]
    /\ FailWhenRead(next)
    /\ queue' = SubSeq(queue, Drained + 1, Len(queue))
    /\ UNCHANGED <<abortReason, outcomes, serverClosed, serverShutdown, serverLoop, duplexVars>>

HandlerStep(m) == HandlerEnds(m) \/ HandlerCloses(m)
TaskStep(m) == TaskFails(m) \/ TaskStopped(m) \/ TaskEnds(m)
ServerStep ==
    \/ ServerGrant \/ ServerSent \/ ServerSendFails \/ ServerCloseEnds \/ ServerDrained
    \/ ServerReceive \/ ServeLoopFails
    \/ \E m \in Messages : HandlerStep(m) \/ TaskStep(m)

ServerTypeOK ==
    /\ phase \in [Messages -> InFlightPhases \cup {"idle", "refusing", "over"}]
    /\ abortReason \in [Messages -> Causes \cup {NoCause}]
    /\ queue \in Seq(Requests)
    /\ outcomes \in [Messages -> SUBSET Outcomes]
    /\ failure \in [Messages -> Causes \cup {NoCause}]
    /\ serverClosed \in BOOLEAN
    /\ serverShutdown \in {"none", "closing", "closeSent", "closeFailed", "draining", "done"}
    /\ serverLoop \in {"receiving", "refusing", "failed", "ended"}
================================================================================

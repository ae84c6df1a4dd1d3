------------------------------ MODULE RpcSession ------------------------------
(***************************************************************************)
(* An RPC client and an RPC server over one pair of rings: calls,          *)
(* notifications, cancellation, overload and shutdown from both ends.      *)
(***************************************************************************)
EXTENDS RpcClient, RpcServer

vars == <<duplexVars, clientVars, serverVars>>

Init == DuplexInit /\ ClientInit /\ ServerInit

Next ==
    \/ (ClientStep \/ ClientUser) /\ UNCHANGED serverVars
    \/ (ServerStep \/ ServerClose) /\ UNCHANGED clientVars

Spec == Init /\ [][Next]_vars

(* The event loops run, the timers fire, and handlers return.  A time      *)
(* limit need not strike, though: the fairness of the sends is in getting  *)
(* on with them.                                                           *)
Fairness ==
    /\ WF_vars((ClientGrant \/ ClientSent \/ ClientSendFails) /\ UNCHANGED serverVars)
    /\ WF_vars(ClientCloseEnds /\ UNCHANGED serverVars)
    /\ WF_vars((ClientReceive \/ ClientReceiveFails) /\ UNCHANGED serverVars)
    /\ \A c \in Requests : WF_vars(CallTimeout(c) /\ UNCHANGED serverVars)
    /\ WF_vars((ServerGrant \/ ServerSent \/ ServerSendFails) /\ UNCHANGED clientVars)
    /\ WF_vars((ServerReceive \/ ServeLoopFails) /\ UNCHANGED clientVars)
    /\ WF_vars((ServerCloseEnds \/ ServerDrained) /\ UNCHANGED clientVars)
    /\ \A m \in Messages : WF_vars((HandlerStep(m) \/ TaskStep(m)) /\ UNCHANGED clientVars)

FairSpec == Spec /\ Fairness

-----------------------------------------------------------------------------
TypeOK == DuplexTypeOK /\ ClientTypeOK /\ ServerTypeOK

(* Calls, as their makers see them: every step of the session is one of    *)
(* RemoteCalls.  Whatever responses, timers, aborts, failed sends and      *)
(* shutdowns do, a promise settles once; and a handler starts once, never  *)
(* for a request whose CANCEL took it from the queue, and never once the   *)
(* server is closed.                                                       *)
Calls == INSTANCE RemoteCalls WITH
    Unsettled <- NoCause, Completed <- "completed", Failures <- Causes,
    outcome <- settled,
    serving <- ~serverClosed,
    stage   <- [m \in Messages |-> CASE phase[m] = "idle" -> "ahead" [] phase[m] = "over" -> "over"
                                     [] OTHER -> "taken"]
ImplementsCalls == Calls!CallsSpec

(* The client uses its store as PendingRequests says: whatever settles a   *)
(* call takes its own entry out, once; the sweep of the shutdown happens   *)
(* once, as shutdown ends, and no call is registered after it, which       *)
(* nothing would ever settle.                                              *)
ImplementsStore == Store!Spec

(* Who sends what; and the two wires of Duplex as channels, with every     *)
(* frame one unit, the frame granted space the one admitted.               *)
ClientFrames ==
    [op : {"REQUEST"}, of : Requests, why : {NoCause}] \cup [op : {"NOTIFY"}, of : Notes, why : {NoCause}]
    \cup [op : {"CANCEL"}, of : Requests, why : Causes] \cup [op : {"CLOSE"}, of : {0}, why : {NoCause}]
Answering == {"RESPONSE_OK", "RESPONSE_ERR"}
ServerFrames ==
    [op : Answering, of : Requests, why : {NoCause}] \cup [op : {"CLOSE"}, of : {0}, why : {NoCause}]
Sized(f) == [frame |-> f, size |-> 1]
Nothing == [size |-> 0]
Sent(side) == [i \in 1 .. Len(wire[side]) |-> Sized(wire[side][i])]
Admitted(side) == IF granted[side] THEN Sized(HeadJob(side).frame) ELSE Nothing
Status == IF ringState = "open" THEN 0 ELSE IF ringState = "closed" THEN 2 ELSE 3
Up == INSTANCE RingChannel WITH
    Frames <- {Sized(f) : f \in ClientFrames}, NoFrame <- Nothing, Bound <- Slots, status <- Status,
    sent <- Sent(Client), occupied <- Len(wire[Client]), admitted <- Admitted(Client)
Down == INSTANCE RingChannel WITH
    Frames <- {Sized(f) : f \in ServerFrames}, NoFrame <- Nothing, Bound <- Slots, status <- Status,
    sent <- Sent(Server), occupied <- Len(wire[Server]), admitted <- Admitted(Server)

(* The wires that Duplex gives the endpoints are the channels that the     *)
(* rings are shown to be (SharedRingChannel), each frame one unit: space   *)
(* is granted to one frame at a time, while the rings are open, and within *)
(* their size; what was granted may come after their end, and nothing      *)
(* undoes that; and all there is stays readable, in order.                 *)
KeepsToRings == Up!TurnSpec /\ Down!TurnSpec

(* The client and the server use the layers below them only as those were  *)
(* shown to work: no call is registered in a store that has been swept and *)
(* no entry taken out twice, no frame is granted space in rings that are   *)
(* full or have ended, and none is lost or overtaken on its way.           *)
KeepsToLayers == ImplementsStore /\ KeepsToRings

(* Between steps, a call is pending exactly while its promise is open.     *)
PendingIffUnsettled == \A c \in Requests : registered[c] # 0 => (Store!Holds(c) <=> settled[c] = NoCause)

(* The session's two ends agree: a call succeeds at the client, or has an  *)
(* answer on its way, only if the server counted it as completed, and not  *)
(* as timed out, cancelled or failed as well.                              *)
Answered(c) == \E i \in DOMAIN wire[Server] : wire[Server][i].of = c
AnswersAreCompletions ==
    \A c \in Requests : Answered(c) \/ settled[c] = "completed" => outcomes[c] = {"completed"}

(* The server turns work away rather than exceed its limits, and no        *)
(* request waits in the queue while there is room for it to run.           *)
LimitsExact ==
    /\ Cardinality(inFlight) <= MaxInFlight /\ Len(queue) <= MaxQueuedRequests
    /\ queue # <<>> /\ ~serverClosed => Cardinality(inFlight) = MaxInFlight

(* While the server is open, every request it has taken off the ring is    *)
(* queued, under way, or accounted for by exactly one outcome.             *)
AccountedOnce ==
    \A c \in Requests :
        /\ Cardinality(outcomes[c]) <= 1
        /\ ~serverClosed => (phase[c] = "over" => Cardinality(outcomes[c]) = 1)

(* When the server has shut down, nothing is queued and no handler runs.   *)
ShutdownLeavesNothing ==
    serverShutdown = "done" => queue = <<>> /\ \A m \in inFlight : phase[m] \in {"stopping", "ending"}

-----------------------------------------------------------------------------
(* Every call settles, with or without a timeout, unless the server gave   *)
(* up on it without a word: its reply timed out, or its CLOSE did.         *)
GivenUp(c) == outcomes[c] = {"timed-out"} \/ (serverShutdown = "done" /\ ~shut[Server])
CallsSettle == \A c \in Requests : registered[c] # 0 ~> settled[c] # NoCause \/ GivenUp(c)

(* The server's close() finishes, and so does every shutdown of it, unless *)
(* one of its own handlers awaits that.                                    *)
ServerCloseSettles == serverClosed ~> serverShutdown = "done" \/ \E m \in Messages : phase[m] = "awaiting"

(* close() of the client finishes, having settled every pending call.      *)
CloseSettles == clientClosed ~> clientShutdown = "done"
================================================================================

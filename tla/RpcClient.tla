------------------------------- MODULE RpcClient -------------------------------
(***************************************************************************)
(* RpcClientImpl (core/rpc/client.ts): calls are registered in the pending *)
(* store under a request id, sent, and settled by whichever comes first of *)
(* the response, the caller's timer or signal, the failure of the send,    *)
(* and the shutdown of the client.                                         *)
(*                                                                         *)
(* A message is numbered by the order in which the user makes it.          *)
(***************************************************************************)
EXTENDS Duplex, FiniteSets

CONSTANTS
    Abortable,    \* the messages whose AbortSignal the user may fire
    Oversize,     \* those whose request is larger than the ring
    Undecodable,  \* those whose response its codec does not take
    ClientStops   \* the ways in which the user may stop the client

ASSUME ClientAssumption ==
    /\ Abortable \subseteq Messages /\ Oversize \subseteq Messages /\ Undecodable \subseteq Requests
    /\ ClientStops \subseteq {"close", "abort"}

VARIABLES
    made,             \* how many the user has made so far
    pending, nextRequestId, registered, witnessed, released, releases, releaser,   \* #pending
    settled,          \* how each message's promise was settled, NoCause before
    clientClosed,     \* #closed
    clientShutdown,   \* how far shutdown is
    clientLoop        \* where runReceiveLoop is

storeVars == <<pending, nextRequestId, registered, witnessed, released, releases, releaser>>
clientVars == <<made, storeVars, settled, clientClosed, clientShutdown, clientLoop>>

(* One id per request and one to spare: within a run no id is reused,      *)
(* which PendingRequests covers.  The store is swept as shutdown ends.     *)
Store == INSTANCE PendingRequests WITH
    Entries <- Requests, UINT32_MAX <- Made + 1, NoEntry <- 0,
    Response <- Made + 1, Shutdown <- Made + 2,
    swept <- clientShutdown = "done", enabled <- TRUE

ClientInit ==
    /\ made = 0
    /\ pending = [id \in Store!Ids |-> 0] /\ nextRequestId = 1
    /\ registered = [c \in Requests |-> Store!NoId]
    /\ witnessed = {} /\ released = {}
    /\ releases = [c \in Requests |-> 0] /\ releaser = [c \in Requests |-> 0]
    /\ settled = [m \in Messages |-> NoCause]
    /\ clientClosed = FALSE /\ clientShutdown = "none" /\ clientLoop = "receiving"

(* What the store hands out in this step; only it is settled.              *)
HandedOut == {c \in Requests : releases'[c] > releases[c]}
Settle(how) == settled' = [m \in Messages |-> IF m \in HandedOut THEN how ELSE settled[m]]

(* rejectPendingRegistration and rejectReleasedPending.                    *)
RejectAnyway(c, why) ==   \* a mutated form
    /\ Store!ReleaseRegistration(c)
    /\ settled' = [settled EXCEPT ![c] = why]
    /\ aborted' = aborted \cup {c}
Reject(c, why) ==
    /\ Store!ReleaseRegistration(c)
    /\ Settle(why)
    /\ aborted' = aborted \cup HandedOut

(* The end of shutdown.                                                    *)
RejectAllQuietly(why) ==   \* a mutated form
    /\ Store!Sweep
    /\ aborted' = aborted \cup HandedOut
    /\ UNCHANGED settled
RejectAllPending(why) ==
    /\ Store!Sweep
    /\ Settle(why)
    /\ aborted' = aborted \cup HandedOut

(* call and notify.                                                        *)
CallEvenClosed ==   \* a mutated form
    LET m == made + 1 IN
    /\ m \in Requests /\ made' = m
    /\ Store!Insert(m)
    /\ Enqueue(Client, Frame("REQUEST", m), m \in Timed, m \notin Oversize)
    /\ UNCHANGED <<settled, clientClosed, clientShutdown, clientLoop>>
    /\ UNCHANGED <<ringState, shut, wire, granted, aborted>>
Call ==
    LET m == made + 1 IN
    /\ m \in Requests /\ ~clientClosed
    /\ made' = m
    /\ Store!Insert(m)
    /\ Enqueue(Client, Frame("REQUEST", m), m \in Timed, m \notin Oversize)
    /\ UNCHANGED <<settled, clientClosed, clientShutdown, clientLoop>>
    /\ UNCHANGED <<ringState, shut, wire, granted, aborted>>

Notify ==
    LET m == made + 1 IN
    /\ m \in Notes /\ ~clientClosed
    /\ made' = m
    /\ Enqueue(Client, Frame("NOTIFY", m), m \in Timed, m \notin Oversize)
    /\ UNCHANGED <<storeVars, settled, clientClosed, clientShutdown, clientLoop>>
    /\ UNCHANGED <<ringState, shut, wire, granted, aborted>>

(* The client is closed, or the message's signal has aborted already.      *)
MakeInVain ==
    LET m == made + 1 IN
    /\ m \in Messages /\ (clientClosed \/ m \in Abortable)
    /\ made' = m
    /\ settled' = [settled EXCEPT ![m] = "cancelled"]
    /\ UNCHANGED <<storeVars, clientClosed, clientShutdown, clientLoop, duplexVars>>

(* The timer of createPendingRequest, or the abort event of its signal;    *)
(* both are detached when the entry is released.  sendCancel follows.      *)
CallEnds(c, why) ==
    /\ Store!Holds(c)
    /\ Reject(c, why)
    /\ IF clientClosed THEN UNCHANGED jobs
       ELSE Enqueue(Client, [op |-> "CANCEL", of |-> c, why |-> why], TRUE, TRUE)
    /\ UNCHANGED <<made, clientClosed, clientShutdown, clientLoop, ringState, shut, wire, granted>>
CallTimeout(c) == c \in Timed /\ CallEnds(c, "timed-out")
CallAbort(c) == c \in Abortable /\ CallEnds(c, "cancelled")

(* The signal of a notification only bounds its sending.                   *)
NotifyAbort(m) ==
    /\ m \in Abortable \cap Notes /\ m \notin aborted /\ m <= made /\ settled[m] = NoCause
    /\ aborted' = aborted \cup {m}
    /\ UNCHANGED <<clientVars, ringState, shut, wire, jobs, granted>>

(* A send settles.  A call waits for its response; a notification is done; *)
(* CLOSE lets shutdown go on.                                              *)
ClientGrant == Grant(Client) /\ UNCHANGED clientVars

ClientSent ==
    LET f == HeadJob(Client).frame IN
    /\ CommitFrame(Client)
    /\ settled' = IF f.op = "NOTIFY" THEN [settled EXCEPT ![f.of] = "completed"] ELSE settled
    /\ clientShutdown' = IF f.op = "CLOSE" THEN "closeSent" ELSE clientShutdown
    /\ UNCHANGED <<made, storeVars, clientClosed, clientLoop, ringState, shut, aborted>>

ClientSendFails ==
    LET f == HeadJob(Client).frame IN
    \E why \in Causes :
        /\ DropHead(Client, why)
        /\ \/ f.op = "REQUEST" /\ Reject(f.of, why)
           \/ /\ f.op = "NOTIFY" /\ settled' = [settled EXCEPT ![f.of] = why]
              /\ UNCHANGED <<storeVars, aborted>>
           \/ f.op \in {"CANCEL", "CLOSE"} /\ UNCHANGED <<storeVars, settled, aborted>>
        /\ clientShutdown' = IF f.op = "CLOSE" THEN "closeFailed" ELSE clientShutdown
        /\ UNCHANGED <<made, clientClosed, clientLoop, ringState, shut>>

(* shutdown: close says CLOSE first and closes the rings only if that was  *)
(* sent; abort closes them at once.                                        *)
ClientClose ==
    /\ "close" \in ClientStops /\ ~clientClosed
    /\ clientClosed' = TRUE /\ clientShutdown' = "closing"
    /\ Enqueue(Client, Frame("CLOSE", 0), TRUE, TRUE)
    /\ UNCHANGED <<made, storeVars, settled, clientLoop, ringState, shut, wire, granted, aborted>>

ClientCloseEnds ==
    /\ \/ clientShutdown = "closeSent" /\ ForceClose(Client)
       \/ clientShutdown = "closeFailed" /\ UNCHANGED <<ringState, shut>>
    /\ clientShutdown' = "done"
    /\ RejectAllPending("cancelled")
    /\ UNCHANGED <<made, clientClosed, clientLoop, wire, jobs, granted>>

AbortNow(why, state) ==
    /\ clientClosed' = TRUE /\ clientShutdown' = "done"
    /\ EndRings(Client, state) /\ RejectAllPending(why)
    /\ UNCHANGED <<made, jobs, granted>>

ClientAbort ==
    /\ "abort" \in ClientStops /\ ~clientClosed
    /\ AbortNow("cancelled", "closed") /\ UNCHANGED <<clientLoop, wire>>

(* runReceiveLoop: one frame, after which the loop ends if the client has  *)
(* been closed.  finishInbound ignores the answer to a call that is gone,  *)
(* and decodes the others before it takes them out of the store: what its  *)
(* codec does not take ends the loop, and with it a client not closed yet. *)
Decodes(f) == f.op = "RESPONSE_ERR" \/ f.of \notin Undecodable \/ ~Store!Holds(f.of)
Answer(f) ==
    /\ Decodes(f)
    /\ Store!ReleaseUntrusted(registered[f.of])
    /\ Settle(IF f.op = "RESPONSE_OK" THEN "completed" ELSE "failed")
    /\ clientLoop' = IF clientClosed THEN "ended" ELSE "receiving"
    /\ UNCHANGED <<made, clientClosed, clientShutdown, ringState, shut, jobs, granted, aborted>>
AnswerFails(f) ==
    /\ ~Decodes(f) /\ clientLoop' = "ended"
    /\ \/ /\ ~clientClosed
          /\ \E state \in {"closed", "errored"} : AbortNow("failed", state)
       \/ /\ clientClosed
          /\ UNCHANGED <<made, storeVars, settled, clientClosed, clientShutdown>>
          /\ UNCHANGED <<ringState, shut, jobs, granted, aborted>>

ClientReceive ==
    LET f == Arrival(Client) IN
    /\ clientLoop = "receiving" /\ Arrived(Client) /\ TakeFrame(Client)
    /\ \/ f.op \in {"RESPONSE_OK", "RESPONSE_ERR"} /\ (Answer(f) \/ AnswerFails(f))
       \/ /\ f.op = "CLOSE" /\ ~clientClosed
          /\ AbortNow("cancelled", "closed") /\ clientLoop' = "ended"
       \/ /\ f.op = "CLOSE" /\ clientClosed
          /\ clientLoop' = "ended"
          /\ UNCHANGED <<made, storeVars, settled, clientClosed, clientShutdown>>
          /\ UNCHANGED <<ringState, shut, jobs, granted, aborted>>

ClientReceiveFailsQuietly ==   \* a mutated form
    /\ clientLoop = "receiving" /\ RingEnded(Client)
    /\ clientLoop' = "ended"
    /\ UNCHANGED <<made, storeVars, settled, clientClosed, clientShutdown, duplexVars>>
ClientReceiveFails ==
    /\ clientLoop = "receiving" /\ RingEnded(Client)
    /\ clientLoop' = "ended"
    /\ IF clientClosed
       THEN UNCHANGED <<made, storeVars, settled, clientClosed, clientShutdown,
                        ringState, shut, jobs, granted, aborted>>
       ELSE AbortNow(EndCause, "closed")
    /\ UNCHANGED wire

(* What the program does on its own, and what its user may do.             *)
ClientStep ==
    \/ ClientGrant \/ ClientSent \/ ClientSendFails \/ ClientCloseEnds
    \/ ClientReceive \/ ClientReceiveFails
    \/ \E c \in Requests : CallTimeout(c)
ClientUser ==
    \/ Call \/ Notify \/ MakeInVain \/ ClientClose \/ ClientAbort
    \/ \E c \in Requests : CallAbort(c)
    \/ \E m \in Notes : NotifyAbort(m)

ClientTypeOK ==
    /\ made \in 0 .. Made
    /\ Store!TypeOK
    /\ settled \in [Messages -> Causes \cup {NoCause, "completed"}]
    /\ clientClosed \in BOOLEAN
    /\ clientShutdown \in {"none", "closing", "closeSent", "closeFailed", "done"}
    /\ clientLoop \in {"receiving", "ended"}
================================================================================

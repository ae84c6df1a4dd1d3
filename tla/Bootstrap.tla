------------------------------- MODULE Bootstrap -------------------------------
(***************************************************************************)
(* The handshake between a worker and its RPC client (core/bootstrap.ts    *)
(* and the four adapters): BOOTSTRAP with the rings one way, READY or      *)
(* ERROR the other, raced by the client's timeout and the worker's error   *)
(* and exit events; and, after it, the events that end a client and the    *)
(* interval that keeps a Node worker's thread alive while it serves.       *)
(*                                                                         *)
(* The user may call createNodeWorkerRpcClient again for the same worker,  *)
(* say after a timeout.  Messages do not carry the number of the attempt   *)
(* that they answer.  Each thread has its own contract object, which it    *)
(* may never have frozen.  The session over the rings is that of           *)
(* RpcSession, reduced here to its ends.                                   *)
(***************************************************************************)
EXTENDS Naturals, Sequences, Contracts

CONSTANTS
    MaxAttempts,      \* bounds the attempts on one worker
    ClientContents,   \* what the contract of the main thread may hold
    WorkerContents,   \* and that of the worker
    MaxChanges        \* bounds the changes of a contract that is not frozen

Attempts == 1 .. MaxAttempts

ASSUME BootstrapAssumption ==
    /\ MaxAttempts \in Nat /\ MaxChanges \in Nat
    /\ \A content \in ClientContents \cup WorkerContents : HasKeys(content)

VARIABLES
    platform,    \* "Node" or "Browser"
    handshake,   \* of each attempt: one of HandshakeStates
    prepared,    \* of each attempt: what it prepared of the contract
    opened,      \* of each attempt: what its client goes by
    client,      \* of each attempt: "none", "open", "closed" or "aborted"
    watching,    \* the attempts whose client has runtime listeners on the worker
    rings,       \* of each attempt: "open" or "closed"
    toWorker, toMain,   \* the messages under way
    events,      \* the worker's events under way, of "error" and "exit"
    worker,      \* "loading", "listening", "serving", "closing" (server.close()), "over" or "gone"
    serves,      \* the attempt whose rings the worker's server is on
    offered,     \* what the worker prepared of its contract
    served,      \* what its server goes by
    keepAlive,   \* the interval is set
    contract,    \* the contract object of each thread
    changes,     \* the number of changes so far
    chatted, failed   \* bounds: the worker has posted a message of its own; it has thrown

mainVars == <<handshake, prepared, opened, client, watching>>
workerVars == <<worker, serves, offered, served, keepAlive>>
contractVars == <<contract, changes>>
vars == <<platform, mainVars, rings, toWorker, toMain, events, workerVars, contractVars, chatted, failed>>

NoAttempt == 0
HandshakeStates ==
    {"idle", "invalid", "waiting", "ready", "mismatched", "refused", "timed-out", "crashed"}
Alive == worker # "gone"

(* A contract before its use: a plain object, or one from defineContract.  *)
Objects(content) == {Plain(content)} \cup {defineContract(Plain(content), reuse) : reuse \in BOOLEAN}

Init ==
    /\ platform \in {"Node", "Browser"}
    /\ handshake = [a \in Attempts |-> "idle"]
    /\ prepared = [a \in Attempts |-> Nothing] /\ opened = prepared
    /\ \E main \in ClientContents, other \in WorkerContents :
          contract \in [main : Objects(main), worker : Objects(other)]
    /\ changes = 0 /\ offered = Nothing /\ served = Nothing
    /\ client = [a \in Attempts |-> "none"] /\ watching = {}
    /\ rings = [a \in Attempts |-> "open"]
    /\ toWorker = <<>> /\ toMain = <<>> /\ events = {}
    /\ worker = "loading" /\ serves = NoAttempt /\ keepAlive = FALSE
    /\ chatted = FALSE /\ failed = FALSE

-----------------------------------------------------------------------------
(* A contract object that is not frozen may change.                        *)
ChangeContract(side) ==
    /\ ~contract[side].frozen /\ changes < MaxChanges /\ changes' = changes + 1
    /\ \E content \in (IF side = "main" THEN ClientContents ELSE WorkerContents) :
          contract' = [contract EXCEPT ![side].content = content]
    /\ UNCHANGED <<platform, mainVars, rings, toWorker, toMain, events, workerVars, chatted, failed>>

Prepared(side, reuse) == getPreparedContract(contract[side], reuse)
Remember(side, reuse) == contract' = [contract EXCEPT ![side] = Remembered(@, reuse)]

-----------------------------------------------------------------------------
(* The client's side.                                                      *)
Ready(hash) == [type |-> "READY", hash |-> hash]
Error(about) == [type |-> "ERROR", about |-> about]
Other == [type |-> "other"]

(* A contract that cannot be prepared makes the call throw.                *)
Begin(a) ==
    /\ handshake[a] = "idle" /\ \A b \in Attempts : b < a => handshake[b] # "idle"
    /\ \E reuse \in BOOLEAN :
          LET mine == Prepared("main", reuse)
          IN  /\ Remember("main", reuse)
              /\ prepared' = [prepared EXCEPT ![a] = mine]
              /\ handshake' = [handshake EXCEPT ![a] = IF mine = Invalid THEN "invalid" ELSE "waiting"]
              /\ toWorker' = IF Alive /\ mine # Invalid
                             THEN Append(toWorker, [rings |-> a, hash |-> mine.hash]) ELSE toWorker
    /\ UNCHANGED <<platform, opened, client, watching, rings, toMain, events, workerVars, changes, chatted, failed>>

Timeout(a) ==
    /\ handshake[a] = "waiting"
    /\ handshake' = [handshake EXCEPT ![a] = "timed-out"]
    /\ UNCHANGED <<platform, prepared, opened, client, watching, rings, toWorker, toMain, events>>
    /\ UNCHANGED <<workerVars, contractVars, chatted, failed>>

(* interpretReadyHandshake; "waiting" is its `ignore'.                     *)
InterpretUnchecked(m, hash) ==   \* a mutated form
    CASE m.type = "READY" -> "ready" [] m.type = "ERROR" -> "refused" [] OTHER -> "waiting"
InterpretReadyHandshake(m, hash) ==
    CASE m.type = "READY" /\ m.hash = hash -> "ready"
      [] m.type = "other" -> "waiting"
      [] m.type = "READY" /\ m.hash # hash -> "mismatched"
      [] m.type = "ERROR" -> IF m.about = "contract" THEN "mismatched" ELSE "refused"

(* onMessage ignores before it cleans up.                                  *)
OnMessageCleaningUp(a, m) ==   \* a mutated form
    LET h == InterpretReadyHandshake(m, prepared[a].hash)
    IN  IF h = "waiting" THEN "deaf" ELSE h
OnMessage(a, m) == InterpretReadyHandshake(m, prepared[a].hash)

(* A client opens, with its runtime listeners, in the turn of its READY;   *)
(* createRpcClient prepares what was prepared again.                       *)
WatchLater(ready) == watching   \* a mutated form
Watch(ready) == watching \cup ready

MainReceives ==
    /\ toMain # <<>>
    /\ \E reuse \in BOOLEAN :
       LET waiting == {a \in Attempts : handshake[a] = "waiting"}
           heard == {a \in waiting : OnMessage(a, Head(toMain)) = "ready"}
           Again(a) == preparedAgain(prepared[a], contract["main"], reuse)
           ready == {a \in heard : Again(a) # Invalid}
       IN  /\ handshake' = [a \in Attempts |->
                               IF a \in heard \ ready THEN "invalid"
                               ELSE IF a \in waiting THEN OnMessage(a, Head(toMain)) ELSE handshake[a]]
           /\ opened' = [a \in Attempts |-> IF a \in ready THEN Again(a) ELSE opened[a]]
           /\ client' = [a \in Attempts |-> IF a \in ready THEN "open" ELSE client[a]]
           /\ watching' = Watch(ready)
    /\ toMain' = Tail(toMain)
    /\ UNCHANGED <<platform, prepared, rings, toWorker, events, workerVars, contractVars, chatted, failed>>

(* onError and onExit of the handshakes and of the clients.  A client that *)
(* is aborted closes its rings.  An exit comes after all that was posted.  *)
Heard(e) ==
    /\ e \in events /\ (e = "exit" => toMain = <<>> /\ "error" \notin events)
    /\ events' = events \ {e}
    /\ handshake' = [a \in Attempts |-> IF handshake[a] = "waiting" THEN "crashed" ELSE handshake[a]]
    /\ client' = [a \in Attempts |->
                     IF a \in watching /\ client[a] = "open" THEN "aborted" ELSE client[a]]
    /\ rings' = [a \in Attempts |->
                     IF a \in watching /\ client[a] = "open" THEN "closed" ELSE rings[a]]
    /\ watching' = {}
    /\ UNCHANGED <<platform, prepared, opened, toWorker, toMain, workerVars, contractVars, chatted, failed>>

(* onRuntimeMessageError.                                                  *)
MessageError ==
    /\ platform = "Browser" /\ Alive /\ watching # {}
    /\ client' = [a \in Attempts |-> IF a \in watching THEN "aborted" ELSE client[a]]
    /\ rings' = [a \in Attempts |-> IF a \in watching THEN "closed" ELSE rings[a]]
    /\ watching' = {}
    /\ UNCHANGED <<platform, handshake, prepared, opened, toWorker, toMain, events>>
    /\ UNCHANGED <<workerVars, contractVars, chatted, failed>>

(* close() by the user, whose CLOSE may fail to be sent, and abort(), by   *)
(* the user or by a receive loop whose rings are closed.                   *)
ClientClose(a) ==
    /\ client[a] = "open"
    /\ client' = [client EXCEPT ![a] = "closed"] /\ watching' = watching \ {a}
    /\ \E told \in BOOLEAN : rings' = [rings EXCEPT ![a] = IF told THEN "closed" ELSE @]
    /\ UNCHANGED <<platform, handshake, prepared, opened, toWorker, toMain, events>>
    /\ UNCHANGED <<workerVars, contractVars, chatted, failed>>

ClientAbort(a) ==
    /\ client[a] = "open"
    /\ client' = [client EXCEPT ![a] = "aborted"] /\ watching' = watching \ {a}
    /\ rings' = [rings EXCEPT ![a] = "closed"]
    /\ UNCHANGED <<platform, handshake, prepared, opened, toWorker, toMain, events>>
    /\ UNCHANGED <<workerVars, contractVars, chatted, failed>>

-----------------------------------------------------------------------------
(* The worker's side.                                                      *)
(* A contract that cannot be prepared rejects before anyone listens.       *)
Listen ==
    /\ worker = "loading"
    /\ \E reuse \in BOOLEAN :
          /\ Remember("worker", reuse) /\ offered' = Prepared("worker", reuse)
          /\ worker' = IF offered' = Invalid THEN "over" ELSE "listening"
    /\ UNCHANGED <<platform, mainVars, rings, toWorker, toMain, events, serves, served, keepAlive,
                   changes, chatted, failed>>

(* The first BOOTSTRAP ends the listening.  On Node, the interval is set   *)
(* before createRpcServer, which prepares again what was prepared, and     *)
(* throws if it cannot or for options it does not accept.                  *)
Accepts(m) == m.hash = offered.hash
Refuse(about) ==
    worker' = "over" /\ toMain' = Append(toMain, Error(about)) /\ UNCHANGED <<serves, served>>
Serve(m, mine) ==
    /\ mine # Invalid
    /\ worker' = "serving" /\ serves' = m.rings /\ served' = mine
    /\ toMain' = Append(toMain, Ready(offered.hash))

WorkerReceives ==
    /\ worker = "listening" /\ toWorker # <<>>
    /\ toWorker' = Tail(toWorker)
    /\ \/ ~Accepts(Head(toWorker)) /\ Refuse("contract") /\ UNCHANGED keepAlive
       \/ /\ Accepts(Head(toWorker))
          /\ \/ Refuse("server")
             \/ \E reuse \in BOOLEAN :
                   Serve(Head(toWorker), preparedAgain(offered, contract["worker"], reuse))
          /\ keepAlive' = (platform = "Node")
    /\ UNCHANGED <<platform, mainVars, rings, events, offered, contractVars, chatted, failed>>

(* server.close(), and the end of serve(): `finally' stops the interval    *)
(* however it came about.                                                  *)
ServerClose ==
    /\ worker = "serving" /\ worker' = "closing" /\ keepAlive' = FALSE
    /\ UNCHANGED <<platform, mainVars, rings, toWorker, toMain, events, serves, offered, served,
                   contractVars, chatted, failed>>

StopInCatchOnly(thrown) == IF thrown THEN FALSE ELSE keepAlive   \* a mutated form
StopKeepAlive(thrown) == FALSE

ServeEnds ==
    /\ worker = "closing" \/ (worker = "serving" /\ rings[serves] = "closed")
    /\ worker' = "over" /\ keepAlive' = StopKeepAlive(FALSE)
    /\ \E told \in BOOLEAN : rings' = [rings EXCEPT ![serves] = IF told THEN "closed" ELSE @]
    /\ UNCHANGED <<platform, mainVars, toWorker, toMain, events, serves, offered, served,
                   contractVars, chatted, failed>>

ServeFails ==
    /\ worker \in {"serving", "closing"}
    /\ worker' = "over" /\ keepAlive' = StopKeepAlive(TRUE)
    /\ rings' = [rings EXCEPT ![serves] = "closed"] /\ toMain' = Append(toMain, Error("server"))
    /\ UNCHANGED <<platform, mainVars, toWorker, events, serves, offered, served, contractVars, chatted, failed>>

(* What the worker's own code and its owner do: post a message, throw,     *)
(* end.  A Node thread ends with an exit event, also when it has thrown; a *)
(* browser's worker goes on after an error, and ends unnoticed.            *)
Post ==
    /\ Alive /\ ~chatted /\ chatted' = TRUE /\ toMain' = Append(toMain, Other)
    /\ UNCHANGED <<platform, mainVars, rings, toWorker, events, workerVars, contractVars, failed>>

Throw ==
    /\ Alive /\ ~failed /\ failed' = TRUE
    /\ IF platform = "Node"
       THEN worker' = "gone" /\ events' = events \cup {"error", "exit"} /\ keepAlive' = FALSE
       ELSE events' = events \cup {"error"} /\ UNCHANGED <<worker, keepAlive>>
    /\ UNCHANGED <<platform, mainVars, rings, toWorker, toMain, serves, offered, served, contractVars, chatted>>

End ==
    /\ Alive /\ worker' = "gone" /\ keepAlive' = FALSE
    /\ events' = IF platform = "Node" THEN events \cup {"exit"} ELSE events
    /\ UNCHANGED <<platform, mainVars, rings, toWorker, toMain, serves, offered, served,
                   contractVars, chatted, failed>>

-----------------------------------------------------------------------------
MainStep == MainReceives \/ MessageError \/ \E e \in {"error", "exit"} : Heard(e)
AttemptStep(a) == Begin(a) \/ Timeout(a) \/ ClientClose(a) \/ ClientAbort(a)
WorkerStep ==
    \/ Listen \/ WorkerReceives \/ ServerClose \/ ServeEnds \/ ServeFails
    \/ Post \/ Throw \/ End
ContractStep == \E side \in {"main", "worker"} : ChangeContract(side)

Next == MainStep \/ WorkerStep \/ ContractStep \/ \E a \in Attempts : AttemptStep(a)
Spec == Init /\ [][Next]_vars

(* Timers fire, and a server whose rings are closed, or that is closed,    *)
(* comes to the end of serve().                                            *)
FairSpec == Spec /\ (\A a \in Attempts : WF_vars(Timeout(a))) /\ WF_vars(ServeEnds)

-----------------------------------------------------------------------------
(* What a client goes by is the contract its caller passed, as it was      *)
(* then; not what an earlier call remembered of it.                        *)
PreparedAsPassed ==
    [][\A a \in Attempts : prepared'[a] # prepared[a] =>
          prepared'[a] = createPreparedContract(contract["main"].content)]_vars

(* A client opens only when the worker has set up a server: on the         *)
(* client's rings or, if that is not the first attempt on the worker, on   *)
(* those of an earlier one: that attempt's READY, late, is taken for the   *)
(* answer.  Every method of the client is then the server's method of its  *)
(* id, with the same codecs, in whatever order either side lists them,     *)
(* unless a contract that was not frozen has changed in the meantime.  And *)
(* the two sides are told of a mismatch only where there is one.           *)
ReadyMeansServed ==
    \A a \in Attempts :
        /\ handshake[a] = "ready" =>
              /\ serves \in 1 .. a
              /\ MethodsAgree(opened[a], served) \/ opened[a] # prepared[a] \/ served # offered
              /\ changes = 0 => opened[a] = prepared[a] /\ served = offered
        /\ handshake[a] = "mismatched" =>
              \E b \in 1 .. a : prepared[b] # Invalid /\ ~MethodsAgree(prepared[b], offered)

(* Between the listeners of the handshake and those of the client no error *)
(* and no exit of the worker goes unheard: afterwards no handshake waits   *)
(* and no client is open.                                                  *)
HeardWhileOpen ==
    [][events \ events' # {} =>
          \A a \in Attempts : handshake'[a] # "waiting" /\ client'[a] # "open"]_vars

(* createNodeWorkerRpcClient settles, whatever else the worker posts.      *)
HandshakeEnds ==
    \A a \in Attempts :
        handshake[a] = "waiting" ~> handshake[a] \in HandshakeStates \ {"idle", "waiting"}

(* A client that has been aborted lets the thread of its Node worker go:   *)
(* the worker's server sees the closed rings, and its interval is cleared. *)
ThreadReleased ==
    (\E a \in Attempts : serves = a /\ client[a] = "aborted") ~> ~keepAlive
================================================================================

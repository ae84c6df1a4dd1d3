------------------------------ MODULE WorkerPool ------------------------------
(***************************************************************************)
(* NodeWorkerPoolImpl (adapters/node-pool.ts): slots whose workers are     *)
(* bootstrapped, watched, evicted when they crash, respawned, and closed,  *)
(* and the calls that wait for a slot and hold it.                         *)
(*                                                                         *)
(* Each bootstrap of a slot has a generation, and a worker and its client  *)
(* are named by it: <<s, g>> is the worker that slot s got in generation   *)
(* g.  The steps are the turns of the event loop: what runs without a      *)
(* macrotask in between is one step.  A worker that has been asked to      *)
(* terminate is no longer running; its exit is seen by a handshake only.   *)
(***************************************************************************)
EXTENDS Naturals, FiniteSets, Functions

CONSTANTS
    Size,          \* #size
    Calls,         \* the calls and notifications of the pool's user
    RespawnEnabled, MaxAttempts,   \* #respawnPolicy
    BootErrors,    \* what may go wrong in a bootstrap: "crash" for an exit or
                   \* error of the worker, "other" for the factory, the timeout
                   \* and a rejected contract
    MaxBootstraps, \* bounds them: no worker crashes once there were as many
    MayClose       \* the user may call close()

Slots == 1 .. Size
NoGen == 0
NoSlot == 0

ASSUME PoolAssumption ==
    /\ Size \in Nat /\ Size > 0
    /\ RespawnEnabled \in BOOLEAN /\ MaxAttempts \in Nat
    /\ BootErrors \subseteq {"crash", "other"}
    /\ MaxBootstraps \in Nat /\ MayClose \in BOOLEAN

VARIABLES
    closed,        \* #closed
    starting,      \* per slot: the bootstrap that bootstrapAll awaits is "pending", "ok" or "failed"
    state, generation, busyCount, crashStreak,
    worker,        \* slot.worker, by its generation
    client,        \* slot.client
    watched,       \* the worker whose events slot.detachEvents would detach
    boot,          \* where the slot's bootstrap is: "none", "factory", "handshake", "cleanup"
    bootGen,       \* the generation of that bootstrap
    bootError,     \* why it is being cleaned up
    bootPromise,   \* slot.bootstrapPromise, by its generation
    respawn,       \* where the slot's respawn is: "none", "delay", "booting"
    respawnGen,    \* the generation in which it was scheduled
    respawnPromise,\* slot.respawnPromise, by that generation
    evicting,      \* handleSlotFailure awaits the clean-up
    closing,       \* where closeSlot is: "none", "cleanup" until it has waited for all, "done"
    running,       \* the workers that exist and have not been terminated
    call,          \* where each call is
    on,            \* the slot a call holds
    waitsFor       \* the promises that acquireSlot races

slotVars == <<state, generation, crashStreak, worker, client, watched, boot, bootGen, bootError,
              bootPromise, respawn, respawnGen, respawnPromise, evicting, running>>
callVars == <<call, on, waitsFor, busyCount>>
poolVars == <<closed, starting, closing, slotVars, callVars>>

(* The pool as createNodeWorkerPool leaves it when bootstrapAll has begun. *)
Init ==
    /\ closed = FALSE /\ starting = [s \in Slots |-> "pending"]
    /\ state = [s \in Slots |-> "bootstrapping"]
    /\ generation = [s \in Slots |-> 1] /\ bootGen = [s \in Slots |-> 1]
    /\ boot = [s \in Slots |-> "factory"] /\ bootPromise = [s \in Slots |-> 1]
    /\ bootError = [s \in Slots |-> "none"]
    /\ worker = [s \in Slots |-> NoGen] /\ client = [s \in Slots |-> NoGen]
    /\ watched = [s \in Slots |-> NoGen]
    /\ respawn = [s \in Slots |-> "none"] /\ respawnPromise = [s \in Slots |-> NoGen]
    /\ respawnGen = [s \in Slots |-> NoGen]
    /\ crashStreak = [s \in Slots |-> 0]
    /\ evicting = [s \in Slots |-> FALSE] /\ closing = [s \in Slots |-> "none"]
    /\ running = {}
    /\ call = [c \in Calls |-> "new"] /\ on = [c \in Calls |-> NoSlot]
    /\ waitsFor = [c \in Calls |-> {}] /\ busyCount = [s \in Slots |-> 0]

-----------------------------------------------------------------------------
(* bootstrapSlot.                                                          *)
BeginBootstrap(s) ==
    /\ generation' = [generation EXCEPT ![s] = @ + 1]
    /\ state' = [state EXCEPT ![s] = "bootstrapping"]
    /\ boot' = [boot EXCEPT ![s] = "factory"]
    /\ bootGen' = [bootGen EXCEPT ![s] = generation[s] + 1]
    /\ bootPromise' = [bootPromise EXCEPT ![s] = generation[s] + 1]

Outdated(s) == closed \/ generation[s] # bootGen[s] \/ state[s] = "closing"

(* The synchronous part of cleanupSlotResources, which also terminates the *)
(* slot's worker; that of some slots at once, in the state `to'.           *)
TerminatedIfActive(slots) ==   \* a mutated form
    running \ {<<s, worker[s]>> : s \in {t \in slots : state[t] = "active"}}
Terminated(slots) == running \ {<<s, worker[s]>> : s \in slots}
CleanUp(slots, to) ==
    /\ watched' = [s \in Slots |-> IF s \in slots THEN NoGen ELSE watched[s]]
    /\ worker' = [s \in Slots |-> IF s \in slots THEN NoGen ELSE worker[s]]
    /\ client' = [s \in Slots |-> IF s \in slots THEN NoGen ELSE client[s]]
    /\ running' = Terminated(slots)
    /\ state' = [s \in Slots |-> IF s \in slots THEN to ELSE state[s]]

MayCrash == FoldFunction(+, 0, generation) < MaxBootstraps

BootFails(s, why) ==
    /\ boot' = [boot EXCEPT ![s] = "cleanup"]
    /\ bootError' = [bootError EXCEPT ![s] = why]
    /\ IF generation[s] # bootGen[s] /\ state[s] # "closing"
       THEN UNCHANGED <<watched, worker, client, running, state>>
       ELSE CleanUp({s}, IF closed \/ state[s] = "closing" THEN "closing" ELSE "dead")

FactoryReturns(s) ==
    /\ boot[s] = "factory"
    /\ IF Outdated(s)
       THEN BootFails(s, "closed")
       ELSE /\ worker' = [worker EXCEPT ![s] = bootGen[s]]
            /\ running' = running \cup {<<s, bootGen[s]>>}
            /\ boot' = [boot EXCEPT ![s] = "handshake"]
            /\ UNCHANGED <<bootError, watched, client, state>>
    /\ UNCHANGED <<closed, starting, closing, generation, crashStreak, bootGen, bootPromise>>
    /\ UNCHANGED <<respawn, respawnGen, respawnPromise, evicting, callVars>>

FactoryThrows(s) ==
    /\ boot[s] = "factory" /\ "other" \in BootErrors
    /\ BootFails(s, "other")
    /\ UNCHANGED <<closed, starting, closing, generation, crashStreak, bootGen, bootPromise>>
    /\ UNCHANGED <<respawn, respawnGen, respawnPromise, evicting, callVars>>

(* createNodeWorkerRpcClient rejects.  Terminated by closeSlot, the worker *)
(* exits under the handshake.                                              *)
HandshakeFails(s) ==
    /\ boot[s] = "handshake"
    /\ \E why \in BootErrors \cup (IF closed THEN {"crash"} ELSE {}) :
          /\ why = "crash" => closed \/ MayCrash
          /\ BootFails(s, why)
    /\ UNCHANGED <<closed, starting, closing, generation, crashStreak, bootGen, bootPromise>>
    /\ UNCHANGED <<respawn, respawnGen, respawnPromise, evicting, callVars>>

(* It resolves: activation, and what follows in the same turn, the end of  *)
(* the bootstrap and of the respawn that awaits it.                        *)
ActivateUnwatched(s) ==   \* a mutated form
    /\ client' = [client EXCEPT ![s] = bootGen[s]]
    /\ watched' = watched
    /\ state' = [state EXCEPT ![s] = "active"]
    /\ boot' = [boot EXCEPT ![s] = "none"]
    /\ bootPromise' = [bootPromise EXCEPT ![s] = NoGen]
    /\ respawn' = [respawn EXCEPT ![s] = "none"]
    /\ respawnPromise' = [respawnPromise EXCEPT ![s] = NoGen]
Activate(s) ==
    /\ client' = [client EXCEPT ![s] = bootGen[s]]
    /\ watched' = [watched EXCEPT ![s] = bootGen[s]]
    /\ state' = [state EXCEPT ![s] = "active"]
    /\ boot' = [boot EXCEPT ![s] = "none"]
    /\ bootPromise' = [bootPromise EXCEPT ![s] = NoGen]
    /\ respawn' = [respawn EXCEPT ![s] = "none"]
    /\ respawnPromise' = [respawnPromise EXCEPT ![s] = NoGen]

HandshakeEnds(s) ==
    /\ boot[s] = "handshake"
    /\ IF Outdated(s)
       THEN /\ BootFails(s, "closed")
            /\ UNCHANGED <<starting, bootPromise, respawn, respawnGen, respawnPromise>>
       ELSE /\ Activate(s) /\ UNCHANGED respawnGen
            /\ starting' = [starting EXCEPT ![s] = IF @ = "pending" THEN "ok" ELSE @]
            /\ UNCHANGED <<bootError, worker, running>>
    /\ UNCHANGED <<closed, closing, generation, crashStreak, bootGen, evicting, callVars>>

-----------------------------------------------------------------------------
(* scheduleRespawn.  Whether the slot was up for resetAfterMs is left to   *)
(* the clock; it can only have been if it was active at all.               *)
MayScheduleRespawn(s) == ~closed /\ state[s] # "closing" /\ RespawnEnabled
ScheduleRespawn(s) ==
    \E streak \in {crashStreak[s] + 1, 1} :
        /\ crashStreak' = [crashStreak EXCEPT ![s] = streak]
        /\ IF streak > MaxAttempts
           THEN /\ state' = [state EXCEPT ![s] = "dead"]
                /\ UNCHANGED respawnGen
                /\ respawn' = [respawn EXCEPT ![s] = "none"]
                /\ respawnPromise' = [respawnPromise EXCEPT ![s] = NoGen]
           ELSE /\ state' = [state EXCEPT ![s] = "respawning"]
                /\ respawn' = [respawn EXCEPT ![s] = "delay"]
                /\ respawnGen' = [respawnGen EXCEPT ![s] = generation[s]]
                /\ respawnPromise' = [respawnPromise EXCEPT ![s] = generation[s]]

(* The clean-up of a failed bootstrap is over.  bootstrapAll gives up on   *)
(* the pool; a respawn is tried again after a crash and after nothing else. *)
RetriesInCatch(s) ==   \* a mutated form
    respawn[s] = "booting" /\ bootError[s] = "crash" /\ MayScheduleRespawn(s) /\ respawnPromise[s] = NoGen
Retries(s) == respawn[s] = "booting" /\ bootError[s] = "crash" /\ MayScheduleRespawn(s)
BootstrapRejects(s) ==
    /\ boot[s] = "cleanup"
    /\ boot' = [boot EXCEPT ![s] = "none"]
    /\ bootPromise' = IF generation[s] = bootGen[s] THEN [bootPromise EXCEPT ![s] = NoGen] ELSE bootPromise
    /\ starting' = [starting EXCEPT ![s] = IF @ = "pending" THEN "failed" ELSE @]
    /\ IF Retries(s)
       THEN ScheduleRespawn(s)
       ELSE /\ respawn' = [respawn EXCEPT ![s] = "none"]
            /\ respawnPromise' = [respawnPromise EXCEPT ![s] = NoGen]
            /\ UNCHANGED <<crashStreak, state, respawnGen>>
    /\ UNCHANGED <<closed, closing, generation, worker, client, watched, bootGen, bootError>>
    /\ UNCHANGED <<evicting, running, callVars>>

(* runRespawn after its delay.                                             *)
RespawnBegins(s) ==
    /\ respawn[s] = "delay"
    /\ IF closed \/ state[s] = "closing"
       THEN /\ respawn' = [respawn EXCEPT ![s] = "none"]
            /\ UNCHANGED <<generation, state, boot, bootGen, bootPromise>>
       ELSE /\ respawn' = [respawn EXCEPT ![s] = "booting"]
            /\ BeginBootstrap(s)
    /\ UNCHANGED <<closed, starting, closing, crashStreak, worker, client, watched, bootError>>
    /\ UNCHANGED <<respawnGen, respawnPromise, evicting, running, callVars>>

(* The exit or an error of a watched worker: handleSlotFailure.            *)
WorkerFails(s) ==
    /\ watched[s] # NoGen /\ MayCrash
    /\ generation[s] = watched[s] /\ state[s] # "closing"
    /\ evicting' = [evicting EXCEPT ![s] = TRUE]
    /\ CleanUp({s}, IF closed THEN "closing" ELSE "dead")
    /\ UNCHANGED <<closed, starting, closing, generation, crashStreak, boot, bootGen, bootError>>
    /\ UNCHANGED <<bootPromise, respawn, respawnGen, respawnPromise, callVars>>

Evicted(s) ==
    /\ evicting[s]
    /\ evicting' = [evicting EXCEPT ![s] = FALSE]
    /\ IF MayScheduleRespawn(s) /\ bootPromise[s] = NoGen /\ respawnPromise[s] = NoGen
       THEN ScheduleRespawn(s)
       ELSE UNCHANGED <<crashStreak, state, respawn, respawnGen, respawnPromise>>
    /\ UNCHANGED <<closed, starting, closing, generation, worker, client, watched, boot, bootGen>>
    /\ UNCHANGED <<bootError, bootPromise, running, callVars>>

-----------------------------------------------------------------------------
(* close, by the user or by createNodeWorkerPool: the synchronous part of  *)
(* closeSlot for every slot.                                               *)
CloseAsked ==
    /\ ~closed
    /\ \/ MayClose /\ \A s \in Slots : starting[s] = "ok"
       \/ \E s \in Slots : starting[s] = "failed"
ClosePool ==
    /\ CloseAsked
    /\ closed' = TRUE
    /\ generation' = [s \in Slots |-> generation[s] + 1]
    /\ bootPromise' = [s \in Slots |-> NoGen] /\ respawnPromise' = [s \in Slots |-> NoGen]
    /\ CleanUp(Slots, "closing")
    /\ closing' = [s \in Slots |-> "cleanup"]
    /\ UNCHANGED <<starting, crashStreak, boot, bootGen, bootError, respawn, respawnGen, evicting, callVars>>

(* Once the clean-up is over, closeSlot awaits the bootstrap and the       *)
(* respawn that were under way.                                            *)
SlotClosesUnlessRejected(s) ==   \* a mutated form
    /\ closing[s] = "cleanup" /\ boot[s] = "none" /\ respawn[s] = "none" /\ bootError[s] = "none"
    /\ closing' = [closing EXCEPT ![s] = "done"]
    /\ state' = [state EXCEPT ![s] = "dead"]
SlotClosesAtOnce(s) ==   \* a mutated form
    /\ closing[s] = "cleanup"
    /\ closing' = [closing EXCEPT ![s] = "done"]
    /\ state' = [state EXCEPT ![s] = "dead"]
SlotCloses(s) ==
    /\ closing[s] = "cleanup" /\ boot[s] = "none" /\ respawn[s] = "none"
    /\ closing' = [closing EXCEPT ![s] = "done"]
    /\ state' = [state EXCEPT ![s] = "dead"]
CloseSlot(s) ==
    /\ SlotCloses(s)
    /\ UNCHANGED <<closed, starting, generation, crashStreak, worker, client, watched, boot, bootGen>>
    /\ UNCHANGED <<bootError, bootPromise, respawn, respawnGen, respawnPromise, evicting, running, callVars>>

-----------------------------------------------------------------------------
(* runWithSlot and acquireSlot.                                            *)
Usable(s) == state[s] = "active" /\ client[s] # NoGen
LeastBusy(s) ==
    /\ Usable(s)
    /\ \A other \in Slots : Usable(other) =>
          \/ busyCount[s] < busyCount[other]
          \/ busyCount[s] = busyCount[other] /\ s <= other
Waitables ==
    {<<"boot", s, bootPromise[s]>> : s \in {t \in Slots : bootPromise[t] # NoGen}}
        \cup {<<"respawn", s, respawnPromise[s]>> : s \in {t \in Slots : respawnPromise[t] # NoGen}}
Pending(p) ==
    IF p[1] = "boot" THEN boot[p[2]] # "none" /\ bootGen[p[2]] = p[3]
    ELSE respawn[p[2]] # "none" /\ respawnGen[p[2]] = p[3]

To(c, where) == call' = [call EXCEPT ![c] = where]
WaitFor(c, promises) == waitsFor' = [waitsFor EXCEPT ![c] = promises]

WokenBySuccess(c) == call[c] = "waiting" /\ \E s \in Slots : Usable(s)   \* a mutated form
Woken(c) == call[c] = "waiting" /\ \E p \in waitsFor[c] : ~Pending(p)

Acquire(c) ==
    /\ \/ call[c] = "new" /\ \A s \in Slots : starting[s] = "ok"
       \/ Woken(c)
    /\ \/ closed /\ To(c, "over") /\ WaitFor(c, {}) /\ UNCHANGED <<on, busyCount>>
       \/ /\ ~closed /\ WaitFor(c, {})
          /\ \E s \in Slots :
                /\ LeastBusy(s)
                /\ To(c, "held") /\ on' = [on EXCEPT ![c] = s]
                /\ busyCount' = [busyCount EXCEPT ![s] = @ + 1]
       \/ /\ ~closed /\ \A s \in Slots : ~Usable(s)
          /\ To(c, IF Waitables = {} THEN "over" ELSE "waiting") /\ WaitFor(c, Waitables)
          /\ UNCHANGED <<on, busyCount>>
    /\ UNCHANGED <<closed, starting, closing, slotVars>>

ReleaseIfAlive(c) ==   \* a mutated form
    /\ on' = [on EXCEPT ![c] = NoSlot]
    /\ busyCount' = IF client[on[c]] = NoGen THEN busyCount
                    ELSE [busyCount EXCEPT ![on[c]] = IF @ = 0 THEN 0 ELSE @ - 1]
Release(c) ==
    /\ on' = [on EXCEPT ![c] = NoSlot]
    /\ busyCount' = [busyCount EXCEPT ![on[c]] = IF @ = 0 THEN 0 ELSE @ - 1]

(* close() may have taken the slot's client in the meantime.               *)
Invoke(c) ==
    /\ call[c] = "held"
    /\ IF client[on[c]] = NoGen THEN To(c, "over") /\ Release(c)
       ELSE To(c, "invoked") /\ UNCHANGED <<on, busyCount>>
    /\ UNCHANGED <<closed, starting, closing, slotVars, waitsFor>>

(* The call through the client settles: answered by a running worker, or   *)
(* rejected, as it is when the client is aborted or closed.                *)
CallEnds(c) ==
    /\ call[c] = "invoked"
    /\ To(c, "over") /\ Release(c)
    /\ UNCHANGED <<closed, starting, closing, slotVars, waitsFor>>

-----------------------------------------------------------------------------
(* What a call does next once it holds a slot, or once a promise it waits  *)
(* for has settled, is a microtask: it comes before any further event of a *)
(* worker or a timer, though not before what the pool's user does.         *)
Quiet == \A c \in Calls : call[c] # "held" /\ ~Woken(c)

BootStep(s) ==
    FactoryReturns(s) \/ FactoryThrows(s) \/ HandshakeEnds(s) \/ HandshakeFails(s) \/ BootstrapRejects(s)
SlotStep(s) == BootStep(s) \/ RespawnBegins(s) \/ WorkerFails(s) \/ Evicted(s) \/ CloseSlot(s)
CallStep(c) == Acquire(c) \/ Invoke(c) \/ CallEnds(c)

Next ==
    \/ ClosePool
    \/ Quiet /\ \E s \in Slots : SlotStep(s)
    \/ \E c \in Calls : CallStep(c)

Spec == Init /\ [][Next]_poolVars

(* Factories return, handshakes end (they have a timeout), terminate and   *)
(* abort return, delays elapse, and calls through a client settle.         *)
Fairness ==
    /\ \A s \in Slots :
          /\ WF_poolVars(Quiet /\ BootStep(s)) /\ WF_poolVars(Quiet /\ RespawnBegins(s))
          /\ WF_poolVars(Quiet /\ Evicted(s)) /\ WF_poolVars(Quiet /\ CloseSlot(s))
    /\ \A c \in Calls : WF_poolVars(CallStep(c))

FairSpec == Spec /\ Fairness

-----------------------------------------------------------------------------
Gens == 0 .. MaxBootstraps + 1
TypeOK ==
    /\ closed \in BOOLEAN
    /\ starting \in [Slots -> {"pending", "ok", "failed"}]
    /\ state \in [Slots -> {"bootstrapping", "respawning", "active", "dead", "closing"}]
    /\ \A gens \in {generation, worker, client, watched, bootGen, bootPromise, respawnGen, respawnPromise} :
          gens \in [Slots -> Gens]
    /\ busyCount \in [Slots -> 0 .. Cardinality(Calls)]
    /\ crashStreak \in [Slots -> Gens]
    /\ boot \in [Slots -> {"none", "factory", "handshake", "cleanup"}]
    /\ bootError \in [Slots -> {"none", "closed", "crash", "other"}]
    /\ respawn \in [Slots -> {"none", "delay", "booting"}]
    /\ evicting \in [Slots -> BOOLEAN]
    /\ closing \in [Slots -> {"none", "cleanup", "done"}]
    /\ running \subseteq Slots \X Gens
    /\ call \in [Calls -> {"new", "waiting", "held", "invoked", "over"}]
    /\ on \in [Calls -> Slots \cup {NoSlot}]
    /\ \A c \in Calls : waitsFor[c] \subseteq {"boot", "respawn"} \X Slots \X Gens

(* busyCount is what least-busy scheduling goes by: through crashes,       *)
(* respawns and refusals it stays the number of calls that hold the slot.  *)
BusyExact ==
    \A s \in Slots : busyCount[s] = Cardinality({c \in Calls : call[c] \in {"held", "invoked"} /\ on[c] = s})

(* Every worker that has not been terminated is the one its slot knows of: *)
(* none is left behind by a race of bootstrap, crash, respawn and close.   *)
(* Once close() has resolved there is none, nor anything to start one.     *)
NoOrphanWorker ==
    /\ \A w \in running : worker[w[1]] = w[2]
    /\ (\A s \in Slots : closing[s] = "done") =>
          /\ running = {}
          /\ \A s \in Slots : boot[s] = "none" /\ respawn[s] = "none" /\ state[s] = "dead"

(* A slot offered to calls has a running worker whose failure will be      *)
(* noticed, and the client of that worker.                                 *)
ActiveIsWatched ==
    \A s \in Slots : state[s] = "active" =>
        /\ client[s] = generation[s] /\ worker[s] = generation[s] /\ watched[s] = generation[s]
        /\ <<s, generation[s]>> \in running

(* While the pool is open a slot is dead for good only when its policy     *)
(* says so or a bootstrap failed for another reason than a crash, which no *)
(* respawn follows; otherwise something is under way that respawns it.     *)
DeadMeansGivenUp ==
    \A s \in Slots : ~closed /\ state[s] = "dead" /\ RespawnEnabled =>
        \/ evicting[s] \/ boot[s] = "cleanup"
        \/ crashStreak[s] > MaxAttempts
        \/ starting[s] = "failed" \/ bootError[s] = "other"

(* close() resolves, whatever was under way.                               *)
CloseEnds == closed ~> \A s \in Slots : closing[s] = "done"

(* A call waiting for a slot gets one or is refused.                       *)
WaitersServed == \A c \in Calls : call[c] = "waiting" ~> call[c] # "waiting"
===============================================================================

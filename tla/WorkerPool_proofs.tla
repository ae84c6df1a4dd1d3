--------------------------- MODULE WorkerPool_proofs ---------------------------
(***************************************************************************)
(* The worker pool, for every number of slots, calls and bootstraps and    *)
(* every respawn policy: no worker is left behind, an active slot is       *)
(* watched, busy counts are exact and a dead slot was given up.            *)
(***************************************************************************)
EXTENDS WorkerPool, FiniteSetTheorems, TLAPS

PoolType ==
    /\ closed \in BOOLEAN
    /\ starting \in [Slots -> {"pending", "ok", "failed"}]
    /\ state \in [Slots -> {"bootstrapping", "respawning", "active", "dead", "closing"}]
    /\ generation \in [Slots -> Nat] /\ worker \in [Slots -> Nat] /\ client \in [Slots -> Nat]
    /\ watched \in [Slots -> Nat] /\ bootGen \in [Slots -> Nat] /\ bootPromise \in [Slots -> Nat]
    /\ respawnGen \in [Slots -> Nat] /\ respawnPromise \in [Slots -> Nat]
    /\ crashStreak \in [Slots -> Nat]
    /\ boot \in [Slots -> {"none", "factory", "handshake", "cleanup"}]
    /\ bootError \in [Slots -> {"none", "closed", "crash", "other"}]
    /\ respawn \in [Slots -> {"none", "delay", "booting"}]
    /\ evicting \in [Slots -> BOOLEAN]
    /\ closing \in [Slots -> {"none", "cleanup", "done"}]
    /\ running \subseteq Slots \X Nat

Empty(s) == worker[s] = NoGen /\ client[s] = NoGen /\ watched[s] = NoGen
Promised(s) == bootPromise[s] = generation[s]
Unpromised(s) == bootPromise[s] = NoGen

(* What a slot of an open pool is doing, and what it has meanwhile.        *)
Booting(s) ==
    /\ boot[s] \in {"factory", "handshake"} /\ state[s] = "bootstrapping" /\ Promised(s)
    /\ respawn[s] # "delay" /\ ~evicting[s]
    /\ client[s] = NoGen /\ watched[s] = NoGen
    /\ worker[s] = IF boot[s] = "factory" THEN NoGen ELSE generation[s]
    /\ respawn[s] = "none" => starting[s] = "pending"
CleaningUp(s) ==
    /\ boot[s] = "cleanup" /\ state[s] = "dead" /\ Promised(s)
    /\ respawn[s] # "delay" /\ ~evicting[s] /\ Empty(s)
    /\ bootError[s] \in {"crash", "other"}
    /\ respawn[s] = "none" => starting[s] = "pending"
Serving(s) ==
    /\ boot[s] = "none" /\ state[s] = "active" /\ Unpromised(s)
    /\ respawn[s] = "none" /\ respawnPromise[s] = NoGen /\ ~evicting[s]
    /\ worker[s] = generation[s] /\ client[s] = generation[s] /\ watched[s] = generation[s]
Evicting(s) ==
    /\ boot[s] = "none" /\ state[s] = "dead" /\ Unpromised(s)
    /\ respawn[s] = "none" /\ respawnPromise[s] = NoGen /\ evicting[s] /\ Empty(s)
Respawning(s) ==
    /\ boot[s] = "none" /\ state[s] = "respawning" /\ Unpromised(s)
    /\ respawn[s] = "delay" /\ ~evicting[s] /\ Empty(s)
GivenUp(s) ==
    /\ boot[s] = "none" /\ state[s] = "dead" /\ Unpromised(s)
    /\ respawn[s] = "none" /\ ~evicting[s] /\ Empty(s)
    /\ RespawnEnabled =>
          crashStreak[s] > MaxAttempts \/ starting[s] = "failed" \/ bootError[s] = "other"

OpenSlot(s) ==
    /\ closing[s] = "none" /\ generation[s] = bootGen[s]
    /\ Booting(s) \/ CleaningUp(s) \/ Serving(s) \/ Evicting(s) \/ Respawning(s) \/ GivenUp(s)

(* A slot of a pool that closes: it gets no worker any more.               *)
ClosingSlot(s) ==
    /\ Empty(s) /\ bootGen[s] # generation[s]
    /\ respawn[s] = "booting" => boot[s] # "none"
    /\ \/ closing[s] = "cleanup" /\ state[s] = "closing"
       \/ closing[s] = "done" /\ state[s] = "dead" /\ boot[s] = "none" /\ respawn[s] = "none"

(* The workers that run are those the slots know of.                       *)
KnownIfRunning(s, g) == <<s, g>> \in running <=> g # NoGen /\ worker[s] = g
RunningKnown == \A s \in Slots : \A g \in Nat : KnownIfRunning(s, g)

SlotInv ==
    /\ \A s \in Slots : generation[s] > 0 /\ IF closed THEN ClosingSlot(s) ELSE OpenSlot(s)
    /\ RunningKnown

(* Who holds a slot is counted.                                            *)
Holders(s) == {c \in Calls : call[c] \in {"held", "invoked"} /\ on[c] = s}
CallInv ==
    /\ call \in [Calls -> {"new", "waiting", "held", "invoked", "over"}]
    /\ on \in [Calls -> Slots \cup {NoSlot}]
    /\ \A c \in Calls : call[c] \in {"held", "invoked"} <=> on[c] # NoSlot
    /\ busyCount \in [Slots -> Nat]
    /\ \A s \in Slots : IsFiniteSet(Holders(s)) /\ busyCount[s] = Cardinality(Holders(s))

PoolInv == PoolType /\ SlotInv /\ CallInv

-----------------------------------------------------------------------------
LEMMA SlotFacts == Slots \subseteq Nat /\ NoSlot \notin Slots
BY PoolAssumption DEF Slots, NoSlot

LEMMA PoolInit == Init => PoolInv
<1> SUFFICES ASSUME Init PROVE PoolInv
  OBVIOUS
<1> USE SlotFacts DEF Init, NoGen
<1>1. PoolType
  BY DEF PoolType
<1>2. SlotInv
  BY DEF SlotInv, RunningKnown, KnownIfRunning, OpenSlot, Booting, Promised
<1>3. CallInv
  <2>1. \A s \in Slots : Holders(s) = {}
    BY DEF Holders
  <2> QED
    BY <2>1, FS_EmptySet DEF CallInv
<1> QED
  BY <1>1, <1>2, <1>3 DEF PoolInv

(* A step of one slot leaves the others as they are.                       *)
SlotKept(t) ==
    /\ starting'[t] = starting[t] /\ state'[t] = state[t] /\ generation'[t] = generation[t]
    /\ worker'[t] = worker[t] /\ client'[t] = client[t] /\ watched'[t] = watched[t]
    /\ bootGen'[t] = bootGen[t] /\ bootPromise'[t] = bootPromise[t]
    /\ respawnPromise'[t] = respawnPromise[t] /\ crashStreak'[t] = crashStreak[t]
    /\ boot'[t] = boot[t] /\ bootError'[t] = bootError[t] /\ respawn'[t] = respawn[t]
    /\ evicting'[t] = evicting[t] /\ closing'[t] = closing[t]
OthersKept(s) == closed' = closed /\ \A t \in Slots \ {s} : SlotKept(t)

LEMMA OneSlot ==
    ASSUME SlotInv, NEW s \in Slots, OthersKept(s),
           generation[s]' > 0, IF closed THEN ClosingSlot(s)' ELSE OpenSlot(s)',
           RunningKnown'
    PROVE  SlotInv'
<1>1. \A t \in Slots \ {s} :
        generation'[t] > 0 /\ IF closed' THEN ClosingSlot(t)' ELSE OpenSlot(t)'
  BY DEF SlotInv, OthersKept, SlotKept, ClosingSlot, OpenSlot, Booting, CleaningUp, Serving,
         Evicting, Respawning, GivenUp, Promised, Unpromised, Empty
<1> QED
  BY <1>1 DEF SlotInv, OthersKept

LEMMA CleanUpRunning ==
    ASSUME PoolType, RunningKnown, NEW slots \in SUBSET Slots, NEW to, CleanUp(slots, to)
    PROVE  RunningKnown'
<1>1. ASSUME NEW t \in Slots, NEW g \in Nat PROVE KnownIfRunning(t, g)'
  <2>1. worker'[t] = IF t \in slots THEN NoGen ELSE worker[t]
    BY DEF CleanUp
  <2>2. <<t, g>> \in running' <=> <<t, g>> \in running /\ ~(t \in slots /\ worker[t] = g)
    BY DEF CleanUp, Terminated
  <2>3. <<t, g>> \in running <=> g # NoGen /\ worker[t] = g
    BY DEF RunningKnown, KnownIfRunning
  <2> QED
    BY <2>1, <2>2, <2>3 DEF KnownIfRunning
<1> QED
  BY <1>1 DEF RunningKnown

LEMMA RunningKept ==
    ASSUME RunningKnown, UNCHANGED <<running, worker>>
    PROVE  RunningKnown'
<1>1. ASSUME NEW t \in Slots, NEW g \in Nat PROVE KnownIfRunning(t, g)'
  BY DEF RunningKnown, KnownIfRunning
<1> QED
  BY <1>1 DEF RunningKnown

(* What each step of a slot does to it.                                   *)
LEMMA FactoryReturnsStep ==
    ASSUME PoolType, SlotInv, NEW s \in Slots, FactoryReturns(s)
    PROVE  PoolType' /\ SlotInv'
<1> USE SlotFacts, PoolAssumption DEF NoGen, slotVars, callVars
<1>1. PoolType'
  BY DEF PoolType, FactoryReturns, BootFails, CleanUp, Terminated
<1>2. OthersKept(s)
  BY DEF PoolType, OthersKept, SlotKept, FactoryReturns, BootFails, CleanUp, Terminated
<1>3. generation[s]' > 0 /\ IF closed THEN ClosingSlot(s)' ELSE OpenSlot(s)'
  BY DEF PoolType, SlotInv, FactoryReturns, BootFails, CleanUp, Terminated, Outdated,
         OpenSlot, ClosingSlot, Booting, CleaningUp, Serving, Evicting, Respawning, GivenUp,
         Promised, Unpromised, Empty
<1>4. RunningKnown'
  <2>1. CASE Outdated(s)
    BY <2>1, CleanUpRunning, RunningKept DEF SlotInv, FactoryReturns, BootFails
  <2>2. CASE ~Outdated(s)
    <3>1. /\ worker' = [worker EXCEPT ![s] = generation[s]]
          /\ running' = running \cup {<<s, generation[s]>>}
          /\ generation[s] > 0 /\ generation[s] \in Nat /\ worker[s] = NoGen
      BY <2>2 DEF PoolType, SlotInv, FactoryReturns, Outdated, OpenSlot, Booting, CleaningUp,
         Serving, Evicting, Respawning, GivenUp, Promised, Unpromised, Empty
    <3>2. ASSUME NEW t \in Slots, NEW g \in Nat PROVE KnownIfRunning(t, g)'
      BY <3>1 DEF PoolType, SlotInv, RunningKnown, KnownIfRunning
    <3> QED
      BY <3>2 DEF RunningKnown
  <2> QED
    BY <2>1, <2>2
<1> QED
  BY <1>1, <1>2, <1>3, <1>4, OneSlot

LEMMA FactoryThrowsStep ==
    ASSUME PoolType, SlotInv, NEW s \in Slots, FactoryThrows(s)
    PROVE  PoolType' /\ SlotInv'
<1> USE SlotFacts, PoolAssumption DEF NoGen, slotVars, callVars
<1>1. PoolType'
  BY DEF PoolType, FactoryThrows, BootFails, CleanUp, Terminated
<1>2. OthersKept(s)
  BY DEF PoolType, OthersKept, SlotKept, FactoryThrows, BootFails, CleanUp, Terminated
<1>3. generation[s]' > 0 /\ IF closed THEN ClosingSlot(s)' ELSE OpenSlot(s)'
  BY DEF PoolType, SlotInv, FactoryThrows, BootFails, CleanUp, Terminated,
         OpenSlot, ClosingSlot, Booting, CleaningUp, Serving, Evicting, Respawning, GivenUp,
         Promised, Unpromised, Empty
<1>4. RunningKnown'
  BY CleanUpRunning, RunningKept DEF SlotInv, FactoryThrows, BootFails
<1> QED
  BY <1>1, <1>2, <1>3, <1>4, OneSlot

LEMMA HandshakeFailsStep ==
    ASSUME PoolType, SlotInv, NEW s \in Slots, HandshakeFails(s)
    PROVE  PoolType' /\ SlotInv'
<1> USE SlotFacts, PoolAssumption DEF NoGen, slotVars, callVars
<1>1. PoolType'
  BY DEF PoolType, HandshakeFails, BootFails, CleanUp, Terminated
<1>2. OthersKept(s)
  BY DEF PoolType, OthersKept, SlotKept, HandshakeFails, BootFails, CleanUp, Terminated
<1>3. generation[s]' > 0 /\ IF closed THEN ClosingSlot(s)' ELSE OpenSlot(s)'
  BY DEF PoolType, SlotInv, HandshakeFails, BootFails, CleanUp, Terminated,
         OpenSlot, ClosingSlot, Booting, CleaningUp, Serving, Evicting, Respawning, GivenUp,
         Promised, Unpromised, Empty
<1>4. RunningKnown'
  BY CleanUpRunning, RunningKept DEF SlotInv, HandshakeFails, BootFails
<1> QED
  BY <1>1, <1>2, <1>3, <1>4, OneSlot

LEMMA HandshakeEndsStep ==
    ASSUME PoolType, SlotInv, NEW s \in Slots, HandshakeEnds(s)
    PROVE  PoolType' /\ SlotInv'
<1> USE SlotFacts, PoolAssumption DEF NoGen, slotVars, callVars
<1>1. PoolType'
  BY DEF PoolType, HandshakeEnds, BootFails, CleanUp, Terminated, Activate
<1>2. OthersKept(s)
  BY DEF PoolType, OthersKept, SlotKept, HandshakeEnds, BootFails, CleanUp, Terminated, Activate
<1>3. generation[s]' > 0 /\ IF closed THEN ClosingSlot(s)' ELSE OpenSlot(s)'
  BY DEF PoolType, SlotInv, HandshakeEnds, BootFails, CleanUp, Terminated, Activate, Outdated,
         OpenSlot, ClosingSlot, Booting, CleaningUp, Serving, Evicting, Respawning, GivenUp,
         Promised, Unpromised, Empty
<1>4. RunningKnown'
  BY CleanUpRunning, RunningKept DEF SlotInv, HandshakeEnds, BootFails, Activate
<1> QED
  BY <1>1, <1>2, <1>3, <1>4, OneSlot

LEMMA BootstrapRejectsStep ==
    ASSUME PoolType, SlotInv, NEW s \in Slots, BootstrapRejects(s)
    PROVE  PoolType' /\ SlotInv'
<1> USE SlotFacts, PoolAssumption DEF NoGen, slotVars, callVars
<1>1. PoolType'
  BY DEF PoolType, BootstrapRejects, ScheduleRespawn
<1>2. OthersKept(s)
  BY DEF PoolType, OthersKept, SlotKept, BootstrapRejects, ScheduleRespawn
<1>3. generation[s]' > 0 /\ IF closed THEN ClosingSlot(s)' ELSE OpenSlot(s)'
  BY DEF PoolType, SlotInv, BootstrapRejects, ScheduleRespawn, Retries, MayScheduleRespawn,
         OpenSlot, ClosingSlot, Booting, CleaningUp, Serving, Evicting, Respawning, GivenUp,
         Promised, Unpromised, Empty
<1>4. RunningKnown'
  BY RunningKept DEF SlotInv, BootstrapRejects
<1> QED
  BY <1>1, <1>2, <1>3, <1>4, OneSlot

LEMMA RespawnBeginsStep ==
    ASSUME PoolType, SlotInv, NEW s \in Slots, RespawnBegins(s)
    PROVE  PoolType' /\ SlotInv'
<1> USE SlotFacts, PoolAssumption DEF NoGen, slotVars, callVars
<1>1. PoolType'
  BY DEF PoolType, RespawnBegins, BeginBootstrap
<1>2. OthersKept(s)
  BY DEF PoolType, OthersKept, SlotKept, RespawnBegins, BeginBootstrap
<1>3. generation[s]' > 0 /\ IF closed THEN ClosingSlot(s)' ELSE OpenSlot(s)'
  BY DEF PoolType, SlotInv, RespawnBegins, BeginBootstrap,
         OpenSlot, ClosingSlot, Booting, CleaningUp, Serving, Evicting, Respawning, GivenUp,
         Promised, Unpromised, Empty
<1>4. RunningKnown'
  BY RunningKept DEF SlotInv, RespawnBegins
<1> QED
  BY <1>1, <1>2, <1>3, <1>4, OneSlot

LEMMA WorkerFailsStep ==
    ASSUME PoolType, SlotInv, NEW s \in Slots, WorkerFails(s)
    PROVE  PoolType' /\ SlotInv'
<1> USE SlotFacts, PoolAssumption DEF NoGen, slotVars, callVars
<1>1. PoolType'
  BY DEF PoolType, WorkerFails, CleanUp, Terminated
<1>2. OthersKept(s)
  BY DEF PoolType, OthersKept, SlotKept, WorkerFails, CleanUp, Terminated
<1>3. generation[s]' > 0 /\ IF closed THEN ClosingSlot(s)' ELSE OpenSlot(s)'
  BY DEF PoolType, SlotInv, WorkerFails, CleanUp, Terminated,
         OpenSlot, ClosingSlot, Booting, CleaningUp, Serving, Evicting, Respawning, GivenUp,
         Promised, Unpromised, Empty
<1>4. RunningKnown'
  BY CleanUpRunning DEF SlotInv, WorkerFails
<1> QED
  BY <1>1, <1>2, <1>3, <1>4, OneSlot

LEMMA EvictedStep ==
    ASSUME PoolType, SlotInv, NEW s \in Slots, Evicted(s)
    PROVE  PoolType' /\ SlotInv'
<1> USE SlotFacts, PoolAssumption DEF NoGen, slotVars, callVars
<1>1. PoolType'
  BY DEF PoolType, Evicted, ScheduleRespawn
<1>2. OthersKept(s)
  BY DEF PoolType, OthersKept, SlotKept, Evicted, ScheduleRespawn
<1>3. generation[s]' > 0 /\ IF closed THEN ClosingSlot(s)' ELSE OpenSlot(s)'
  BY DEF PoolType, SlotInv, Evicted, ScheduleRespawn, MayScheduleRespawn,
         OpenSlot, ClosingSlot, Booting, CleaningUp, Serving, Evicting, Respawning, GivenUp,
         Promised, Unpromised, Empty
<1>4. RunningKnown'
  BY RunningKept DEF SlotInv, Evicted
<1> QED
  BY <1>1, <1>2, <1>3, <1>4, OneSlot

LEMMA CloseSlotStep ==
    ASSUME PoolType, SlotInv, NEW s \in Slots, CloseSlot(s)
    PROVE  PoolType' /\ SlotInv'
<1> USE SlotFacts, PoolAssumption DEF NoGen, slotVars, callVars
<1>1. PoolType'
  BY DEF PoolType, CloseSlot, SlotCloses
<1>2. OthersKept(s)
  BY DEF PoolType, OthersKept, SlotKept, CloseSlot, SlotCloses
<1>3. generation[s]' > 0 /\ IF closed THEN ClosingSlot(s)' ELSE OpenSlot(s)'
  BY DEF PoolType, SlotInv, CloseSlot, SlotCloses,
         OpenSlot, ClosingSlot, Booting, CleaningUp, Serving, Evicting, Respawning, GivenUp,
         Promised, Unpromised, Empty
<1>4. RunningKnown'
  BY RunningKept DEF SlotInv, CloseSlot
<1> QED
  BY <1>1, <1>2, <1>3, <1>4, OneSlot

LEMMA ClosePoolStep ==
    ASSUME PoolType, SlotInv, ClosePool
    PROVE  PoolType' /\ SlotInv'
<1> USE SlotFacts, PoolAssumption DEF NoGen, callVars
<1>1. PoolType'
  BY DEF PoolType, ClosePool, CleanUp, Terminated
<1>2. \A s \in Slots : generation'[s] > 0 /\ ClosingSlot(s)'
  BY DEF PoolType, SlotInv, ClosePool, CloseAsked, CleanUp,
         OpenSlot, ClosingSlot, Booting, CleaningUp, Serving, Evicting, Respawning, GivenUp,
         Promised, Unpromised, Empty
<1>3. RunningKnown'
  BY CleanUpRunning DEF SlotInv, ClosePool
<1> QED
  BY <1>1, <1>2, <1>3 DEF SlotInv, ClosePool

LEMMA SlotStepInv ==
    ASSUME PoolInv, NEW s \in Slots, SlotStep(s)
    PROVE  PoolInv'
<1>1. PoolType' /\ SlotInv'
  BY FactoryReturnsStep, FactoryThrowsStep, HandshakeFailsStep, HandshakeEndsStep,
     BootstrapRejectsStep, RespawnBeginsStep, WorkerFailsStep, EvictedStep, CloseSlotStep
  DEF SlotStep, BootStep, PoolInv
<1>2. UNCHANGED callVars
  BY DEF SlotStep, BootStep, FactoryReturns, FactoryThrows, HandshakeFails, HandshakeEnds,
         BootstrapRejects, RespawnBegins, WorkerFails, Evicted, CloseSlot
<1>3. CallInv'
  BY <1>2 DEF PoolInv, CallInv, Holders, callVars
<1> QED
  BY <1>1, <1>3 DEF PoolInv

-----------------------------------------------------------------------------
(* A call takes a slot, gives it back, or waits.                           *)
LEMMA CallTakes ==
    ASSUME CallInv, NEW c \in Calls, NEW s \in Slots, on[c] = NoSlot,
           To(c, "held"), on' = [on EXCEPT ![c] = s],
           busyCount' = [busyCount EXCEPT ![s] = @ + 1]
    PROVE  CallInv'
<1> USE SlotFacts DEF CallInv, To
<1>1. \A t \in Slots : Holders(t)' = IF t = s THEN Holders(t) \cup {c} ELSE Holders(t)
  BY DEF Holders
<1>2. c \notin Holders(s) /\ IsFiniteSet(Holders(s)) /\ Cardinality(Holders(s)) \in Nat
  BY DEF Holders
<1>3. IsFiniteSet(Holders(s) \cup {c}) /\ Cardinality(Holders(s) \cup {c}) = Cardinality(Holders(s)) + 1
  BY <1>2, FS_AddElement
<1>4. \A t \in Slots : IsFiniteSet(Holders(t))' /\ (busyCount[t] = Cardinality(Holders(t)))'
  BY <1>1, <1>3
<1>5. /\ call' \in [Calls -> {"new", "waiting", "held", "invoked", "over"}]
      /\ on' \in [Calls -> Slots \cup {NoSlot}]
      /\ \A d \in Calls : call'[d] \in {"held", "invoked"} <=> on'[d] # NoSlot
      /\ busyCount' \in [Slots -> Nat]
  OBVIOUS
<1> QED
  BY <1>4, <1>5

LEMMA CallReleases ==
    ASSUME CallInv, NEW c \in Calls, call[c] \in {"held", "invoked"}, To(c, "over"), Release(c)
    PROVE  CallInv'
<1> USE SlotFacts DEF CallInv, To, Release
<1> DEFINE s == on[c]
<1>1. s \in Slots
  OBVIOUS
<1>2. \A t \in Slots : Holders(t)' = IF t = s THEN Holders(t) \ {c} ELSE Holders(t)
  BY DEF Holders
<1>3. c \in Holders(s) /\ IsFiniteSet(Holders(s)) /\ busyCount[s] = Cardinality(Holders(s))
  BY <1>1 DEF Holders
<1>4. IsFiniteSet(Holders(s) \ {c}) /\ Cardinality(Holders(s) \ {c}) = Cardinality(Holders(s)) - 1
  BY <1>3, FS_RemoveElement
<1>5. Cardinality(Holders(s) \ {c}) \in Nat
  BY <1>4, FS_CardinalityType
<1>6. busyCount[s] \in Nat /\ busyCount[s] > 0 /\ busyCount'[s] = busyCount[s] - 1
  <2>1. busyCount[s] \in Nat /\ busyCount[s] - 1 \in Nat
    BY <1>1, <1>3, <1>4, <1>5
  <2>2. busyCount[s] > 0
    BY ONLY <2>1
  <2>3. busyCount'[s] = IF busyCount[s] = 0 THEN 0 ELSE busyCount[s] - 1
    BY <1>1
  <2> QED
    BY <2>1, <2>2, <2>3
<1>7. \A t \in Slots : IsFiniteSet(Holders(t))' /\ (busyCount[t] = Cardinality(Holders(t)))'
  BY <1>1, <1>2, <1>3, <1>4, <1>6
<1>8. /\ call' \in [Calls -> {"new", "waiting", "held", "invoked", "over"}]
      /\ on' \in [Calls -> Slots \cup {NoSlot}]
      /\ \A d \in Calls : call'[d] \in {"held", "invoked"} <=> on'[d] # NoSlot
      /\ busyCount' \in [Slots -> Nat]
  BY <1>1, <1>6
<1> QED
  BY <1>7, <1>8

LEMMA CallMoves ==
    ASSUME CallInv, NEW c \in Calls, NEW where \in {"new", "waiting", "held", "invoked", "over"},
           where \in {"held", "invoked"} <=> call[c] \in {"held", "invoked"},
           To(c, where), UNCHANGED <<on, busyCount>>
    PROVE  CallInv'
<1> USE SlotFacts DEF CallInv, To
<1>1. \A t \in Slots : Holders(t)' = Holders(t)
  BY DEF Holders
<1> QED
  BY <1>1

LEMMA CallStepInv ==
    ASSUME PoolInv, NEW c \in Calls, CallStep(c)
    PROVE  PoolInv'
<1>1. UNCHANGED <<closed, starting, closing, slotVars>>
  BY DEF CallStep, Acquire, Invoke, CallEnds
<1>2. PoolType' /\ SlotInv'
  <2>1. RunningKnown'
    BY <1>1, RunningKept DEF PoolInv, SlotInv, slotVars
  <2> QED
    BY <1>1, <2>1
    DEF PoolInv, PoolType, SlotInv, slotVars, OpenSlot, ClosingSlot, Booting, CleaningUp,
        Serving, Evicting, Respawning, GivenUp, Promised, Unpromised, Empty
<1>3. CallInv'
  <2>1. CASE Acquire(c)
    <3>1. call[c] \in {"new", "waiting"} /\ on[c] = NoSlot
      BY <2>1 DEF Acquire, Woken, PoolInv, CallInv
    <3>2. CASE \E s \in Slots : /\ To(c, "held") /\ on' = [on EXCEPT ![c] = s]
                               /\ busyCount' = [busyCount EXCEPT ![s] = @ + 1]
      BY <3>1, <3>2, CallTakes DEF PoolInv
    <3>3. CASE To(c, "over") /\ UNCHANGED <<on, busyCount>>
      BY <3>1, <3>3, CallMoves DEF PoolInv
    <3>4. CASE To(c, "waiting") /\ UNCHANGED <<on, busyCount>>
      BY <3>1, <3>4, CallMoves DEF PoolInv
    <3> QED
      BY <2>1, <3>2, <3>3, <3>4 DEF Acquire
  <2>2. CASE Invoke(c)
    <3>1. CASE To(c, "over") /\ Release(c)
      BY <2>2, <3>1, CallReleases DEF Invoke, PoolInv
    <3>2. CASE To(c, "invoked") /\ UNCHANGED <<on, busyCount>>
      BY <2>2, <3>2, CallMoves DEF Invoke, PoolInv
    <3> QED
      BY <2>2, <3>1, <3>2 DEF Invoke
  <2>3. CASE CallEnds(c)
    BY <2>3, CallReleases DEF CallEnds, PoolInv
  <2> QED
    BY <2>1, <2>2, <2>3 DEF CallStep
<1> QED
  BY <1>2, <1>3 DEF PoolInv

-----------------------------------------------------------------------------
(* Every reachable state of every pool satisfies PoolInv.                  *)
THEOREM PoolInvariant == Spec => []PoolInv
<1>1. Init => PoolInv
  BY PoolInit
<1>2. PoolInv /\ [Next]_poolVars => PoolInv'
  <2> SUFFICES ASSUME PoolInv, [Next]_poolVars PROVE PoolInv'
    OBVIOUS
  <2>1. CASE ClosePool
    <3>1. CallInv'
      BY <2>1 DEF ClosePool, PoolInv, CallInv, Holders, callVars
    <3> QED
      BY <2>1, <3>1, ClosePoolStep DEF PoolInv
  <2>2. ASSUME NEW s \in Slots, SlotStep(s) PROVE PoolInv'
    BY <2>2, SlotStepInv
  <2>3. ASSUME NEW c \in Calls, CallStep(c) PROVE PoolInv'
    BY <2>3, CallStepInv
  <2>4. CASE UNCHANGED poolVars
    <3>1. RunningKnown' /\ CallInv'
      BY <2>4, RunningKept DEF PoolInv, SlotInv, CallInv, Holders, poolVars, slotVars, callVars
    <3> QED
      BY <2>4, <3>1
      DEF PoolInv, PoolType, SlotInv, poolVars, slotVars, OpenSlot, ClosingSlot, Booting,
          CleaningUp, Serving, Evicting, Respawning, GivenUp, Promised, Unpromised, Empty
  <2> QED
    BY <2>1, <2>2, <2>3, <2>4 DEF Next
<1> QED
  BY <1>1, <1>2, PTL DEF Spec

(* A busy count is the number of calls that hold the slot, through crashes, *)
(* respawns and refusals.                                                  *)
THEOREM BusyCountsExact == Spec => []BusyExact
<1>1. PoolInv => BusyExact
  BY DEF PoolInv, CallInv, BusyExact, Holders
<1> QED
  BY <1>1, PoolInvariant, PTL

(* No race of bootstrap, crash, respawn and close leaves a worker behind.  *)
THEOREM NoWorkerLeft == Spec => []NoOrphanWorker
<1>1. ASSUME PoolInv PROVE NoOrphanWorker
  <2>1. ASSUME NEW w \in running PROVE worker[w[1]] = w[2]
    <3>1. PICK s \in Slots, g \in Nat : w = <<s, g>>
      BY <1>1 DEF PoolInv, PoolType
    <3> QED
      BY <1>1, <3>1 DEF PoolInv, SlotInv, RunningKnown, KnownIfRunning
  <2>2. ASSUME \A s \in Slots : closing[s] = "done"
        PROVE  /\ running = {}
               /\ \A s \in Slots : boot[s] = "none" /\ respawn[s] = "none" /\ state[s] = "dead"
    <3>1. 1 \in Slots
      BY PoolAssumption DEF Slots
    <3>2. closed
      BY <1>1, <2>2, <3>1 DEF PoolInv, SlotInv, OpenSlot
    <3>3. \A s \in Slots : ClosingSlot(s)
      BY <1>1, <3>2 DEF PoolInv, SlotInv
    <3>4. ASSUME NEW w \in running PROVE FALSE
      <4>1. PICK s \in Slots, g \in Nat : w = <<s, g>>
        BY <1>1 DEF PoolInv, PoolType
      <4> QED
        BY <1>1, <3>3, <4>1
        DEF PoolInv, SlotInv, RunningKnown, KnownIfRunning, ClosingSlot, Empty
    <3> QED
      BY <2>2, <3>3, <3>4 DEF ClosingSlot
  <2> QED
    BY <2>1, <2>2 DEF NoOrphanWorker
<1> QED
  BY <1>1, PoolInvariant, PTL

(* A slot offered to calls has its running worker, which is watched.       *)
THEOREM ActiveSlotsWatched == Spec => []ActiveIsWatched
<1>1. ASSUME PoolInv PROVE ActiveIsWatched
  <2> SUFFICES ASSUME NEW s \in Slots, state[s] = "active"
               PROVE  /\ client[s] = generation[s] /\ worker[s] = generation[s]
                      /\ watched[s] = generation[s] /\ <<s, generation[s]>> \in running
    BY DEF ActiveIsWatched
  <2>1. Serving(s) /\ generation[s] > 0 /\ generation[s] \in Nat
    BY <1>1 DEF PoolInv, PoolType, SlotInv, OpenSlot, ClosingSlot, Booting, CleaningUp,
                Evicting, Respawning, GivenUp
  <2> QED
    BY <1>1, <2>1 DEF PoolInv, SlotInv, RunningKnown, KnownIfRunning, Serving, NoGen
<1> QED
  BY <1>1, PoolInvariant, PTL

(* A slot of an open pool is dead only while something respawns it or for  *)
(* a reason the policy names.                                              *)
THEOREM DeadSlotsGivenUp == Spec => []DeadMeansGivenUp
<1>1. PoolInv => DeadMeansGivenUp
  BY DEF PoolInv, SlotInv, DeadMeansGivenUp, OpenSlot, Booting, CleaningUp, Serving, Evicting,
         Respawning, GivenUp
<1> QED
  BY <1>1, PoolInvariant, PTL
================================================================================

------------------------ MODULE PendingRequests_proofs ------------------------
(***************************************************************************)
(* The request store for every number of ids and every set of entries.     *)
(***************************************************************************)
EXTENDS PendingRequests, TLAPS

LEMMA IdFacts == NoId \notin Ids /\ \A id \in Ids : Successor(id) \in Ids
BY PendingAssumption DEF NoId, Ids, Successor

LEMMA StoreInit == Init => StoreInv
<1> SUFFICES ASSUME Init PROVE StoreInv
  OBVIOUS
<1> USE IdFacts, PendingAssumption DEF Init
<1>1. TypeOK
  BY DEF TypeOK
<1>2. HandedOutOnce /\ WitnessTracksSlot /\ OwnReleaseOnly
  BY DEF HandedOutOnce, WitnessTracksSlot, OwnReleaseOnly
<1>3. SlotsConsistent
  BY DEF SlotsConsistent
<1> QED
  BY <1>1, <1>2, <1>3 DEF StoreInv

(* A registration goes into a free slot, so it evicts nobody.              *)
LEMMA InsertInv ==
    ASSUME StoreInv, NEW e \in Entries, Insert(e), UNCHANGED <<swept, enabled>>
    PROVE  StoreInv'
<1> USE IdFacts, PendingAssumption DEF StoreInv
<1>1. PICK id \in Ids :
         /\ registered[e] = NoId
         /\ pending[id] = NoEntry
         /\ pending' = [pending EXCEPT ![id] = e]
         /\ nextRequestId' = Successor(id)
         /\ registered' = [registered EXCEPT ![e] = id]
         /\ witnessed' = IF enabled THEN witnessed \cup {e} ELSE witnessed
         /\ UNCHANGED <<released, releases, releaser>>
  BY DEF Insert, IsAllocated
<1>2. TypeOK'
  BY <1>1 DEF TypeOK
<1>3. /\ \A f \in Entries : f # e => (Holds(f)' <=> Holds(f)) /\ registered'[f] = registered[f]
      /\ Holds(e)' /\ ~Holds(e)
  BY <1>1 DEF TypeOK, Holds, SlotsConsistent
<1>4. HandedOutOnce'
  BY <1>1, <1>3 DEF HandedOutOnce
<1>5. e \notin witnessed /\ releases[e] = 0
  BY <1>1 DEF HandedOutOnce
<1>6. WitnessTracksSlot'
  BY <1>1, <1>3, <1>5 DEF WitnessTracksSlot, TypeOK
<1>7. OwnReleaseOnly'
  BY <1>1 DEF OwnReleaseOnly
<1>8. SlotsConsistent'
  BY <1>1 DEF SlotsConsistent, TypeOK
<1>9. released' \subseteq witnessed' /\ \A f \in witnessed' : registered'[f] # NoId
  BY <1>1 DEF TypeOK
<1> QED
  BY <1>2, <1>4, <1>6, <1>7, <1>8, <1>9

(* Detaching entries that are in the store, on behalf of the response, the *)
(* shutdown or the entry itself.                                           *)
LEMMA DetachInv ==
    ASSUME StoreInv, NEW es \in SUBSET Entries, \A e \in es : Holds(e),
           NEW by \in Entries \cup {Response, Shutdown},
           by \in Entries => es \subseteq {by},
           Detach(es, by), swept' \in BOOLEAN, enabled' \in BOOLEAN
    PROVE  StoreInv'
<1> USE IdFacts, PendingAssumption DEF StoreInv, Detach
<1>1. TypeOK'
  BY DEF TypeOK
<1>2. \A e \in Entries : Holds(e)' <=> Holds(e) /\ e \notin es
  BY DEF TypeOK, Holds
<1>3. HandedOutOnce'
  <2> SUFFICES ASSUME NEW e \in Entries
               PROVE  releases'[e] = IF registered[e] # NoId /\ ~Holds(e)' THEN 1 ELSE 0
    BY DEF HandedOutOnce
  <2>1. CASE e \in es
    <3>1. registered[e] # NoId /\ releases[e] = 0
      BY <2>1 DEF HandedOutOnce, Holds
    <3> QED
      BY <1>2, <2>1, <3>1
  <2>2. CASE e \notin es
    BY <1>2, <2>2 DEF HandedOutOnce
  <2> QED
    BY <2>1, <2>2
<1>4. WitnessTracksSlot'
  BY <1>2 DEF WitnessTracksSlot, TypeOK
<1>5. OwnReleaseOnly'
  BY DEF OwnReleaseOnly
<1>6. SlotsConsistent'
  BY DEF SlotsConsistent, TypeOK
<1>7. released' \subseteq witnessed' /\ \A e \in witnessed' : registered'[e] # NoId
  OBVIOUS
<1> QED
  BY <1>1, <1>3, <1>4, <1>5, <1>6, <1>7

LEMMA UnchangedInv ==
    ASSUME StoreInv, UNCHANGED storeVars, swept' \in BOOLEAN, enabled' \in BOOLEAN
    PROVE  StoreInv'
BY DEF storeVars, StoreInv, TypeOK, HandedOutOnce, WitnessTracksSlot, OwnReleaseOnly, SlotsConsistent, Holds

(* A registration whose entry is still in its slot is detached; otherwise  *)
(* nothing changes: the branch of releaseByWitness that marks a witness    *)
(* released without having detached it is never taken.                     *)
LEMMA RegistrationInv ==
    ASSUME StoreInv, NEW e \in Entries, ReleaseRegistration(e), UNCHANGED <<swept, enabled>>
    PROVE  StoreInv'
<1> USE DEF StoreInv, TypeOK
<1>1. CASE UNCHANGED storeVars
  BY <1>1, UnchangedInv
<1>2. CASE Holds(e) /\ Detach({e}, e)
  BY <1>2, DetachInv
<1>3. (Holds(e) /\ Detach({e}, e)) \/ UNCHANGED storeVars
  BY DEF ReleaseRegistration, ReleaseByWitness, ReleaseKnownEntry, WitnessTracksSlot, Holds
<1> QED
  BY <1>1, <1>2, <1>3

LEMMA UntrustedInv ==
    ASSUME StoreInv, NEW id \in Ids, ReleaseUntrusted(id), UNCHANGED <<swept, enabled>>
    PROVE  StoreInv'
<1> USE PendingAssumption DEF StoreInv, TypeOK
<1>1. CASE pending[id] = NoEntry
  BY <1>1, UnchangedInv DEF ReleaseUntrusted
<1>2. CASE pending[id] # NoEntry
  <2>1. pending[id] \in Entries /\ Holds(pending[id])
    BY <1>2, IdFacts DEF SlotsConsistent, Holds
  <2> QED
    BY <1>2, <2>1, DetachInv DEF ReleaseUntrusted
<1> QED
  BY <1>1, <1>2

LEMMA StoreStep == StoreInv /\ [Next]_pendingVars => StoreInv'
<1> SUFFICES ASSUME StoreInv, [Next]_pendingVars PROVE StoreInv'
  OBVIOUS
<1> USE DEF StoreInv, TypeOK
<1>1. ASSUME NEW e \in Entries, Insert(e), UNCHANGED <<swept, enabled>> PROVE StoreInv'
  BY <1>1, InsertInv
<1>2. ASSUME NEW e \in Entries, ReleaseRegistration(e), UNCHANGED <<swept, enabled>> PROVE StoreInv'
  BY <1>2, RegistrationInv
<1>3. ASSUME NEW id \in Ids, ReleaseUntrusted(id), UNCHANGED <<swept, enabled>> PROVE StoreInv'
  BY <1>3, UntrustedInv
<1>4. CASE Sweep /\ swept' = TRUE /\ UNCHANGED enabled
  <2> DEFINE es == IF enabled THEN Present \cap witnessed ELSE Present
  <2>1. es \in SUBSET Entries /\ \A e \in es : Holds(e)
    BY DEF Present
  <2>2. Detach(es, Shutdown)
    BY <1>4 DEF Sweep
  <2>3. Shutdown \notin Entries
    BY PendingAssumption
  <2> QED
    BY <1>4, <2>1, <2>2, <2>3, DetachInv
<1>5. CASE enabled' = ~enabled /\ UNCHANGED <<storeVars, swept>>
  BY <1>5, UnchangedInv
<1>6. CASE UNCHANGED pendingVars
  BY <1>6, UnchangedInv DEF pendingVars
<1> QED
  BY <1>1, <1>2, <1>3, <1>4, <1>5, <1>6 DEF Next

THEOREM StoreInvariant == Spec => []StoreInv
BY StoreInit, StoreStep, PTL DEF Spec

(* Every registration is pending or was released exactly once, for every   *)
(* interleaving of responses, timers, aborts, failed sends and shutdown    *)
(* and every reuse of ids (PendingRequestStore, rejectPendingRegistration, *)
(* finishInbound).                                                         *)
THEOREM ReleasedExactlyOnce == Spec => []ReleasedOnce
BY StoreInvariant, PTL DEF StoreInv, ReleasedOnce

(* A release by witness or by known entry never takes another call's entry *)
(* (releaseByWitness, releaseKnownEntry).                                  *)
THEOREM NoForeignRelease == Spec => []OwnReleaseOnly
BY StoreInvariant, PTL DEF StoreInv
=============================================================================

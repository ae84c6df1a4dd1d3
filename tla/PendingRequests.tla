--------------------------- MODULE PendingRequests ---------------------------
(***************************************************************************)
(* PendingRequestStore (core/rpc/pending.ts) under the calls RpcClientImpl *)
(* makes of it: a registration is inserted under a fresh u32 request id    *)
(* and is released by whoever comes first: the response that names its id, *)
(* the caller's timer or abort or failed send (which hold the witness, or  *)
(* the entry when the witness fast path is off), or the shutdown sweep.    *)
(* Ids wrap, so a late release can meet an id that was handed out again.   *)
(*                                                                         *)
(* A registration's witness is identified with its entry (each insertion   *)
(* makes one of each).  `enabled' is the kill switch of the witness fast   *)
(* path, which isFastPathEnabled reads anew from process.env at every use. *)
(***************************************************************************)
EXTENDS Naturals, FiniteSets

CONSTANTS
    UINT32_MAX,   \* 2^32 - 1
    Entries,      \* the registrations of a run, one per call
    NoEntry, Response, Shutdown   \* not registrations

ASSUME PendingAssumption ==
    /\ UINT32_MAX \in Nat /\ UINT32_MAX > 0
    /\ {NoEntry, Response, Shutdown} \cap Entries = {}

Ids == 1 .. UINT32_MAX
NoId == 0

VARIABLES
    pending,         \* #pending: the entry under each id, or NoEntry
    nextRequestId,   \* #nextRequestId
    registered,      \* the id each entry was inserted under, NoId before
    witnessed,       \* the entries inserted with a witness
    released,        \* the entries whose witness is marked released
    releases,        \* history: how often a release handed each entry out
    releaser,        \* history: whose release that was
    swept,           \* the client has shut down and rejected what was pending
    enabled          \* isFastPathEnabled('pendingRequestWitness')

storeVars == <<pending, nextRequestId, registered, witnessed, released, releases, releaser>>
pendingVars == <<storeVars, swept, enabled>>

Init ==
    /\ pending = [id \in Ids |-> NoEntry]
    /\ nextRequestId \in Ids
    /\ registered = [e \in Entries |-> NoId]
    /\ witnessed = {} /\ released = {}
    /\ releases = [e \in Entries |-> 0]
    /\ releaser = [e \in Entries |-> NoEntry]
    /\ swept = FALSE
    /\ enabled \in BOOLEAN

(* nonzeroRequestId(id + 1 >>> 0).                                         *)
Successor(id) == IF id = UINT32_MAX THEN 1 ELSE id + 1

(* allocateRequestId: the first free id from nextRequestId on.             *)
Distance(id) == IF id >= nextRequestId THEN id - nextRequestId ELSE id + UINT32_MAX - nextRequestId
IsAllocatedNext(id) == id = nextRequestId   \* a mutated form, as are the others so named below
IsAllocated(id) ==
    /\ pending[id] = NoEntry
    /\ \A other \in Ids : pending[other] = NoEntry => Distance(id) <= Distance(other)

Holds(e) == registered[e] # NoId /\ pending[registered[e]] = e

(* allocateRequestId, then insertAllocated or insertAllocatedWithoutWitness. *)
Insert(e) ==
    \E id \in Ids :
        /\ registered[e] = NoId
        /\ IsAllocated(id)
        /\ pending' = [pending EXCEPT ![id] = e]
        /\ nextRequestId' = Successor(id)
        /\ registered' = [registered EXCEPT ![e] = id]
        /\ witnessed' = IF enabled THEN witnessed \cup {e} ELSE witnessed
        /\ UNCHANGED <<released, releases, releaser>>

(* detachSlot, for every entry of a set, on behalf of `by'.               *)
DetachForgettingWitness(es, by) ==
    /\ pending' = [id \in Ids |-> IF pending[id] \in es THEN NoEntry ELSE pending[id]]
    /\ releases' = [e \in Entries |-> IF e \in es THEN releases[e] + 1 ELSE releases[e]]
    /\ releaser' = [e \in Entries |-> IF e \in es THEN by ELSE releaser[e]]
    /\ UNCHANGED <<nextRequestId, registered, witnessed, released>>

Detach(es, by) ==
    /\ pending' = [id \in Ids |-> IF pending[id] \in es THEN NoEntry ELSE pending[id]]
    /\ released' = released \cup (es \cap witnessed)
    /\ releases' = [e \in Entries |-> IF e \in es THEN releases[e] + 1 ELSE releases[e]]
    /\ releaser' = [e \in Entries |-> IF e \in es THEN by ELSE releaser[e]]
    /\ UNCHANGED <<nextRequestId, registered, witnessed>>

(* releaseByWitness: a witness already released, or no longer the one in   *)
(* the slot of its id, releases nothing.                                   *)
ReleaseByWitnessUnchecked(e) ==
    LET there == pending[registered[e]] IN
    /\ e \in witnessed
    /\ IF there = NoEntry THEN UNCHANGED storeVars ELSE Detach({there}, e)

ReleaseByWitness(e) ==
    /\ e \in witnessed
    /\ IF e \in released
       THEN UNCHANGED storeVars
       ELSE IF pending[registered[e]] # e
            THEN /\ released' = released \cup {e}
                 /\ UNCHANGED <<pending, nextRequestId, registered, witnessed, releases, releaser>>
            ELSE Detach({e}, e)

ReleaseKnownEntry(e) ==
    /\ registered[e] # NoId
    /\ IF Holds(e) THEN Detach({e}, e) ELSE UNCHANGED storeVars

(* rejectPendingRegistration: a timer, an abort or a failed send.          *)
ReleaseRegistration(e) ==
    IF e \in witnessed /\ enabled THEN ReleaseByWitness(e) ELSE ReleaseKnownEntry(e)

(* finishInbound: lookupUntrusted, then releaseUntrusted.                  *)
ReleaseUntrusted(id) ==
    IF pending[id] = NoEntry THEN UNCHANGED storeVars ELSE Detach({pending[id]}, Response)

(* RpcClientImpl.shutdown: witnessesSnapshot, or entriesSnapshot.          *)
Present == {e \in Entries : Holds(e)}
Sweep == Detach(IF enabled THEN Present \cap witnessed ELSE Present, Shutdown)

Next ==
    \/ \E e \in Entries : ~swept /\ Insert(e) /\ UNCHANGED <<swept, enabled>>
    \/ \E e \in Entries : ReleaseRegistration(e) /\ UNCHANGED <<swept, enabled>>
    \/ \E id \in Ids : ReleaseUntrusted(id) /\ UNCHANGED <<swept, enabled>>
    \/ ~swept /\ Sweep /\ swept' = TRUE /\ UNCHANGED enabled
    \/ enabled' = ~enabled /\ UNCHANGED <<storeVars, swept>>

Spec == Init /\ [][Next]_pendingVars

-----------------------------------------------------------------------------
TypeOK ==
    /\ pending \in [Ids -> Entries \cup {NoEntry}]
    /\ nextRequestId \in Ids
    /\ registered \in [Entries -> Ids \cup {NoId}]
    /\ witnessed \subseteq Entries /\ released \subseteq Entries
    /\ releases \in [Entries -> Nat]
    /\ releaser \in [Entries -> Entries \cup {NoEntry, Response, Shutdown}]
    /\ swept \in BOOLEAN /\ enabled \in BOOLEAN

HandedOutOnce ==
    \A e \in Entries :
        releases[e] = IF registered[e] # NoId /\ ~Holds(e) THEN 1 ELSE 0
WitnessTracksSlot == \A e \in witnessed : e \in released <=> ~Holds(e)

(* However responses, timers, aborts, failed sends and the sweep race, and *)
(* however ids are reused, a registration is in the store or was handed    *)
(* out exactly once: no call settles twice and none is lost.  And its      *)
(* witness says which, by whichever path it has left.                      *)
ReleasedOnce == HandedOutOnce /\ WitnessTracksSlot

(* The timer, abort or failed send of one call never rejects another: a    *)
(* stale witness or entry releases nothing, whoever owns its id by then.   *)
OwnReleaseOnly == \A e \in Entries : releaser[e] \in {NoEntry, Response, Shutdown, e}

(* An entry is only ever found under the id it was inserted under.         *)
SlotsConsistent == \A id \in Ids : pending[id] # NoEntry => registered[pending[id]] = id

(* All of it together; SlotsConsistent and the last part only serve the    *)
(* induction.                                                              *)
StoreInv ==
    /\ TypeOK /\ HandedOutOnce /\ WitnessTracksSlot /\ OwnReleaseOnly /\ SlotsConsistent
    /\ released \subseteq witnessed
    /\ \A e \in witnessed : registered[e] # NoId
=============================================================================

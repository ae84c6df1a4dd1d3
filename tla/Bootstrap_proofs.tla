--------------------------- MODULE Bootstrap_proofs ---------------------------
(***************************************************************************)
(* Proofs about the handshake, for any number of attempts on a worker, any *)
(* contents of the two contracts and any number of changes of them.        *)
(*                                                                         *)
(* Hashes are equal exactly where methods agree (Agreement): that is what  *)
(* the canonical order and the two indexes of a prepared contract are for. *)
(* The rest of the argument is about hashes.  As attempts begin in their   *)
(* order and the worker answers only the first BOOTSTRAP, what it serves,  *)
(* or refuses, is the least attempt that was sent at all, whichever        *)
(* attempt takes the answer for its own.                                   *)
(***************************************************************************)
EXTENDS Bootstrap, TLAPS

Contents == ClientContents \cup WorkerContents
Prepareds == {createPreparedContract(content) : content \in Contents} \ {Invalid}
Objected ==
    [content : Contents, frozen : BOOLEAN,
     cached : {Nothing} \cup {createPreparedContract(content) : content \in Contents}]
ToWorker == [rings : Attempts, hash : {p.hash : p \in Prepareds}]
ToMain ==
    {Other} \cup {Error(about) : about \in {"contract", "server"}} \cup {Ready(p.hash) : p \in Prepareds}
Workers == {"loading", "listening", "serving", "closing", "over", "gone"}
Sides == {"main", "worker"}

TypeOK ==
    /\ handshake \in [Attempts -> HandshakeStates]
    /\ prepared \in [Attempts -> {Nothing, Invalid} \cup Prepareds]
    /\ opened \in [Attempts -> {Nothing, Invalid} \cup Prepareds]
    /\ client \in [Attempts -> {"none", "open", "closed", "aborted"}]
    /\ watching \subseteq Attempts
    /\ rings \in [Attempts -> {"open", "closed"}]
    /\ toWorker \in Seq(ToWorker) /\ toMain \in Seq(ToMain)
    /\ events \subseteq {"error", "exit"}
    /\ worker \in Workers /\ serves \in Attempts \cup {NoAttempt} /\ keepAlive \in BOOLEAN
    /\ contract \in [Sides -> Objected] /\ changes \in Nat

-----------------------------------------------------------------------------
(* The invariant.                                                          *)
(* What a contract object remembers is what would be prepared of it now.   *)
CacheFresh ==
    \A side \in Sides :
        contract[side].cached # Nothing =>
            contract[side].frozen
            /\ contract[side].cached = createPreparedContract(contract[side].content)

InOrder == \A a, b \in Attempts : b < a /\ handshake[a] # "idle" => handshake[b] # "idle"

(* The attempts that have posted a BOOTSTRAP, if the worker was alive.     *)
Sent(a) == handshake[a] # "idle" /\ prepared[a] \in Prepareds

Attempted ==
    \A a \in Attempts :
        /\ handshake[a] \notin {"idle", "invalid"} =>
              /\ prepared[a] \in Prepareds
              /\ changes = 0 => prepared[a] = createPreparedContract(contract["main"].content)
        /\ client[a] = "open" => a \in watching

Answering == worker \notin {"loading", "listening"}
First(b) == \A a \in Attempts : Sent(a) => b <= a

Mail ==
    /\ \A i \in 1 .. Len(toWorker) :
          Sent(toWorker[i].rings) /\ toWorker[i].hash = prepared[toWorker[i].rings].hash
    /\ ~Answering =>
          \A a \in Attempts : Sent(a) => toWorker # <<>> /\ toWorker[1].rings <= a

Offering ==
    /\ worker = "listening" =>
          /\ offered \in Prepareds
          /\ changes = 0 => offered = createPreparedContract(contract["worker"].content)
    /\ serves # NoAttempt =>
          /\ Answering /\ offered \in Prepareds /\ served \in Prepareds
          /\ Sent(serves) /\ prepared[serves].hash = offered.hash /\ First(serves)
          /\ changes = 0 => served = offered

Mismatch(b) == Sent(b) /\ prepared[b].hash # offered.hash

Truthful(m) ==
    /\ m.type = "READY" => serves # NoAttempt /\ m.hash = offered.hash
    /\ m.type = "ERROR" =>
          /\ Answering
          /\ m.about = "contract" =>
                offered \in Prepareds /\ \E b \in Attempts : Mismatch(b) /\ First(b)

Answers == \A i \in 1 .. Len(toMain) : Truthful(toMain[i])

Handshakes ==
    \A a \in Attempts :
        /\ handshake[a] = "ready" =>
              /\ serves # NoAttempt /\ prepared[a].hash = offered.hash
              /\ changes = 0 => opened[a] = prepared[a]
        /\ handshake[a] = "mismatched" =>
              Answering /\ offered \in Prepareds /\ \E b \in 1 .. a : Mismatch(b)

HandshakeInv ==
    /\ TypeOK /\ CacheFresh /\ InOrder /\ Attempted
    /\ Mail /\ Offering /\ Answers /\ Handshakes

-----------------------------------------------------------------------------
(* Prepared contracts.                                                     *)
(* The methods of a valid contract are told apart by their ids, and the    *)
(* methods of any contract by their names.                                 *)
LEMMA OfItsId ==
    ASSUME NEW content, IsValid(content), NEW m \in Methods(content)
    PROVE  m.id \in Ids(content) /\ WithId(content, m.id) = m
<1>1. \A n \in Methods(content) : n.id = m.id => n = m
  BY DEF IsValid, Methods
<1> QED  BY <1>1 DEF WithId, Ids

LEMMA OfItsName ==
    ASSUME NEW content, HasKeys(content), NEW m \in Methods(content)
    PROVE  /\ m.method \in Names(content) /\ Named(content, m.method) = m
           /\ \A n \in Methods(content) : n.method = m.method => n = m
<1>1. \A n \in Methods(content) : n.method = m.method => n = m
  BY DEF HasKeys, Methods
<1> QED  BY <1>1 DEF Named, Names

LEMMA AnId ==
    ASSUME NEW content, NEW id \in Ids(content)
    PROVE  WithId(content, id) \in Methods(content) /\ WithId(content, id).id = id
<1>1. PICK m \in Methods(content) : m.id = id
  BY DEF Ids
<1> QED  BY <1>1 DEF WithId

LEMMA AName ==
    ASSUME NEW content, NEW name \in Names(content)
    PROVE  Named(content, name) \in Methods(content) /\ Named(content, name).method = name
<1>1. PICK m \in Methods(content) : m.method = name
  BY DEF Names
<1> QED  BY <1>1 DEF Named

LEMMA PreparedFields ==
    ASSUME NEW content, createPreparedContract(content) # Invalid
    PROVE  /\ IsValid(content)
           /\ createPreparedContract(content).hash = description(content)
           /\ createPreparedContract(content).methodIndex = [id \in Ids(content) |-> WithId(content, id)]
           /\ createPreparedContract(content).methodsByName =
                 [name \in Names(content) |-> Named(content, name)]
BY DEF createPreparedContract

(* What the descriptions of two valid contracts say when they are equal.   *)
LEMMA DescribedAlike ==
    ASSUME NEW c, NEW d, description(c) = description(d)
    PROVE  Ids(c) = Ids(d) /\ \A id \in Ids(c) : Described(WithId(c, id)) = Described(WithId(d, id))
<1>1. Ids(c) = DOMAIN description(c) /\ Ids(d) = DOMAIN description(d)
  BY DEF description
<1>2. \A id \in Ids(c) : description(c)[id] = Described(WithId(c, id))
  BY DEF description
<1>3. \A id \in Ids(d) : description(d)[id] = Described(WithId(d, id))
  BY DEF description
<1> QED  BY <1>1, <1>2, <1>3

LEMMA AlikeMeans ==
    ASSUME NEW m, NEW n
    PROVE  Described(m) = Described(n) <=>
              /\ m.method = n.method /\ m.id = n.id
              /\ describeCodec(m.request) = describeCodec(n.request)
              /\ describeCodec(m.response) = describeCodec(n.response)
<1> DEFINE q(x) == describeCodec(x.request)
           r(x) == describeCodec(x.response)
<1>1. \A x : Described(x) = [method |-> x.method, id |-> x.id, request |-> q(x), response |-> r(x)]
  BY DEF Described
<1> HIDE DEF q, r
<1>2. Described(m) = Described(n) <=> m.method = n.method /\ m.id = n.id /\ q(m) = q(n) /\ r(m) = r(n)
  BY <1>1
<1> QED  BY <1>2 DEF q, r

(* Methods agree exactly where hashes are equal.                           *)
LEMMA EqualHashesAgree ==
    ASSUME NEW c, NEW d, HasKeys(c), HasKeys(d),
           createPreparedContract(c) # Invalid, createPreparedContract(d) # Invalid,
           description(c) = description(d)
    PROVE  MethodsAgree(createPreparedContract(c), createPreparedContract(d))
<1> DEFINE p == createPreparedContract(c)
           q == createPreparedContract(d)
<1>1. /\ IsValid(c) /\ IsValid(d)
      /\ q.methodIndex = [id \in Ids(d) |-> WithId(d, id)]
      /\ p.methodsByName = [name \in Names(c) |-> Named(c, name)]
  BY PreparedFields
<1>2. Ids(c) = Ids(d) /\ \A id \in Ids(c) : Described(WithId(c, id)) = Described(WithId(d, id))
  BY DescribedAlike
<1> HIDE DEF p, q
<1>3. DOMAIN q.methodIndex = Ids(d) /\ \A id \in Ids(d) : q.methodIndex[id] = WithId(d, id)
  BY <1>1
<1>4. DOMAIN p.methodsByName = Names(c) /\ \A name \in Names(c) : p.methodsByName[name] = Named(c, name)
  BY <1>1
<1>5. \A m \in Methods(c) :
         /\ m.id \in Ids(d) /\ WithId(d, m.id).method = m.method
         /\ describeCodec(WithId(d, m.id).request) = describeCodec(m.request)
         /\ describeCodec(WithId(d, m.id).response) = describeCodec(m.response)
  <2>1. TAKE m \in Methods(c)
  <2>2. m.id \in Ids(c) /\ WithId(c, m.id) = m
    BY <1>1, <2>1, OfItsId
  <2>3. Described(m) = Described(WithId(d, m.id))
    BY <1>2, <2>2
  <2> QED  BY <1>2, <2>2, <2>3, AlikeMeans
<1>6. \A name \in Names(c) : Named(c, name) \in Methods(c) /\ Named(c, name).method = name
  BY AName
<1>7. Names(c) = {WithId(d, id).method : id \in Ids(d)}
  <2>1. \A name \in Names(c) : \E id \in Ids(d) : name = WithId(d, id).method
    BY <1>5, <1>6
  <2>2. \A id \in Ids(d) : WithId(d, id).method \in Names(c)
    <3>1. TAKE id \in Ids(d)
    <3>2. WithId(c, id) \in Methods(c) /\ WithId(c, id).id = id
      BY <1>2, <3>1, AnId
    <3> QED  BY <1>5, <3>2 DEF Names
  <2> QED  BY <2>1, <2>2
<1>8. DOMAIN p.methodsByName = {q.methodIndex[id].method : id \in DOMAIN q.methodIndex}
  BY <1>3, <1>4, <1>7
<1> QED  BY <1>3, <1>4, <1>5, <1>6, <1>8 DEF MethodsAgree, p, q

LEMMA AgreeingHashesEqual ==
    ASSUME NEW c, NEW d, HasKeys(c), HasKeys(d),
           createPreparedContract(c) # Invalid, createPreparedContract(d) # Invalid,
           MethodsAgree(createPreparedContract(c), createPreparedContract(d))
    PROVE  description(c) = description(d)
<1> DEFINE p == createPreparedContract(c)
           q == createPreparedContract(d)
<1>1. /\ IsValid(c) /\ IsValid(d)
      /\ q.methodIndex = [id \in Ids(d) |-> WithId(d, id)]
      /\ p.methodsByName = [name \in Names(c) |-> Named(c, name)]
  BY PreparedFields
<1>2. MethodsAgree(p, q)
  OBVIOUS
<1> HIDE DEF p, q
<1>3. DOMAIN q.methodIndex = Ids(d) /\ \A id \in Ids(d) : q.methodIndex[id] = WithId(d, id)
  BY <1>1
<1>4. DOMAIN p.methodsByName = Names(c) /\ \A name \in Names(c) : p.methodsByName[name] = Named(c, name)
  BY <1>1
<1>5. \A m \in Methods(c) :
         /\ m.id \in Ids(d) /\ WithId(d, m.id).method = m.method
         /\ describeCodec(WithId(d, m.id).request) = describeCodec(m.request)
         /\ describeCodec(WithId(d, m.id).response) = describeCodec(m.response)
  <2>1. TAKE m \in Methods(c)
  <2>2. m.method \in Names(c) /\ Named(c, m.method) = m
    BY <2>1, OfItsName
  <2> QED  BY <1>2, <1>3, <1>4, <2>2 DEF MethodsAgree
<1>6. \A id \in Ids(d) : id \in Ids(c)
  <2>1. TAKE id \in Ids(d)
  <2>2. WithId(d, id).method \in Names(c)
    BY <1>2, <1>3, <1>4, <2>1 DEF MethodsAgree
  <2>3. PICK m \in Methods(c) : m.method = WithId(d, id).method
    BY <2>2 DEF Names
  <2>4. m.id \in Ids(d) /\ WithId(d, m.id).method = WithId(d, id).method
    BY <1>5, <2>3
  <2>5. /\ WithId(d, m.id) \in Methods(d) /\ WithId(d, m.id).id = m.id
        /\ WithId(d, id) \in Methods(d) /\ WithId(d, id).id = id
    BY <2>1, <2>4, AnId
  <2>6. WithId(d, m.id) = WithId(d, id)
    BY <2>4, <2>5, OfItsName
  <2>7. m.id \in Ids(c)
    BY <2>3 DEF Ids
  <2> QED  BY <2>5, <2>6, <2>7
<1>7. \A id \in Ids(c) : id \in Ids(d) /\ Described(WithId(c, id)) = Described(WithId(d, id))
  <2>1. TAKE id \in Ids(c)
  <2>2. WithId(c, id) \in Methods(c) /\ WithId(c, id).id = id
    BY <2>1, AnId
  <2>3. id \in Ids(d) /\ WithId(d, id).method = WithId(c, id).method
        /\ describeCodec(WithId(d, id).request) = describeCodec(WithId(c, id).request)
        /\ describeCodec(WithId(d, id).response) = describeCodec(WithId(c, id).response)
    BY <1>5, <2>2
  <2>4. WithId(d, id).id = id
    BY <2>3, AnId
  <2> QED  BY <2>2, <2>3, <2>4, AlikeMeans
<1>8. Ids(c) = Ids(d)
  BY <1>6, <1>7
<1> QED  BY <1>7, <1>8 DEF description

LEMMA Agreement ==
    ASSUME NEW p \in Prepareds, NEW q \in Prepareds
    PROVE  MethodsAgree(p, q) <=> p.hash = q.hash
<1>1. PICK c \in Contents : p = createPreparedContract(c)
  BY DEF Prepareds
<1>2. PICK d \in Contents : q = createPreparedContract(d)
  BY DEF Prepareds
<1>3. createPreparedContract(c) # Invalid /\ createPreparedContract(d) # Invalid
  BY <1>1, <1>2 DEF Prepareds
<1>4. HasKeys(c) /\ HasKeys(d)
  BY BootstrapAssumption DEF Contents
<1>5. p.hash = description(c) /\ q.hash = description(d)
  BY <1>1, <1>2, <1>3, PreparedFields
<1>6. CASE p.hash = q.hash
  BY <1>1, <1>2, <1>3, <1>4, <1>5, <1>6, EqualHashesAgree
<1>7. CASE MethodsAgree(p, q)
  BY <1>1, <1>2, <1>3, <1>4, <1>5, <1>7, AgreeingHashesEqual
<1> QED  BY <1>6, <1>7

-----------------------------------------------------------------------------
(* Contract objects.                                                       *)
Fresh(object) ==
    object.cached # Nothing => object.frozen /\ object.cached = createPreparedContract(object.content)

LEMMA GetIsPrepare ==
    ASSUME NEW object, Fresh(object), NEW reuse \in BOOLEAN
    PROVE  getPreparedContract(object, reuse) = createPreparedContract(object.content)
BY DEF Fresh, getPreparedContract

LEMMA RememberedFresh ==
    ASSUME NEW object \in Objected, Fresh(object), NEW reuse \in BOOLEAN
    PROVE  /\ Remembered(object, reuse) \in Objected /\ Fresh(Remembered(object, reuse))
           /\ Remembered(object, reuse).content = object.content
<1>1. PICK p : p = createPreparedContract(object.content)
  OBVIOUS
<1>2. getPreparedContract(object, reuse) = p
  BY <1>1, GetIsPrepare
<1>3. object.content \in Contents /\ object.frozen \in BOOLEAN
      /\ p \in {createPreparedContract(content) : content \in Contents}
  BY <1>1 DEF Objected
<1>4. CASE reuse /\ object.frozen /\ p # Invalid
  <2>1. Remembered(object, reuse) = [object EXCEPT !.cached = p]
    BY <1>2, <1>4 DEF Remembered
  <2>2. PICK r : r = Remembered(object, reuse)
    OBVIOUS
  <2>3. r \in Objected /\ r.content = object.content /\ r.frozen = object.frozen /\ r.cached = p
    BY <1>3, <2>1, <2>2 DEF Objected
  <2>4. Fresh(r)
    BY <1>1, <1>4, <2>3 DEF Fresh
  <2> QED  BY <2>2, <2>3, <2>4
<1>5. CASE ~(reuse /\ object.frozen /\ p # Invalid)
  BY <1>2, <1>5 DEF Remembered
<1> QED  BY <1>4, <1>5

LEMMA NewObjects ==
    ASSUME NEW content \in Contents, NEW object \in Objects(content)
    PROVE  object \in Objected /\ Fresh(object)
<1>1. Plain(content) \in Objected /\ Fresh(Plain(content)) /\ Plain(content).content = content
  BY DEF Plain, Objected, Fresh
<1>2. CASE object = Plain(content)
  BY <1>1, <1>2
<1>3. ASSUME NEW reuse \in BOOLEAN, object = defineContract(Plain(content), reuse)
      PROVE  object \in Objected /\ Fresh(object)
  <2>1. PICK p : p = createPreparedContract(content)
    OBVIOUS
  <2>2. p \in {createPreparedContract(c) : c \in Contents}
    BY <2>1
  <2>3. object = IF p = Invalid THEN Plain(content)
                 ELSE [Plain(content) EXCEPT !.frozen = TRUE, !.cached = IF reuse THEN p ELSE @]
    BY <1>1, <1>3, <2>1 DEF defineContract
  <2>4. CASE p = Invalid
    BY <1>1, <2>3, <2>4
  <2>5. CASE p # Invalid /\ reuse
    <3>1. object = [content |-> content, frozen |-> TRUE, cached |-> p]
      BY <2>3, <2>5 DEF Plain
    <3> QED  BY <2>1, <2>2, <3>1 DEF Objected, Fresh
  <2>6. CASE p # Invalid /\ ~reuse
    <3>1. object = [content |-> content, frozen |-> TRUE, cached |-> Nothing]
      BY <2>3, <2>6 DEF Plain
    <3> QED  BY <3>1 DEF Objected, Fresh
  <2> QED  BY <2>4, <2>5, <2>6
<1> QED  BY <1>2, <1>3 DEF Objects

LEMMA InitHolds == Init => HandshakeInv
<1> SUFFICES ASSUME Init PROVE HandshakeInv
  OBVIOUS
<1>1. PICK main \in ClientContents, other \in WorkerContents :
         contract \in [main : Objects(main), worker : Objects(other)]
  BY DEF Init
<1>2. contract["main"] \in Objects(main) /\ contract["worker"] \in Objects(other)
  BY <1>1
<1>3. \A side \in Sides : contract[side] \in Objected /\ Fresh(contract[side])
  BY <1>2, NewObjects DEF Contents, Sides
<1>4. contract \in [Sides -> Objected]
  <2>1. DOMAIN contract = Sides /\ contract = [s \in Sides |-> contract[s]]
    BY <1>1 DEF Sides
  <2> QED  BY <1>3, <2>1
<1>5. TypeOK
  <2>1. prepared \in [Attempts -> {Nothing, Invalid} \cup Prepareds] /\ opened = prepared
    BY DEF Init
  <2>2. handshake \in [Attempts -> HandshakeStates]
        /\ client \in [Attempts -> {"none", "open", "closed", "aborted"}]
    BY DEF Init, HandshakeStates
  <2>3. rings \in [Attempts -> {"open", "closed"}] /\ watching \subseteq Attempts
        /\ events \subseteq {"error", "exit"}
    BY DEF Init
  <2>4. toWorker \in Seq(ToWorker) /\ toMain \in Seq(ToMain)
    BY DEF Init
  <2>5. worker \in Workers /\ serves \in Attempts \cup {NoAttempt} /\ keepAlive \in BOOLEAN
        /\ changes \in Nat
    BY DEF Init, Workers
  <2> QED  BY <1>4, <2>1, <2>2, <2>3, <2>4, <2>5 DEF TypeOK
<1>6. CacheFresh
  BY <1>3 DEF CacheFresh, Fresh
<1>7. \A a \in Attempts : ~Sent(a)
  BY DEF Init, Sent
<1>8. InOrder /\ Attempted
  BY DEF Init, InOrder, Attempted
<1>9. Mail /\ Offering /\ Answers /\ Handshakes
  BY <1>7 DEF Init, Mail, Offering, Answers, Handshakes, NoAttempt
<1> QED  BY <1>5, <1>6, <1>8, <1>9 DEF HandshakeInv

-----------------------------------------------------------------------------
(* Steps.                                                                  *)
LEMMA Appended ==
    ASSUME NEW S, NEW q \in Seq(S), NEW x \in S
    PROVE  /\ Append(q, x) \in Seq(S) /\ Append(q, x) # <<>>
           /\ \A i \in 1 .. Len(Append(q, x)) :
              (i \in 1 .. Len(q) /\ Append(q, x)[i] = q[i]) \/ Append(q, x)[i] = x
           /\ q # <<>> => Append(q, x)[1] = q[1]
           /\ q = <<>> => Append(q, x)[1] = x
OBVIOUS

LEMMA Taken ==
    ASSUME NEW S, NEW q \in Seq(S), q # <<>>
    PROVE  /\ Tail(q) \in Seq(S) /\ Head(q) = q[1] /\ q[1] \in S /\ 1 \in 1 .. Len(q)
           /\ \A i \in 1 .. Len(Tail(q)) : i + 1 \in 1 .. Len(q) /\ Tail(q)[i] = q[i + 1]
OBVIOUS

LEMMA Addressed ==
    ASSUME NEW q \in Seq(ToWorker)
    PROVE  \A i \in 1 .. Len(q) : q[i] \in ToWorker /\ q[i].rings \in Attempts
<1>1. \A i \in 1 .. Len(q) : q[i] \in ToWorker
  OBVIOUS
<1>2. \A m \in ToWorker : m.rings \in Attempts
  BY DEF ToWorker
<1> QED  BY <1>1, <1>2

(* Most steps leave alone what was prepared, offered and sent: handshakes  *)
(* stop waiting, clients and the worker end, and messages that say nothing *)
(* of contracts are posted.                                                *)
LEMMA Undisturbed ==
    ASSUME HandshakeInv,
           UNCHANGED <<prepared, opened, toWorker, offered, served, serves, contractVars>>,
           handshake' \in [Attempts -> HandshakeStates],
           \A a \in Attempts :
              handshake'[a] # handshake[a] =>
                 handshake[a] = "waiting" /\ handshake'[a] \in {"timed-out", "crashed"},
           worker' = worker \/ worker' \in {"closing", "over", "gone"},
           toMain' \in {toMain, Append(toMain, Other)}
              \/ (worker' = "over" /\ toMain' = Append(toMain, Error("server"))),
           client' \in [Attempts -> {"none", "open", "closed", "aborted"}],
           watching' \subseteq Attempts, rings' \in [Attempts -> {"open", "closed"}],
           events' \subseteq {"error", "exit"}, keepAlive' \in BOOLEAN,
           \A a \in Attempts : client'[a] = "open" => a \in watching'
    PROVE  HandshakeInv'
<1> USE DEF HandshakeInv, contractVars
<1>1. worker' \in Workers /\ (Answering => Answering') /\ (worker' = "over" => Answering')
      /\ (worker' = "listening" => worker = "listening")
  BY DEF TypeOK, Workers, Answering
<1>2. Other \in ToMain /\ Error("server") \in ToMain
  BY DEF ToMain
<1>3. toMain' \in Seq(ToMain)
  <2>1. toMain \in Seq(ToMain)
    BY DEF TypeOK
  <2>2. Append(toMain, Other) \in Seq(ToMain) /\ Append(toMain, Error("server")) \in Seq(ToMain)
    BY <1>2, <2>1, Appended
  <2> QED  BY <2>1, <2>2
<1>4. TypeOK'
  BY <1>1, <1>3 DEF TypeOK
<1>5. \A a \in Attempts : (handshake'[a] = "idle" <=> handshake[a] = "idle") /\ (Sent(a)' <=> Sent(a))
  BY DEF Sent
<1>6. \A b \in Attempts : (First(b)' <=> First(b)) /\ (Mismatch(b)' <=> Mismatch(b))
  BY <1>5 DEF First, Mismatch
<1>7. CacheFresh' /\ InOrder'
  BY <1>5 DEF CacheFresh, InOrder
<1>8. Attempted'
  BY DEF Attempted
<1>9. Mail'
  <2>1. \A i \in 1 .. Len(toWorker) : toWorker[i].rings \in Attempts
    BY Addressed DEF TypeOK
  <2>2. \A i \in 1 .. Len(toWorker) :
           Sent(toWorker[i].rings)' /\ toWorker[i].hash = prepared[toWorker[i].rings].hash
    BY <1>5, <2>1 DEF Mail
  <2>3. ~Answering' => \A a \in Attempts : Sent(a)' => toWorker # <<>> /\ toWorker[1].rings <= a
    BY <1>1, <1>5 DEF Mail
  <2> QED  BY <2>2, <2>3 DEF Mail
<1>10. Offering'
  BY <1>1, <1>5, <1>6 DEF Offering, TypeOK
<1>11. ASSUME NEW m, Truthful(m) PROVE Truthful(m)'
  BY <1>1, <1>6, <1>11 DEF Truthful
<1>12. Truthful(Other)' /\ (worker' = "over" => Truthful(Error("server"))')
  BY <1>1 DEF Truthful, Other, Error
<1>13. Answers'
  <2>1. CASE toMain' = toMain
    BY <1>11, <2>1 DEF Answers
  <2>2. CASE toMain' = Append(toMain, Other)
    BY <1>2, <1>11, <1>12, <2>2, Appended DEF Answers, TypeOK
  <2>3. CASE worker' = "over" /\ toMain' = Append(toMain, Error("server"))
    BY <1>2, <1>11, <1>12, <2>3, Appended DEF Answers, TypeOK
  <2> QED  BY <2>1, <2>2, <2>3
<1>14. Handshakes'
  <2>1. \A a \in Attempts : handshake'[a] \in {"ready", "mismatched"} => handshake'[a] = handshake[a]
    OBVIOUS
  <2>2. \A a \in Attempts : \A b \in 1 .. a : b \in Attempts
    BY BootstrapAssumption DEF Attempts
  <2> QED  BY <1>1, <1>6, <2>1, <2>2 DEF Handshakes
<1> QED  BY <1>4, <1>7, <1>8, <1>9, <1>10, <1>13, <1>14

(* The handshakes give up, and clients end.                                *)
LEMMA MainQuiet ==
    ASSUME HandshakeInv,
           \/ \E a \in Attempts : Timeout(a) \/ ClientClose(a) \/ ClientAbort(a)
           \/ MessageError
           \/ \E e \in {"error", "exit"} : Heard(e)
    PROVE  HandshakeInv'
<1> USE DEF HandshakeInv
<1>1. /\ handshake \in [Attempts -> HandshakeStates]
      /\ client \in [Attempts -> {"none", "open", "closed", "aborted"}]
      /\ watching \subseteq Attempts /\ rings \in [Attempts -> {"open", "closed"}]
      /\ events \subseteq {"error", "exit"} /\ keepAlive \in BOOLEAN
  BY DEF TypeOK
<1>2. \A a \in Attempts : client[a] = "open" => a \in watching
  BY DEF Attempted
<1>3. ASSUME NEW a \in Attempts, Timeout(a) PROVE HandshakeInv'
  <2>1. handshake' \in [Attempts -> HandshakeStates]
    BY <1>1, <1>3 DEF Timeout, HandshakeStates
  <2>2. \A b \in Attempts : handshake'[b] # handshake[b] =>
            handshake[b] = "waiting" /\ handshake'[b] = "timed-out"
    BY <1>1, <1>3 DEF Timeout
  <2> QED  BY <1>1, <1>2, <1>3, <2>1, <2>2, Undisturbed DEF Timeout, workerVars
<1>4. ASSUME NEW a \in Attempts, ClientClose(a) PROVE HandshakeInv'
  <2>1. /\ client' \in [Attempts -> {"none", "open", "closed", "aborted"}]
        /\ rings' \in [Attempts -> {"open", "closed"}] /\ watching' \subseteq Attempts
    BY <1>1, <1>4 DEF ClientClose
  <2>2. \A b \in Attempts : client'[b] = "open" => b \in watching'
    BY <1>1, <1>2, <1>4 DEF ClientClose
  <2> QED  BY <1>1, <1>4, <2>1, <2>2, Undisturbed DEF ClientClose, workerVars
<1>5. ASSUME NEW a \in Attempts, ClientAbort(a) PROVE HandshakeInv'
  <2>1. /\ client' \in [Attempts -> {"none", "open", "closed", "aborted"}]
        /\ rings' \in [Attempts -> {"open", "closed"}] /\ watching' \subseteq Attempts
    BY <1>1, <1>5 DEF ClientAbort
  <2>2. \A b \in Attempts : client'[b] = "open" => b \in watching'
    BY <1>1, <1>2, <1>5 DEF ClientAbort
  <2> QED  BY <1>1, <1>5, <2>1, <2>2, Undisturbed DEF ClientAbort, workerVars
<1>6. ASSUME MessageError PROVE HandshakeInv'
  <2>1. /\ client' \in [Attempts -> {"none", "open", "closed", "aborted"}]
        /\ rings' \in [Attempts -> {"open", "closed"}] /\ watching' \subseteq Attempts
    BY <1>1, <1>6 DEF MessageError
  <2>2. \A b \in Attempts : client'[b] = "open" => b \in watching'
    BY <1>1, <1>2, <1>6 DEF MessageError
  <2> QED  BY <1>1, <1>6, <2>1, <2>2, Undisturbed DEF MessageError, workerVars
<1>7. ASSUME NEW e \in {"error", "exit"}, Heard(e) PROVE HandshakeInv'
  <2>1. /\ client' \in [Attempts -> {"none", "open", "closed", "aborted"}]
        /\ rings' \in [Attempts -> {"open", "closed"}] /\ watching' \subseteq Attempts
        /\ events' \subseteq {"error", "exit"}
    BY <1>1, <1>7 DEF Heard
  <2>2. \A b \in Attempts : client'[b] = "open" => b \in watching'
    BY <1>1, <1>2, <1>7 DEF Heard
  <2>3. handshake' \in [Attempts -> HandshakeStates]
    BY <1>1, <1>7 DEF Heard, HandshakeStates
  <2>4. \A b \in Attempts : handshake'[b] # handshake[b] =>
            handshake[b] = "waiting" /\ handshake'[b] = "crashed"
    BY <1>1, <1>7 DEF Heard
  <2> QED  BY <1>1, <1>7, <2>1, <2>2, <2>3, <2>4, Undisturbed DEF Heard, workerVars
<1> QED  BY <1>3, <1>4, <1>5, <1>6, <1>7

(* A server ends, and the worker posts, throws or ends.                    *)
LEMMA WorkerQuiet ==
    ASSUME HandshakeInv, ServerClose \/ ServeEnds \/ ServeFails \/ Post \/ Throw \/ End
    PROVE  HandshakeInv'
<1> USE DEF HandshakeInv
<1>1. /\ handshake \in [Attempts -> HandshakeStates]
      /\ client \in [Attempts -> {"none", "open", "closed", "aborted"}]
      /\ watching \subseteq Attempts /\ rings \in [Attempts -> {"open", "closed"}]
      /\ events \subseteq {"error", "exit"} /\ keepAlive \in BOOLEAN
  BY DEF TypeOK
<1>2. \A a \in Attempts : client[a] = "open" => a \in watching
  BY DEF Attempted
<1>3. UNCHANGED <<prepared, opened, toWorker, offered, served, serves, contractVars>>
      /\ UNCHANGED <<handshake, client, watching>>
  BY DEF ServerClose, ServeEnds, ServeFails, Post, Throw, End, mainVars, workerVars
<1>4. worker' = worker \/ worker' \in {"closing", "over", "gone"}
  BY DEF ServerClose, ServeEnds, ServeFails, Post, Throw, End, workerVars
<1>5. toMain' \in {toMain, Append(toMain, Other)}
      \/ (worker' = "over" /\ toMain' = Append(toMain, Error("server")))
  BY DEF ServerClose, ServeEnds, ServeFails, Post, Throw, End
<1>6. rings' \in [Attempts -> {"open", "closed"}]
  BY <1>1 DEF ServerClose, ServeEnds, ServeFails, Post, Throw, End
<1>7. events' \subseteq {"error", "exit"}
  BY <1>1 DEF ServerClose, ServeEnds, ServeFails, Post, Throw, End
<1>8. keepAlive' \in BOOLEAN
  BY <1>1 DEF ServerClose, ServeEnds, ServeFails, Post, Throw, End, StopKeepAlive, workerVars
<1>9. handshake' \in [Attempts -> HandshakeStates]
      /\ client' \in [Attempts -> {"none", "open", "closed", "aborted"}]
      /\ watching' \subseteq Attempts /\ (\A a \in Attempts : handshake'[a] = handshake[a])
      /\ \A a \in Attempts : client'[a] = "open" => a \in watching'
  BY <1>1, <1>2, <1>3
<1> QED  BY <1>3, <1>4, <1>5, <1>6, <1>7, <1>8, <1>9, Undisturbed

LEMMA StutterHolds ==
    ASSUME HandshakeInv, UNCHANGED vars
    PROVE  HandshakeInv'
<1> USE DEF HandshakeInv
<1>1. UNCHANGED <<prepared, opened, toWorker, offered, served, serves, contractVars>>
      /\ UNCHANGED <<handshake, client, watching, worker, toMain, rings, events, keepAlive>>
  BY DEF vars, mainVars, workerVars
<1>2. /\ handshake' \in [Attempts -> HandshakeStates]
      /\ client' \in [Attempts -> {"none", "open", "closed", "aborted"}]
      /\ watching' \subseteq Attempts /\ rings' \in [Attempts -> {"open", "closed"}]
      /\ events' \subseteq {"error", "exit"} /\ keepAlive' \in BOOLEAN
  BY <1>1 DEF TypeOK
<1>3. \A a \in Attempts : client'[a] = "open" => a \in watching'
  BY <1>1 DEF Attempted
<1> QED  BY <1>1, <1>2, <1>3, Undisturbed

LEMMA ChangeHolds ==
    ASSUME HandshakeInv, NEW side \in Sides, ChangeContract(side)
    PROVE  HandshakeInv'
<1> USE DEF HandshakeInv
<1>1. PICK content \in Contents : contract' = [contract EXCEPT ![side].content = content]
  BY DEF ChangeContract, Contents
<1>2. /\ UNCHANGED <<handshake, prepared, opened, client, watching, rings, toWorker, toMain, events>>
      /\ UNCHANGED <<worker, serves, offered, served, keepAlive>>
      /\ ~contract[side].frozen /\ changes' = changes + 1
  BY DEF ChangeContract, mainVars, workerVars
<1>3. changes' \in Nat /\ changes' # 0
  BY <1>2 DEF TypeOK
<1>4. PICK r : r = [contract[side] EXCEPT !.content = content]
  OBVIOUS
<1>5. contract[side] \in Objected /\ contract \in [Sides -> Objected]
  BY DEF TypeOK
<1>6. r \in Objected /\ r.cached = contract[side].cached /\ contract' = [contract EXCEPT ![side] = r]
  BY <1>1, <1>4, <1>5 DEF Objected
<1>7. contract' \in [Sides -> Objected]
      /\ \A s \in Sides : contract'[s] = IF s = side THEN r ELSE contract[s]
  BY <1>5, <1>6
<1>8. TypeOK'
  BY <1>2, <1>3, <1>7 DEF TypeOK
<1>9. CacheFresh'
  BY <1>2, <1>6, <1>7 DEF CacheFresh
<1>10. \A a \in Attempts : Sent(a)' <=> Sent(a)
  BY <1>2 DEF Sent
<1>11. \A a \in Attempts : (First(a)' <=> First(a)) /\ (Mismatch(a)' <=> Mismatch(a))
  BY <1>2, <1>10 DEF First, Mismatch
<1>12. InOrder' /\ Attempted'
  BY <1>2, <1>3 DEF InOrder, Attempted
<1>13. Mail'
  <2>1. \A i \in 1 .. Len(toWorker) : toWorker[i].rings \in Attempts
    BY Addressed DEF TypeOK
  <2> QED  BY <1>2, <1>10, <2>1 DEF Mail, Answering
<1>14. Offering'
  BY <1>2, <1>3, <1>10, <1>11 DEF Offering, Answering, TypeOK
<1>15. \A m : Truthful(m)' <=> Truthful(m)
  BY <1>2, <1>11 DEF Truthful, Answering
<1>16. Answers'
  BY <1>2, <1>15 DEF Answers
<1>17. Handshakes'
  <2>1. \A a \in Attempts : \A b \in 1 .. a : b \in Attempts
    BY BootstrapAssumption DEF Attempts
  <2> QED  BY <1>2, <1>3, <1>11, <2>1 DEF Handshakes, Answering
<1> QED  BY <1>8, <1>9, <1>12, <1>13, <1>14, <1>16, <1>17

(* What a step of the contract cache keeps.                                *)
LEMMA RememberHolds ==
    ASSUME HandshakeInv, NEW side \in Sides, NEW reuse \in BOOLEAN, Remember(side, reuse)
    PROVE  /\ contract' \in [Sides -> Objected] /\ CacheFresh'
           /\ \A s \in Sides : contract'[s].content = contract[s].content
           /\ Prepared(side, reuse) = createPreparedContract(contract[side].content)
           /\ Prepared(side, reuse) \in Prepareds \cup {Invalid}
<1>1. contract[side] \in Objected /\ contract \in [Sides -> Objected] /\ Fresh(contract[side])
  BY DEF HandshakeInv, TypeOK, CacheFresh, Fresh
<1>2. PICK r : r = Remembered(contract[side], reuse)
  OBVIOUS
<1>3. r \in Objected /\ Fresh(r) /\ r.content = contract[side].content
  BY <1>1, <1>2, RememberedFresh
<1>4. contract' = [contract EXCEPT ![side] = r]
  BY <1>2 DEF Remember
<1>5. contract' \in [Sides -> Objected]
      /\ \A s \in Sides : contract'[s] = IF s = side THEN r ELSE contract[s]
  BY <1>1, <1>3, <1>4
<1>6. CacheFresh'
  BY <1>3, <1>5 DEF HandshakeInv, CacheFresh, Fresh
<1>7. Prepared(side, reuse) = createPreparedContract(contract[side].content)
  BY <1>1, GetIsPrepare DEF Prepared
<1>8. contract[side].content \in Contents
  BY <1>1 DEF Objected
<1>9. createPreparedContract(contract[side].content) \in Prepareds \cup {Invalid}
  BY <1>8 DEF Prepareds
<1> QED  BY <1>3, <1>5, <1>6, <1>7, <1>9

LEMMA BeginHolds ==
    ASSUME HandshakeInv, NEW a \in Attempts, Begin(a)
    PROVE  HandshakeInv'
<1> USE DEF HandshakeInv
<1>1. /\ handshake[a] = "idle" /\ \A b \in Attempts : b < a => handshake[b] # "idle"
      /\ UNCHANGED <<opened, client, watching, rings, toMain, events, changes>>
      /\ UNCHANGED <<worker, serves, offered, served, keepAlive>>
  BY DEF Begin, workerVars
<1>2. PICK reuse \in BOOLEAN :
         /\ Remember("main", reuse)
         /\ prepared' = [prepared EXCEPT ![a] = Prepared("main", reuse)]
         /\ handshake' = [handshake EXCEPT ![a] =
                             IF Prepared("main", reuse) = Invalid THEN "invalid" ELSE "waiting"]
         /\ toWorker' = IF Alive /\ Prepared("main", reuse) # Invalid
                        THEN Append(toWorker, [rings |-> a, hash |-> Prepared("main", reuse).hash])
                        ELSE toWorker
  BY DEF Begin
<1>3. PICK mine : mine = Prepared("main", reuse)
  OBVIOUS
<1>4. /\ contract' \in [Sides -> Objected] /\ CacheFresh'
      /\ \A s \in Sides : contract'[s].content = contract[s].content
      /\ mine = createPreparedContract(contract["main"].content) /\ mine \in Prepareds \cup {Invalid}
  BY <1>2, <1>3, RememberHolds DEF Sides
<1>5. /\ prepared' = [prepared EXCEPT ![a] = mine]
      /\ handshake' = [handshake EXCEPT ![a] = IF mine = Invalid THEN "invalid" ELSE "waiting"]
      /\ toWorker' = IF Alive /\ mine # Invalid
           THEN Append(toWorker, [rings |-> a, hash |-> mine.hash]) ELSE toWorker
  BY <1>2, <1>3
<1>6. /\ \A b \in Attempts : b # a => handshake'[b] = handshake[b] /\ prepared'[b] = prepared[b]
      /\ prepared'[a] = mine /\ handshake'[a] = (IF mine = Invalid THEN "invalid" ELSE "waiting")
  BY <1>5 DEF TypeOK
<1>7. (\A b \in Attempts : b # a => (Sent(b)' <=> Sent(b))) /\ ~Sent(a) /\ (Sent(a)' <=> mine # Invalid)
  BY <1>1, <1>4, <1>6 DEF Sent, Prepareds
<1>8. \A b \in Attempts : Sent(b) => Sent(b)' /\ b < a /\ prepared'[b] = prepared[b]
  <2>1. TAKE b \in Attempts
  <2>2. SUFFICES ASSUME Sent(b) PROVE b < a
    BY <1>6, <1>7
  <2>3. handshake[b] # "idle"
    BY <2>2 DEF Sent
  <2>4. ~(a < b) /\ b # a
    BY <1>1, <2>3 DEF InOrder
  <2> QED  BY <2>4 DEF Attempts
<1>9. \A b \in Attempts : Sent(b) /\ First(b) => First(b)'
  BY <1>7, <1>8 DEF First, Attempts
<1>10. \A b \in Attempts : Mismatch(b) => Mismatch(b)'
  BY <1>1, <1>8 DEF Mismatch
<1>11. toWorker' \in Seq(ToWorker)
  <2>1. CASE toWorker' = toWorker
    BY <2>1 DEF TypeOK
  <2>2. CASE mine # Invalid /\ toWorker' = Append(toWorker, [rings |-> a, hash |-> mine.hash])
    <3>1. mine \in Prepareds
      BY <1>4, <2>2
    <3>2. [rings |-> a, hash |-> mine.hash] \in ToWorker
      BY <3>1 DEF ToWorker
    <3> QED  BY <2>2, <3>2, Appended DEF TypeOK
  <2> QED  BY <1>5, <2>1, <2>2
<1>12. TypeOK'
  <2>1. handshake' \in [Attempts -> HandshakeStates]
    BY <1>5 DEF TypeOK, HandshakeStates
  <2>2. prepared' \in [Attempts -> {Nothing, Invalid} \cup Prepareds]
    BY <1>4, <1>5 DEF TypeOK
  <2> QED  BY <1>1, <1>4, <1>11, <2>1, <2>2 DEF TypeOK
<1>13. InOrder'
  BY <1>1, <1>6, <1>5 DEF InOrder, Attempts
<1>14. Attempted'
  BY <1>1, <1>4, <1>6 DEF Attempted, Sides
<1>15. Mail'
  <2>1. \A i \in 1 .. Len(toWorker) : \A b \in Attempts :
           b = toWorker[i].rings => Sent(b)' /\ toWorker[i].hash = prepared'[b].hash
    BY <1>8 DEF Mail
  <2>0. \A i \in 1 .. Len(toWorker) : toWorker[i].rings \in Attempts
    BY Addressed DEF TypeOK
  <2>2. CASE toWorker' = toWorker /\ (mine = Invalid \/ ~Alive)
    <3>1. ~Answering => \A b \in Attempts : Sent(b)' => Sent(b)
      BY <1>7, <2>2 DEF Answering, Alive
    <3>2. \A i \in 1 .. Len(toWorker) :
             /\ handshake'[toWorker[i].rings] # "idle" /\ prepared'[toWorker[i].rings] \in Prepareds
             /\ toWorker[i].hash = prepared'[toWorker[i].rings].hash
      BY <2>0, <2>1 DEF Sent
    <3> QED  BY <1>1, <2>2, <3>1, <3>2 DEF Mail, Answering, Sent
  <2>3. CASE mine # Invalid /\ toWorker' = Append(toWorker, [rings |-> a, hash |-> mine.hash])
    <3>1. PICK m : m = [rings |-> a, hash |-> mine.hash]
      OBVIOUS
    <3>2. m.rings = a /\ m.hash = mine.hash
      BY <3>1
    <3>3. mine \in Prepareds
      BY <1>4, <2>3
    <3>4. m \in ToWorker
      BY <3>1, <3>3 DEF ToWorker
    <3>5. toWorker \in Seq(ToWorker) /\ toWorker' = Append(toWorker, m)
      BY <2>3, <3>1 DEF TypeOK
    <3>6. /\ \A i \in 1 .. Len(toWorker') :
             (i \in 1 .. Len(toWorker) /\ toWorker'[i] = toWorker[i]) \/ toWorker'[i] = m
          /\ toWorker' # <<>> /\ (toWorker # <<>> => toWorker'[1] = toWorker[1])
               /\ (toWorker = <<>> => toWorker'[1] = m)
      BY <3>4, <3>5, Appended
    <3>7. \A i \in 1 .. Len(toWorker') :
             /\ handshake'[toWorker'[i].rings] # "idle" /\ prepared'[toWorker'[i].rings] \in Prepareds
             /\ toWorker'[i].hash = prepared'[toWorker'[i].rings].hash
      <4>1. Sent(a)' /\ m.hash = prepared'[a].hash
        BY <1>6, <1>7, <2>3, <3>2
      <4> QED  BY <2>0, <2>1, <3>2, <3>6, <4>1 DEF Sent
    <3>8. ASSUME ~Answering PROVE \A b \in Attempts : Sent(b)' => toWorker'[1].rings <= b
      <4>1. CASE toWorker = <<>>
        BY <1>7, <3>2, <3>6, <3>8, <4>1 DEF Mail, Attempts
      <4>2. CASE toWorker # <<>>
        <5>1. toWorker[1].rings \in Attempts /\ Sent(toWorker[1].rings)
          <6>1. 1 \in 1 .. Len(toWorker)
            BY <3>5, <4>2, Taken
          <6> QED  BY <3>5, <6>1, Addressed DEF Mail
        <5>2. toWorker[1].rings < a
          BY <1>8, <5>1
        <5> QED  BY <1>7, <3>6, <3>8, <4>2, <5>1, <5>2 DEF Mail, Attempts
      <4> QED  BY <4>1, <4>2
    <3> QED  BY <1>1, <3>6, <3>7, <3>8 DEF Mail, Answering, Sent
  <2> QED  BY <1>5, <2>2, <2>3
<1>16. Offering'
  <2>1. serves # NoAttempt => serves \in Attempts
    BY DEF TypeOK
  <2> QED  BY <1>1, <1>4, <1>8, <1>9, <2>1 DEF Offering, Answering, Sides
<1>17. \A m : Truthful(m) => Truthful(m)'
  <2>1. \A b \in Attempts : Mismatch(b) /\ First(b) => Mismatch(b)' /\ First(b)'
    BY <1>9, <1>10 DEF Mismatch
  <2> QED  BY <1>1, <2>1 DEF Truthful, Answering
<1>18. Answers'
  BY <1>1, <1>17 DEF Answers
<1>19. Handshakes'
  <2>1. \A b \in Attempts : \A c \in 1 .. b : c \in Attempts
    BY BootstrapAssumption DEF Attempts
  <2>2. \A b \in Attempts : handshake'[b] \in {"ready", "mismatched"} => b # a
    BY <1>6
  <2> QED  BY <1>1, <1>6, <1>10, <2>1, <2>2 DEF Handshakes, Answering
<1> QED  BY <1>4, <1>12, <1>13, <1>14, <1>15, <1>16, <1>18, <1>19

LEMMA Interpreted ==
    ASSUME NEW m \in ToMain, NEW hash
    PROVE  /\ InterpretReadyHandshake(m, hash) \in {"ready", "waiting", "mismatched", "refused"}
           /\ InterpretReadyHandshake(m, hash) = "ready" => m.type = "READY" /\ m.hash = hash
           /\ InterpretReadyHandshake(m, hash) = "mismatched" =>
                 (m.type = "READY" /\ m.hash # hash) \/ (m.type = "ERROR" /\ m.about = "contract")
<1>1. CASE m = Other
  BY <1>1 DEF InterpretReadyHandshake, Other
<1>2. ASSUME NEW about \in {"contract", "server"}, m = Error(about)
      PROVE  InterpretReadyHandshake(m, hash) = IF about = "contract" THEN "mismatched" ELSE "refused"
  BY <1>2 DEF InterpretReadyHandshake, Error
<1>3. ASSUME NEW h, m = Ready(h)
      PROVE  InterpretReadyHandshake(m, hash) = IF h = hash THEN "ready" ELSE "mismatched"
  BY <1>3 DEF InterpretReadyHandshake, Ready
<1>4. CASE \E about \in {"contract", "server"} : m = Error(about)
  BY <1>2, <1>4 DEF Error
<1>5. CASE \E p \in Prepareds : m = Ready(p.hash)
  BY <1>3, <1>5 DEF Ready
<1>6. InterpretReadyHandshake(Other, hash) = "waiting"
  BY DEF InterpretReadyHandshake, Other
<1> QED  BY <1>4, <1>5, <1>6 DEF ToMain

LEMMA MainReceivesHolds ==
    ASSUME HandshakeInv, MainReceives
    PROVE  HandshakeInv'
<1> USE DEF HandshakeInv
<1>1. /\ toMain # <<>> /\ toMain' = Tail(toMain)
      /\ UNCHANGED <<prepared, rings, toWorker, events, worker, serves, offered, served, keepAlive, contract, changes>>
  BY DEF MainReceives, workerVars, contractVars
<1> DEFINE m == Head(toMain)
<1>3. /\ toMain' \in Seq(ToMain) /\ m \in ToMain /\ Truthful(m)
      /\ \A i \in 1 .. Len(toMain') : i + 1 \in 1 .. Len(toMain) /\ toMain'[i] = toMain[i + 1]
  <2>1. toMain \in Seq(ToMain)
    BY DEF TypeOK
  <2> QED  BY <1>1, <2>1, Taken DEF Answers
<1>4. PICK reuse \in BOOLEAN :
       LET waiting == {a \in Attempts : handshake[a] = "waiting"}
           heard == {a \in waiting : OnMessage(a, m) = "ready"}
           Again(a) == preparedAgain(prepared[a], contract["main"], reuse)
           ready == {a \in heard : Again(a) # Invalid}
       IN  /\ handshake' = [a \in Attempts |->
                               IF a \in heard \ ready THEN "invalid"
                               ELSE IF a \in waiting THEN OnMessage(a, m) ELSE handshake[a]]
           /\ opened' = [a \in Attempts |-> IF a \in ready THEN Again(a) ELSE opened[a]]
           /\ client' = [a \in Attempts |-> IF a \in ready THEN "open" ELSE client[a]]
           /\ watching' = Watch(ready)
  BY DEF MainReceives
<1> HIDE DEF m
<1>5. PICK new : new = createPreparedContract(contract["main"].content)
  OBVIOUS
<1>6. new \in Prepareds \cup {Invalid}
  BY <1>5 DEF TypeOK, Sides, Objected, Prepareds
<1> DEFINE waiting == {a \in Attempts : handshake[a] = "waiting"}
           heard == {a \in waiting : OnMessage(a, m) = "ready"}
           Again(a) == IF reuse THEN prepared[a] ELSE new
           ready == {a \in heard : Again(a) # Invalid}
<1>7. /\ handshake' = [a \in Attempts |->
                          IF a \in heard \ ready THEN "invalid"
                          ELSE IF a \in waiting THEN OnMessage(a, m) ELSE handshake[a]]
      /\ opened' = [a \in Attempts |-> IF a \in ready THEN Again(a) ELSE opened[a]]
      /\ client' = [a \in Attempts |-> IF a \in ready THEN "open" ELSE client[a]]
      /\ watching' = watching \cup ready
  BY <1>4, <1>5 DEF preparedAgain, Watch
<1>8. \A a \in waiting :
         /\ OnMessage(a, m) \in {"ready", "waiting", "mismatched", "refused"}
         /\ OnMessage(a, m) = "ready" => m.type = "READY" /\ m.hash = prepared[a].hash
         /\ OnMessage(a, m) = "mismatched" =>
               (m.type = "READY" /\ m.hash # prepared[a].hash)
               \/ (m.type = "ERROR" /\ m.about = "contract")
  BY <1>3, Interpreted DEF OnMessage
<1>9. \A a \in waiting :
         /\ prepared[a] \in Prepareds /\ Sent(a)
         /\ changes = 0 => prepared[a] = new
  BY <1>5 DEF Attempted, Sent
<1>10. \A a \in waiting : Again(a) \in Prepareds \cup {Invalid}
           /\ (changes = 0 => Again(a) = prepared[a])
  BY <1>6, <1>9
<1>11. \A a \in Attempts : (handshake'[a] = "idle" <=> handshake[a] = "idle")
          /\ (handshake'[a] = "waiting" => handshake[a] = "waiting")
  BY <1>7, <1>8
<1>12. \A a \in Attempts : Sent(a)' <=> Sent(a)
  BY <1>1, <1>11 DEF Sent
<1>13. \A a \in Attempts : (First(a)' <=> First(a)) /\ (Mismatch(a)' <=> Mismatch(a))
  BY <1>1, <1>12 DEF First, Mismatch
<1>14. TypeOK'
  <2>1. handshake' \in [Attempts -> HandshakeStates]
    BY <1>7, <1>8 DEF TypeOK, HandshakeStates
  <2>2. opened' \in [Attempts -> {Nothing, Invalid} \cup Prepareds]
    BY <1>7, <1>10 DEF TypeOK
  <2>3. client' \in [Attempts -> {"none", "open", "closed", "aborted"}] /\ watching' \subseteq Attempts
    BY <1>7 DEF TypeOK
  <2> QED  BY <1>1, <1>3, <2>1, <2>2, <2>3 DEF TypeOK
<1>15. CacheFresh' /\ InOrder'
  BY <1>1, <1>11 DEF CacheFresh, InOrder
<1>16. Attempted'
  <2>1. \A a \in Attempts : handshake'[a] \notin {"idle", "invalid"}
            => handshake[a] \notin {"idle", "invalid"}
    BY <1>7
  <2>2. \A a \in Attempts : client'[a] = "open" => a \in watching'
    BY <1>7 DEF Attempted
  <2> QED  BY <1>1, <2>1, <2>2 DEF Attempted
<1>17. Mail'
  <2>1. \A i \in 1 .. Len(toWorker) : toWorker[i].rings \in Attempts
    BY Addressed DEF TypeOK
  <2> QED  BY <1>1, <1>12, <2>1 DEF Mail, Answering
<1>18. Offering'
  BY <1>1, <1>12, <1>13 DEF Offering, Answering, TypeOK
<1>19. \A x : Truthful(x)' <=> Truthful(x)
  BY <1>1, <1>13 DEF Truthful, Answering
<1>20. Answers'
  BY <1>3, <1>19 DEF Answers
<1>21. Handshakes'
  <2>1. \A a \in Attempts : \A b \in 1 .. a : b \in Attempts
    BY BootstrapAssumption DEF Attempts
  <2>2. ASSUME NEW a \in Attempts, handshake'[a] = "ready"
        PROVE  serves # NoAttempt /\ prepared[a].hash = offered.hash
               /\ (changes = 0 => opened'[a] = prepared[a])
    <3>1. CASE a \in waiting
      <4>1. a \in ready
        BY <1>7, <2>2, <3>1
      <4> QED  BY <1>3, <1>7, <1>8, <1>10, <4>1 DEF Truthful
    <3>2. CASE a \notin waiting
      BY <1>7, <2>2, <3>2 DEF Handshakes
    <3> QED  BY <3>1, <3>2
  <2>3. ASSUME NEW a \in Attempts, handshake'[a] = "mismatched"
        PROVE  Answering /\ offered \in Prepareds /\ \E b \in 1 .. a : Mismatch(b)
    <3>1. CASE a \in waiting
      <4>1. OnMessage(a, m) = "mismatched"
        BY <1>7, <2>3, <3>1
      <4>2. CASE m.type = "READY" /\ m.hash # prepared[a].hash
        <5>1. Answering /\ offered \in Prepareds /\ m.hash = offered.hash
          BY <1>3, <4>2 DEF Truthful, Offering
        <5> QED  BY <1>9, <3>1, <4>2, <5>1 DEF Mismatch, Attempts
      <4>3. CASE m.type = "ERROR" /\ m.about = "contract"
        <5>1. Answering /\ offered \in Prepareds /\ \E b \in Attempts : Mismatch(b) /\ First(b)
          BY <1>3, <4>3 DEF Truthful
        <5> QED  BY <1>9, <3>1, <5>1 DEF First, Attempts
      <4> QED  BY <1>8, <3>1, <4>1, <4>2, <4>3
    <3>2. CASE a \notin waiting
      BY <1>7, <2>3, <3>2 DEF Handshakes
    <3> QED  BY <3>1, <3>2
  <2> QED  BY <1>1, <1>13, <2>1, <2>2, <2>3 DEF Handshakes, Answering
<1> QED  BY <1>14, <1>15, <1>16, <1>17, <1>18, <1>20, <1>21

LEMMA ListenHolds ==
    ASSUME HandshakeInv, Listen
    PROVE  HandshakeInv'
<1> USE DEF HandshakeInv
<1>1. /\ worker = "loading"
      /\ UNCHANGED <<handshake, prepared, opened, client, watching, rings, toWorker, toMain, events>>
      /\ UNCHANGED <<serves, served, keepAlive, changes>>
  BY DEF Listen, mainVars
<1>2. PICK reuse \in BOOLEAN :
         /\ Remember("worker", reuse) /\ offered' = Prepared("worker", reuse)
         /\ worker' = IF offered' = Invalid THEN "over" ELSE "listening"
  BY DEF Listen
<1>3. /\ contract' \in [Sides -> Objected] /\ CacheFresh'
      /\ \A s \in Sides : contract'[s].content = contract[s].content
      /\ offered' = createPreparedContract(contract["worker"].content)
      /\ offered' \in Prepareds \cup {Invalid}
  BY <1>2, RememberHolds DEF Sides
<1>4. worker' \in {"over", "listening"} /\ (worker' = "listening" => offered' \in Prepareds)
      /\ ~Answering
  BY <1>1, <1>2, <1>3 DEF Answering
<1>5. \A a \in Attempts : (Sent(a)' <=> Sent(a)) /\ (First(a)' <=> First(a))
  BY <1>1 DEF Sent, First
<1>6. serves = NoAttempt
  BY <1>4 DEF Offering
<1>7. TypeOK'
  BY <1>1, <1>3, <1>4 DEF TypeOK, Workers
<1>8. InOrder' /\ Attempted'
  BY <1>1, <1>3 DEF InOrder, Attempted, Sides
<1>9. Mail'
  <2>1. \A i \in 1 .. Len(toWorker) : toWorker[i].rings \in Attempts
    BY Addressed DEF TypeOK
  <2> QED  BY <1>1, <1>4, <1>5, <2>1 DEF Mail, Answering
<1>10. Offering'
  BY <1>1, <1>3, <1>4, <1>6 DEF Offering, Sides
<1>11. \A x : Truthful(x) => Truthful(x)'
  BY <1>1, <1>4, <1>6 DEF Truthful, NoAttempt
<1>12. Answers'
  BY <1>1, <1>11 DEF Answers
<1>13. Handshakes'
  BY <1>1, <1>4, <1>6 DEF Handshakes
<1> QED  BY <1>3, <1>7, <1>8, <1>9, <1>10, <1>12, <1>13

(* The first BOOTSTRAP is that of the least attempt that was sent.         *)
LEMMA WorkerReceivesHolds ==
    ASSUME HandshakeInv, WorkerReceives
    PROVE  HandshakeInv'
<1> USE DEF HandshakeInv
<1> DEFINE m == Head(toWorker)
<1>1. /\ worker = "listening" /\ toWorker # <<>> /\ toWorker' = Tail(toWorker)
      /\ UNCHANGED <<handshake, prepared, opened, client, watching, rings, events, offered, contract, changes>>
  BY DEF WorkerReceives, mainVars, contractVars
<1>2. \/ ~Accepts(m) /\ Refuse("contract") /\ UNCHANGED keepAlive
      \/ Accepts(m) /\ Refuse("server") /\ keepAlive' = (platform = "Node")
      \/ /\ Accepts(m) /\ keepAlive' = (platform = "Node")
         /\ \E reuse \in BOOLEAN : Serve(m, preparedAgain(offered, contract["worker"], reuse))
  BY DEF WorkerReceives
<1>3. /\ toWorker' \in Seq(ToWorker) /\ m \in ToWorker /\ m = toWorker[1] /\ 1 \in 1 .. Len(toWorker)
      /\ \A i \in 1 .. Len(toWorker') : i + 1 \in 1 .. Len(toWorker) /\ toWorker'[i] = toWorker[i + 1]
  <2>1. toWorker \in Seq(ToWorker)
    BY DEF TypeOK
  <2> QED  BY <1>1, <2>1, Taken
<1>4. PICK b : b = m.rings
  OBVIOUS
<1>5. /\ b \in Attempts /\ Sent(b) /\ m.hash = prepared[b].hash /\ First(b) /\ ~Answering
      /\ offered \in Prepareds
      /\ changes = 0 => offered = createPreparedContract(contract["worker"].content)
  <2>1. b \in Attempts
    BY <1>3, <1>4 DEF ToWorker
  <2>2. Sent(b) /\ m.hash = prepared[b].hash
    BY <1>3, <1>4 DEF Mail
  <2>3. ~Answering
    BY <1>1 DEF Answering
  <2>4. First(b)
    BY <1>3, <1>4, <2>3 DEF Mail, First
  <2> QED  BY <1>1, <2>1, <2>2, <2>3, <2>4 DEF Offering
<1>6. serves = NoAttempt /\ \A i \in 1 .. Len(toMain) : toMain[i].type \notin {"READY", "ERROR"}
  BY <1>5 DEF Offering, Answers, Truthful
<1>7. \A a \in Attempts : handshake[a] \notin {"ready", "mismatched"}
  BY <1>5, <1>6 DEF Handshakes
<1>8. \A a \in Attempts : Sent(a)' <=> Sent(a)
  BY <1>1 DEF Sent
<1>9. \A a \in Attempts : (First(a)' <=> First(a)) /\ (Mismatch(a)' <=> Mismatch(a))
  BY <1>1, <1>8 DEF First, Mismatch
<1>10. CacheFresh' /\ InOrder' /\ Attempted' /\ Handshakes'
  BY <1>1, <1>7 DEF CacheFresh, InOrder, Attempted, Handshakes
<1>11. \A i \in 1 .. Len(toWorker') :
          /\ handshake'[toWorker'[i].rings] # "idle" /\ prepared'[toWorker'[i].rings] \in Prepareds
          /\ toWorker'[i].hash = prepared'[toWorker'[i].rings].hash
  BY <1>1, <1>3 DEF Mail, Sent
<1>12. keepAlive' \in BOOLEAN
  BY <1>2 DEF TypeOK
<1>13. \A x : x.type \notin {"READY", "ERROR"} => Truthful(x)'
  BY DEF Truthful
<1>14. toMain \in Seq(ToMain)
  BY DEF TypeOK
<1> HIDE DEF m
<1>15. ASSUME NEW about \in {"contract", "server"}, Refuse(about), about = "contract" => ~Accepts(m)
       PROVE  HandshakeInv'
  <2>1. worker' = "over" /\ toMain' = Append(toMain, Error(about)) /\ UNCHANGED <<serves, served>>
        /\ Answering'
    BY <1>15 DEF Refuse, Answering
  <2>2. Error(about) \in ToMain
    BY DEF ToMain
  <2>3. about = "contract" => Mismatch(b)
    BY <1>5, <1>15 DEF Mismatch, Accepts
  <2>4. Truthful(Error(about))'
    BY <1>1, <1>5, <1>9, <2>1, <2>3 DEF Truthful, Error
  <2>5. Answers'
    BY <1>6, <1>13, <1>14, <2>1, <2>2, <2>4, Appended DEF Answers
  <2>6. toMain' \in Seq(ToMain)
    BY <1>14, <2>1, <2>2, Appended
  <2>7. TypeOK'
    BY <1>1, <1>3, <1>12, <2>1, <2>6 DEF TypeOK, Workers
  <2>8. Mail' /\ Offering'
    BY <1>6, <1>11, <2>1 DEF Mail, Offering, Answering, Sent
  <2> QED  BY <1>10, <2>5, <2>7, <2>8
<1>16. ASSUME NEW reuse \in BOOLEAN, Accepts(m), Serve(m, preparedAgain(offered, contract["worker"], reuse))
       PROVE  HandshakeInv'
  <2>1. PICK mine : mine = preparedAgain(offered, contract["worker"], reuse)
    OBVIOUS
  <2>2. /\ worker' = "serving" /\ serves' = b /\ served' = mine /\ mine # Invalid
        /\ toMain' = Append(toMain, Ready(offered.hash)) /\ Answering'
    BY <1>4, <1>16, <2>1 DEF Serve, Answering
  <2>3. mine \in Prepareds /\ (changes = 0 => mine = offered)
    <3>1. createPreparedContract(contract["worker"].content) \in Prepareds \cup {Invalid}
      BY DEF TypeOK, Objected, Sides, Prepareds
    <3> QED  BY <1>5, <2>1, <2>2, <3>1 DEF preparedAgain
  <2>4. Ready(offered.hash) \in ToMain
    BY <1>5 DEF ToMain
  <2>5. b # NoAttempt
    BY <1>5 DEF Attempts, NoAttempt
  <2>6. PICK r : r = Ready(offered.hash)
    OBVIOUS
  <2>7. r \in ToMain /\ toMain' = Append(toMain, r) /\ Truthful(r)'
    BY <1>1, <2>2, <2>4, <2>5, <2>6 DEF Truthful, Ready
  <2>8. Answers'
    BY <1>6, <1>13, <1>14, <2>7, Appended DEF Answers
  <2>9. toMain' \in Seq(ToMain)
    BY <1>14, <2>2, <2>4, Appended
  <2>10. TypeOK'
    BY <1>1, <1>3, <1>5, <1>12, <2>2, <2>9 DEF TypeOK, Workers
  <2>11. prepared[b].hash = offered.hash
    BY <1>5, <1>16 DEF Accepts
  <2>12. Sent(b)' /\ First(b)'
    BY <1>5, <1>8, <1>9
  <2>13. Mail' /\ Offering'
    BY <1>1, <1>5, <1>11, <2>2, <2>3, <2>11, <2>12 DEF Mail, Offering, Answering, Sent, First
  <2> QED  BY <1>10, <2>8, <2>10, <2>13
<1> QED  BY <1>2, <1>15, <1>16

-----------------------------------------------------------------------------
LEMMA NextHolds == HandshakeInv /\ [Next]_vars => HandshakeInv'
<1> SUFFICES ASSUME HandshakeInv, [Next]_vars PROVE HandshakeInv'
  OBVIOUS
<1>1. CASE MainStep
  BY <1>1, MainReceivesHolds, MainQuiet DEF MainStep
<1>2. CASE WorkerStep
  BY <1>2, ListenHolds, WorkerReceivesHolds, WorkerQuiet DEF WorkerStep
<1>3. CASE ContractStep
  BY <1>3, ChangeHolds DEF ContractStep, Sides
<1>4. ASSUME NEW a \in Attempts, AttemptStep(a) PROVE HandshakeInv'
  BY <1>4, BeginHolds, MainQuiet DEF AttemptStep
<1>5. CASE UNCHANGED vars
  BY <1>5, StutterHolds
<1> QED  BY <1>1, <1>2, <1>3, <1>4, <1>5 DEF Next

(* The inductive invariant of the handshake: messages, answers and what    *)
(* each side has prepared are about the least attempt that was sent.       *)
THEOREM BootstrapInvariant == Spec => []HandshakeInv
<1> QED  BY InitHolds, NextHolds, PTL DEF Spec

(* A client that has opened has a server to itself or to an earlier        *)
(* attempt, whose methods are the client's unless a contract has changed;  *)
(* and a mismatch is reported only where methods differ                    *)
(* (interpretReadyHandshake, acceptBootstrapMessage).                      *)
THEOREM ReadyIsServed == Spec => []ReadyMeansServed
<1>1. HandshakeInv => ReadyMeansServed
  <2> SUFFICES ASSUME HandshakeInv, NEW a \in Attempts
               PROVE  /\ handshake[a] = "ready" =>
                            /\ serves \in 1 .. a
                            /\ MethodsAgree(opened[a], served) \/ opened[a] # prepared[a] \/ served # offered
                            /\ changes = 0 => opened[a] = prepared[a] /\ served = offered
                      /\ handshake[a] = "mismatched" =>
                            \E b \in 1 .. a :
                               prepared[b] # Invalid /\ ~MethodsAgree(prepared[b], offered)
    BY DEF ReadyMeansServed
  <2> USE DEF HandshakeInv
  <2>1. ASSUME handshake[a] = "ready"
        PROVE  /\ serves \in 1 .. a
               /\ MethodsAgree(opened[a], served) \/ opened[a] # prepared[a] \/ served # offered
               /\ changes = 0 => opened[a] = prepared[a] /\ served = offered
    <3>1. prepared[a] \in Prepareds /\ Sent(a)
      BY <2>1 DEF Attempted, Sent
    <3>2. /\ serves # NoAttempt /\ prepared[a].hash = offered.hash
          /\ changes = 0 => opened[a] = prepared[a] /\ served = offered
          /\ offered \in Prepareds /\ First(serves)
      BY <2>1 DEF Handshakes, Offering
    <3>3. serves \in 1 .. a
      BY <3>1, <3>2 DEF First, TypeOK, Attempts
    <3>4. MethodsAgree(prepared[a], offered)
      BY <3>1, <3>2, Agreement
    <3> QED  BY <3>2, <3>3, <3>4
  <2>2. ASSUME handshake[a] = "mismatched"
        PROVE  \E b \in 1 .. a : prepared[b] # Invalid /\ ~MethodsAgree(prepared[b], offered)
    <3>1. PICK b \in 1 .. a : Mismatch(b)
      BY <2>2 DEF Handshakes
    <3>2. prepared[b] \in Prepareds /\ prepared[b].hash # offered.hash /\ offered \in Prepareds
      BY <2>2, <3>1 DEF Mismatch, Sent, Handshakes
    <3>3. ~MethodsAgree(prepared[b], offered) /\ prepared[b] # Invalid
      BY <3>2, Agreement DEF Prepareds
    <3> QED  BY <3>3
  <2> QED  BY <2>1, <2>2
<1> QED  BY <1>1, BootstrapInvariant, PTL

(* Whatever is prepared for a client is what its contract holds at that    *)
(* moment, never a memory of what it held before (getPreparedContract).    *)
THEOREM PreparedIsCurrent == Spec => PreparedAsPassed
<1>1. HandshakeInv /\ [Next]_vars =>
         [\A a \in Attempts : prepared'[a] # prepared[a] =>
             prepared'[a] = createPreparedContract(contract["main"].content)]_vars
  <2> SUFFICES ASSUME HandshakeInv, Next, NEW a \in Attempts, prepared'[a] # prepared[a]
               PROVE  prepared'[a] = createPreparedContract(contract["main"].content)
    OBVIOUS
  <2>1. PICK b \in Attempts : Begin(b)
    BY DEF Next, MainStep, MainReceives, MessageError, Heard, WorkerStep, Listen, WorkerReceives,
           ServerClose, ServeEnds, ServeFails, Post, Throw, End, ContractStep, ChangeContract,
           AttemptStep, Timeout, ClientClose, ClientAbort, mainVars
  <2>2. PICK reuse \in BOOLEAN : Remember("main", reuse)
        /\ prepared' = [prepared EXCEPT ![b] = Prepared("main", reuse)]
    BY <2>1 DEF Begin
  <2>3. Prepared("main", reuse) = createPreparedContract(contract["main"].content)
    BY <2>2, RememberHolds DEF Sides
  <2>4. prepared \in [Attempts -> {Nothing, Invalid} \cup Prepareds]
    BY DEF HandshakeInv, TypeOK
  <2> QED  BY <2>2, <2>3, <2>4
<1> QED  BY <1>1, BootstrapInvariant, PTL DEF Spec, PreparedAsPassed

(* An error or an exit of the worker reaches every waiting handshake and   *)
(* every open client: between the listeners of the one and those of the    *)
(* other there is no gap (createNodeWorkerRpcClient).                      *)
THEOREM NothingUnheard == Spec => HeardWhileOpen
<1>1. HandshakeInv /\ [Next]_vars =>
         [events \ events' # {} =>
             \A a \in Attempts : handshake'[a] # "waiting" /\ client'[a] # "open"]_vars
  <2> SUFFICES ASSUME HandshakeInv, Next, events \ events' # {}, NEW a \in Attempts
               PROVE  handshake'[a] # "waiting" /\ client'[a] # "open"
    OBVIOUS
  <2>1. PICK e \in {"error", "exit"} : Heard(e)
    BY DEF Next, MainStep, MainReceives, MessageError, WorkerStep, Listen, WorkerReceives,
           ServerClose, ServeEnds, ServeFails, Post, Throw, End, ContractStep, ChangeContract,
           AttemptStep, Begin, Timeout, ClientClose, ClientAbort
  <2>2. client[a] = "open" => a \in watching
    BY DEF HandshakeInv, Attempted
  <2> QED  BY <2>1, <2>2 DEF Heard
<1> QED  BY <1>1, BootstrapInvariant, PTL DEF Spec, HeardWhileOpen
================================================================================

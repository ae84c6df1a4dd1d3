------------------------------- MODULE Contracts -------------------------------
(***************************************************************************)
(* Contracts and what is prepared of them (core/rpc/contract.ts).          *)
(*                                                                         *)
(* The content of a contract is the sequence of its methods in the order   *)
(* of its keys, each [method, id, request, response].  The object itself   *)
(* is [content, frozen, cached]: defineContract freezes it, and the cache  *)
(* holds what was prepared of it, or Nothing.  A plain object may go       *)
(* unfrozen, and change.  Method definitions are those of method(), which  *)
(* freezes them.                                                           *)
(*                                                                         *)
(* The hash of a description stands for the description: that different    *)
(* ones may collide in 32 bits is left out.                                *)
(***************************************************************************)
EXTENDS Naturals, Sequences

CONSTANT MaxMethodId    \* 2^32 - 1 in the code
ASSUME ContractsAssumption == MaxMethodId \in Nat \ {0}

(* A codec is [kind, signature]; one of the user's own has no signature.   *)
Unsigned == "unsigned"
describeCodec(codec) == IF codec.signature # Unsigned THEN codec.signature ELSE codec.kind

Invalid == [hash |-> "invalid"]
Nothing == [hash |-> "nothing"]

(* The keys of an object are distinct.                                     *)
HasKeys(content) == \A i, j \in DOMAIN content : content[i].method = content[j].method => i = j

IsMethodId(id) == id \in 1 .. MaxMethodId
IsValid(content) ==
    /\ \A i \in DOMAIN content : IsMethodId(content[i].id)
    /\ \A i, j \in DOMAIN content : content[i].id = content[j].id => i = j

Methods(content) == {content[i] : i \in DOMAIN content}
Ids(content) == {m.id : m \in Methods(content)}
Names(content) == {m.method : m \in Methods(content)}
WithId(content, id) == CHOOSE m \in Methods(content) : m.id = id
Named(content, name) == CHOOSE m \in Methods(content) : m.method = name

(* The description lists the methods in the order of their ids, which are  *)
(* distinct: here it has each under its id.                                *)
Described(m) ==
    [method |-> m.method, id |-> m.id, request |-> describeCodec(m.request), response |-> describeCodec(m.response)]
descriptionAsListed(content) == [i \in DOMAIN content |-> Described(content[i])]   \* a mutated form
description(content) == [id \in Ids(content) |-> Described(WithId(content, id))]

createPreparedContract(content) ==
    IF ~IsValid(content) THEN Invalid
    ELSE [hash |-> description(content),
          methodIndex |-> [id \in Ids(content) |-> WithId(content, id)],
          methodsByName |-> [name \in Names(content) |-> Named(content, name)]]

-----------------------------------------------------------------------------
(* Of an object, with preparedContractReuse as it is at that moment.       *)
Plain(content) == [content |-> content, frozen |-> FALSE, cached |-> Nothing]

defineContract(object, reuse) ==
    LET prepared == createPreparedContract(object.content)
    IN  IF prepared = Invalid THEN object
        ELSE [object EXCEPT !.frozen = TRUE, !.cached = IF reuse THEN prepared ELSE @]

getPreparedContract(object, reuse) ==
    IF reuse /\ object.cached # Nothing THEN object.cached ELSE createPreparedContract(object.content)

RememberedAlways(object, reuse) ==    \* a mutated form
    IF reuse THEN [object EXCEPT !.cached = getPreparedContract(object, reuse)] ELSE object
Remembered(object, reuse) ==
    LET prepared == getPreparedContract(object, reuse)
    IN  IF reuse /\ object.frozen /\ prepared # Invalid THEN [object EXCEPT !.cached = prepared] ELSE object

(* Of what was prepared before: taken as it is, or made again.             *)
preparedAgain(prepared, object, reuse) ==
    IF reuse THEN prepared ELSE createPreparedContract(object.content)

-----------------------------------------------------------------------------
(* What a call by name on one side finds under its id on the other.        *)
MethodsAgree(caller, callee) ==
    /\ DOMAIN caller.methodsByName = {callee.methodIndex[id].method : id \in DOMAIN callee.methodIndex}
    /\ \A name \in DOMAIN caller.methodsByName :
          LET m == caller.methodsByName[name]
          IN  /\ m.id \in DOMAIN callee.methodIndex /\ callee.methodIndex[m.id].method = name
              /\ describeCodec(callee.methodIndex[m.id].request) = describeCodec(m.request)
              /\ describeCodec(callee.methodIndex[m.id].response) = describeCodec(m.response)
================================================================================

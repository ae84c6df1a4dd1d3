----------------------------- MODULE RemoteErrors -----------------------------
(***************************************************************************)
(* How an error travels (core/rpc/remote-error.ts): what a handler threw   *)
(* becomes a payload that msgpack can encode, cut down until it fits       *)
(* (createRemoteErrorPayloadAttempts of core/rpc/server.ts), and at the    *)
(* other end an error again.                                               *)
(*                                                                         *)
(* Objects are in a heap, where they may refer to each other in circles;   *)
(* <<"ref", o>> is a reference to one.  No Error is reached from its own   *)
(* data: for one that is, the code recurses until the stack is exhausted.  *)
(***************************************************************************)
EXTENDS MsgPack
LOCAL INSTANCE SequencesExt

CONSTANTS
    Heap,          \* the objects: [is, entries, constructor]
    MaxDepth,      \* REMOTE_ERROR_MAX_DEPTH, 5 in the code
    MaxMessage     \* 256 in the code: the longest message that is not cut in the end

ASSUME RemoteErrorsAssumption ==
    /\ MaxDepth \in Nat /\ MaxMessage \in Nat \ {0}
    /\ \A o \in DOMAIN Heap : Heap[o].is \in {"error", "record", "array", "view", "date"}
    /\ MaxMessage % 4 = 0

Ref(o) == <<"ref", o>>
IsRef(v) == v[1] = "ref"
Is(v, kind) == IsRef(v) /\ Heap[v[2]].is = kind
Word(w) == <<w>>

(* The property of an object, undefined if there is none.                  *)
Get(entries, key) ==
    LET at == SelectInSeq(entries, LAMBDA entry : entry[1] = Word(key))
    IN  IF at = 0 THEN Undefined ELSE entries[at][2]
Prop(v, key) == Get(Heap[v[2]].entries, key)

describeError(v) ==
    CASE Is(v, "error") -> Prop(v, "message")[2]
      [] v[1] = "str" -> v[2]
      [] Is(v, "record") -> Word("[object Object]")
      [] OTHER -> Word("described")

IsText(v) == v[1] = "str"
normalizeRemoteErrorName(name) == IF IsText(name) /\ name[2] # <<>> THEN name ELSE Str(Word("Error"))
normalizeRemoteErrorMessage(message, original) ==
    IF IsText(message) /\ message[2] # <<>> THEN message
    ELSE IF describeError(original) \in {<<>>, Word("[object Object]")} THEN Str(Word("Unknown remote error"))
    ELSE Str(describeError(original))
IsCode(v) == IsText(v) \/ IsNumber(v)

-----------------------------------------------------------------------------
(* toTransportSafeValue, with the records it is inside of, and             *)
(* toRemoteErrorPayload, which starts again at depth 0.                    *)
Optionally(key, v) == IF v = Undefined THEN <<>> ELSE <<<<Word(key), v>>>>
Payload(name, message, stack, code, data) ==
    Obj(<<<<Word("name"), name>>, <<Word("message"), message>>>>
        \o Optionally("stack", stack) \o Optionally("code", IF IsCode(code) THEN code ELSE Undefined)
        \o Optionally("data", data))

Omitted == {"name", "message", "stack", "code", "statusCode"}

RECURSIVE toTransportSafeValue(_, _, _), toRemoteErrorPayload(_)
Safely(entries, depth, seen) ==
    [i \in DOMAIN entries |-> <<entries[i][1], toTransportSafeValue(entries[i][2], depth, seen)>>]
toTransportSafeValue(v, depth, seen) ==
    IF ~IsRef(v) THEN IF v = Unsupported THEN Str(Word("described")) ELSE v
    ELSE LET object == Heap[v[2]]
         IN  CASE object.is = "view" ->
                   Obj(<<<<Word("type"), Str(object.constructor)>>, <<Word("data"), Bytes(<<>>)>>>>)
               [] object.is = "date" -> Str(Word("described"))
               [] object.is = "error" -> toRemoteErrorPayload(v)
               [] object.is = "array" ->
                     Arr([i \in DOMAIN object.entries |->
                             IF depth >= MaxDepth THEN Str(Word("[Truncated]"))
                             ELSE toTransportSafeValue(object.entries[i][2], depth + 1, seen)])
               [] object.is = "record" ->
                     IF v[2] \in seen THEN Str(Word("[Circular]"))
                     ELSE IF depth >= MaxDepth THEN Str(Word("[Truncated]"))
                     ELSE IF object.entries = <<>> THEN Str(object.constructor)
                     ELSE Obj(Safely(object.entries, depth + 1, seen \cup {v[2]}))

toRemoteErrorPayload(v) ==
    CASE Is(v, "error") ->
            Payload(normalizeRemoteErrorName(Prop(v, "name")),
                    normalizeRemoteErrorMessage(Prop(v, "message"), v),
                    Prop(v, "stack"), Prop(v, "code"), toTransportSafeValue(Prop(v, "data"), 0, {}))
      [] Is(v, "record") ->
            LET others == SelectSeq(Heap[v[2]].entries, LAMBDA entry : entry[1][1] \notin Omitted)
                data == IF Prop(v, "data") # Undefined THEN toTransportSafeValue(Prop(v, "data"), 0, {})
                        ELSE IF others = <<>> THEN Undefined ELSE Obj(Safely(others, 0, {}))
            IN  Payload(normalizeRemoteErrorName(Prop(v, "name")),
                        IF IsText(Prop(v, "message")) THEN Prop(v, "message")
                        ELSE normalizeRemoteErrorMessage(Str(describeError(v)), v),
                        IF IsText(Prop(v, "stack")) THEN Prop(v, "stack") ELSE Undefined, Prop(v, "code"), data)
      [] OTHER ->
            Payload(Str(Word("Error")), normalizeRemoteErrorMessage(Str(describeError(v)), v),
                    Undefined, Undefined, Undefined)

-----------------------------------------------------------------------------
(* The status in the header of the frame: 0 if there is none.              *)
IsPositive(v) == v[1] = "num" /\ ~Within(v, 0, 0)
resolveErrorStatusCode(v, code) ==
    IF IsRef(v) /\ IsPositive(Prop(v, "statusCode")) THEN Prop(v, "statusCode")
    ELSE IF IsPositive(code) THEN code ELSE Num(0, 0)

truncateRemoteErrorMessage(message, max) ==
    IF Len(message[2]) <= max THEN message ELSE Str(SubSeq(message[2], 1, max - 1) \o Word("ellipsis"))

(* The payloads to try, one after the other, each without the parts that   *)
(* did not fit; one that is the same as the one before it is left out.     *)
OnlyTheWhole(payload) == <<payload>>    \* a mutated form
createRemoteErrorPayloadAttempts(payload) ==
    LET of == payload[2]
        Reduced(name, message, data) == Payload(name, message, Undefined, Get(of, "code"), data)
        Cut(name, max) == Reduced(name, truncateRemoteErrorMessage(Get(of, "message"), max), Undefined)
        hasStack == Get(of, "stack") # Undefined
        hasData == Get(of, "data") # Undefined
        candidates ==
            <<payload>>
            \o (IF hasStack THEN <<Reduced(Get(of, "name"), Get(of, "message"), Get(of, "data"))>> ELSE <<>>)
            \o (IF hasStack \/ hasData THEN <<Reduced(Get(of, "name"), Get(of, "message"), Undefined)>> ELSE <<>>)
            \o <<Cut(Get(of, "name"), MaxMessage), Cut(Get(of, "name"), MaxMessage \div 2),
                 Cut(Str(Word("Error")), MaxMessage \div 4)>>
    IN  FoldLeft(LAMBDA kept, next : IF kept # <<>> /\ Last(kept) = next THEN kept ELSE Append(kept, next),
                 <<>>, candidates)

(* createRemoteError.                                                      *)
createRemoteError(payload, status) ==
    LET of == payload[2]
    IN  [name |-> normalizeRemoteErrorName(Get(of, "name")),
         message |-> IF Get(of, "message")[2] # <<>> THEN Get(of, "message") ELSE Str(Word("Unknown remote error")),
         stack |-> Get(of, "stack"),
         code |-> IF Get(of, "code") = Undefined THEN Str(Word("SHIRIKA_REMOTE")) ELSE Get(of, "code"),
         data |-> Get(of, "data"),
         status |-> IF IsPositive(status) THEN status ELSE Undefined]
================================================================================

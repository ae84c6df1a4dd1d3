-------------------------------- MODULE Payloads -------------------------------
(***************************************************************************)
(* The payload of one frame on its way: DuplexEndpoint.writeFrame chooses  *)
(* a writer for it by codec, value and fast-path strategy, measures it,    *)
(* waits, and writes it; FrameReadView of the other thread chooses a       *)
(* reader by its own strategy and takes it apart (core/ring/endpoint.ts).  *)
(* Or the payload is the error of a handler, tried in smaller and smaller  *)
(* forms until one fits (sendErrorResponse in core/rpc/server.ts).         *)
(*                                                                         *)
(* An array, an object or a typed array may be changed by its owner while  *)
(* the send waits.  The strategy is read from the environment again at     *)
(* every step, and by each thread from its own.  The bytes are those of    *)
(* Codecs; that they are laid into the ring and taken out whole is the     *)
(* subject of Frames.                                                      *)
(***************************************************************************)
EXTENDS Codecs, RemoteErrors, FastPath
LOCAL INSTANCE FiniteSetsExt
LOCAL INSTANCE SequencesExt
LOCAL INSTANCE TLC

CONSTANTS
    Samples,    \* the sends: pairs <<codec, value>>
    Foreign,    \* payloads that another implementation sends: [codec, aligned, bytes]
    Thrown,     \* what handlers throw
    Rooms,      \* the payload bytes that a frame may have at most
    Envs        \* the environments of the threads

VARIABLES
    frame,    \* the payload and how far it has come
    cache     \* the texts whose bytes the sender's thread keeps

vars == <<frame, cache>>

Idle == [at |-> "idle"]
Init == frame = Idle /\ cache = {}

-----------------------------------------------------------------------------
(* A Uint8Array behind a prefix of 8 bytes: its length and a reserved word.*)
AlignedPrefix == 8
alignedBytesPayloadLength(v) == Len(v[2]) + AlignedPrefix
AlignedPayload(v) == Length(Len(v[2])) \o <<0, 0, 0, 0>> \o v[2]
validAlignedBytesPayload(bytes) ==
    Len(bytes) >= AlignedPrefix /\ LU32(bytes, 0) = Len(bytes) - AlignedPrefix
AlignedBody(bytes) == SubSeq(bytes, AlignedPrefix + 1, Len(bytes))

(* The writer: the codec's own checked one, or a faster one that its       *)
(* witness admits for the value.                                           *)
IsMsgPack(codec) == codec \in {MsgPackCodec, PackedCodec}
HasFastWriter(codec, env) == Prepared(codec) /\ Enabled("preparedBinaryCodecWriter", env)
InSpecializedScope(codec, v, env) ==
    IsComposite(codec) /\ Enabled("specializedCompositeWriter", env) /\ specializedMeasure(AsKnown(codec), v) # NoSize
InTrustedScope(codec, v) == ~IsComposite(codec) /\ acceptsMeasuredWriterValue(codec, v)

Writer(codec, v, env) ==
    IF IsMsgPack(codec) THEN codec[1]
    ELSE IF codec = BytesCodec /\ Enabled("validatedAlignedBytesPayload", env) THEN "aligned"
    ELSE IF ~HasFastWriter(codec, env) THEN "checked"
    ELSE IF InSpecializedScope(codec, v, env) THEN "specialized"
    ELSE IF InTrustedScope(codec, v) THEN "trusted" ELSE "checked"

Measured(writer, codec, v) ==
    CASE writer \in {"msgpack", "packed"} -> measureMsgpackValue(v)
      [] writer = "aligned" -> alignedBytesPayloadLength(v)
      [] writer = "specialized" -> specializedMeasure(AsKnown(codec), v)
      [] writer \in {"trusted", "checked"} -> measure(codec, v)

(* A msgpack codec without measure and write encodes the value here.       *)
MeasureValue ==
    /\ frame = Idle
    /\ \E sample \in Samples, env \in Envs, room \in Rooms :
          LET codec == sample[1]
              v == sample[2]
              writer == Writer(codec, v, env)
              of == [codec |-> codec, original |-> v, value |-> v]
          IN  /\ cache' = IF IsMsgPack(codec) THEN CacheAfter(cache, v) ELSE cache
              /\ frame' =
                    IF IsMsgPack(codec) /\ ~Encodable(v) THEN of @@ [at |-> "refused", why |-> "unsupported"]
                    ELSE LET size == Measured(writer, codec, v)
                         IN  IF size > room THEN of @@ [at |-> "refused", why |-> "oversize"]
                             ELSE of @@ [at |-> "measured", writer |-> writer, size |-> size]

MayBecome(v, w) ==
    /\ v # w /\ v[1] = w[1]
    /\ v[1] \in {"arr", "obj"} \/ (v[1] = "bytes" /\ Len(v[2]) = Len(w[2]))

Change ==
    /\ frame.at = "measured" /\ frame.value = frame.original
    /\ \E sample \in Samples :
          /\ sample[1] = frame.codec /\ MayBecome(frame.value, sample[2])
          /\ frame' = [frame EXCEPT !.value = sample[2]]
    /\ UNCHANGED cache

(* The bytes that are written, or none when a writer throws: one that has  *)
(* not filled the measured length exactly, and a specialized one, before   *)
(* it writes, when it measures another length than before.                 *)
Exactly(bytes, size) == IF Len(bytes) = size THEN <<bytes>> ELSE Fail
Written(writer, codec, v, size) ==
    CASE writer = "aligned" -> <<AlignedPayload(v)>>
      [] writer = "msgpack" -> IF Encodable(v) THEN Exactly(writeMsgpackValue(v), size) ELSE Fail
      [] writer = "specialized" ->
            IF specializedMeasure(AsKnown(codec), v) = size THEN Exactly(specializedBytes(AsKnown(codec), v), size)
            ELSE Fail
      [] writer \in {"trusted", "checked"} -> Exactly(write(codec, v), size)
WrittenNow(f) ==
    IF f.writer = "packed" THEN Exactly(writeMsgpackValue(f.original), f.size)
    ELSE Written(f.writer, f.codec, f.value, f.size)

Committed(codec, aligned, bytes, sent) ==
    [at |-> "committed", codec |-> codec, aligned |-> aligned, bytes |-> bytes, sent |-> sent]
Write ==
    /\ frame.at = "measured"
    /\ LET written == WrittenNow(frame)
       IN  frame' = IF written = Fail
                    THEN [at |-> "refused", why |-> "mismatch", codec |-> frame.codec,
                          original |-> frame.original, value |-> frame.value]
                    ELSE Committed(frame.codec, frame.writer = "aligned", written[1],
                                   <<IF frame.writer = "packed" THEN frame.original ELSE frame.value>>)
    /\ cache' = IF frame.writer = "msgpack" THEN CacheAfter(cache, frame.value) ELSE cache

Deliver ==
    /\ frame = Idle
    /\ \E f \in Foreign : frame' = Committed(f.codec, f.aligned, f.bytes, <<>>)
    /\ UNCHANGED cache

(* sendErrorResponse: only that a payload is too large leads to the next   *)
(* one; what is copied into it belongs to nobody else.                     *)
SendError ==
    /\ frame = Idle
    /\ \E thrown \in Thrown, room \in Rooms :
          LET payload == toRemoteErrorPayload(thrown)
              attempts == createRemoteErrorPayloadAttempts(payload)
              fitting == {i \in DOMAIN attempts : measureMsgpackValue(attempts[i]) <= room}
              tried == IF fitting = {} THEN attempts ELSE SubSeq(attempts, 1, Min(fitting))
              status == resolveErrorStatusCode(thrown, Get(payload[2], "code"))
              reply == [thrown |-> thrown, room |-> room, status |-> status]
          IN  /\ cache' = CacheAfter(cache, Arr(tried))
              /\ frame' = IF fitting = {} THEN reply @@ [at |-> "refused", why |-> "oversize"]
                          ELSE reply @@ Committed(MsgPackCodec, FALSE, writeMsgpackValue(attempts[Min(fitting)]),
                                                  <<attempts[Min(fitting)]>>)

-----------------------------------------------------------------------------
(* The receiver.  The prefix of an aligned payload is validated when the   *)
(* view is made, or else each time the payload is read.                    *)
View ==
    /\ frame.at = "committed"
    /\ \E env \in Envs :
          LET validated == Enabled("validatedFrameWitness", env)
              ranged == validated /\ frame.aligned /\ Enabled("validatedAlignedBytesPayload", env)
          IN  frame' = IF ranged /\ ~validAlignedBytesPayload(frame.bytes)
                       THEN [frame EXCEPT !.at = "done"] @@ [outcome |-> Fail]
                       ELSE [frame EXCEPT !.at = "viewed"] @@ [validated |-> validated, ranged |-> ranged]
    /\ UNCHANGED cache

alignedBytesOf(f, env) ==
    IF (f.ranged /\ Enabled("validatedAlignedBytesPayload", env)) \/ validAlignedBytesPayload(f.bytes)
    THEN <<AlignedBody(f.bytes)>> ELSE Fail
PrefixKept(f, env) == <<f.bytes>>    \* a mutated form
readPayloadBytes(f, env) ==
    IF ~f.aligned THEN <<f.bytes>>
    ELSE LET body == alignedBytesOf(f, env) IN IF body = Fail THEN Fail ELSE <<Length(Len(body[1])) \o body[1]>>

readBinary(f, env) ==
    IF f.codec = BytesCodec /\ f.aligned
    THEN LET body == alignedBytesOf(f, env) IN IF body = Fail THEN Fail ELSE <<Bytes(body[1])>>
    ELSE IF /\ f.validated /\ Enabled("readSideEncodedPayload", env)
            /\ Prepared(f.codec) /\ AsKnown(f.codec) \in Planned
    THEN validateAndDecode(AsKnown(f.codec), f.bytes)
    ELSE decodeChecked(f.codec, f.bytes)

readMsgpack(f, env) ==
    IF f.codec # PackedCodec THEN decodeMsgpack(f.bytes)
    ELSE LET bytes == readPayloadBytes(f, env) IN IF bytes = Fail THEN Fail ELSE decodeMsgpack(bytes[1])

IsErrorReply(f) == "thrown" \in DOMAIN f
Read ==
    /\ frame.at = "viewed"
    /\ \E env \in Envs :
          LET value == IF IsMsgPack(frame.codec) THEN readMsgpack(frame, env) ELSE readBinary(frame, env)
          IN  frame' = [frame EXCEPT !.at = "done"] @@
                       [outcome |-> IF IsErrorReply(frame) /\ value # Fail
                                    THEN <<createRemoteError(value[1], frame.status)>> ELSE value]
    /\ UNCHANGED cache

(* A request that the server queues is copied out of the ring and read     *)
(* when it starts (BufferedFrameView in core/rpc/server.ts), by the        *)
(* codec's own reader.                                                     *)
Buffer ==
    /\ frame.at = "viewed" /\ ~IsErrorReply(frame)
    /\ \E env \in Envs :
          LET bytes == readPayloadBytes(frame, env)
          IN  frame' = IF bytes = Fail THEN [frame EXCEPT !.at = "done"] @@ [outcome |-> Fail]
                       ELSE [frame EXCEPT !.at = "buffered"] @@ [copy |-> bytes[1]]
    /\ UNCHANGED cache

ReadBuffered ==
    /\ frame.at = "buffered"
    /\ frame' = [frame EXCEPT !.at = "done"] @@
                 [outcome |-> IF IsMsgPack(frame.codec) THEN decodeMsgpack(frame.copy)
                              ELSE decodeChecked(frame.codec, frame.copy)]
    /\ UNCHANGED cache

Finish ==
    /\ frame.at \in {"refused", "done"}
    /\ frame' = Idle /\ UNCHANGED cache

Next == MeasureValue \/ Change \/ Write \/ Deliver \/ SendError \/ View \/ Read \/ Buffer \/ ReadBuffered \/ Finish
Spec == Init /\ [][Next]_vars

-----------------------------------------------------------------------------
(* What a payload is at most to lose: text its surrogates without a        *)
(* partner and a byte order mark in front, a number what its type does not *)
(* hold, and msgpack what is undefined.                                    *)
Carried(text) ==
    LET whole == [i \in DOMAIN text |-> IF text[i] = "lone surrogate" THEN "replacement" ELSE text[i]]
    IN  IF text # <<>> /\ text[1] = "bom" THEN Tail(whole) ELSE whole

RECURSIVE AsMsgPack(_), AsBinary(_, _)
AsMsgPack(v) ==
    CASE v = Undefined -> Null
      [] v = NegativeZero -> Num(0, 0)
      [] v[1] = "str" -> Str(Carried(v[2]))
      [] v[1] = "arr" -> Arr([i \in DOMAIN v[2] |-> AsMsgPack(v[2][i])])
      [] v[1] = "obj" ->
            LET kept == SelectSeq(v[2], LAMBDA entry : entry[2] # Undefined)
            IN  Obj([i \in DOMAIN kept |-> <<Carried(kept[i][1]), AsMsgPack(kept[i][2])>>])
      [] OTHER -> v
AsBinary(codec, v) ==
    CASE codec = U8Codec -> Num(0, Half(v) % 256)
      [] codec = U16Codec -> Num(0, Half(v))
      [] codec = U32Codec -> Num(Upper(v), Half(v))
      [] codec = I32Codec -> Num(SignedUpper(Upper(v)), Half(v))
      [] codec = StringCodec -> Str(Carried(v[2]))
      [] codec[1] = "array" -> Arr([i \in DOMAIN v[2] |-> AsBinary(codec[2], v[2][i])])
      [] codec[1] = "optional" -> IF v = Undefined THEN Undefined ELSE AsBinary(codec[2], v)
      [] codec[1] = "tuple" -> Arr([i \in DOMAIN codec[2] |-> AsBinary(codec[2][i], Item(v, i))])
      [] codec[1] = "struct" ->
            Obj([i \in DOMAIN codec[2] |-> <<codec[2][i][1], AsBinary(codec[2][i][2], Field(v, codec[2][i][1]))>>])
      [] OTHER -> v
AsReceived(codec, v) == IF IsMsgPack(codec) THEN AsMsgPack(v) ELSE AsBinary(codec, v)

(* Whichever of its writers was chosen, by strategy, value and codec, what *)
(* is committed is what the codec itself would have written of the value   *)
(* as it is at that moment (or, aligned, its bytes behind the prefix).     *)
Encoding(codec, v) == IF IsMsgPack(codec) THEN writeMsgpackValue(v) ELSE write(codec, v)
CommittedAsEncoded ==
    frame.at = "committed" /\ frame.sent # <<>> =>
        frame.bytes = IF frame.aligned THEN AlignedPayload(frame.sent[1]) ELSE Encoding(frame.codec, frame.sent[1])

(* No writer disagrees with the measuring of its own codec: once a payload *)
(* was found to fit, its send fails only if it was changed on the way.     *)
FailsOnlyIfChanged ==
    frame.at = "refused" /\ frame.why = "mismatch" => frame.value # frame.original

(* What was committed arrives, and as the value that was sent, up to what  *)
(* its codec cannot carry, whatever strategies the two threads use.        *)
ReadAsSent ==
    frame.at = "done" /\ frame.sent # <<>> /\ ~IsErrorReply(frame) =>
        frame.outcome = <<AsReceived(frame.codec, frame.sent[1])>>

(* A fast reader takes and refuses the same payloads as the checked one,   *)
(* with the same value, those of another implementation included.          *)
CheckedOutcome(f) ==
    IF ~f.aligned THEN decodeChecked(f.codec, f.bytes)
    ELSE IF validAlignedBytesPayload(f.bytes) THEN <<Bytes(AlignedBody(f.bytes))>> ELSE Fail
ReadersAgree ==
    frame.at = "done" /\ ~IsErrorReply(frame) => frame.outcome = CheckedOutcome(frame)

(* What a handler throws reaches the caller as an error with its code, its *)
(* status and its message or the start of it; its data and its stack are   *)
(* lost only if the payload with them does not fit.  No reply at all is    *)
(* sent only if there is no room for the shortest one.                     *)
StartsAs(got, message) ==
    \/ got = Carried(message)
    \/ got = <<"ellipsis">>
    \/ Len(got) > 1 /\ Last(got) = "ellipsis" /\ IsPrefix(Front(got), [i \in DOMAIN message |-> message[i]])
ShortestReply(payload) ==
    Obj(<<<<Word("name"), Str(Word("Error"))>>,
          <<Word("message"), truncateRemoteErrorMessage(Get(payload[2], "message"), MaxMessage \div 4)>>>>
        \o Optionally("code", Get(payload[2], "code")))
ErrorsArrive ==
    IsErrorReply(frame) /\ frame.at \in {"done", "refused"} =>
        LET payload == toRemoteErrorPayload(frame.thrown)
            message == Get(payload[2], "message")[2]
            Kept(key, got) == Get(payload[2], key) # Undefined => got = AsMsgPack(Get(payload[2], key))
            whole == measureMsgpackValue(payload) <= frame.room
        IN  IF frame.at = "refused" THEN measureMsgpackValue(ShortestReply(payload)) > frame.room
            ELSE /\ frame.outcome # Fail
                 /\ LET error == frame.outcome[1]
                    IN  /\ Kept("code", error.code)
                        /\ error.status = IF frame.status = Num(0, 0) THEN Undefined ELSE frame.status
                        /\ IF Carried(message) = <<>> THEN error.message = Str(Word("Unknown remote error"))
                           ELSE StartsAs(error.message[2], message)
                        /\ whole => Kept("name", error.name) /\ Kept("stack", error.stack) /\ Kept("data", error.data)
================================================================================

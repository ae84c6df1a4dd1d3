-------------------------------- MODULE Codecs --------------------------------
(***************************************************************************)
(* The binary codecs (core/codec/): the primitive types and combinators as *)
(* they measure, write and read a value through the checked writers and    *)
(* readers; the witnesses that entitle some of them to a fast path; the    *)
(* specialized writers, which lay a value out a second time; and the       *)
(* specialized readers, which take it apart at fixed places.               *)
(*                                                                         *)
(* A codec is a tuple that starts with its name.  A signature is a         *)
(* sequence of tokens, and so is the key of a struct: the key is copied    *)
(* into the signature as it is, whatever tokens it is made of.             *)
(***************************************************************************)
EXTENDS MsgPack
LOCAL INSTANCE SequencesExt

CONSTANT SmallMax    \* SMALL_LENGTH_PREFIX_MAX, 255 in the code
ASSUME CodecsAssumption == SmallMax \in Nat

Void == <<"void">>
Boolean == <<"bool">>
U8Codec == <<"u8">>
U16Codec == <<"u16">>
U32Codec == <<"u32">>
I32Codec == <<"i32">>
F64Codec == <<"f64">>
StringCodec == <<"string">>
BytesCodec == <<"bytes">>
Array(item) == <<"array", item>>
Optional(item) == <<"optional", item>>
Tuple(items) == <<"tuple", items>>
Struct(fields) == <<"struct", fields>>    \* fields: a sequence of <<key, codec>>
MsgPackCodec == <<"msgpack">>
PackedCodec == <<"packed">>    \* a MsgpackCodec of the user's, with encode and decode only

(* describeCodec: what the codec was defined with, or else only its kind.  *)
RECURSIVE Signature(_)
Separated(signatures) ==
    Concat([i \in DOMAIN signatures |-> IF i = 1 THEN signatures[i] ELSE <<",">> \o signatures[i]])
Signature(codec) ==
    CASE codec[1] \in {"array", "optional"} -> <<codec[1], "(">> \o Signature(codec[2]) \o <<")">>
      [] codec[1] = "tuple" ->
            <<"tuple", "(">> \o Separated([i \in DOMAIN codec[2] |-> Signature(codec[2][i])]) \o <<")">>
      [] codec[1] = "struct" ->
            <<"struct", "(">>
            \o Separated([i \in DOMAIN codec[2] |-> codec[2][i][1] \o <<":">> \o Signature(codec[2][i][2])])
            \o <<")">>
      [] codec = PackedCodec -> <<"msgpack">>
      [] OTHER -> codec

Field(v, key) ==
    LET at == SelectInSeq(v[2], LAMBDA entry : entry[1] = key) IN IF at = 0 THEN Undefined ELSE v[2][at][2]
Item(v, i) == IF i \in DOMAIN v[2] THEN v[2][i] ELSE Undefined

-----------------------------------------------------------------------------
(* The checked path.  Numbers are cut to their width, and a double that is *)
(* no integer becomes 0 in an integer type, none of these being large.     *)
Half(v) == IF v[1] = "num" THEN v[3] ELSE 0
Upper(v) == IF v[1] = "num" THEN v[2] % 65536 ELSE 0
LE16(x) == <<x % 256, x \div 256>>
LE32(upper, lower) == LE16(lower) \o LE16(upper)
Length(n) == LE32(n \div 65536, n % 65536)

FixedSize(name) ==
    CASE name = "void" -> 0 [] name \in {"bool", "u8"} -> 1 [] name = "u16" -> 2
      [] name \in {"u32", "i32"} -> 4 [] name = "f64" -> 8
FixedNames == {"void", "bool", "u8", "u16", "u32", "i32", "f64"}

RECURSIVE measure(_, _)
measure(codec, v) ==
    CASE codec[1] \in FixedNames -> FixedSize(codec[1])
      [] codec = StringCodec -> 4 + utf8ByteLength(v[2])
      [] codec = BytesCodec -> 4 + Len(v[2])
      [] codec[1] = "array" -> 4 + Total([i \in DOMAIN v[2] |-> measure(codec[2], v[2][i])])
      [] codec[1] = "optional" -> IF v = Undefined THEN 1 ELSE 1 + measure(codec[2], v)
      [] codec[1] = "tuple" -> Total([i \in DOMAIN codec[2] |-> measure(codec[2][i], Item(v, i))])
      [] codec[1] = "struct" ->
            Total([i \in DOMAIN codec[2] |-> measure(codec[2][i][2], Field(v, codec[2][i][1]))])

RECURSIVE write(_, _)
write(codec, v) ==
    CASE codec = Void -> <<>>
      [] codec = Boolean -> <<IF v[2] THEN 1 ELSE 0>>
      [] codec = U8Codec -> <<Half(v) % 256>>
      [] codec = U16Codec -> LE16(Half(v))
      [] codec \in {U32Codec, I32Codec} -> LE32(Upper(v), Half(v))
      [] codec = F64Codec -> Reverse(F64(v))
      [] codec = StringCodec -> Length(utf8ByteLength(v[2])) \o encodeUtf8(v[2])
      [] codec = BytesCodec -> Length(Len(v[2])) \o v[2]
      [] codec[1] = "array" -> Length(Len(v[2])) \o Concat([i \in DOMAIN v[2] |-> write(codec[2], v[2][i])])
      [] codec[1] = "optional" -> IF v = Undefined THEN <<0>> ELSE <<1>> \o write(codec[2], v)
      [] codec[1] = "tuple" -> Concat([i \in DOMAIN codec[2] |-> write(codec[2][i], Item(v, i))])
      [] codec[1] = "struct" ->
            Concat([i \in DOMAIN codec[2] |-> write(codec[2][i][2], Field(v, codec[2][i][1]))])

LU16(bytes, p) == bytes[p + 1] + 256 * bytes[p + 2]
LU32(bytes, p) ==
    IF LU16(bytes, p + 2) >= 16384 THEN 1073741824 ELSE LU16(bytes, p + 2) * 65536 + LU16(bytes, p)
SignedUpper(upper) == IF upper >= 32768 THEN upper - 65536 ELSE upper

ReadPrimitive(name, bytes, p) ==
    CASE name = "void" -> Undefined
      [] name = "bool" -> Bool(bytes[p + 1] # 0)
      [] name = "u8" -> Num(0, bytes[p + 1])
      [] name = "u16" -> Num(0, LU16(bytes, p))
      [] name = "u32" -> Num(LU16(bytes, p + 2), LU16(bytes, p))
      [] name = "i32" -> Num(SignedUpper(LU16(bytes, p + 2)), LU16(bytes, p))
      [] name = "f64" -> FromF64(Reverse(SubSeq(bytes, p + 1, p + 8)))

RECURSIVE read(_, _, _), readEach(_, _, _)
readEach(codecs, bytes, p) ==    \* one value after the other: <<values, position>>
    IF codecs = <<>> THEN <<<<>>, p>>
    ELSE LET first == read(Head(codecs), bytes, p)
             rest == IF first = Fail THEN Fail ELSE readEach(Tail(codecs), bytes, first[2])
         IN  IF rest = Fail THEN Fail ELSE <<<<first[1]>> \o rest[1], rest[2]>>
Then(result, Make(_)) == IF result = Fail THEN Fail ELSE <<Make(result[1]), result[2]>>
read(codec, bytes, p) ==
    CASE codec[1] \in FixedNames ->
            IF Has(bytes, p, FixedSize(codec[1]))
            THEN <<ReadPrimitive(codec[1], bytes, p), p + FixedSize(codec[1])>> ELSE Fail
      [] codec = StringCodec -> IF Has(bytes, p, 4) THEN TakeText(bytes, p + 4, LU32(bytes, p)) ELSE Fail
      [] codec = BytesCodec -> IF Has(bytes, p, 4) THEN TakeBytes(bytes, p + 4, LU32(bytes, p)) ELSE Fail
      [] codec[1] = "array" ->    \* each item takes a byte at least, so a length beyond the payload fails
            IF Has(bytes, p, 4) /\ Has(bytes, p + 4, LU32(bytes, p))
            THEN Then(readEach([i \in 1 .. LU32(bytes, p) |-> codec[2]], bytes, p + 4), Arr) ELSE Fail
      [] codec[1] = "optional" ->
            IF ~Has(bytes, p, 1) THEN Fail
            ELSE IF bytes[p + 1] # 0 THEN read(codec[2], bytes, p + 1) ELSE <<Undefined, p + 1>>
      [] codec[1] = "tuple" -> Then(readEach(codec[2], bytes, p), Arr)
      [] codec[1] = "struct" ->
            Then(readEach([i \in DOMAIN codec[2] |-> codec[2][i][2]], bytes, p),
                 LAMBDA values : Obj([i \in DOMAIN values |-> <<codec[2][i][1], values[i]>>]))

(* readBinary on the checked path: the reader must end where the payload does. *)
decodeChecked(codec, bytes) ==
    IF codec \in {MsgPackCodec, PackedCodec} THEN decodeMsgpack(bytes) ELSE Whole(read(codec, bytes, 0), bytes)

-----------------------------------------------------------------------------
(* Witnesses: a codec of the package has one if its signature is on the    *)
(* list and its components have theirs.                                    *)
PairU8 == Tuple(<<Boolean, U8Codec>>)
PairU16 == Tuple(<<Boolean, U16Codec>>)
Simple == Struct(<<<<<<"tag">>, U8Codec>>, <<<<"count">>, U16Codec>>, <<<<"ok">>, Boolean>>>>)
Nested == Struct(<<<<<<"tag">>, U8Codec>>, <<<<"maybePayload">>, Optional(BytesCodec)>>,
                   <<<<"pairs">>, Array(PairU8)>>>>)
Primitives == {Void, Boolean, U8Codec, U16Codec, U32Codec, I32Codec}
Selected == {PairU8, PairU16, Optional(U8Codec), Optional(BytesCodec), Array(U8Codec), Array(PairU8), Simple, Nested}
Known == Primitives \cup Selected \cup {BytesCodec}

Components(codec) ==
    CASE codec[1] \in {"array", "optional"} -> {codec[2]}
      [] codec[1] = "tuple" -> {codec[2][i] : i \in DOMAIN codec[2]}
      [] codec[1] = "struct" -> {codec[2][i][2] : i \in DOMAIN codec[2]}
      [] OTHER -> {}
IsComposite(codec) == Components(codec) # {}

RECURSIVE Prepared(_)
Prepared(codec) ==
    /\ \E known \in Known : Signature(known) = Signature(codec)
    /\ \A component \in Components(codec) : Prepared(component)
AsKnown(codec) == CHOOSE known \in Known : Signature(known) = Signature(codec)

-----------------------------------------------------------------------------
(* Specialized writers: their own measure, NoSize for a value they do not  *)
(* take, and their own bytes.  Before the first of these they measure the  *)
(* value again.                                                            *)
NoSize == -1
IsBounded(v, max) == IsNumber(v) /\ IsInteger(v) /\ AsInteger(v)[2] = 0 /\ AsInteger(v)[3] <= max
IsBool(v) == v[1] = "bool"
IsTuple(v, n) == v[1] = "arr" /\ Len(v[2]) = n
IsSmallArray(v) == v[1] = "arr" /\ Len(v[2]) <= SmallMax
IsSmallBytes(v) == v[1] = "bytes" /\ Len(v[2]) <= SmallMax
IsPairU8(v) == IsTuple(v, 2) /\ IsBool(v[2][1]) /\ IsBounded(v[2][2], 255)
IsPairU16(v) == IsTuple(v, 2) /\ IsBool(v[2][1]) /\ IsBounded(v[2][2], 65535)

measureOptionalBytes(v) == IF v = Undefined THEN 1 ELSE IF IsSmallBytes(v) THEN 1 + 4 + Len(v[2]) ELSE NoSize
measureArrayPairU8(v) ==
    IF IsSmallArray(v) /\ \A i \in DOMAIN v[2] : IsPairU8(v[2][i]) THEN 4 + Len(v[2]) * 2 ELSE NoSize
measureNested(v) ==
    IF v[1] # "obj" \/ ~IsBounded(Field(v, <<"tag">>), 255) THEN NoSize
    ELSE LET payload == measureOptionalBytes(Field(v, <<"maybePayload">>))
             pairs == measureArrayPairU8(Field(v, <<"pairs">>))
         IN  IF NoSize \in {payload, pairs} THEN NoSize ELSE 1 + payload + pairs

specializedMeasure(known, v) ==
    CASE known = PairU8 -> IF IsPairU8(v) THEN 2 ELSE NoSize
      [] known = PairU16 -> IF IsPairU16(v) THEN 3 ELSE NoSize
      [] known = Optional(U8Codec) -> IF v = Undefined THEN 1 ELSE IF IsBounded(v, 255) THEN 2 ELSE NoSize
      [] known = Optional(BytesCodec) -> measureOptionalBytes(v)
      [] known = Array(U8Codec) ->
            IF IsSmallArray(v) /\ \A i \in DOMAIN v[2] : IsBounded(v[2][i], 255) THEN 4 + Len(v[2]) ELSE NoSize
      [] known = Array(PairU8) -> measureArrayPairU8(v)
      [] known = Simple ->
            IF v[1] = "obj" /\ IsBounded(Field(v, <<"tag">>), 255) /\ IsBounded(Field(v, <<"count">>), 65535)
               /\ IsBool(Field(v, <<"ok">>))
            THEN 4 ELSE NoSize
      [] known = Nested -> measureNested(v)

FlagByte(v) == IF v[2] THEN 1 ELSE 0
LowByte(v) == AsInteger(v)[3]
PairBytesSwapped(v) == <<LowByte(v[2][2]), FlagByte(v[2][1])>>    \* a mutated form
PairBytes(v) == <<FlagByte(v[2][1]), LowByte(v[2][2])>>
OptionalBytes(v) == IF v = Undefined THEN <<0>> ELSE <<1>> \o Length(Len(v[2])) \o v[2]
ArrayPairBytes(v) == Length(Len(v[2])) \o Concat([i \in DOMAIN v[2] |-> PairBytes(v[2][i])])
specializedBytes(known, v) ==
    CASE known = PairU8 -> PairBytes(v)
      [] known = PairU16 -> <<FlagByte(v[2][1])>> \o LE16(LowByte(v[2][2]))
      [] known = Optional(U8Codec) -> IF v = Undefined THEN <<0>> ELSE <<1, LowByte(v)>>
      [] known = Optional(BytesCodec) -> OptionalBytes(v)
      [] known = Array(U8Codec) -> Length(Len(v[2])) \o [i \in DOMAIN v[2] |-> LowByte(v[2][i])]
      [] known = Array(PairU8) -> ArrayPairBytes(v)
      [] known = Simple ->
            <<LowByte(Field(v, <<"tag">>))>> \o LE16(LowByte(Field(v, <<"count">>)))
                \o <<FlagByte(Field(v, <<"ok">>))>>
      [] known = Nested ->
            <<LowByte(Field(v, <<"tag">>))>> \o OptionalBytes(Field(v, <<"maybePayload">>))
            \o ArrayPairBytes(Field(v, <<"pairs">>))

(* The values for which a primitive may be written without checks.         *)
acceptsMeasuredWriterValue(known, v) ==
    CASE known = Void -> v = Undefined
      [] known = Boolean -> TRUE
      [] known = U8Codec -> IsBounded(v, 255)
      [] known = U16Codec -> IsBounded(v, 65535)
      [] known = U32Codec -> IsNumber(v) /\ IsInteger(v) /\ AsInteger(v)[2] \in 0 .. 65535
      [] known = I32Codec -> IsNumber(v) /\ IsInteger(v) /\ AsInteger(v)[2] \in -32768 .. 32767
      [] known = BytesCodec -> Len(v[2]) <= SmallMax

-----------------------------------------------------------------------------
(* Specialized readers: a plan of sizes that must add up to the payload,   *)
(* then each part from its own place.                                      *)
Planned == Primitives \cup {PairU8, PairU16, Simple}
Plan(known) ==
    CASE known = Void -> <<>>
      [] known \in {Boolean, U8Codec} -> <<1>>
      [] known = U16Codec -> <<2>>
      [] known \in {U32Codec, I32Codec} -> <<4>>
      [] known = PairU8 -> <<1, 1>>
      [] known = PairU16 -> <<1, 2>>
      [] known = Simple -> <<1, 2, 1>>

FitsInPayload(plan, bytes) == Total(plan) <= Len(bytes)    \* a mutated form
FillsPayload(plan, bytes) == Total(plan) = Len(bytes)
validateAndDecode(known, bytes) ==
    IF ~FillsPayload(Plan(known), bytes) THEN Fail
    ELSE LET BoolAt(p) == Bool(bytes[p + 1] # 0)
             U8At(p) == Num(0, bytes[p + 1])
             U16At(p) == Num(0, LU16(bytes, p))
         IN  CASE known = Void -> <<Undefined>>
               [] known = Boolean -> <<BoolAt(0)>>
               [] known = U8Codec -> <<U8At(0)>>
               [] known = U16Codec -> <<U16At(0)>>
               [] known = U32Codec -> <<Num(LU16(bytes, 2), LU16(bytes, 0))>>
               [] known = I32Codec -> <<Num(SignedUpper(LU16(bytes, 2)), LU16(bytes, 0))>>
               [] known = PairU8 -> <<Arr(<<BoolAt(0), U8At(1)>>)>>
               [] known = PairU16 -> <<Arr(<<BoolAt(0), U16At(1)>>)>>
               [] known = Simple ->
                    <<Obj(<<<<<<"tag">>, U8At(0)>>, <<<<"count">>, U16At(1)>>, <<<<"ok">>, BoolAt(3)>>>>)>>
================================================================================

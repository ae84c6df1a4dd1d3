-------------------------------- MODULE MsgPack --------------------------------
(***************************************************************************)
(* The msgpack codec (core/codec/msgpack.ts) and the text it carries       *)
(* (core/utf8.ts): what is measured, what is written and what is read, as  *)
(* three separate translations, because the code has them as three.        *)
(*                                                                         *)
(* A value is a tuple that starts with its kind.  A number is an integer   *)
(* of any size in two halves, hi * 2^16 + lo, or a double that is none.    *)
(* Bytes stands for the bytes of any typed array or ArrayBuffer, which are *)
(* written alike.  A text is a sequence of characters; an object is the    *)
(* sequence of its entries <<key, value>>.  A read is at a position, the   *)
(* number of bytes read before it, and gives <<value, position>> or Fail.  *)
(***************************************************************************)
EXTENDS Integers, Sequences, FiniteSets
LOCAL INSTANCE SequencesExt

Null == <<"null">>
Undefined == <<"undefined">>
Unsupported == <<"function">>    \* a function, a symbol or a bigint
Bool(b) == <<"bool", b>>
Num(hi, lo) == <<"num", hi, lo>>
Double(name) == <<"double", name>>
Str(text) == <<"str", text>>
Bytes(bytes) == <<"bytes", bytes>>
Arr(items) == <<"arr", items>>
Obj(entries) == <<"obj", entries>>

Fail == <<>>
IsNumber(v) == v[1] \in {"num", "double"}
Concat(seqs) == FlattenSeq(seqs)
Total(sizes) == FoldSeq(LAMBDA size, sum : size + sum, 0, sizes)

-----------------------------------------------------------------------------
(* Text.  A name that is only told apart from others is one character.     *)
(* TextEncoder replaces a lone surrogate; TextDecoder drops a byte order   *)
(* mark at the start.                                                      *)
Words == <<"a", "b", "name", "message", "stack", "code", "data", "statusCode", "type", "self", "Error",
           "[Circular]", "[Truncated]", "[Object]", "described", "[object Object]", "Unknown remote error",
           "Invalid", "view">>
Marked == <<<<"eacute", <<195, 169>>>>, <<"ellipsis", <<226, 128, 166>>>>, <<"bom", <<239, 187, 191>>>>,
            <<"replacement", <<239, 191, 189>>>>, <<"lone surrogate", <<239, 191, 189>>>>>>
Utf8(char) ==
    LET word == SelectInSeq(Words, LAMBDA w : w = char)
    IN  IF word # 0 THEN <<96 + word>> ELSE Marked[SelectInSeq(Marked, LAMBDA m : m[1] = char)][2]

encodeUtf8(text) ==
    LET units == [i \in DOMAIN text |-> Utf8(text[i])]
    IN  IF \A i \in DOMAIN units : Len(units[i]) = 1 THEN [i \in DOMAIN units |-> units[i][1]] ELSE Concat(units)
utf8ByteLength(text) == Len(encodeUtf8(text))

RECURSIVE Characters(_)
Characters(bytes) ==
    IF \A i \in DOMAIN bytes : bytes[i] < 128 THEN [i \in DOMAIN bytes |-> Words[bytes[i] - 96]]
    ELSE LET at == SelectInSeq(Marked, LAMBDA m : IsPrefix(m[2], bytes))
         IN  IF at = 0 THEN <<Words[bytes[1] - 96]>> \o Characters(Tail(bytes))
             ELSE <<Marked[at][1]>> \o Characters(SubSeq(bytes, Len(Marked[at][2]) + 1, Len(bytes)))
WithoutMark(text) == IF text # <<>> /\ text[1] = "bom" THEN Tail(text) ELSE text
decodeUtf8(bytes) == WithoutMark(Characters(bytes))

-----------------------------------------------------------------------------
(* Numbers.  The eight bytes of a double are any that tell it apart.       *)
NegativeZero == Double("-0")
Within(n, hi, lo) == n[2] < hi \/ (n[2] = hi /\ n[3] <= lo)    \* n <= hi * 2^16 + lo
Below(n, hi, lo) == n[2] < hi \/ (n[2] = hi /\ n[3] < lo)
IsInteger(n) == n[1] = "num" \/ n = NegativeZero
AsInteger(n) == IF n = NegativeZero THEN Num(0, 0) ELSE n

DoubleNames == <<"-0", "half", "NaN", "Infinity">>
BE16(x) == <<x \div 256, x % 256>>
BE32(n) == BE16(n[2] % 65536) \o BE16(n[3])
F64(n) ==
    IF n[1] = "double" THEN <<127, CHOOSE i \in DOMAIN DoubleNames : DoubleNames[i] = n[2], 0, 0, 0, 0, 0, 0>>
    ELSE <<67, IF n[2] < 0 THEN 1 ELSE 0>> \o BE16(n[2] \div 65536 + 32768) \o BE16(n[2] % 65536) \o BE16(n[3])
FromF64(b) ==
    IF b[1] = 127 THEN Double(DoubleNames[b[2]])
    ELSE Num((b[3] * 256 + b[4] - 32768) * 65536 + b[5] * 256 + b[6], b[7] * 256 + b[8])

measureNumber(n) ==
    IF ~IsInteger(n) THEN 9
    ELSE LET i == AsInteger(n)
         IN  IF i[2] >= 0
             THEN IF Within(i, 0, 127) THEN 1 ELSE IF Within(i, 0, 255) THEN 2
                  ELSE IF Within(i, 0, 65535) THEN 3 ELSE IF Within(i, 65535, 65535) THEN 5 ELSE 9
             ELSE IF ~Below(i, -1, 65504) THEN 1 ELSE IF ~Below(i, -1, 65408) THEN 2
                  ELSE IF ~Below(i, -1, 32768) THEN 3 ELSE IF ~Below(i, -32768, 0) THEN 5 ELSE 9

writeNumber(n) ==
    LET i == AsInteger(n)
    IN  CASE ~IsInteger(n) \/ ~Within(i, 65535, 65535) \/ Below(i, -32768, 0) -> <<203>> \o F64(n)
          [] IsInteger(n) /\ i[2] >= 0 /\ Within(i, 0, 127) -> <<i[3]>>
          [] IsInteger(n) /\ i[2] = 0 /\ i[3] \in 128 .. 255 -> <<204, i[3]>>
          [] IsInteger(n) /\ i[2] = 0 /\ i[3] \in 256 .. 65535 -> <<205>> \o BE16(i[3])
          [] IsInteger(n) /\ i[2] \in 1 .. 65535 -> <<206>> \o BE32(i)
          [] IsInteger(n) /\ i[2] = -1 /\ i[3] >= 65504 -> <<i[3] - 65280>>
          [] IsInteger(n) /\ i[2] = -1 /\ i[3] \in 65408 .. 65503 -> <<208, i[3] % 256>>
          [] IsInteger(n) /\ i[2] = -1 /\ i[3] \in 32768 .. 65407 -> <<209>> \o BE16(i[3])
          [] IsInteger(n) /\ i[2] < 0 /\ Below(i, -1, 32768) /\ ~Below(i, -32768, 0) -> <<210>> \o BE32(i)

-----------------------------------------------------------------------------
(* Headers: the length of one, and its bytes.                              *)
measureStringHeaderTo32(n) ==    \* a mutated form
    IF n <= 32 THEN 1 ELSE IF n <= 255 THEN 2 ELSE IF n <= 65535 THEN 3 ELSE 5
measureStringHeader(n) == IF n <= 31 THEN 1 ELSE IF n <= 255 THEN 2 ELSE IF n <= 65535 THEN 3 ELSE 5
measureBinaryHeader(n) == IF n <= 255 THEN 2 ELSE IF n <= 65535 THEN 3 ELSE 5
measureContainerHeader(n) == IF n <= 15 THEN 1 ELSE IF n <= 65535 THEN 3 ELSE 5

Length32(n) == BE32(Num(n \div 65536, n % 65536))
StringHeader(n) ==
    IF n <= 31 THEN <<160 + n>> ELSE IF n <= 255 THEN <<217, n>>
    ELSE IF n <= 65535 THEN <<218>> \o BE16(n) ELSE <<219>> \o Length32(n)
BinaryHeader(n) ==
    IF n <= 255 THEN <<196, n>> ELSE IF n <= 65535 THEN <<197>> \o BE16(n) ELSE <<198>> \o Length32(n)
ContainerHeader(n, fix, marker16, marker32) ==
    IF n <= 15 THEN <<fix + n>> ELSE IF n <= 65535 THEN <<marker16>> \o BE16(n) ELSE <<marker32>> \o Length32(n)

writeString(text) == StringHeader(utf8ByteLength(text)) \o encodeUtf8(text)

-----------------------------------------------------------------------------
(* Values.  An entry that is undefined is left out of its object, an item  *)
(* that is undefined is written as null.                                   *)
Present(entries) == SelectSeq(entries, LAMBDA entry : entry[2] # Undefined)

RECURSIVE Encodable(_)
Encodable(v) ==
    CASE v[1] = "arr" -> \A i \in DOMAIN v[2] : Encodable(v[2][i])
      [] v[1] = "obj" -> \A i \in DOMAIN v[2] : Encodable(v[2][i][2])
      [] OTHER -> v # Unsupported

RECURSIVE measureMsgpackValue(_)
measureMsgpackValue(v) ==
    CASE v[1] \in {"null", "undefined", "bool"} -> 1
      [] IsNumber(v) -> measureNumber(v)
      [] v[1] = "str" -> measureStringHeader(utf8ByteLength(v[2])) + utf8ByteLength(v[2])
      [] v[1] = "bytes" -> measureBinaryHeader(Len(v[2])) + Len(v[2])
      [] v[1] = "arr" ->
            measureContainerHeader(Len(v[2])) + Total([i \in DOMAIN v[2] |-> measureMsgpackValue(v[2][i])])
      [] v[1] = "obj" ->
            LET entries == Present(v[2])
            IN  measureContainerHeader(Len(entries)) +
                Total([i \in DOMAIN entries |->
                          measureStringHeader(utf8ByteLength(entries[i][1])) + utf8ByteLength(entries[i][1])
                              + measureMsgpackValue(entries[i][2])])

RECURSIVE writeMsgpackValue(_)
writeMsgpackValue(v) ==
    CASE v \in {Null, Undefined} -> <<192>>
      [] v[1] = "bool" -> <<IF v[2] THEN 195 ELSE 194>>
      [] IsNumber(v) -> writeNumber(v)
      [] v[1] = "str" -> writeString(v[2])
      [] v[1] = "bytes" -> BinaryHeader(Len(v[2])) \o v[2]
      [] v[1] = "arr" ->
            ContainerHeader(Len(v[2]), 144, 220, 221) \o
            Concat([i \in DOMAIN v[2] |-> writeMsgpackValue(v[2][i])])
      [] v[1] = "obj" ->
            LET entries == Present(v[2])
            IN  ContainerHeader(Len(entries), 128, 222, 223) \o
                Concat([i \in DOMAIN entries |-> writeString(entries[i][1]) \o writeMsgpackValue(entries[i][2])])

-----------------------------------------------------------------------------
MaxContainerLength == 1000000
Has(bytes, p, n) == p + n <= Len(bytes)
U16(bytes, p) == bytes[p + 1] * 256 + bytes[p + 2]
(* A length in four bytes; from 2^30 on, which no payload has, it is 2^30. *)
U32(bytes, p) == IF U16(bytes, p) >= 16384 THEN 1073741824 ELSE U16(bytes, p) * 65536 + U16(bytes, p + 2)

TakeBytes(bytes, p, n) == IF Has(bytes, p, n) THEN <<Bytes(SubSeq(bytes, p + 1, p + n)), p + n>> ELSE Fail
TakeText(bytes, p, n) ==
    IF Has(bytes, p, n) THEN <<Str(decodeUtf8(SubSeq(bytes, p + 1, p + n))), p + n>> ELSE Fail
ContainerFits(bytes, p, n, minimumBytesPerEntry) ==
    n <= MaxContainerLength /\ Has(bytes, p, n * minimumBytesPerEntry)

(* The key of an entry as String() has it, and assignment to it.           *)
AsKey(v) == IF v[1] = "str" THEN v[2] ELSE <<"String()", v>>
Assign(entries, key, v) ==
    LET at == SelectInSeq(entries, LAMBDA entry : entry[1] = key)
    IN  IF at = 0 THEN Append(entries, <<key, v>>) ELSE [entries EXCEPT ![at] = <<key, v>>]
Assigned(pairs) == FoldLeft(LAMBDA entries, pair : Assign(entries, pair[1], pair[2]), <<>>, pairs)

RECURSIVE readMsgpackValue(_, _), readItems(_, _, _)
readItems(bytes, p, n) ==
    IF n = 0 THEN <<<<>>, p>>
    ELSE LET item == readMsgpackValue(bytes, p)
             rest == IF item = Fail THEN Fail ELSE readItems(bytes, item[2], n - 1)
         IN  IF rest = Fail THEN Fail ELSE <<<<item[1]>> \o rest[1], rest[2]>>

readArray(bytes, p, n) ==
    LET items == IF ContainerFits(bytes, p, n, 1) THEN readItems(bytes, p, n) ELSE Fail
    IN  IF items = Fail THEN Fail ELSE <<Arr(items[1]), items[2]>>
readMap(bytes, p, n) ==
    LET items == IF ContainerFits(bytes, p, n, 2) THEN readItems(bytes, p, 2 * n) ELSE Fail
    IN  IF items = Fail THEN Fail
        ELSE <<Obj(Assigned([i \in 1 .. n |-> <<AsKey(items[1][2 * i - 1]), items[1][2 * i]>>])), items[2]>>

Sized(bytes, p, width, Read(_, _, _)) ==    \* a length of that width and what it is the length of
    IF ~Has(bytes, p, width) THEN Fail
    ELSE Read(bytes, p + width,
              CASE width = 1 -> bytes[p + 1] [] width = 2 -> U16(bytes, p) [] width = 4 -> U32(bytes, p))

SignedAbove(x, bits) == IF x > 2 ^ (bits - 1) THEN x - 2 ^ bits ELSE x    \* a mutated form
Signed(x, bits) == IF x >= 2 ^ (bits - 1) THEN x - 2 ^ bits ELSE x
Small(x) == Num(IF x < 0 THEN -1 ELSE 0, x % 65536)
readMsgpackValue(bytes, p) ==
    IF ~Has(bytes, p, 1) THEN Fail
    ELSE LET marker == bytes[p + 1]
             q == p + 1
             Number(width, value) == IF Has(bytes, q, width) THEN <<value, q + width>> ELSE Fail
         IN  CASE marker <= 127 -> <<Num(0, marker), q>>
               [] marker >= 224 -> <<Small(marker - 256), q>>
               [] marker \in 128 .. 143 -> readMap(bytes, q, marker - 128)
               [] marker \in 144 .. 159 -> readArray(bytes, q, marker - 144)
               [] marker \in 160 .. 191 -> TakeText(bytes, q, marker - 160)
               [] marker = 192 -> <<Null, q>>
               [] marker \in {194, 195} -> <<Bool(marker = 195), q>>
               [] marker \in {196, 197, 198} -> Sized(bytes, q, 2 ^ (marker - 196), TakeBytes)
               [] marker = 203 -> IF Has(bytes, q, 8) THEN <<FromF64(SubSeq(bytes, q + 1, q + 8)), q + 8>> ELSE Fail
               [] marker = 204 -> Number(1, Num(0, bytes[q + 1]))
               [] marker = 205 -> Number(2, Num(0, U16(bytes, q)))
               [] marker = 206 -> Number(4, Num(U16(bytes, q), U16(bytes, q + 2)))
               [] marker = 208 -> Number(1, Small(Signed(bytes[q + 1], 8)))
               [] marker = 209 -> Number(2, Small(Signed(U16(bytes, q), 16)))
               [] marker = 210 -> Number(4, Num(Signed(U16(bytes, q), 16), U16(bytes, q + 2)))
               [] marker \in {217, 218, 219} -> Sized(bytes, q, 2 ^ (marker - 217), TakeText)
               [] marker \in {220, 221} -> Sized(bytes, q, 2 * (marker - 219), readArray)
               [] marker \in {222, 223} -> Sized(bytes, q, 2 * (marker - 221), readMap)
               [] marker \in {193, 199, 200, 201, 202, 207, 211, 212, 213, 214, 215, 216} -> Fail

(* decode: the value, if it takes up all of the bytes.                     *)
Whole(read, bytes) == IF read # Fail /\ read[2] = Len(bytes) THEN <<read[1]>> ELSE Fail
decodeMsgpack(bytes) == Whole(readMsgpackValue(bytes, 0), bytes)

-----------------------------------------------------------------------------
(* getUtf8Bytes keeps the bytes of short texts, and forgets all of them    *)
(* when there would be too many.                                           *)
CONSTANTS CacheMaxLength, CacheMaxEntries    \* 64 and 256 in the code
ASSUME CacheAssumption == CacheMaxLength \in Nat /\ CacheMaxEntries \in Nat \ {0}

Remember(cache, text) ==
    IF Len(text) > CacheMaxLength \/ text \in cache THEN cache
    ELSE IF Cardinality(cache) >= CacheMaxEntries THEN {text} ELSE cache \cup {text}

RECURSIVE Texts(_)
Texts(v) ==    \* those a walk over the value asks the bytes of, in order
    CASE v[1] = "str" -> <<v[2]>>
      [] v[1] = "arr" -> Concat([i \in DOMAIN v[2] |-> Texts(v[2][i])])
      [] v[1] = "obj" -> LET entries == Present(v[2])
                         IN  Concat([i \in DOMAIN entries |-> <<entries[i][1]>> \o Texts(entries[i][2])])
      [] OTHER -> <<>>
CacheAfter(cache, v) == FoldLeft(Remember, cache, Texts(v))
================================================================================

------------------------------- MODULE MCPayloads ------------------------------
(* Payloads with values at the edges of each codec, in every environment   *)
(* that tells two paths apart.                                             *)
EXTENDS Payloads

N(n) == Num(IF n < 0 THEN -1 ELSE 0, n % 65536)
Repeat(x, n) == [i \in 1 .. n |-> x]
Yes == Bool(TRUE)
No == Bool(FALSE)
Pair(b, n) == Arr(<<b, N(n)>>)
SimpleOf(tag, count) == Obj(<<<<<<"tag">>, N(tag)>>, <<<<"count">>, N(count)>>, <<<<"ok">>, Yes>>>>)
NestedOf(tag, bytes, pairs) ==
    Obj(<<<<<<"tag">>, N(tag)>>, <<<<"maybePayload">>, bytes>>, <<<<"pairs">>, Arr(pairs)>>>>)

Of(codec, values) == {<<codec, v>> : v \in values}
TextArray == Array(StringCodec)
Mixed == Struct(<<<<<<"a">>, Optional(F64Codec)>>, <<<<"b">>, Tuple(<<U16Codec, StringCodec>>)>>>>)
MixedOf(a, n, text) == Obj(<<<<<<"b">>, Arr(<<N(n), Str(text)>>)>>, <<<<"a">>, a>>>>)

BinarySamples ==
    Of(Void, {Undefined}) \cup Of(Boolean, {Yes, No})
    \cup Of(U8Codec, {N(0), N(255), N(256), N(-1), Double("half")})
    \cup Of(U16Codec, {N(256), N(65535), Num(1, 0), NegativeZero})
    \cup Of(U32Codec, {Num(65535, 65535), Num(65536, 0), N(-1)})
    \cup Of(I32Codec, {Num(32767, 65535), Num(-32768, 0), Num(32768, 1), N(-2)})
    \cup Of(F64Codec, {NegativeZero, Double("NaN"), N(-1), Num(65536, 7)})
    \cup Of(StringCodec, {Str(<<>>), Str(<<"a", "eacute">>), Str(<<"bom", "a", "bom">>), Str(<<"lone surrogate">>)})
    \cup Of(BytesCodec, {Bytes(<<>>), Bytes(<<1, 2, 3, 4>>), Bytes(<<4, 3, 2, 1>>), Bytes(Repeat(9, 5))})
    \cup Of(PairU8, {Pair(Yes, 255), Pair(No, 256)}) \cup Of(PairU16, {Pair(Yes, 256), Pair(No, 65535)})
    \cup Of(Optional(U8Codec), {Undefined, N(255), N(300)})
    \cup Of(Optional(BytesCodec), {Undefined, Bytes(<<7>>), Bytes(Repeat(7, 5))})
    \cup Of(Array(U8Codec), {Arr(<<>>), Arr(<<N(1), N(2)>>), Arr(<<N(1), N(256)>>),
                             Arr(Repeat(N(3), 4)), Arr(Repeat(N(3), 5))})
    \cup Of(Array(PairU8), {Arr(<<>>), Arr(<<Pair(Yes, 1)>>), Arr(<<Pair(Yes, 1), Pair(No, 2)>>)})
    \cup Of(Simple, {SimpleOf(1, 256), SimpleOf(255, 65535), SimpleOf(256, 1)})
    \cup Of(Nested, {NestedOf(1, Undefined, <<>>), NestedOf(1, Bytes(<<5, 6>>), <<Pair(Yes, 9)>>),
                     NestedOf(2, Bytes(<<5, 6, 7, 8>>), <<>>), NestedOf(1, Bytes(Repeat(8, 5)), <<>>)})
    \cup Of(TextArray, {Arr(<<>>), Arr(<<Str(<<"a">>), Str(<<>>)>>), Arr(<<Str(<<"b">>)>>)})
    \cup Of(Mixed, {MixedOf(Undefined, 1, <<"a">>), MixedOf(Double("half"), 2, <<"eacute", "b">>)})

MsgPackValues ==
    {Null, Undefined, Unsupported, Yes, Double("NaN"), NegativeZero}
    \cup {N(n) : n \in {0, 127, 128, 255, 256, 65535, -1, -32, -33, -128, -129, -32768, -32769}}
    \cup {Num(1, 0), Num(65535, 65535), Num(65536, 0), Num(-32768, 0), Num(-32769, 65535)}
    \cup {Str(Repeat("a", n)) : n \in {0, 31, 32}} \cup {Str(<<"bom", "eacute">>), Str(<<"lone surrogate">>)}
    \cup {Bytes(Repeat(1, n)) : n \in {0, 255, 256}}
    \cup {Arr(Repeat(N(5), n)) : n \in {0, 15, 16}}
    \cup {Arr(<<Undefined, Str(<<"a">>), Arr(<<N(-1)>>)>>), Arr(<<Unsupported>>)}
    \cup {Obj(<<>>), Obj(<<<<<<"a">>, Undefined>>>>), Obj(<<<<<<"a">>, N(1)>>>>),
          Obj(<<<<<<"b">>, Str(<<"a">>)>>, <<<<"a">>, Obj(<<<<<<"b">>, Bytes(<<3>>)>>>>)>>>>),
          Obj([i \in 1 .. 16 |-> <<Repeat("a", 3 + i), Null>>])}
Packed == {N(1), Str(<<"b">>), Arr(<<N(1)>>), Arr(<<N(1), N(2)>>)}
MCSamples == BinarySamples \cup Of(MsgPackCodec, MsgPackValues) \cup Of(PackedCodec, Packed)

Raw(codec, payloads) == {[codec |-> codec, aligned |-> FALSE, bytes |-> bytes] : bytes \in payloads}
Aligned(codec, payloads) == {[codec |-> codec, aligned |-> TRUE, bytes |-> bytes] : bytes \in payloads}
MCForeign ==
    Raw(Void, {<<>>, <<0>>}) \cup Raw(Boolean, {<<>>, <<2>>, <<1, 1>>}) \cup Raw(U8Codec, {<<>>, <<5>>, <<5, 6>>})
    \cup Raw(U16Codec, {<<1>>, <<1, 2>>, <<1, 2, 3>>}) \cup Raw(U32Codec, {<<1, 2, 3>>, <<1, 2, 3, 255, 0>>})
    \cup Raw(I32Codec, {<<0, 0, 0, 128>>, <<0, 0, 0>>}) \cup Raw(PairU8, {<<1>>, <<2, 200>>, <<1, 2, 3>>})
    \cup Raw(PairU16, {<<1, 2>>, <<0, 2, 1>>}) \cup Raw(Simple, {<<1, 2, 3>>, <<1, 2, 3, 4>>, <<1, 2, 3, 4, 5>>})
    \cup Raw(Array(U8Codec), {<<1, 0, 0>>, <<2, 0, 0, 0, 9>>, <<1, 0, 0, 0, 9>>, <<255, 255, 255, 255>>})
    \cup Raw(Optional(U8Codec), {<<>>, <<2, 7>>, <<0, 7>>})
    \cup Raw(StringCodec, {<<2, 0, 0, 0, 97>>, <<0, 0, 0, 0>>})
    \cup Raw(BytesCodec, {<<2, 0, 0, 0, 1, 2>>, <<2, 0, 0, 0, 1>>})
    \cup Aligned(BytesCodec, {<<>>, <<1, 0, 0, 0, 0, 0, 0, 0, 9>>, <<2, 0, 0, 0, 0, 0, 0, 0, 9>>, <<0, 0, 0, 0>>})
    \cup Raw(MsgPackCodec, {<<>>, <<193>>, <<217, 1, 97>>, <<145>>, <<221, 255, 255, 255, 255>>, <<129, 1, 2>>,
                            <<130, 161, 97, 1, 161, 97, 2>>, <<1, 2>>, <<204>>, <<205, 1>>, <<129, 161, 97>>})

MCHeap ==
    LET Fields(pairs) == [i \in DOMAIN pairs |-> <<Word(pairs[i][1]), pairs[i][2]>>]
        O(is, entries) == [is |-> is, entries |-> entries, constructor |-> Word("[Object]")]
    IN  [plain |-> O("error", Fields(<<<<"name", Str(<<"a">>)>>, <<"message", Str(Repeat("b", 3))>>>>)),
         rich |-> O("error", Fields(<<<<"name", Str(<<"a">>)>>, <<"message", Str(Repeat("b", 20))>>,
                                      <<"stack", Str(Repeat("a", 40))>>, <<"code", N(404)>>,
                                      <<"data", Ref("list")>>>>)),
         nameless |-> O("error", Fields(<<<<"name", Str(<<>>)>>, <<"message", Str(<<>>)>>, <<"code", Yes>>,
                                         <<"statusCode", N(500)>>>>)),
         list |-> O("array", <<<<<<>>, Ref("knot")>>, <<<<>>, Ref("date")>>, <<<<>>, Ref("view")>>,
                              <<<<>>, Unsupported>>>>),
         knot |-> O("record", Fields(<<<<"self", Ref("knot")>>, <<"data", Ref("empty")>>>>)),
         empty |-> O("record", <<>>), date |-> O("date", <<>>), view |-> O("view", <<>>),
         record |-> O("record", Fields(<<<<"message", Str(<<"bom">>)>>, <<"code", Str(<<"b">>)>>,
                                         <<"statusCode", N(-1)>>, <<"self", Ref("record")>>>>)),
         bare |-> O("record", Fields(<<<<"name", N(1)>>, <<"data", Null>>>>))]
MCThrown == {Ref(o) : o \in {"plain", "rich", "nameless", "record", "bare"}} \cup {Str(<<"a">>), Undefined, N(7)}
MCRooms == {12, 20, 30, 300}

Env(mode, enable, disable, all) == [mode |-> mode, enable |-> enable, disable |-> disable, disableAll |-> all]
MCEnvs ==
    {Env("unset", {}, {}, FALSE), Env("off", {}, {}, FALSE), Env("experimental", {}, {}, FALSE),
     Env("experimental", {}, {"validatedFrameWitness", "specializedCompositeWriter"}, FALSE),
     Env("default", {"readSideEncodedPayload"}, {"validatedAlignedBytesPayload"}, FALSE),
     Env("experimental", {}, {}, TRUE)}
================================================================================

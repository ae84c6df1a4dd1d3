------------------------------ MODULE MCBootstrap ------------------------------
(* The contracts of two threads: the same methods in two orders, with      *)
(* other ids and another codec, and with an id given twice.                *)
EXTENDS Bootstrap

U32 == [kind |-> "binary", signature |-> "u32"]
Str == [kind |-> "binary", signature |-> "string"]
Own == [kind |-> "binary", signature |-> Unsigned]
Packed == [kind |-> "msgpack", signature |-> Unsigned]

Method(name, id, request, response) == [method |-> name, id |-> id, request |-> request, response |-> response]
Listed == <<Method("echo", 1, Str, Own), Method("sum", 2, Packed, U32)>>
Reordered == <<Listed[2], Listed[1]>>
Revised == <<Method("echo", 2, Str, Packed), Method("sum", 1, Packed, U32)>>
GivenTwice == <<Method("echo", 2, Str, Own), Method("sum", 2, Packed, U32)>>

MCClientContents == {Listed, Revised, GivenTwice}
MCWorkerContents == {Reordered, GivenTwice}
================================================================================

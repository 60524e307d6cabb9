-------------------------------- MODULE MCRLP --------------------------------
(***************************************************************************)
(* Package rlp with 15 byte values: 3 encode themselves, 4 sizes fit into  *)
(* a tag, a uint64 has 2 bytes and a uint256 3.                            *)
(***************************************************************************)
EXTENDS RLP

AllBytes == 0 .. Radix - 1
\* 0, a byte, the empty string, strings of 1 and 2 bytes, the empty list, a list
Few == {0, 2, StringTag, StringTag + 1, ListTag, ListTag + 1}
MCAlphabet == <<AllBytes, AllBytes, Few, {0, 2, StringTag, ListTag}, {2, ListTag}, {1}>>

Uint(n) == [k |-> "uint", bytes |-> n]
BytesT == [k |-> "bytes"]
Slice(t) == [k |-> "slice", elem |-> t]
Ptr(t) == [k |-> "ptr", elem |-> t]
Struct(fs) == [k |-> "struct", fields |-> fs]
Field(t, tag) == [type |-> t, exported |-> TRUE, tag |-> tag]
Hidden(t) == [type |-> t, exported |-> FALSE, tag |-> <<>>]

Pair == Struct(<<Field(Uint(2), <<>>), Field(BytesT, <<>>)>>)
MCExactTypes ==
  {Uint(1), [k |-> "bool"], BytesT, [k |-> "bytearray", len |-> 1],
   [k |-> "bytearray", len |-> 2], [k |-> "bigptr"],
   Slice(Uint(2)), Slice(Slice(BytesT)), [k |-> "array", len |-> 2, elem |-> Uint(1)], Pair,
   Slice(Ptr(Struct(<<Field(Uint(1), <<>>)>>))),
   Struct(<<Field(Uint(1), <<>>), Hidden([k |-> "chan"]), Field(Slice(Uint(1)), <<"tail">>)>>),
   Struct(<<Field(Ptr(Uint(1)), <<"nil">>), Field(Ptr(Slice(Uint(1))), <<"nilList">>)>>)}
\* structs of two fields with every tag
Tags == {<<>>, <<"optional">>, <<"tail">>, <<"nil">>, <<"nil", "optional">>,
         <<"optional", "nilString">>, <<"optional", "tail">>}
MCLooseTypes ==
  {Struct(<<Field(t, tag1), Field(u, tag2)>>) :
     t \in {Uint(1), Ptr(Uint(1))}, u \in {Ptr(Uint(1)), Slice(Uint(1))}, tag1, tag2 \in Tags}

RECURSIVE MCUsedValue(_)
MCUsedValue(t) ==
  CASE t.k \in {"uint", "big", "u256"} -> 1
    [] t.k = "bool" -> TRUE
    [] t.k \in {"string", "bytes"} -> <<1, 2, 1>>
    [] t.k = "bigptr" -> <<7>>
    [] t.k = "ptr" -> <<MCUsedValue(t.elem)>>
    [] t.k = "bytearray" -> <<>> \o [i \in 1 .. t.len |-> 2]
    [] t.k = "array" -> <<>> \o [i \in 1 .. t.len |-> MCUsedValue(t.elem)]
    [] t.k = "slice" -> [nil |-> FALSE, elems |-> LET v == MCUsedValue(t.elem) IN <<v, v, v>>]
    [] t.k = "struct" ->
         <<>> \o [i \in DOMAIN t.fields |-> IF t.fields[i].exported
                                           THEN MCUsedValue(t.fields[i].type) ELSE <<>>]

\* an inner list that ends after its outer one
MCLimits == {<<ListTag + 1, ListTag + 1, 1>>}
\* lists in lists and strings of both header forms, well-formed and not
MCStreamInputs ==
  {<<ListTag + 2, ListTag + 1, 1, 2>>,
   <<ListTag + 3, StringTag + 1, 7, ListTag, 1>>,
   <<LongList + 1, 5, ListTag + 2, 1, 2, ListTag + 1, 1, 0>>,
   <<ListTag + 3, LongString + 1, 4, 1, 2, 1, 2>>,
   <<LongList + 1, 6, LongString + 1, 4, 1, 2, 1, 2, 1>>,
   <<ListTag + 1, LongString + 1, 4, 1, 2, 1, 2>>,
   <<ListTag + 2, StringTag + 1, 1, ListTag + 1, ListTag>>} \cup MCLimits

MCStrings == {<<>>, <<1>>, <<7>>, <<1, 7>>, <<1, 2, 3, 4, 5>>}
MCIntegers64 == {0, 2, 3, Radix, MaxUint64}

Str(b) == [kind |-> String, bytes |-> b, elems |-> <<>>]
Lst(vs) == [kind |-> List, bytes |-> <<>>, elems |-> vs]
MCMessage == [reader |-> Lst(<<Lst(<<Str(<<7, 8>>)>>), Str(<<2>>)>>),
              bytes |-> Lst(<<Str(<<5, 6, 5, 6, 5>>)>>),
              nested |-> Lst(<<Lst(<<>>), Str(<<9>>)>>)]
\* A list that contains itself through a pointer, and two types that use it
MCTypes == {"node", "nodes", "block", "leaf"}
MCRefs == [node |-> {"nodes", "leaf"}, nodes |-> {"node"}, block |-> {"node", "leaf"}, leaf |-> {}]
MCWanted == <<<<"node", "block">>, <<"block", "leaf">>, <<"nodes", "node">>>>
==============================================================================

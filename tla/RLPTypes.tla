------------------------------- MODULE RLPTypes -------------------------------
(***************************************************************************)
(* The typed layer of package rlp: which fields and tags of a struct count *)
(* (rlp/internal/rlpstruct), and the decoder and the writer that           *)
(* makeDecoder and makeWriter of rlp/decode.go and rlp/encode.go select    *)
(* for a Go type.                                                          *)
(*                                                                         *)
(* A type is a record with its kind k; a struct has a sequence of fields   *)
(* [type, exported, tag], tag being the sequence of words of its rlp tag.  *)
(* Values: integers for the integer kinds, sequences of bytes for strings  *)
(* and byte slices and arrays, <<>> or <<v>> for pointers, [nil, elems]    *)
(* for other slices, sequences for arrays, sequences of the fields for     *)
(* structs, and for interfaces [kind, ...] of what they hold.              *)
(***************************************************************************)
EXTENDS RLPDecode

NoTags == [NilOK |-> FALSE, NilKind |-> String, Optional |-> FALSE, Tail |-> FALSE,
           Ignored |-> FALSE]
\* what nil pointers to t are encoded as
DefaultNilValue(t) ==
  IF t.k \in {"uint", "string", "bool", "bytes", "bytearray"} THEN String ELSE List

RECURSIVE parseWords(_, _, _, _)
parseWords(f, i, isLast, ts) ==
  LET w == f.tag[i]
      More(t) == parseWords(f, i + 1, isLast, t)
      Bad == [err |-> "TagError", ts |-> ts]
  IN CASE i > Len(f.tag) -> [err |-> "nil", ts |-> ts]
       [] i <= Len(f.tag) /\ w = "-" -> More([ts EXCEPT !.Ignored = TRUE])
       [] i <= Len(f.tag) /\ w \in {"nil", "nilString", "nilList"} ->
            IF f.type.k # "ptr" THEN Bad
            ELSE More([ts EXCEPT !.NilOK = TRUE,
                                 !.NilKind = CASE w = "nil" -> DefaultNilValue(f.type.elem)
                                               [] w = "nilString" -> String
                                               [] w = "nilList" -> List])
       [] i <= Len(f.tag) /\ w = "optional" ->
            IF ts.Tail THEN Bad ELSE More([ts EXCEPT !.Optional = TRUE])
       [] i <= Len(f.tag) /\ w = "tail" ->
            IF ~isLast \/ ts.Optional \/ f.type.k # "slice" THEN Bad
            ELSE More([ts EXCEPT !.Tail = TRUE])
       [] OTHER -> Bad
lastPublicField(fields) ==
  LET public == {i \in DOMAIN fields : fields[i].exported}
  IN IF public = {} THEN 1 ELSE CHOOSE i \in public : \A j \in public : j <= i
parseTag(fields, i) == parseWords(fields[i], 1, i = lastPublicField(fields), NoTags)

\* ProcessFields: the fields to consider, as [index, ts]
ProcessFields(fields) ==
  LET public == SelectSeq([i \in DOMAIN fields |-> i], LAMBDA i : fields[i].exported)
      kept == SelectSeq([n \in DOMAIN public |->
                 [index |-> public[n], ts |-> parseTag(fields, public[n]).ts]],
               LAMBDA f : ~f.ts.Ignored)
      Opt(n) == kept[n].ts.Optional \/ kept[n].ts.Tail
  IN IF \/ \E n \in DOMAIN public : parseTag(fields, public[n]).err # "nil"
        \/ \E n \in DOMAIN kept : ~Opt(n) /\ \E i \in 1 .. n - 1 : Opt(i)
     THEN [err |-> "TagError", fields |-> <<>>]
     ELSE [err |-> "nil", fields |-> kept]
structFields(t) == ProcessFields(t.fields)
firstOptionalField(fs) ==
  LET opt == {n \in DOMAIN fs : fs[n].ts.Optional}
  IN IF opt = {} THEN Len(fs) + 1 ELSE CHOOSE n \in opt : \A j \in opt : n <= j
typeNilKind(t, ts) == IF ts.NilOK THEN ts.NilKind ELSE DefaultNilValue(t)

\* the errors makeDecoder and makeWriter report for a type
RECURSIVE Serializable(_)
Serializable(t) ==
  CASE t.k \in {"ptr", "slice", "array"} -> Serializable(t.elem)
    [] t.k = "struct" ->
         /\ structFields(t).err = "nil"
         /\ \A n \in DOMAIN structFields(t).fields :
              Serializable(t.fields[structFields(t).fields[n].index].type)
    [] OTHER -> t.k # "chan"
-----------------------------------------------------------------------------
(* Zero values *)
RECURSIVE Zero(_)
Zero(t) ==
  CASE t.k \in {"uint", "big", "u256"} -> 0
    [] t.k = "bool" -> FALSE
    [] t.k \in {"string", "bytes", "raw", "ptr", "bigptr", "chan"} -> <<>>
    [] t.k = "bytearray" -> <<>> \o [i \in 1 .. t.len |-> 0]
    [] t.k = "array" -> <<>> \o [i \in 1 .. t.len |-> Zero(t.elem)]
    [] t.k = "slice" -> [nil |-> TRUE, elems |-> <<>>]
    [] t.k = "struct" -> <<>> \o [i \in DOMAIN t.fields |-> Zero(t.fields[i].type)]
    [] t.k = "iface" -> [kind |-> Unread, bytes |-> <<>>, elems |-> <<>>]
-----------------------------------------------------------------------------
(* Writers *)
RECURSIVE write(_, _, _, _), writeAll(_, _, _, _), writeFields(_, _, _, _, _)

\* the elements one after another
writeAll(t, vs, i, buf) ==
  IF i > Len(vs) THEN buf ELSE writeAll(t, vs, i + 1, write(t, NoTags, vs[i], buf))
\* the fields up to the last one that is needed
writeFields(t, fs, v, n, buf) ==
  IF n > Len(fs) THEN buf
  ELSE writeFields(t, fs, v, n + 1,
                   write(t.fields[fs[n].index].type, fs[n].ts, v[fs[n].index], buf))
lastField(t, fs, v) ==
  LET first == firstOptionalField(fs)
      needed == {n \in DOMAIN fs : n < first \/ v[fs[n].index] # Zero(t.fields[fs[n].index].type)}
  IN IF first = Len(fs) + 1 THEN Len(fs)
     ELSE IF needed = {} THEN 0 ELSE CHOOSE n \in needed : \A j \in needed : j <= n
writeStruct(t, v, buf) ==
  LET fs == structFields(t).fields
  IN listEnd(writeFields(t, SubSeq(fs, 1, lastField(t, fs, v)), v, 1, list(buf)),
             Len(buf.lheads) + 1)
writeElems(t, ts, vs, buf) ==
  CASE ts.Tail -> writeAll(t.elem, vs, 1, buf)
    [] ~ts.Tail /\ vs = <<>> -> Write(buf, EmptyList)
    [] OTHER -> listEnd(writeAll(t.elem, vs, 1, list(buf)), Len(buf.lheads) + 1)
writePtr(t, ts, v, buf) ==
  IF v # <<>> THEN write(t.elem, NoTags, v[1], buf)
  ELSE Write(buf, IF typeNilKind(t.elem, ts) = String THEN EmptyString ELSE EmptyList)
write(t, ts, v, buf) ==
  CASE t.k = "raw" -> Write(buf, v)
    [] t.k = "bigptr" -> IF v = <<>> THEN Write(buf, EmptyString) ELSE writeBigInt(buf, v[1])
    [] t.k = "big" -> writeBigInt(buf, v)
    [] t.k = "u256" -> writeUint256(buf, v)
    [] t.k = "ptr" -> writePtr(t, ts, v, buf)
    [] t.k = "uint" -> writeUint64(buf, v)
    [] t.k = "bool" -> writeBool(buf, v)
    [] t.k \in {"string", "bytes"} -> writeBytes(buf, v)
    [] t.k = "bytearray" ->
         IF t.len = 1 THEN writeBytes(buf, v) ELSE Write(encodeStringHeader(buf, t.len), v)
    [] t.k = "array" -> writeElems(t, ts, v, buf)
    [] t.k = "slice" -> writeElems(t, ts, v.elems, buf)
    [] t.k = "struct" -> writeStruct(t, v, buf)
    [] t.k = "iface" ->
         CASE v.kind = Unread -> Write(buf, EmptyList)
           [] v.kind = String -> writeBytes(buf, v.bytes)
           [] v.kind = List ->
                writeElems([k |-> "slice", elem |-> t], NoTags, v.elems, buf)
EncodeToBytes(t, v) == copyTo(write(t, NoTags, v, reset))
-----------------------------------------------------------------------------
(* Decoders: decode(t, ts, s, old) reads a value of type t into old.  What a  *)
(* failed read leaves in its target is not told apart from old.               *)
wrapStreamError(err) == IF err = "NotAtEOL" THEN "TooManyElements" ELSE err
\* a value that is only stored when it was read
Stored(r, old) == IF r.err = "nil" THEN r ELSE [r EXCEPT !.val = old]

RECURSIVE decode(_, _, _, _), decodeSliceElems(_, _, _, _), decodeListArray(_, _, _, _),
          decodeFields(_, _, _, _, _)

\* Mutant: the elements that were there before are kept when the list is shorter.
decodeSliceElemsKeeps(t, s, vals, i) ==
  LET room == IF i > Len(vals) THEN Append(vals, Zero(t.elem)) ELSE vals
      r == decode(t.elem, NoTags, s, room[i])
      stored == [room EXCEPT ![i] = r.val]
  IN CASE r.err = "EOL" -> Ok(r.s, [nil |-> FALSE, elems |-> vals])
       [] r.err \notin {"EOL", "nil"} -> Fail(r.s, r.err, [nil |-> FALSE, elems |-> stored])
       [] OTHER -> decodeSliceElems(t, r.s, stored, i + 1)
decodeSliceElems(t, s, vals, i) ==
  LET room == IF i > Len(vals) THEN Append(vals, Zero(t.elem)) ELSE vals
      r == decode(t.elem, NoTags, s, room[i])
      stored == [room EXCEPT ![i] = r.val]
  IN CASE r.err = "EOL" -> Ok(r.s, [nil |-> FALSE, elems |-> SubSeq(stored, 1, i - 1)])
       [] r.err \notin {"EOL", "nil"} -> Fail(r.s, r.err, [nil |-> FALSE, elems |-> stored])
       [] OTHER -> decodeSliceElems(t, r.s, stored, i + 1)
\* ListEnd after a decoded list
Ended(r) == LET e == ListEnd(r.s)
            IN IF r.err # "nil" THEN r ELSE Fail(e.s, e.err, r.val)
decodeListSlice(t, s, old) ==
  LET l == StreamList(s)
  IN CASE l.err # "nil" -> Fail(l.s, wrapStreamError(l.err), old)
       [] l.err = "nil" /\ l.val = 0 -> Ended(Ok(l.s, [nil |-> FALSE, elems |-> <<>>]))
       [] OTHER -> Ended(decodeSliceElems(t, l.s, old.elems, 1))
decodeListArray(t, s, vals, i) ==
  LET r == decode(t.elem, NoTags, s, vals[i])
      e == Ended(Ok(s, vals))
  IN CASE i > t.len -> [e EXCEPT !.err = wrapStreamError(@)]
       [] i <= t.len /\ r.err = "EOL" -> Fail(r.s, "TooFewElements", vals)
       [] i <= t.len /\ r.err \notin {"EOL", "nil"} -> Fail(r.s, r.err, [vals EXCEPT ![i] = r.val])
       [] OTHER -> decodeListArray(t, r.s, [vals EXCEPT ![i] = r.val], i + 1)
decodeByteArray(t, s, old) == Stored(ReadString(s, {t.len}), old)

zeroFields(t, fs, n, v) ==
  <<>> \o [i \in DOMAIN v |-> IF \E j \in n .. Len(fs) : fs[j].index = i
                               THEN Zero(t.fields[i].type) ELSE v[i]]
\* the fields of a struct from the n-th on
decodeFields(t, fs, s, v, n) ==
  LET i == fs[n].index
      r == decode(t.fields[i].type, fs[n].ts, s, v[i])
      e == ListEnd(s)
  IN CASE n > Len(fs) -> Fail(e.s, wrapStreamError(e.err), v)
       [] n <= Len(fs) /\ r.err = "EOL" ->
            IF fs[n].ts.Optional
            THEN LET z == zeroFields(t, fs, n, v)
                     e2 == ListEnd(r.s)
                 IN Fail(e2.s, wrapStreamError(e2.err), z)
            ELSE Fail(r.s, "TooFewElements", [v EXCEPT ![i] = r.val])
       [] n <= Len(fs) /\ r.err \notin {"EOL", "nil"} -> Fail(r.s, r.err, [v EXCEPT ![i] = r.val])
       [] OTHER -> decodeFields(t, fs, r.s, [v EXCEPT ![i] = r.val], n + 1)

\* decode into what a pointer points to, or into a new value
decodePtr(t, s, old) ==
  LET r == decode(t.elem, NoTags, s, IF old = <<>> THEN Zero(t.elem) ELSE old[1])
  IN IF r.err = "nil" \/ old # <<>> THEN [r EXCEPT !.val = <<r.val>>] ELSE [r EXCEPT !.val = old]
NilPtrAfter(k, t, ts, old) ==
  CASE k.err # "nil" -> Fail(k.s, k.err, <<>>)
    [] k.err = "nil" /\ k.kind # Byte /\ k.size = 0 ->
         IF k.kind # typeNilKind(t.elem, ts) THEN Fail(k.s, "WrongKind", old)
         ELSE Ok(Rearm(k.s), <<>>)
    [] OTHER -> decodePtr(t, k.s, old)
decodeNilPtr(t, ts, s, old) == NilPtrAfter(Kind(s), t, ts, old)

IfaceList(l, old) ==
  IF l.err # "nil" THEN Fail(l.s, l.err, old)
  ELSE Ok(l.s, [kind |-> List, bytes |-> <<>>, elems |-> l.val.elems])
IfaceString(b, old) ==
  IF b.err # "nil" THEN Fail(b.s, b.err, old)
  ELSE Ok(b.s, [kind |-> String, bytes |-> b.val, elems |-> <<>>])
IfaceAfter(k, t, old) ==
  CASE k.err # "nil" -> Fail(k.s, k.err, old)
    [] k.err = "nil" /\ k.kind = List ->
         IfaceList(decodeListSlice([k |-> "slice", elem |-> t], k.s,
                                   [nil |-> TRUE, elems |-> <<>>]), old)
    [] OTHER -> IfaceString(Bytes(k.s), old)
decodeInterface(t, s, old) == IfaceAfter(Kind(s), t, old)

decode(t, ts, s, old) ==
  CASE t.k = "raw" -> Stored(Raw(s), old)
    [] t.k = "bigptr" -> LET r == decodeBigInt(s)
                         IN IF r.err = "nil" THEN [r EXCEPT !.val = <<@>>]
                            ELSE [r EXCEPT !.val = IF old = <<>> THEN <<0>> ELSE old]
    [] t.k = "big" -> Stored(decodeBigInt(s), old)
    [] t.k = "u256" -> Stored(ReadUint256(s), old)
    [] t.k = "ptr" -> IF ts.NilOK THEN decodeNilPtr(t, ts, s, old) ELSE decodePtr(t, s, old)
    [] t.k = "uint" -> Stored(uint(s, t.bytes), old)
    [] t.k = "bool" -> Stored(Bool(s), old)
    [] t.k \in {"string", "bytes"} -> Stored(Bytes(s), old)
    [] t.k = "bytearray" -> decodeByteArray(t, s, old)
    [] t.k = "array" ->
         LET l == StreamList(s)
         IN IF l.err # "nil" THEN Fail(l.s, l.err, old) ELSE decodeListArray(t, l.s, old, 1)
    [] t.k = "slice" ->
         IF ts.Tail THEN decodeSliceElems(t, s, old.elems, 1) ELSE decodeListSlice(t, s, old)
    [] t.k = "struct" ->
         LET l == StreamList(s)
         IN IF l.err # "nil" THEN Fail(l.s, l.err, old)
            ELSE decodeFields(t, structFields(t).fields, l.s, old, 1)
    [] t.k = "iface" -> decodeInterface(t, s, old)

\* DecodeBytes into old: exactly one value and nothing after it
AtEnd(r) == IF r.err = "nil" /\ r.s.in # <<>> THEN Fail(r.s, "MoreThanOneValue", r.val) ELSE r
DecodeBytes(t, b, old) == AtEnd(decode(t, NoTags, Reset(b, Len(b)), old))
==============================================================================

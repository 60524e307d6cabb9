------------------------------ MODULE RLPDecode ------------------------------
(***************************************************************************)
(* The two decoders of package rlp below the types: Stream of              *)
(* rlp/decode.go, which reads from a reader value by value, and Split and  *)
(* its relatives of rlp/raw.go, which cut byte slices.  Both read the type *)
(* tag by themselves.                                                      *)
(*                                                                         *)
(* A call on a Stream is an operator that returns the stream after it, its *)
(* error and its value.  The reader is the sequence in of bytes it still   *)
(* holds; sizes are uint64, so limits wrap around at 2^64 (here            *)
(* Radix^WordBytes).                                                       *)
(***************************************************************************)
EXTENDS RLPEncode

CONSTANT BigBytes                    \* the 32 bytes of uintbuf and of a uint256

Byte == 0
String == 1
List == 2
Unread == -1                         \* kind is re-armed: the next tag is not read yet
MaxUint64 == Radix ^ WordBytes - 1
Wrap(n) == n % (MaxUint64 + 1)

Ok(s, val) == [s |-> s, err |-> "nil", val |-> val]
Fail(s, err, val) == [s |-> s, err |-> err, val |-> val]
Rearm(s) == [s EXCEPT !.kind = Unread]

\* Reset, with inputLimit 0 for a reader whose length cannot be discovered
Reset(in, inputLimit) ==
  [in |-> in, remaining |-> inputLimit, limited |-> inputLimit > 0, size |-> 0,
   kind |-> Unread, kinderr |-> "nil", stack |-> <<>>, byteval |-> 0]
NewListStream(in, n) == [Reset(in, n) EXCEPT !.kind = List, !.size = n]

inList(s) == s.stack # <<>>
listLimit(s) == IF inList(s) THEN Last(s.stack) ELSE 0
SetLimit(s, n) == [s EXCEPT !.stack[Len(s.stack)] = n]

\* the checks and the accounting before any read
willRead(s0, n) ==
  LET s == Rearm(s0)
      t == IF inList(s) THEN SetLimit(s, listLimit(s) - n) ELSE s
  IN CASE inList(s) /\ n > listLimit(s) -> Fail(s, "ElemTooLarge", <<>>)
       [] t.limited /\ n > t.remaining /\ ~(inList(s) /\ n > listLimit(s)) ->
            Fail(t, "ValueTooLarge", <<>>)
       [] OTHER -> Ok([t EXCEPT !.remaining = IF t.limited THEN @ - n ELSE @], <<>>)
\* the answer w of willRead first, then the reader's
ReadAfter(w, n) ==
  CASE w.err # "nil" -> w
    [] w.err = "nil" /\ Len(w.s.in) < n -> Fail([w.s EXCEPT !.in = <<>>], "UnexpectedEOF", <<>>)
    [] OTHER -> Ok([w.s EXCEPT !.in = SubSeq(@, n + 1, Len(@))], SubSeq(w.s.in, 1, n))
readFull(s, n) == ReadAfter(willRead(s, n), n)
readByte(s) == readFull(s, 1)

UintOf(r) ==
  CASE r.err # "nil" -> Fail(r.s, r.err, 0)
    [] r.err = "nil" /\ Len(r.val) > 1 /\ r.val[1] = 0 -> Fail(r.s, "CanonSize", 0)
    [] OTHER -> Ok(r.s, Number(r.val))
readUint(s, n) == IF n = 0 THEN Ok(Rearm(s), 0) ELSE UintOf(readFull(s, n))

\* the tag ahead: its kind, and in val its size
LongOf(kind, u) ==
  [kind |-> kind, s |-> u.s, val |-> u.val,
   err |-> IF u.err = "nil" /\ u.val < Short THEN "CanonSize" ELSE u.err]
KindOf(r, s) ==
  LET b == r.val[1]
      t == [r.s EXCEPT !.byteval = 0]
  IN CASE r.err # "nil" ->
            [kind |-> Byte, s |-> r.s, val |-> 0,
             err |-> IF ~inList(s) /\ r.err \in {"UnexpectedEOF", "ValueTooLarge"} THEN "EOF"
                     ELSE r.err]
       [] r.err = "nil" /\ b < StringTag ->
            [kind |-> Byte, s |-> [t EXCEPT !.byteval = b], val |-> 0, err |-> "nil"]
       [] r.err = "nil" /\ b \in StringTag .. LongString ->
            [kind |-> String, s |-> t, val |-> b - StringTag, err |-> "nil"]
       [] r.err = "nil" /\ b \in LongString + 1 .. ListTag - 1 ->
            LongOf(String, readUint(t, b - LongString))
       [] r.err = "nil" /\ b \in ListTag .. LongList ->
            [kind |-> List, s |-> t, val |-> b - ListTag, err |-> "nil"]
       [] OTHER -> LongOf(List, readUint(t, b - LongList))
readKind(s) == KindOf(readByte(s), s)

\* The size is compared with the limit as it was before the tag was read.
KindAfter(s, k) ==
  LET err == CASE k.err # "nil" -> k.err
               [] k.err = "nil" /\ inList(s) /\ k.val > listLimit(s) -> "ElemTooLarge"
               [] k.err = "nil" /\ ~(inList(s) /\ k.val > listLimit(s))
                    /\ k.s.limited /\ k.val > k.s.remaining -> "ValueTooLarge"
               [] OTHER -> "nil"
  IN [s |-> [k.s EXCEPT !.kind = k.kind, !.size = k.val, !.kinderr = err],
      err |-> err, kind |-> k.kind, size |-> k.val]
Kind(s) ==
  CASE s.kind # Unread -> [s |-> s, err |-> s.kinderr, kind |-> s.kind, size |-> s.size]
    [] s.kind = Unread /\ inList(s) /\ listLimit(s) = 0 ->
         [s |-> s, err |-> "EOL", kind |-> Byte, size |-> 0]
    [] OTHER -> KindAfter(s, readKind(s))
-----------------------------------------------------------------------------
(* Reading a value *)
\* the content of a string of any size, or of the given one
StringAfter(k, want) ==
  LET r == readFull(k.s, k.size)
  IN CASE k.err # "nil" -> Fail(k.s, k.err, <<>>)
       [] k.err = "nil" /\ k.kind = Byte ->
            IF 1 \in want THEN Ok(Rearm(k.s), <<k.s.byteval>>) ELSE Fail(k.s, "WrongSize", <<>>)
       [] k.err = "nil" /\ k.kind = String ->
            CASE k.size \notin want -> Fail(k.s, "WrongSize", <<>>)
              [] k.size \in want /\ r.err # "nil" -> Fail(r.s, r.err, <<>>)
              [] k.size \in want /\ r.err = "nil" /\ k.size = 1 /\ r.val[1] < Single ->
                   Fail(r.s, "CanonSize", <<>>)
              [] OTHER -> r
       [] OTHER -> Fail(k.s, "ExpectedString", <<>>)
ReadString(s, want) == StringAfter(Kind(s), want)
Bytes(s) == ReadString(s, Nat)
ReadBytes(s, n) == ReadString(s, {n})

\* A value with a new header in front of it; what is inside is not looked at.
RawAfter(k) ==
  LET r == readFull(k.s, k.size)
  IN CASE k.err # "nil" -> Fail(k.s, k.err, <<>>)
       [] k.err = "nil" /\ k.kind = Byte -> Ok(Rearm(k.s), <<k.s.byteval>>)
       [] k.err = "nil" /\ k.kind # Byte /\ r.err # "nil" -> Fail(r.s, r.err, <<>>)
       [] OTHER -> Ok(r.s, (IF k.kind = String THEN puthead(StringTag, LongString, k.size)
                            ELSE puthead(ListTag, LongList, k.size)) \o r.val)
Raw(s) == RawAfter(Kind(s))

\* uint, with the size of the target in bytes
UintAfter(k, maxbytes) ==
  LET r == readUint(k.s, k.size)
  IN CASE k.err # "nil" -> Fail(k.s, k.err, 0)
       [] k.err = "nil" /\ k.kind = Byte ->
            IF k.s.byteval = 0 THEN Fail(k.s, "CanonInt", 0) ELSE Ok(Rearm(k.s), k.s.byteval)
       [] k.err = "nil" /\ k.kind = String ->
            CASE k.size > maxbytes -> Fail(k.s, "UintOverflow", 0)
              [] k.size <= maxbytes /\ r.err = "CanonSize" -> Fail(r.s, "CanonInt", 0)
              [] k.size <= maxbytes /\ r.err \notin {"CanonSize", "nil"} -> Fail(r.s, r.err, 0)
              [] k.size <= maxbytes /\ r.err = "nil" /\ k.size > 0 /\ r.val < Single ->
                   Fail(r.s, "CanonSize", 0)
              [] OTHER -> r
       [] OTHER -> Fail(k.s, "ExpectedString", 0)
uint(s, maxbytes) == UintAfter(Kind(s), maxbytes)
BoolOf(r) ==
  CASE r.err # "nil" -> Fail(r.s, r.err, FALSE)
    [] r.err = "nil" /\ r.val > 1 -> Fail(r.s, "InvalidBool", FALSE)
    [] OTHER -> Ok(r.s, r.val = 1)
Bool(s) == BoolOf(uint(s, 1))

\* decodeBigInt, and ReadUint256 where large is the error of a longer string
IntAfter(k, large) ==
  LET r == readFull(k.s, k.size)
      Set(t, buffer) == IF buffer # <<>> /\ buffer[1] = 0 THEN Fail(t, "CanonInt", 0)
                        ELSE Ok(t, Number(buffer))
  IN CASE k.err # "nil" -> Fail(k.s, k.err, 0)
       [] k.err = "nil" /\ k.kind = List -> Fail(k.s, "ExpectedString", 0)
       [] k.err = "nil" /\ k.kind = Byte -> Set(Rearm(k.s), <<k.s.byteval>>)
       [] k.err = "nil" /\ k.kind = String ->
            CASE k.size = 0 -> Set(Rearm(k.s), <<>>)
              [] k.size > BigBytes /\ large # "nil" -> Fail(k.s, large, 0)
              [] k.size > 0 /\ (k.size <= BigBytes \/ large = "nil") /\ r.err # "nil" ->
                   Fail(r.s, r.err, 0)
              [] k.size = 1 /\ r.err = "nil" /\ r.val[1] < Single -> Fail(r.s, "CanonSize", 0)
              [] OTHER -> Set(r.s, r.val)
decodeBigInt(s) == IntAfter(Kind(s), "nil")
ReadUint256(s) == IntAfter(Kind(s), "Uint256Large")

ListAfter(k) ==
  LET outer == IF inList(k.s) THEN SetLimit(k.s, Wrap(listLimit(k.s) - k.size)) ELSE k.s
  IN CASE k.err # "nil" -> Fail(k.s, k.err, 0)
       [] k.err = "nil" /\ k.kind # List -> Fail(k.s, "ExpectedList", 0)
       [] OTHER -> Ok([outer EXCEPT !.stack = Append(@, k.size), !.kind = Unread, !.size = 0],
                      k.size)
StreamList(s) == ListAfter(Kind(s))
MoreDataInList(s) == listLimit(s) > 0
ListEnd(s) ==
  CASE ~inList(s) -> Fail(s, "NotInList", 0)
    [] inList(s) /\ listLimit(s) > 0 -> Fail(s, "NotAtEOL", 0)
    [] OTHER -> Ok([s EXCEPT !.stack = Front(@), !.kind = Unread, !.size = 0], 0)
-----------------------------------------------------------------------------
(* rlp/raw.go *)
\* Mutant: any size is accepted.
readSizeAny(b, slen) ==
  IF slen > Len(b) THEN [err |-> "UnexpectedEOF", size |-> 0]
  ELSE [err |-> "nil", size |-> Number(SubSeq(b, 1, slen))]
readSize(b, slen) ==
  LET s == Number(SubSeq(b, 1, slen))
  IN CASE slen > Len(b) -> [err |-> "UnexpectedEOF", size |-> 0]
       [] slen <= Len(b) /\ (s < Short \/ b[1] = 0) -> [err |-> "CanonSize", size |-> 0]
       [] OTHER -> [err |-> "nil", size |-> s]

\* readKind of a slice: kind, size of the tag and size of the content
rawKind(buf) ==
  LET b == buf[1]
      Answer(k, ts, cs, err) ==
        CASE err # "nil" -> [err |-> err, kind |-> Byte, ts |-> 0, cs |-> 0]
          [] err = "nil" /\ cs > Wrap(Len(buf) - ts) ->
               [err |-> "ValueTooLarge", kind |-> Byte, ts |-> 0, cs |-> 0]
          [] OTHER -> [err |-> "nil", kind |-> k, ts |-> ts, cs |-> cs]
      Long(k, n) == LET r == readSize(Tail(buf), n) IN Answer(k, n + 1, r.size, r.err)
  IN CASE buf = <<>> -> [err |-> "UnexpectedEOF", kind |-> Byte, ts |-> 0, cs |-> 0]
       [] buf # <<>> /\ b < StringTag -> Answer(Byte, 0, 1, "nil")
       [] buf # <<>> /\ b \in StringTag .. LongString ->
            Answer(String, 1, b - StringTag,
                   IF b - StringTag = 1 /\ Len(buf) > 1 /\ buf[2] < Single THEN "CanonSize"
                   ELSE "nil")
       [] buf # <<>> /\ b \in LongString + 1 .. ListTag - 1 -> Long(String, b - LongString)
       [] buf # <<>> /\ b \in ListTag .. LongList -> Answer(List, 1, b - ListTag, "nil")
       [] OTHER -> Long(List, b - LongList)

SplitAt(b, k) ==
  IF k.err # "nil" THEN [err |-> k.err, kind |-> Byte, content |-> <<>>, rest |-> b]
  ELSE [err |-> "nil", kind |-> k.kind, content |-> SubSeq(b, k.ts + 1, k.ts + k.cs),
        rest |-> SubSeq(b, k.ts + k.cs + 1, Len(b))]
Split(b) == SplitAt(b, rawKind(b))
\* r unless it is wrong, then the error with all of b left
Unless(wrong, r, err, b) ==
  IF r.err = "nil" /\ wrong THEN [r EXCEPT !.err = err, !.content = <<>>, !.rest = b] ELSE r
SplitString(b) == LET r == Split(b) IN Unless(r.kind = List, r, "ExpectedString", b)
SplitList(b) == LET r == Split(b) IN Unless(r.kind # List, r, "ExpectedList", b)
Uint64At(b, r) ==
  LET n == readSize(r.content, Len(r.content))
      Answer(err, x) == [err |-> err, x |-> x, rest |-> IF err = "nil" THEN r.rest ELSE b]
  IN CASE r.err # "nil" -> Answer(r.err, 0)
       [] r.err = "nil" /\ Len(r.content) = 0 -> Answer("nil", 0)
       [] r.err = "nil" /\ Len(r.content) = 1 ->
            IF r.content[1] = 0 THEN Answer("CanonInt", 0) ELSE Answer("nil", r.content[1])
       [] r.err = "nil" /\ Len(r.content) > WordBytes -> Answer("UintOverflow", 0)
       [] OTHER -> IF n.err # "nil" THEN Answer("CanonInt", 0) ELSE Answer("nil", n.size)

SplitUint64(b) == Uint64At(b, SplitString(b))

RECURSIVE CountValues(_)
CountFrom(b, k) ==
  LET more == CountValues(SubSeq(b, k.ts + k.cs + 1, Len(b)))
  IN CASE k.err # "nil" -> [err |-> k.err, n |-> 0]
       [] OTHER -> IF more.err # "nil" THEN more ELSE [more EXCEPT !.n = @ + 1]
CountValues(b) == IF b = <<>> THEN [err |-> "nil", n |-> 0] ELSE CountFrom(b, rawKind(b))
\* the elements a listIterator yields, up to the first error
RECURSIVE Elements(_)
ElementsAt(data, k) ==
  IF k.err # "nil" THEN <<>>
  ELSE <<SubSeq(data, 1, k.ts + k.cs)>> \o Elements(SubSeq(data, k.ts + k.cs + 1, Len(data)))
Elements(data) == IF data = <<>> THEN <<>> ELSE ElementsAt(data, rawKind(data))
==============================================================================

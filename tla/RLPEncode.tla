------------------------------ MODULE RLPEncode ------------------------------
(***************************************************************************)
(* rlp/encode.go, rlp/encbuffer.go and the sizes of rlp/raw.go: the output *)
(* buffer of the encoder.  The content of an encoding is collected in str  *)
(* without the list headers, whose sizes are only known once a list has    *)
(* ended; the headers are put between when the bytes are taken out.        *)
(*                                                                         *)
(* The layout of the type tag is that of the code with its numbers as      *)
(* parameters: Single = 128 byte values that encode themselves, Short = 56 *)
(* sizes that fit into a tag and WordBytes = 8 bytes of a uint64, which    *)
(* together make up the 256 values of a byte.                              *)
(***************************************************************************)
EXTENDS Integers, Sequences, SequencesExt

CONSTANTS Single, Short, WordBytes

Radix == Single + 2 * (Short + WordBytes)
StringTag == Single                            \* 0x80
LongString == StringTag + Short - 1            \* 0xB7
ListTag == StringTag + Short + WordBytes       \* 0xC0
LongList == ListTag + Short - 1                \* 0xF7
EmptyString == <<StringTag>>
EmptyList == <<ListTag>>

\* the n low bytes of i, the highest first
BigEndian(i, n) == [k \in 1 .. n |-> (i \div Radix ^ (n - k)) % Radix]
\* the number those bytes write
Number(bytes) == FoldLeft(LAMBDA n, b : n * Radix + b, 0, bytes)

RECURSIVE intsize(_)
intsize(i) == IF i < Radix THEN 1 ELSE 1 + intsize(i \div Radix)
putint(i) == BigEndian(i, intsize(i))
headsize(size) == IF size < Short THEN 1 ELSE 1 + intsize(size)
puthead(smalltag, largetag, size) ==
  IF size < Short THEN <<smalltag + size>> ELSE <<largetag + intsize(size)>> \o putint(size)
-----------------------------------------------------------------------------
(* encBuffer *)
reset == [str |-> <<>>, lheads |-> <<>>, lhsize |-> 0]
size(buf) == Len(buf.str) + buf.lhsize
Write(buf, bytes) == [buf EXCEPT !.str = @ \o bytes]
encodeStringHeader(buf, n) == Write(buf, puthead(StringTag, LongString, n))

writeBool(buf, b) == Write(buf, IF b THEN <<1>> ELSE EmptyString)
writeUint64(buf, i) ==
  Write(buf, CASE i = 0 -> EmptyString
               [] i > 0 /\ i < Single -> <<i>>
               [] OTHER -> <<StringTag + intsize(i)>> \o putint(i))
writeBytes(buf, b) ==
  IF Len(b) = 1 /\ b[1] < Single THEN Write(buf, b)
  ELSE Write(encodeStringHeader(buf, Len(b)), b)
\* from the bit length down to the bytes of the words
writeBigInt(buf, i) ==
  IF i < Radix ^ WordBytes THEN writeUint64(buf, i)
  ELSE Write(encodeStringHeader(buf, intsize(i)), BigEndian(i, intsize(i)))
\* the header is written as a short one: a uint256 has fewer than Short bytes
writeUint256(buf, z) ==
  IF z < Radix ^ WordBytes THEN writeUint64(buf, z)
  ELSE Write(buf, <<StringTag + intsize(z)>> \o BigEndian(z, intsize(z)))

\* a list under way keeps the header bytes before it in size
list(buf) == [buf EXCEPT !.lheads = Append(@, [offset |-> Len(buf.str), size |-> buf.lhsize])]
\* Mutant: the header bytes before the list are counted in.
listEndCountsHeaders(buf, index) ==
  LET n == size(buf) - buf.lheads[index].offset
  IN [buf EXCEPT !.lheads[index].size = n, !.lhsize = @ + headsize(n)]
listEnd(buf, index) ==
  LET n == size(buf) - buf.lheads[index].offset - buf.lheads[index].size
  IN [buf EXCEPT !.lheads[index].size = n,
                 !.lhsize = @ + (IF n < Short THEN 1 ELSE 1 + intsize(n))]
headEncode(head) == puthead(ListTag, LongList, head.size)

RECURSIVE copyFrom(_, _, _)
copyFrom(buf, h, strpos) ==
  IF h > Len(buf.lheads) THEN SubSeq(buf.str, strpos + 1, Len(buf.str))
  ELSE SubSeq(buf.str, strpos + 1, buf.lheads[h].offset) \o headEncode(buf.lheads[h])
         \o copyFrom(buf, h + 1, buf.lheads[h].offset)
copyTo(buf) == copyFrom(buf, 1, 0)

\* what writeTo passes to the writer, call by call
RECURSIVE writesFrom(_, _, _)
writesFrom(buf, h, strpos) ==
  IF h > Len(buf.lheads)
  THEN IF strpos < Len(buf.str) THEN <<SubSeq(buf.str, strpos + 1, Len(buf.str))>> ELSE <<>>
  ELSE LET off == buf.lheads[h].offset
       IN (IF off - strpos > 0 THEN <<SubSeq(buf.str, strpos + 1, off)>> ELSE <<>>)
            \o <<headEncode(buf.lheads[h])>>
            \o writesFrom(buf, h + 1, IF off - strpos > 0 THEN off ELSE strpos)
writeTo(buf) == writesFrom(buf, 1, 0)
-----------------------------------------------------------------------------
(* encReader, the reader of EncodeToReader.  piece = <<>> stands for nil, and *)
(* held for the buffer not being released yet.                                *)
encReader == [held |-> TRUE, lhpos |-> 1, strpos |-> 0, piece |-> <<>>]

\* the next piece of data, <<>> at the end
next(r, buf) ==
  LET before == buf.lheads[r.lhpos].offset - r.strpos
  IN CASE ~r.held -> r
       [] r.held /\ r.piece # <<>> -> r
       [] r.held /\ r.piece = <<>> /\ r.lhpos <= Len(buf.lheads) ->
            IF before > 0
            THEN [r EXCEPT !.piece = SubSeq(buf.str, r.strpos + 1, r.strpos + before),
                           !.strpos = @ + before]
            ELSE [r EXCEPT !.piece = headEncode(buf.lheads[r.lhpos]), !.lhpos = @ + 1]
       [] r.held /\ r.piece = <<>> /\ r.lhpos > Len(buf.lheads) ->
            [r EXCEPT !.piece = SubSeq(buf.str, r.strpos + 1, Len(buf.str)),
                      !.strpos = Len(buf.str)]

\* Read into n bytes: what they hold, the reader after it, and whether it said EOF
RECURSIVE Read(_, _, _)
Read(r, buf, n) ==
  LET r2 == next(r, buf)
      nn == IF Len(r2.piece) <= n THEN Len(r2.piece) ELSE n
      more == Read([r2 EXCEPT !.piece = <<>>], buf, n - nn)
  IN CASE r2.piece = <<>> -> [r |-> [r2 EXCEPT !.held = FALSE], out |-> <<>>, eof |-> TRUE]
       [] r2.piece # <<>> /\ nn < Len(r2.piece) ->
            [r |-> [r2 EXCEPT !.piece = SubSeq(@, nn + 1, Len(@))],
             out |-> SubSeq(r2.piece, 1, nn), eof |-> FALSE]
       [] OTHER -> [more EXCEPT !.out = r2.piece \o @]
-----------------------------------------------------------------------------
(* rlp/raw.go: sizes and integers without a buffer *)
StringSize(s) ==
  CASE Len(s) = 0 -> 1
    [] Len(s) = 1 -> IF s[1] < Single THEN 1 ELSE 2
    [] OTHER -> headsize(Len(s)) + Len(s)
BytesSize(b) == StringSize(b)
ListSize(contentSize) == headsize(contentSize) + contentSize
IntSize(x) == IF x < Single THEN 1 ELSE 1 + intsize(x)
AppendUint64(b, i) ==
  CASE i = 0 -> Append(b, StringTag)
    [] i > 0 /\ i < Single -> Append(b, i)
    [] OTHER -> Append(b, StringTag + intsize(i)) \o putint(i)
==============================================================================

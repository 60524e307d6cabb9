--------------------------------- MODULE RLP ---------------------------------
(***************************************************************************)
(* Package rlp at work.  One part of the package is exercised in a         *)
(* behaviour:                                                              *)
(*   input   bytes arrive one by one; every decoder is asked about what    *)
(*           has arrived;                                                  *)
(*   stream  a caller makes any calls on a Stream over a given input;      *)
(*   buffer  a caller writes values and nested lists into an encBuffer;    *)
(*   pool, cache  goroutines share buffers and type information            *)
(*           (RLPShared).                                                  *)
(***************************************************************************)
EXTENDS RLPShared

CONSTANTS Parts,          \* the parts to exercise
          Alphabet,       \* Alphabet[i]: the bytes that may come at position i
          ExactTypes,     \* types of which a value has one encoding
          LooseTypes,     \* types with optional fields or pointers that may be nil
          UsedValue(_),   \* a value of a type that was decoded into before
          StreamInputs,   \* inputs of the stream part
          MaxCalls,       \* how many calls its caller makes
          Strings,        \* strings the buffer part writes
          Integers64,     \* integers the buffer part writes
          MaxWrites,      \* how many calls its caller makes
          MaxDepth        \* how deep its lists are nested

VARIABLES part,
          input,          \* the bytes that have arrived
          stream,         \* the Stream under use
          result,         \* the last call on it and its error
          tagAt,          \* where the tag of the value ahead starts
          ends,           \* where the lists the caller is in end, the outermost first
          buf,            \* the encBuffer under use
          open,           \* the indices List returned for the lists that are open
          written,        \* the encodings of what was written, a sequence per open list
          sizes,          \* their sizes as BytesSize, IntSize and ListSize tell them
          calls           \* calls made so far
inputVars == <<input>>
streamVars == <<stream, result, tagAt, ends>>
bufferVars == <<buf, open, written, sizes>>
vars == <<part, inputVars, streamVars, bufferVars, calls, sharedVars>>

Init ==
  /\ part \in Parts
  /\ input \in IF part = "stream" THEN StreamInputs ELSE {<<>>}
  /\ stream \in IF part = "stream" THEN {Reset(input, 0), Reset(input, Len(input))}
                ELSE {Reset(<<>>, 0)}
  /\ result = [op |-> "Reset", err |-> "nil", end |-> 0] /\ tagAt = 0 /\ ends = <<>>
  /\ buf = reset /\ open = <<>> /\ written = <<<<>>>> /\ sizes = <<0>>
  /\ calls = 0
  /\ SharedInit
-----------------------------------------------------------------------------
(* Input *)
Complete == rawKind(input).err \notin {"UnexpectedEOF", "ValueTooLarge"}
Arrive(b) ==
  /\ part = "input" /\ ~Complete /\ Len(input) < Len(Alphabet)
  /\ b \in Alphabet[Len(input) + 1]
  /\ input' = Append(input, b)
  /\ UNCHANGED <<part, streamVars, bufferVars, calls, sharedVars>>
-----------------------------------------------------------------------------
(* Calls on a stream *)
Position == Len(input) - Len(stream.in)
AheadAt == IF stream.kind = Unread THEN Position ELSE tagAt
\* the end of the value whose tag is at position p, as its header tells it
EndOfValue(p) ==
  LET b == input[p + 1]
      Sized(n) == p + 1 + n + Number(SubSeq(input, p + 2, p + 1 + n))
  IN CASE b < StringTag -> p + 1
       [] b \in StringTag .. LongString -> p + 1 + (b - StringTag)
       [] b \in LongString + 1 .. ListTag - 1 -> Sized(b - LongString)
       [] b \in ListTag .. LongList -> p + 1 + (b - ListTag)
       [] OTHER -> Sized(b - LongList)
Called(op, r, end, newEnds) ==
  /\ part = "stream" /\ calls < MaxCalls /\ calls' = calls + 1
  /\ stream' = r.s /\ tagAt' = AheadAt
  /\ result' = [op |-> op, err |-> r.err, end |-> end]
  /\ ends' = newEnds
  /\ UNCHANGED <<part, inputVars, bufferVars, sharedVars>>
CallKind == Called("Kind", Kind(stream), 0, ends)
CallValue(op) ==
  \E r \in {CASE op = "Bytes" -> Bytes(stream)
             [] op = "Uint" -> uint(stream, WordBytes)
             [] op = "Raw" -> Raw(stream)
             [] op = "BigInt" -> decodeBigInt(stream)} :
     Called(op, r, IF r.err = "nil" THEN EndOfValue(AheadAt) ELSE 0, ends)
CallList ==
  \E r \in {StreamList(stream)} :
     Called("List", r, 0, IF r.err = "nil" THEN Append(ends, EndOfValue(AheadAt)) ELSE ends)
CallListEnd ==
  \E r \in {ListEnd(stream)} :
     Called("ListEnd", r, IF r.err = "nil" THEN Last(ends) ELSE 0,
            IF r.err = "nil" THEN Front(ends) ELSE ends)
-----------------------------------------------------------------------------
(* Writes into a buffer *)
Wrote(b, encoding, n) ==
  /\ part = "buffer" /\ calls < MaxWrites /\ calls' = calls + 1
  /\ buf' = b
  /\ written' = [written EXCEPT ![Len(written)] = @ \o encoding]
  /\ sizes' = [sizes EXCEPT ![Len(sizes)] = @ + n]
  /\ UNCHANGED <<part, inputVars, streamVars, open, sharedVars>>
\* strings and integers as the encoding rules have them
StringEncoding(s) ==
  IF Len(s) = 1 /\ s[1] < Single THEN s
  ELSE (IF Len(s) < Short THEN <<StringTag + Len(s)>>
        ELSE <<LongString + intsize(Len(s))>> \o BigEndian(Len(s), intsize(Len(s)))) \o s
ListEncoding(s) ==
  (IF Len(s) < Short THEN <<ListTag + Len(s)>>
   ELSE <<LongList + intsize(Len(s))>> \o BigEndian(Len(s), intsize(Len(s)))) \o s
WriteBytes(s) == Wrote(writeBytes(buf, s), StringEncoding(s), BytesSize(s))
WriteUint64(i) ==
  Wrote(writeUint64(buf, i), StringEncoding(IF i = 0 THEN <<>> ELSE BigEndian(i, intsize(i))),
        IntSize(i))
WriteList ==
  /\ part = "buffer" /\ calls < MaxWrites /\ Len(open) < MaxDepth
  /\ calls' = calls + 1 /\ buf' = list(buf)
  /\ open' = Append(open, Len(buf.lheads) + 1)
  /\ written' = Append(written, <<>>) /\ sizes' = Append(sizes, 0)
  /\ UNCHANGED <<part, inputVars, streamVars, sharedVars>>
WriteListEnd ==
  /\ part = "buffer" /\ open # <<>>
  /\ buf' = listEnd(buf, Last(open)) /\ open' = Front(open)
  /\ written' = [Front(written) EXCEPT ![Len(open)] = @ \o ListEncoding(Last(written))]
  /\ sizes' = [Front(sizes) EXCEPT ![Len(open)] = @ + ListSize(Last(sizes))]
  /\ UNCHANGED <<part, inputVars, streamVars, calls, sharedVars>>
-----------------------------------------------------------------------------
Unshared == UNCHANGED <<part, inputVars, streamVars, bufferVars, calls>>
Next ==
  \/ \E b \in 0 .. Radix - 1 : Arrive(b)
  \/ CallKind \/ CallList \/ CallListEnd
  \/ \E op \in {"Bytes", "Uint", "Raw", "BigInt"} : CallValue(op)
  \/ \E s \in Strings : WriteBytes(s)
  \/ \E i \in Integers64 : WriteUint64(i)
  \/ WriteList \/ WriteListEnd
  \/ part = "pool" /\ PoolNext /\ Unshared
  \/ part = "cache" /\ CacheNext /\ Unshared
Spec == Init /\ [][Next]_vars
-----------------------------------------------------------------------------
(* Properties *)
\* Keys, stacks and states keep their types.
TypeOK ==
  /\ part \in Parts /\ calls \in Nat
  /\ stream.kind \in {Unread, Byte, String, List}
  /\ \A i \in DOMAIN stream.stack : stream.stack[i] \in 0 .. MaxUint64
  /\ stream.remaining \in 0 .. MaxUint64
  /\ pool \subseteq Buffers /\ \A u \in Users : held[u] \in Buffers \cup {0}
  /\ mu \in Goroutines \cup {0} /\ cur \subseteq Types /\ made \subseteq Types

\* the value Split and the list iterator find in b, in the form of decodeInterface
RECURSIVE RawValue(_)
Bad == [err |-> "error", val |-> Zero(Iface)]
RawList(count, vals) ==
  IF count # [err |-> "nil", n |-> Len(vals)] \/ \E i \in DOMAIN vals : vals[i].err # "nil"
  THEN Bad
  ELSE [err |-> "nil", val |-> [kind |-> List, bytes |-> <<>>,
                                elems |-> [i \in DOMAIN vals |-> vals[i].val]]]
RawSplit(r) ==
  CASE r.err # "nil" \/ r.rest # <<>> -> Bad
    [] r.err = "nil" /\ r.rest = <<>> /\ r.kind # List ->
         [err |-> "nil", val |-> [kind |-> String, bytes |-> r.content, elems |-> <<>>]]
    [] OTHER -> LET elems == Elements(r.content)
                IN RawList(CountValues(r.content), [i \in DOMAIN elems |-> RawValue(elems[i])])
RawValue(b) == RawSplit(Split(b))
\* The two decoders of the package, the Stream under an interface value and the
\* slices of raw.go, accept the same inputs and read the same value, and the
\* encoder writes exactly the input back: an accepted input is canonical.
DecodersAgree ==
  part = "input" =>
    \A s \in {DecodeBytes(Iface, input, Zero(Iface))}, r \in {RawValue(input)} :
       /\ (s.err = "nil") <=> (r.err = "nil")
       /\ s.err = "nil" => s.val = r.val /\ EncodeToBytes(Iface, s.val) = input

\* uint64, big.Int, uint256.Int and SplitUint64 read an integer alike, in the
\* range each has, and only from its one encoding; every way of writing the
\* integer gives that encoding, and IntSize tells its size.
IntegersAgree ==
  part = "input" =>
    \A Read64 \in {DecodeBytes([k |-> "uint", bytes |-> WordBytes], input, 0)},
       big \in {DecodeBytes([k |-> "big"], input, 0)},
       u256 \in {DecodeBytes([k |-> "u256"], input, 0)},
       split \in {SplitUint64(input)} :
       /\ big.err = "nil" =>
            /\ (Read64.err = "nil") <=> (big.val <= MaxUint64)
            /\ (u256.err = "nil") <=> (big.val < Radix ^ BigBytes)
            /\ (split.err = "nil") <=> (big.val <= MaxUint64)
            /\ copyTo(writeBigInt(reset, big.val)) = input
       /\ Read64.err = "nil" =>
            /\ big.err = "nil" /\ Read64.val = big.val /\ split.x = big.val /\ split.rest = <<>>
            /\ copyTo(writeUint64(reset, big.val)) = input
            /\ AppendUint64(<<>>, big.val) = input /\ IntSize(big.val) = Len(input)
       /\ u256.err = "nil" =>
            /\ big.err = "nil" /\ u256.val = big.val
            /\ copyTo(writeUint256(reset, big.val)) = input
       /\ (split.err = "nil" /\ split.rest = <<>>) => Read64.err = "nil"

Usable == {t \in LooseTypes : Serializable(t)}
\* A type without optional fields and nil pointers has one encoding per value:
\* what it decodes from it encodes back to, byte for byte.
TypedCanonical ==
  part = "input" =>
    \A t \in ExactTypes : \A r \in {DecodeBytes(t, input, Zero(t))} :
      r.err = "nil" => EncodeToBytes(t, r.val) = input
\* With optional fields and nil pointers the encoding may come out shorter, but
\* it decodes to the same value.
TypedRoundTrip ==
  part = "input" =>
    \A t \in Usable : \A r \in {DecodeBytes(t, input, Zero(t))} :
      r.err = "nil" =>
        \A again \in {DecodeBytes(t, EncodeToBytes(t, r.val), Zero(t))} :
          again.err = "nil" /\ again.val = r.val
\* What is decoded does not depend on what the target held before: elements of
\* a longer slice, the target of a pointer and optional fields are replaced.
UsedAsFresh ==
  part = "input" =>
    \A t \in ExactTypes \cup Usable :
      \A fresh \in {DecodeBytes(t, input, Zero(t))},
         used \in {DecodeBytes(t, input, UsedValue(t))} :
         /\ fresh.err = used.err
         /\ fresh.err = "nil" => fresh.val = used.val

\* When ListEnd or a read of a value succeeds, the reader stands where that list
\* or that value ends by its header.
EndsWhereItEnds == result.end # 0 => Position = result.end

\* Reading is exact: by every reader, for values and integers, and call by call.
ReadingExact == TypeOK /\ DecodersAgree /\ IntegersAgree /\ EndsWhereItEnds

\* Typed values are exact: in their encoding, in what they decode to and in what they
\* are decoded into.
TypedExact == TypedCanonical /\ TypedRoundTrip /\ UsedAsFresh

\* What is taken out of a buffer is the encoding of what was written, whichever
\* way it is taken out and in whatever pieces it is read; size tells its length,
\* and the size functions of raw.go sum up to it.
BufferExact ==
  part = "buffer" /\ open = <<>> =>
    LET bytes == written[1]
        RECURSIVE All(_, _)
        All(r, n) == LET x == Read(r, buf, n)
                     IN IF x.eof THEN x.out ELSE x.out \o All(x.r, n)
    IN /\ copyTo(buf) = bytes /\ FlattenSeq(writeTo(buf)) = bytes
       /\ size(buf) = Len(bytes) /\ sizes[1] = Len(bytes)
       /\ \A n \in Chunks : All(encReader, n) = bytes

\* Each user of the pool gets the encoding of its own value, whatever the others
\* do with the buffers it takes and gives back.
PoolExact ==
  part = "pool" =>
    \A u \in Users : \A own \in {EncodeToBytes(Iface, Message[u])} :
      /\ u = "reader" => IsPrefix(out[u], own)
      /\ at[u] = "done" => out[u] = IF u = "nested" THEN ListEncoding(own) ELSE own

\* Writing is exact: from a buffer of one's own and from the shared pool.
WritingExact == BufferExact /\ PoolExact

\* A goroutine that was given the information of a type can use it: it and that
\* of every type it may go on to has been generated.
RECURSIVE ReachedFrom(_)
ReachedFrom(ts) == LET more == ts \cup UNION {Refs[t] : t \in ts}
                   IN IF more = ts THEN ts ELSE ReachedFrom(more)
InfoUsable == \A g \in Goroutines : ReachedFrom(got[g]) \subseteq made
==============================================================================

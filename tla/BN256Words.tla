------------------------------- MODULE BN256Words -------------------------------
(***************************************************************************)
(* crypto/bn256/cloudflare/gfp_generic.go: the field operations on machine *)
(* words.  An element is a sequence of words, the low one first; every     *)
(* word operation wraps modulo Word, and the carries are recovered from    *)
(* the top bits of the operands and of the result, as the code does.       *)
(***************************************************************************)
EXTENDS Integers, Sequences, FiniteSetsExt

CONSTANTS Quarter,        \* the values of a quarter word (2^16 in the code)
          Words,          \* the words of an element (4 in the code)
          p2, np          \* P and -P^-1 mod R, as words

(* The last of values computed one after another *)
InOrder(values) == values[Len(values)]

Half == Quarter * Quarter
Word == Half * Half
Value(a) == MapThenSumSet(LAMBDA i : a[i] * Word ^ (i - 1), DOMAIN a)

Top(n) == n >= Word \div 2
(* The carry out of a sum c of a and b, the borrow out of c = a - b *)
CarryOf(a, b, c) == IF (Top(a) /\ Top(b)) \/ ((Top(a) \/ Top(b)) /\ ~Top(c)) THEN 1 ELSE 0
BorrowOf(a, b, c) == IF (Top(b) /\ ~Top(a)) \/ ((Top(b) \/ ~Top(a)) /\ Top(c)) THEN 1 ELSE 0

(* The words of a + b and of a - b, and what is carried out of the last *)
RECURSIVE AddWords(_, _, _)
AddWords(a, b, n) ==
  IF n = 0 THEN [c |-> <<>>, carry |-> 0]
  ELSE LET s == AddWords(a, b, n - 1)
           ci == (a[n] + b[n] + s.carry) % Word
       IN [c |-> Append(s.c, ci), carry |-> CarryOf(a[n], b[n], ci)]
RECURSIVE SubWords(_, _, _)
SubWords(a, b, n) ==
  IF n = 0 THEN [c |-> <<>>, carry |-> 0]
  ELSE LET s == SubWords(a, b, n - 1)
           ci == (a[n] - b[n] - s.carry) % Word
       IN [c |-> Append(s.c, ci), carry |-> BorrowOf(a[n], b[n], ci)]

\* Mutant: a sum is only reduced when it carries.
gfpCarryNever(a, head) == IF head = 0 THEN a ELSE SubWords(a, p2, Words).c
gfpCarry(a, head) ==
  LET b == SubWords(a, p2, Words) IN IF b.carry = 1 /\ head = 0 THEN a ELSE b.c
gfpNeg(a) == gfpCarry(SubWords(p2, a, Words).c, 0)
gfpAdd(a, b) == LET s == AddWords(a, b, Words) IN gfpCarry(s.c, s.carry)
gfpSub(a, b) ==
  LET s == AddWords(a, SubWords(p2, b, Words).c, Words) IN gfpCarry(s.c, s.carry)

(* Products of quarter words with half words, collected by quarter position *)
Quarters(n) == [q \in 0 .. 3 |-> (n \div Quarter ^ q) % Quarter]
Collected(a, b, pairs) ==
  [k \in 0 .. 8 * Words - 1 |->
     MapThenSumSet(LAMBDA ij :
         LET q == Quarters(a[ij[1]])
             b0 == b[ij[2]] % Half
             b2 == b[ij[2]] \div Half
             d == k - 4 * (ij[1] + ij[2] - 2)
         IN (IF d \in 0 .. 3 THEN q[d] * b0 ELSE 0)
            + (IF d \in 2 .. 5 THEN q[d - 2] * b2 ELSE 0),
       pairs) % Word]
(* The words after pass i of the carry propagation over n blocks *)
Propagate(buff, blocks, i, n) ==
  LET shift == Quarter ^ i
      RECURSIVE pass(_)
      pass(j) ==
        IF j = 0 THEN [z |-> <<>>, carry |-> 0, head |-> 0]
        ELSE LET s == pass(j - 1)
                 q == buff[4 * (j - 1) + i]
                 xi == blocks[j]
                 yi == (((q * shift) % Word) + s.head) % Word
                 zi == (xi + yi + s.carry) % Word
             IN InOrder(<<s, q, zi, [z |-> Append(s.z, zi), carry |-> CarryOf(xi, yi, zi),
                                     head |-> q \div (Word \div shift)]>>)
  IN InOrder(<<buff, blocks, pass(n).z>>)
Product(a, b, pairs, n) ==
  LET buff == Collected(a, b, pairs)
      blocks == [j \in 1 .. n |-> buff[4 * (j - 1)]]
  IN Propagate(buff, Propagate(buff, Propagate(buff, blocks, 1, n), 2, n), 3, n)
mul(a, b) == Product(a, b, (1 .. Words) \X (1 .. Words), 2 * Words)
halfMul(a, b) ==
  Product(a, b, {ij \in (1 .. Words) \X (1 .. Words) : ij[1] + ij[2] <= Words + 1}, Words)

UpperHalf(s) == InOrder(<<s, gfpCarry(SubSeq(s.c, Words + 1, 2 * Words), s.carry)>>)
Reduce(T) ==
  InOrder(<<T, UpperHalf(AddWords(T, mul(halfMul(SubSeq(T, 1, Words), np), p2), 2 * Words))>>)
gfpMul(a, b) == Reduce(mul(a, b))
=============================================================================

--------------------------------- MODULE BN256 ---------------------------------
(***************************************************************************)
(* crypto/bn256 as the precompiled contracts use it: bn256_fast.go and     *)
(* bn256_slow.go select one of two packages by platform, and nodes of both *)
(* kinds must agree.  Here the two packages run the same calls side by     *)
(* side, on one register of each group; the discrete logarithms k1, k2 and *)
(* kt of what the registers should hold are the reference.                 *)
(*                                                                         *)
(* The behaviours fall apart by the variable part, chosen at the start:    *)
(* "words" and "lattice" evaluate the two algorithms that only the fast    *)
(* package has, "tower" the field towers, "groups" the calls.              *)
(***************************************************************************)
EXTENDS Integers, Sequences, FiniteSetsExt

CONSTANTS P, Order, u, xiY, curveB, curveGen, twistGen, twistB, sixuPlus2NAF,
          xiToPMinus1Over6, xiToPMinus1Over3, xiToPMinus1Over2, xiTo2PMinus2Over3,
          xiToPSquaredMinus1Over3, xiTo2PSquaredMinus2Over3, xiToPSquaredMinus1Over6,
          Quarter, Words, p2, np, rN1, R2, R3,
          lambda,            \* (beta x, y) = lambda (x, y) on G1
          gT,                \* the encoding of the pairing of the generators
          Parts,             \* the parts this instance runs
          Scalars,           \* arguments of ScalarBaseMult and ScalarMult
          WordValues,        \* the second operands of part "words"
          MaxScalar,         \* bound on the scalars of part "lattice"
          Elements,          \* polynomials over GF(P) that part "tower" starts with
          Inputs1, Inputs2,  \* encodings given to Unmarshal
          MaxCalls,          \* bound on the calls of part "groups"
          MaxPairs           \* bound on the pairs of one PairingCheck

Google == INSTANCE BN256Google
Limbs == INSTANCE BN256Words
Cloudflare == INSTANCE BN256Cloudflare WITH Word <- Limbs!Word

VARIABLES part,      \* what this behaviour exercises
          arg,       \* the arguments of the pure parts
          g, c,      \* the registers of the two packages
          k,         \* the logarithms of what they should hold
          calls,     \* calls made so far
          pairs,     \* pairs accumulated in the PairingCheck under way
          answer     \* its results
vars == <<part, arg, g, c, k, calls, pairs, answer>>
-----------------------------------------------------------------------------
(* Reference: GF(P^12) as polynomials modulo w^12 - 2 xiY w^6 + xiY^2 + 1,    *)
(* of which omega = w, tau = w^2 and i = w^6 - xiY are elements; coefficient   *)
(* n + 1 of the sequence is that of w^n.                                       *)
InOrder(values) == values[Len(values)]        \* computed one after another
Seqd(f) == <<>> \o f                          \* the function f as a sequence
PolyProduct(a, b) ==
  LET t(n, i) == IF n - i \in 0 .. 11 THEN a[i] * b[n - i + 1] ELSE 0
      prod == Seqd([n \in 1 .. 24 |->
                 (t(n, 1) + t(n, 2) + t(n, 3) + t(n, 4) + t(n, 5) + t(n, 6) + t(n, 7)
                  + t(n, 8) + t(n, 9) + t(n, 10) + t(n, 11) + t(n, 12)) % P])
      \* w^(n+18) and w^(n+12) in terms of lower powers
      hi == Seqd([n \in 1 .. 6 |-> prod[n + 12] + 2 * xiY * prod[n + 18]])
  IN Seqd([n \in 1 .. 12 |->
        IF n <= 6 THEN (prod[n] - (xiY * xiY + 1) * hi[n]) % P
        ELSE (prod[n] + 2 * xiY * hi[n - 6] - (xiY * xiY + 1) * prod[n + 12]) % P])
PolyMul(a, b) == InOrder(<<a, b, PolyProduct(a, b)>>)
PolySquare(a) == PolyMul(a, a)
PolyOne == <<1, 0, 0, 0, 0, 0, 0, 0, 0, 0, 0, 0>>
RECURSIVE PolyExp(_, _)
PolyExp(a, n) ==
  IF n = 0 THEN PolyOne
  ELSE LET h == PolyExp(a, n \div 2)
       IN InOrder(<<h, IF n % 2 = 1 THEN PolyMul(PolySquare(h), a) ELSE PolySquare(h)>>)
(* a to the power P^n *)
RECURSIVE PolyFrobenius(_, _)
PolyFrobenius(a, n) ==
  IF n = 0 THEN a ELSE LET h == PolyFrobenius(a, n - 1) IN InOrder(<<h, PolyExp(h, P)>>)
(* The polynomial of an encoding <<x.x.x, x.x.y, x.y.x, ...>>, and back: the   *)
(* pair <<b, a>> at the place of w^n stands for (b i + a) w^n.                 *)
Place == <<5, 3, 1, 4, 2, 0>>
PolyOf(m) ==
  LET pair(n) == CHOOSE j \in 1 .. 6 : Place[j] = n
  IN Seqd([n \in 1 .. 12 |->
        IF n <= 6 THEN (m[2 * pair(n - 1)] - xiY * m[2 * pair(n - 1) - 1]) % P
        ELSE m[2 * pair(n - 7) - 1]])
EncodingOf(f) ==
  Seqd([j \in 1 .. 12 |->
     LET n == Place[(j + 1) \div 2] + 1
     IN IF j % 2 = 1 THEN f[n + 6] ELSE (f[n] + xiY * f[n + 6]) % P])

(* The affine group law of both curves, by chords and tangents over GF(P^2);  *)
(* <<b, a>> stands for b i + a, and <<>> for the point at infinity.            *)
F(b, a) == <<b % P, a % P>>
FAdd(a, b) == F(a[1] + b[1], a[2] + b[2])
FSub(a, b) == F(a[1] - b[1], a[2] - b[2])
FMul(a, b) == F(a[1] * b[2] + a[2] * b[1], a[2] * b[2] - a[1] * b[1])
FInv(a) ==
  LET n == CHOOSE n \in 1 .. P - 1 : ((a[1] * a[1] + a[2] * a[2]) * n) % P = 1
  IN F(-a[1] * n, a[2] * n)
AlongLine(a, b, s) ==         \* the third point of the line of slope s through a and b
  LET x == FSub(FSub(FMul(s, s), a[1]), b[1])
  IN InOrder(<<s, x, <<x, FSub(FMul(s, FSub(a[1], x)), a[2])>>>>)
AffineAdd(a, b) ==
  IF a = <<>> THEN b ELSE IF b = <<>> THEN a
  ELSE IF a[1] = b[1] /\ FAdd(a[2], b[2]) = F(0, 0) THEN <<>>
  ELSE AlongLine(a, b,
         IF a = b THEN FMul(FMul(F(0, 3), FMul(a[1], a[1])), FInv(FAdd(a[2], a[2])))
         ELSE FMul(FSub(b[2], a[2]), FInv(FSub(b[1], a[1]))))
AffineDouble(a) == AffineAdd(a, a)
RECURSIVE AffineMul(_, _)
AffineMul(a, n) ==
  IF n = 0 THEN <<>>
  ELSE LET h == AffineMul(a, n \div 2)
       IN InOrder(<<h, IF n % 2 = 1 THEN AffineAdd(AffineDouble(h), a) ELSE AffineDouble(h)>>)
Gen1 == <<F(0, curveGen[1]), F(0, curveGen[2])>>
Gen2 == <<F(twistGen[1].x, twistGen[1].y), F(twistGen[2].x, twistGen[2].y)>>
(* The encodings of points: of G1 without the zero i parts *)
Encoding1(a) == IF a = <<>> THEN <<0, 0>> ELSE <<a[1][2], a[2][2]>>
Encoding2(a) == IF a = <<>> THEN <<0, 0, 0, 0>> ELSE a[1] \o a[2]
-----------------------------------------------------------------------------
None == "none"
G2Made(b, made) ==           \* a G2 point as a caller may have come by it
  CASE made = "mult" -> [g |-> Google!G2ScalarBaseMult(b), c |-> Cloudflare!G2ScalarBaseMult(b)]
    [] made = "unmarshal" ->
         LET m == Encoding2(AffineMul(Gen2, b))
         IN [g |-> Google!G2Unmarshal(m),
             c |-> Cloudflare!G2Unmarshal(Cloudflare!twistZero, m)]

Init ==
  /\ part \in Parts
  /\ calls = 0 /\ pairs = 0 /\ answer = None
  /\ k = IF part = "GT" THEN 0 ELSE 1
  /\ CASE part = "tower" ->
            \E f \in Elements :
              /\ arg = [op |-> None, prev |-> f, other |-> f]
              /\ g = Google!GTUnmarshal(EncodingOf(f))
              /\ c = Cloudflare!GTUnmarshal(EncodingOf(f))
       [] part = "G1" ->
            /\ arg = None
            /\ g = Google!G1Unmarshal(Encoding1(Gen1))
            /\ c = Cloudflare!G1Unmarshal(Encoding1(Gen1))
       [] part = "G2" ->
            /\ arg = None
            /\ g = Google!G2Unmarshal(Encoding2(Gen2))
            /\ c = Cloudflare!G2Unmarshal(Cloudflare!twistZero, Encoding2(Gen2))
       [] part = "GT" ->
            /\ arg = None
            /\ g = Google!gfP12One /\ c = Cloudflare!gfP12One
       [] part = "pairing" ->
            /\ arg = 0                   \* the sum of the products of logarithms
            /\ g = Google!gfP12One /\ c = Cloudflare!gfP12One
       [] part = "lattice" -> arg = -1 /\ g = None /\ c = None
       [] part = "words" -> arg = <<>> /\ g = None /\ c = None
-----------------------------------------------------------------------------
(* The pure parts *)
CombineWords ==
  /\ part = "words" /\ arg = <<>>
  /\ \E a \in 0 .. P - 1, b \in WordValues : arg' = <<a, b>>
  /\ UNCHANGED <<part, g, c, k, calls, pairs, answer>>
Decompose ==
  /\ part = "lattice" /\ arg = -1
  /\ arg' \in 0 .. MaxScalar
  /\ UNCHANGED <<part, g, c, k, calls, pairs, answer>>
TowerOps == {"mul", "square", "invert", "frobenius", "frobeniusP2", "frobeniusP4", "conjugate"}
Tower ==
  /\ part = "tower" /\ calls < MaxCalls
  /\ \E op \in TowerOps, f \in Elements :
       /\ op = "mul" \/ f = arg.other
       /\ arg' = [op |-> op, prev |-> PolyOf(Google!GTMarshal(g)), other |-> f]
       /\ g' = CASE op = "mul" -> Google!gfP12Mul(g, Google!GTUnmarshal(EncodingOf(f)))
                 [] op = "square" -> Google!gfP12Square(g)
                 [] op = "invert" -> Google!gfP12Invert(g)
                 [] op = "frobenius" -> Google!gfP12Frobenius(g)
                 [] op = "frobeniusP2" -> Google!gfP12FrobeniusP2(g)
                 [] op = "frobeniusP4" -> Google!gfP12FrobeniusP2(Google!gfP12FrobeniusP2(g))
                 [] op = "conjugate" -> Google!gfP12Conjugate(g)
       /\ c' = CASE op = "mul" -> Cloudflare!gfP12Mul(c, Cloudflare!GTUnmarshal(EncodingOf(f)))
                 [] op = "square" -> Cloudflare!gfP12Square(c)
                 [] op = "invert" -> Cloudflare!gfP12Invert(c)
                 [] op = "frobenius" -> Cloudflare!gfP12Frobenius(c)
                 [] op = "frobeniusP2" -> Cloudflare!gfP12FrobeniusP2(c)
                 [] op = "frobeniusP4" -> Cloudflare!gfP12FrobeniusP4(c)
                 [] op = "conjugate" -> Cloudflare!gfP12Conjugate(c)
  /\ calls' = calls + 1
  /\ UNCHANGED <<part, k, pairs, answer>>
-----------------------------------------------------------------------------
(* The calls on a register of one group: the receiver is the register, as in *)
(* e.Add(e, b).                                                              *)
Call(group) ==
  /\ part = group /\ calls < MaxCalls /\ answer = None
  /\ calls' = calls + 1
  /\ UNCHANGED <<part, arg, pairs, answer>>
ScalarMult ==
  \E n \in Scalars :
    /\ k' = (k * n) % Order
    /\ \/ /\ Call("G1")
          /\ g' = Google!G1ScalarMult(g, n) /\ c' = Cloudflare!G1ScalarMult(c, n)
       \/ /\ Call("G2")
          /\ g' = Google!G2ScalarMult(g, n) /\ c' = Cloudflare!G2ScalarMult(c, n)
       \/ /\ Call("GT")
          /\ g' = Google!GTScalarMult(g, n) /\ c' = Cloudflare!GTScalarMult(c, n)
AddSelf ==
  /\ k' = (2 * k) % Order
  /\ \/ /\ Call("G1")
        /\ g' = Google!G1Add(g, g) /\ c' = Cloudflare!G1Add(c, c)
     \/ /\ Call("G2")
        /\ g' = Google!G2Add(g, g, g) /\ c' = Cloudflare!G2Add(c, c, c)
     \/ /\ Call("GT")
        /\ g' = Google!GTAdd(g, g) /\ c' = Cloudflare!GTAdd(c, c)
AddBaseMult ==
  \E n \in Scalars :
    /\ k' = (k + n) % Order
    /\ \/ /\ Call("G1")
          /\ g' = Google!G1Add(g, Google!G1ScalarBaseMult(n))
          /\ c' = Cloudflare!G1Add(c, Cloudflare!G1ScalarBaseMult(n))
       \/ /\ Call("G2")
          /\ g' = Google!G2Add(g, g, Google!G2ScalarBaseMult(n))
          /\ c' = Cloudflare!G2Add(c, c, Cloudflare!G2ScalarBaseMult(n))
Neg ==
  /\ k' = (-k) % Order
  /\ \/ /\ Call("G1")
        /\ g' = Google!G1Neg(g) /\ c' = Cloudflare!G1Neg(c)
     \/ /\ Call("G2")              \* the portable package has no G2.Neg
        /\ g' = Google!G2ScalarMult(g, Order - 1) /\ c' = Cloudflare!G2Neg(c)
     \/ /\ Call("GT")
        /\ g' = Google!GTNeg(g) /\ c' = Cloudflare!GTNeg(c)
Marshal ==
  /\ k' = k
  /\ \/ /\ Call("G1")
        /\ g' = Google!G1Normal(g) /\ c' = Cloudflare!G1Normal(c)
     \/ /\ Call("G2")
        /\ g' = Google!G2Normal(g) /\ c' = Cloudflare!G2Normal(c)
(* Pair: the Miller loop, then the final exponentiation *)
Miller ==
  /\ part = "GT" /\ calls = 0
  /\ \E a, b \in Scalars :
       /\ k' = (a * b) % Order
       /\ g' = Google!optimalAteLoop(Google!G2ScalarBaseMult(b), Google!G1ScalarBaseMult(a))
       /\ c' = Cloudflare!optimalAteLoop(Cloudflare!G2ScalarBaseMult(b),
                                         Cloudflare!G1ScalarBaseMult(a))
  /\ answer' = "miller"
  /\ calls' = calls + 1
  /\ UNCHANGED <<part, arg, pairs>>
Finalize ==
  /\ answer = "miller"
  /\ g' = Google!finalExponentiation(g) /\ c' = Cloudflare!finalExponentiation(c)
  /\ answer' = None
  /\ UNCHANGED <<part, arg, k, calls, pairs>>
(* Unmarshal into a new point, as contracts.go's newCurvePoint and newTwistPoint *)
Unmarshal ==
  /\ calls = 0 /\ answer = None
  /\ \/ /\ part = "G1"
        /\ \E m \in Inputs1 :
             /\ arg' = m
             /\ g' = Google!G1Unmarshal(m) /\ c' = Cloudflare!G1Unmarshal(m)
     \/ /\ part = "G2"
        /\ \E m \in Inputs2 :
             /\ arg' = m
             /\ g' = Google!G2Unmarshal(m)
             /\ c' = Cloudflare!G2Unmarshal(Cloudflare!twistZero, m)
  /\ answer' = "unmarshalled"            \* ends the behaviour
  /\ calls' = calls + 1
  /\ UNCHANGED <<part, k, pairs>>
-----------------------------------------------------------------------------
(* PairingCheck: an iteration of its loop, then the final exponentiation *)
Accumulate ==
  /\ part = "pairing" /\ answer = None /\ pairs < MaxPairs
  /\ \E a, b \in Scalars, made \in {"mult", "unmarshal"} :
       \E e2 \in {G2Made(b, made)} :
          /\ arg' = (arg + a * b) % Order
          /\ g' = Google!PairingAccumulate(g, Google!G1ScalarBaseMult(a), e2.g)
          /\ c' = Cloudflare!PairingAccumulate(c, Cloudflare!G1ScalarBaseMult(a), e2.c)
  /\ pairs' = pairs + 1
  /\ UNCHANGED <<part, k, calls, answer>>
PairingCheck ==
  /\ part = "pairing" /\ answer = None
  /\ answer' = <<Google!PairingAnswer(g), Cloudflare!PairingAnswer(c)>>
  /\ UNCHANGED <<part, arg, g, c, k, calls, pairs>>

Next == \/ CombineWords \/ Decompose \/ Tower
        \/ ScalarMult \/ AddSelf \/ AddBaseMult \/ Neg \/ Marshal \/ Unmarshal \/ Miller \/ Finalize
        \/ Accumulate \/ PairingCheck
Spec == Init /\ [][Next]_vars
-----------------------------------------------------------------------------
WordsOf(n) == [i \in 1 .. Words |-> (n \div Limbs!Word ^ (i - 1)) % Limbs!Word]
(* The word arithmetic of gfp_generic.go, with its carries rebuilt from top   *)
(* bits and its single conditional subtraction, computes sums, differences,   *)
(* negatives and Montgomery products modulo P, always fully reduced.          *)
WordsAgree ==
  part = "words" /\ arg # <<>> =>
    LET a == WordsOf(arg[1])
        b == WordsOf(arg[2])
    IN /\ Limbs!Value(Limbs!gfpAdd(a, b)) = Cloudflare!gfpAdd(arg[1], arg[2])
       /\ Limbs!Value(Limbs!gfpSub(a, b)) = Cloudflare!gfpSub(arg[1], arg[2])
       /\ Limbs!Value(Limbs!gfpNeg(a)) = Cloudflare!gfpNeg(arg[1])
       /\ Limbs!Value(Limbs!gfpMul(a, b)) = Cloudflare!gfpMul(arg[1], arg[2])
       /\ arg[1] # 0 => Cloudflare!gfpMul(Cloudflare!gfpInvert(arg[1]), arg[1]) = Cloudflare!newGFp(1)
(* "decompose ... finds a short, positive decomposition" (lattice.go): the    *)
(* parts recompose the scalar, neither is negative, and both have about half  *)
(* its bits, for scalars at and beyond the group order too, which is what     *)
(* the scalar multiplication precompile passes on.                            *)
Decomposes ==
  part = "lattice" /\ arg # -1 =>
    \A d \in {Cloudflare!decompose(Cloudflare!curveLattice, arg)} :
       /\ (d[1] + d[2] * lambda - arg) % Order = 0
       /\ \A i \in 1 .. 2 : d[i] \in 0 .. 4 * (6 * u * u + 6 * u + 2)
(* Whatever sequence of multiplications, inversions and Frobenius maps led to *)
(* it, an element of GF(P^12) that one package holds encodes to the value     *)
(* polynomial arithmetic gives: leaving sums unreduced (google) or in         *)
(* Montgomery form (cloudflare) never shows.                                  *)
TowerAgrees ==
  part = "tower" /\ arg.op # None =>
    LET Right(f) ==
          CASE arg.op = "mul" -> f = PolyMul(arg.prev, arg.other)
            [] arg.op = "square" -> f = PolyMul(arg.prev, arg.prev)
            [] arg.op = "invert" -> PolyMul(f, arg.prev) = PolyOne
            [] arg.op = "frobenius" -> f = PolyFrobenius(arg.prev, 1)
            [] arg.op = "frobeniusP2" -> f = PolyFrobenius(arg.prev, 2)
            [] arg.op = "frobeniusP4" -> f = PolyFrobenius(arg.prev, 4)
            [] arg.op = "conjugate" -> f = PolyFrobenius(arg.prev, 6)
    IN /\ Google!GTMarshal(g) = Cloudflare!GTMarshal(c)
       /\ Right(PolyOf(Cloudflare!GTMarshal(c)))
(* The fields are right from the words up to GF(P^12), and scalars decompose. *)
ArithmeticExact == WordsAgree /\ Decomposes /\ TowerAgrees
(* Each of the three groups is cyclic as documented, and a pairing is the     *)
(* power of gT that bilinearity asks for: after any calls, with               *)
(* the register both operand and receiver, both packages marshal the multiple *)
(* of the generator that the calls denote.  Node kinds therefore agree.       *)
GroupsAgree ==
  answer = None =>
    /\ part = "G1" => LET m == Encoding1(AffineMul(Gen1, k))
                      IN Google!G1Marshal(g) = m /\ Cloudflare!G1Marshal(c) = m
    /\ part = "G2" => LET m == Encoding2(AffineMul(Gen2, k))
                      IN Google!G2Marshal(g) = m /\ Cloudflare!G2Marshal(c) = m
    /\ part = "GT" => LET m == EncodingOf(PolyExp(PolyOf(gT), k))
                      IN Google!GTMarshal(g) = m /\ Cloudflare!GTMarshal(c) = m
(* Unmarshal accepts exactly the encodings of group elements: on G1 the       *)
(* points of the curve, on G2 only its subgroup of the right order; a         *)
(* coordinate that is not reduced is refused, even when it is congruent to    *)
(* one of a point.  What it accepts marshals to the bytes it was read from.   *)
Members1 == {Encoding1(AffineMul(Gen1, n)) : n \in 0 .. Order - 1}
Members2 == {Encoding2(AffineMul(Gen2, n)) : n \in 0 .. Order - 1}
OnlyGroupElements ==
  answer = "unmarshalled" =>
    /\ part = "G1" =>
         IF arg \in Members1 THEN Google!G1Marshal(g) = arg /\ Cloudflare!G1Marshal(c) = arg
         ELSE g = Google!Failed /\ c = Cloudflare!Failed
    /\ part = "G2" =>
         IF arg \in Members2 THEN Google!G2Marshal(g) = arg /\ Cloudflare!G2Marshal(c) = arg
         ELSE g = Google!Failed /\ c = Cloudflare!Failed
(* The groups are right: what is computed in them, and what may enter them.   *)
GroupsExact == GroupsAgree /\ OnlyGroupElements
(* e(g1^x, g2^y) = gT^xy (package documentation): both packages answer a      *)
(* PairingCheck with true exactly if the sum of the products of logarithms is *)
(* zero modulo the order; pairs with a point at infinity count for nothing.   *)
PairingBilinear ==
  part = "pairing" /\ answer # None => answer = <<arg = 0, arg = 0>>
=============================================================================

---------------------------- MODULE BN256Cloudflare ----------------------------
(***************************************************************************)
(* crypto/bn256/cloudflare: the pairing that bn256_fast.go builds on amd64 *)
(* and arm64.  It differs from the portable package in its representation  *)
(* (field elements are always reduced and kept in Montgomery form, a R mod *)
(* P), in the multiplication on G1 (the scalar is split in two along a     *)
(* lattice) and in how its points are read, written and negated.           *)
(*                                                                         *)
(* An element is the number its words spell, so gfpMul is a b R^-1 mod P;  *)
(* that the words of gfp_generic.go compute just that is BN256Words' part. *)
(* The curve is a constant, as in BN256Google.                             *)
(***************************************************************************)
EXTENDS Integers, Sequences

CONSTANTS P, Order, u, xiY, curveB, curveGen, twistGen, twistB, sixuPlus2NAF,
          xiToPMinus1Over6, xiToPMinus1Over3, xiToPMinus1Over2, xiTo2PMinus2Over3,
          xiToPSquaredMinus1Over3, xiTo2PSquaredMinus2Over3, xiToPSquaredMinus1Over6,
          Word,                 \* the values of one word (2^64 in the code)
          Words,                \* the words of an element (4 in the code)
          rN1, R2, R3           \* R^-1, R^2 and R^3 mod P with R = Word^Words
(* The last of values computed one after another *)
InOrder(values) == values[Len(values)]
-----------------------------------------------------------------------------
(* gfp_generic.go and gfp.go *)
gfpAdd(a, b) == (a + b) % P
gfpSub(a, b) == (a - b) % P
gfpNeg(a) == (-a) % P
gfpMul(a, b) == (((a * b) % P) * rN1) % P
montEncode(a) == gfpMul(a, R2)
montDecode(a) == gfpMul(a, 1)
newGFp(n) == IF n >= 0 THEN montEncode(n) ELSE montEncode(gfpNeg(-n))
(* sum and power after the bits of gfP.Invert's exponent P - 2 below bit n *)
RECURSIVE InvertBits(_, _)
InvertBits(f, n) ==
  IF n = 0 THEN [sum |-> rN1, power |-> f]
  ELSE LET s == InvertBits(f, n - 1)
       IN [sum |-> IF ((P - 2) \div 2 ^ (n - 1)) % 2 = 1 THEN gfpMul(s.sum, s.power)
                   ELSE s.sum,
           power |-> gfpMul(s.power, s.power)]
BitLen(n) ==                           \* big.Int.BitLen
  IF n = 0 THEN 0
  ELSE CHOOSE l \in 1 .. 30 :
         LET a == IF n < 0 THEN -n ELSE n IN 2 ^ (l - 1) <= a /\ a < 2 ^ l
gfpInvert(f) == gfpMul(InvertBits(f, BitLen(P)).sum, R3)
(* gfP.Unmarshal adds the bytes of in into the words the receiver e holds *)
AddWords(e, in) ==
  LET RECURSIVE Low(_)
      Low(w) ==
        IF w = 0 THEN 0
        ELSE Low(w - 1) + Word ^ (w - 1) * ((e \div Word ^ (w - 1) + in \div Word ^ (w - 1)) % Word)
  IN Low(Words)
Failed == [error |-> TRUE]
gfpUnmarshal(e, in) == AddWords(e, in)         \* refused by the caller from P on
-----------------------------------------------------------------------------
(* gfp2.go: x i + y *)
GF2(x, y) == [x |-> x, y |-> y]
gfP2Encode(c) == GF2(newGFp(c.x), newGFp(c.y))       \* a literal of the code
gfP2Decode(in) == GF2(montDecode(in.x), montDecode(in.y))
gfP2Zero == GF2(0, 0)
gfP2One == GF2(0, newGFp(1))
gfP2IsZero(e) == e = gfP2Zero
gfP2IsOne(e) == e = gfP2One
gfP2Conjugate(a) == GF2(gfpNeg(a.x), a.y)
gfP2Negative(a) == GF2(gfpNeg(a.x), gfpNeg(a.y))
gfP2Add(a, b) == GF2(gfpAdd(a.x, b.x), gfpAdd(a.y, b.y))
gfP2Sub(a, b) == GF2(gfpSub(a.x, b.x), gfpSub(a.y, b.y))
gfP2Mul(a, b) ==
  GF2(gfpAdd(gfpMul(a.x, b.y), gfpMul(b.x, a.y)), gfpSub(gfpMul(a.y, b.y), gfpMul(a.x, b.x)))
gfP2MulScalar(a, b) == GF2(gfpMul(a.x, b), gfpMul(a.y, b))
gfP2MulXi(a) == GF2((xiY * a.x + a.y) % P, (xiY * a.y - a.x) % P)  \* repeated gfpAdd
gfP2Square(a) ==
  LET t == gfpMul(a.x, a.y)
  IN GF2(gfpAdd(t, t), gfpMul(gfpSub(a.y, a.x), gfpAdd(a.x, a.y)))
gfP2Invert(a) ==
  LET inv == gfpInvert(gfpAdd(gfpMul(a.x, a.x), gfpMul(a.y, a.y)))
  IN GF2(gfpMul(gfpNeg(a.x), inv), gfpMul(a.y, inv))
gfP2Double(a) == gfP2Add(a, a)

a \oplus b == gfP2Add(a, b)
a \ominus b == gfP2Sub(a, b)
a \otimes b == InOrder(<<a, b, gfP2Mul(a, b)>>)
-----------------------------------------------------------------------------
(* gfp6.go: x tau^2 + y tau + z with tau^3 = xi *)
GF6(x, y, z) == [x |-> x, y |-> y, z |-> z]
gfP6Zero == GF6(gfP2Zero, gfP2Zero, gfP2Zero)
gfP6One == GF6(gfP2Zero, gfP2Zero, gfP2One)
gfP6IsZero(e) == gfP2IsZero(e.x) /\ gfP2IsZero(e.y) /\ gfP2IsZero(e.z)
gfP6IsOne(e) == gfP2IsZero(e.x) /\ gfP2IsZero(e.y) /\ gfP2IsOne(e.z)
gfP6Negative(a) == GF6(gfP2Negative(a.x), gfP2Negative(a.y), gfP2Negative(a.z))
gfP6Frobenius(a) ==
  GF6(gfP2Conjugate(a.x) \otimes gfP2Encode(xiTo2PMinus2Over3),
      gfP2Conjugate(a.y) \otimes gfP2Encode(xiToPMinus1Over3), gfP2Conjugate(a.z))
gfP6FrobeniusP2(a) ==
  GF6(gfP2MulScalar(a.x, newGFp(xiTo2PSquaredMinus2Over3)),
      gfP2MulScalar(a.y, newGFp(xiToPSquaredMinus1Over3)), a.z)
gfP6FrobeniusP4(a) ==
  GF6(gfP2MulScalar(a.x, newGFp(xiToPSquaredMinus1Over3)),
      gfP2MulScalar(a.y, newGFp(xiTo2PSquaredMinus2Over3)), a.z)
gfP6Add(a, b) == GF6(a.x \oplus b.x, a.y \oplus b.y, a.z \oplus b.z)
gfP6Sub(a, b) == GF6(a.x \ominus b.x, a.y \ominus b.y, a.z \ominus b.z)
gfP6Double(a) == GF6(gfP2Double(a.x), gfP2Double(a.y), gfP2Double(a.z))
(* The product from the products of the coefficients and of their pairwise sums *)
Karatsuba(v0, v1, v2, xy, yz, xz) ==
  InOrder(<<v0, v1, v2, xy, yz, xz,
    GF6(((xz \ominus v0) \oplus v1) \ominus v2,
        ((yz \ominus v0) \ominus v1) \oplus gfP2MulXi(v2),
        gfP2MulXi((xy \ominus v1) \ominus v2) \oplus v0)>>)
gfP6Mul(a, b) ==
  Karatsuba(a.z \otimes b.z, a.y \otimes b.y, a.x \otimes b.x,
            (a.x \oplus a.y) \otimes (b.x \oplus b.y), (a.y \oplus a.z) \otimes (b.y \oplus b.z),
            (a.x \oplus a.z) \otimes (b.x \oplus b.z))
gfP6MulScalar(a, b) == GF6(a.x \otimes b, a.y \otimes b, a.z \otimes b)
gfP6MulGFP(a, b) ==
  GF6(gfP2MulScalar(a.x, b), gfP2MulScalar(a.y, b), gfP2MulScalar(a.z, b))
gfP6MulTau(a) == GF6(a.y, a.z, gfP2MulXi(a.x))
gfP6Square(a) ==
  Karatsuba(gfP2Square(a.z), gfP2Square(a.y), gfP2Square(a.x), gfP2Square(a.x \oplus a.y),
            gfP2Square(a.y \oplus a.z), gfP2Square(a.x \oplus a.z))
gfP6Invert(a) ==
  LET A == gfP2Square(a.z) \ominus gfP2MulXi(a.x \otimes a.y)
      B == gfP2MulXi(gfP2Square(a.x)) \ominus (a.y \otimes a.z)
      C == gfP2Square(a.y) \ominus (a.x \otimes a.z)
      F == gfP2MulXi(C \otimes a.y) \oplus (A \otimes a.z)
           \oplus gfP2MulXi(B \otimes a.x)
      f == gfP2Invert(F)
  IN InOrder(<<A, B, C, F, f, GF6(C \otimes f, B \otimes f, A \otimes f)>>)

a ++ b == gfP6Add(a, b)
a -- b == gfP6Sub(a, b)
a ** b == InOrder(<<a, b, gfP6Mul(a, b)>>)
-----------------------------------------------------------------------------
(* gfp12.go: x omega + y with omega^2 = tau *)
GF12(x, y) == [x |-> x, y |-> y]
gfP12One == GF12(gfP6Zero, gfP6One)
gfP12IsZero(e) == gfP6IsZero(e.x) /\ gfP6IsZero(e.y)
gfP12IsOne(e) == gfP6IsZero(e.x) /\ gfP6IsOne(e.y)
gfP12Conjugate(a) == GF12(gfP6Negative(a.x), a.y)
gfP12Negative(a) == GF12(gfP6Negative(a.x), gfP6Negative(a.y))
gfP12Frobenius(a) ==
  GF12(gfP6MulScalar(gfP6Frobenius(a.x), gfP2Encode(xiToPMinus1Over6)), gfP6Frobenius(a.y))
gfP12FrobeniusP2(a) ==
  GF12(gfP6MulGFP(gfP6FrobeniusP2(a.x), newGFp(xiToPSquaredMinus1Over6)), gfP6FrobeniusP2(a.y))
gfP12FrobeniusP4(a) ==
  GF12(gfP6MulGFP(gfP6FrobeniusP4(a.x), newGFp(xiToPSquaredMinus1Over3)), gfP6FrobeniusP4(a.y))
gfP12Add(a, b) == GF12(a.x ++ b.x, a.y ++ b.y)
gfP12Sub(a, b) == GF12(a.x -- b.x, a.y -- b.y)
gfP12Mul(a, b) ==
  InOrder(<<a, b,
    GF12((a.x ** b.y) ++ (b.x ** a.y), (a.y ** b.y) ++ gfP6MulTau(a.x ** b.x))>>)
gfP12MulScalar(e, b) == GF12(e.x ** b, e.y ** b)
gfP12Square(a) ==
  LET v0 == a.x ** a.y
      ty == ((a.x ++ a.y) ** (a.y ++ gfP6MulTau(a.x))) -- v0
  IN GF12(gfP6Double(v0), ty -- gfP6MulTau(v0))
gfP12Invert(a) ==
  LET t1 == gfP6Square(a.y) -- gfP6MulTau(gfP6Square(a.x))
      t2 == gfP6Invert(t1)
  IN InOrder(<<a, t1, t2, gfP12MulScalar(gfP12Conjugate(a), t2)>>)
RECURSIVE gfP12Exp(_, _)
gfP12Exp(a, power) ==
  IF power = 0 THEN gfP12One
  ELSE LET sum == gfP12Exp(a, power \div 2)
           t == gfP12Square(sum)
       IN InOrder(<<sum, t, IF power % 2 # 0 THEN gfP12Mul(t, a) ELSE t>>)
-----------------------------------------------------------------------------
(* lattice.go: multiplication by k is multiplication by its coordinates in a *)
(* lattice of short vectors, where the endomorphism (x, y) -> (beta x, y)     *)
(* stands for the second axis.                                                *)
curveLattice ==
  [vectors |-> <<<<6 * u * u + 2 * u, 6 * u * u + 4 * u + 1>>,
                 <<6 * u * u + 6 * u + 2, -(6 * u * u - 1)>>>>,
   inverse |-> <<6 * u * u - 1, 6 * u * u + 4 * u + 1>>,
   det |-> 2 * Order]
half == Order \div 2
round(num, denom) == (num \div denom) + (IF num % denom > half THEN 1 ELSE 0)
decompose(l, k) ==
  LET c == [i \in 1 .. 2 |-> round(k * l.inverse[i], l.det)]
      out == [i \in 1 .. 2 |-> -(c[1] * l.vectors[1][i] + c[2] * l.vectors[2][i])
                                + 2 * l.vectors[1][i]]
  IN [out EXCEPT ![1] = @ + k]
Bit(n, i) == (n \div 2 ^ i) % 2                        \* big.Int.Bit
Multi(l, k) ==                                        \* low digit first
  LET d == decompose(l, k)
      maxLen == IF BitLen(d[1]) > BitLen(d[2]) THEN BitLen(d[1]) ELSE BitLen(d[2])
  IN [i \in 1 .. maxLen |-> Bit(d[1], i - 1) + 2 * Bit(d[2], i - 1)]
-----------------------------------------------------------------------------
(* curve.go: Jacobian points of y^2 = x^3 + curveB.  The field t of a       *)
(* curvePoint is written and copied but never read, and is left out.        *)
Curve(x, y, z) == [x |-> x, y |-> y, z |-> z]
curveInfinity == Curve(0, newGFp(1), 0)
curveIsInfinity(c) == c.z = 0
curveDouble(a) ==
  LET A == gfpMul(a.x, a.x)
      B == gfpMul(a.y, a.y)
      C == gfpMul(B, B)
      s == gfpAdd(a.x, B)
      t2 == gfpSub(gfpSub(gfpMul(s, s), A), C)
      d == gfpAdd(t2, t2)
      e == gfpAdd(gfpAdd(A, A), A)
      x == gfpSub(gfpMul(e, e), gfpAdd(d, d))
      t == gfpMul(a.y, a.z)
  IN Curve(x, gfpSub(gfpMul(e, gfpSub(d, x)), (8 * C) % P), gfpAdd(t, t))
curveAdd(a, b) ==
  LET z12 == gfpMul(a.z, a.z)
      z22 == gfpMul(b.z, b.z)
      u1 == gfpMul(a.x, z22)
      u2 == gfpMul(b.x, z12)
      s1 == gfpMul(a.y, gfpMul(b.z, z22))
      s2 == gfpMul(b.y, gfpMul(a.z, z12))
      h == gfpSub(u2, u1)
      h2 == gfpAdd(h, h)
      i == gfpMul(h2, h2)
      j == gfpMul(h, i)
      t == gfpSub(s2, s1)
      r == gfpAdd(t, t)
      v == gfpMul(u1, i)
      x == gfpSub(gfpSub(gfpMul(r, r), j), gfpAdd(v, v))
      t8 == gfpMul(s1, j)
      y == gfpSub(gfpMul(r, gfpSub(v, x)), gfpAdd(t8, t8))
      t11 == gfpAdd(a.z, b.z)
      t14 == gfpSub(gfpSub(gfpMul(t11, t11), z12), z22)
  IN IF curveIsInfinity(a) THEN b
     ELSE IF curveIsInfinity(b) THEN a
     ELSE IF h = 0 /\ t = 0 THEN curveDouble(a)
     ELSE Curve(x, y, gfpMul(t14, h))
curveMul(a, scalar) ==
  LET phi == [a EXCEPT !.x = gfpMul(@, newGFp(xiTo2PSquaredMinus2Over3))]
      precomp == <<a, phi, curveAdd(a, phi)>>
      digits == Multi(curveLattice, scalar)
      RECURSIVE sum(_)               \* after the iterations for digits above n
      sum(n) ==
        LET above == sum(n + 1)
            t == curveDouble(above)
        IN IF n = Len(digits) THEN curveInfinity
           ELSE InOrder(<<above, t, IF digits[n + 1] = 0 THEN t
                             ELSE curveAdd(t, precomp[digits[n + 1]])>>)
  IN InOrder(<<a, precomp, digits, sum(0)>>)
curveMakeAffine(c) ==
  LET zInv == gfpInvert(c.z)
      zInv2 == gfpMul(zInv, zInv)
  IN IF c.z = newGFp(1) THEN c
     ELSE IF c.z = newGFp(0) THEN Curve(0, newGFp(1), 0)
     ELSE Curve(gfpMul(c.x, zInv2), gfpMul(gfpMul(c.y, zInv), zInv2), newGFp(1))
curveIsOnCurve(p) ==
  LET c == curveMakeAffine(p)
  IN curveIsInfinity(c)
     \/ gfpMul(c.y, c.y) = gfpAdd(gfpMul(gfpMul(c.x, c.x), c.x), newGFp(curveB))
curveNegative(a) == [a EXCEPT !.y = gfpNeg(@)]
-----------------------------------------------------------------------------
(* twist.go: the same over gfP2, on y^2 = x^3 + twistB; t = z^2 where set.   *)
(* Add and Double leave the t of the receiver c alone unless they copy a     *)
(* point; the temporaries of Mul are new points, whose t is zero.            *)
Twist(x, y, z, t) == [x |-> x, y |-> y, z |-> z, t |-> t]
twistInfinity == Twist(gfP2Zero, gfP2One, gfP2Zero, gfP2Zero)
twistZero == Twist(gfP2Zero, gfP2Zero, gfP2Zero, gfP2Zero)       \* &twistPoint{}
twistIsInfinity(c) == gfP2IsZero(c.z)
twistDouble(c, a) ==
  LET A == gfP2Square(a.x)
      B == gfP2Square(a.y)
      C == gfP2Square(B)
      d == gfP2Double(gfP2Square(a.x \oplus B) \ominus A \ominus C)
      e == A \oplus A \oplus A
      x == gfP2Square(e) \ominus gfP2Double(d)
      y == (e \otimes (d \ominus x)) \ominus gfP2Double(gfP2Double(gfP2Double(C)))
  IN InOrder(<<a, A, B, C, d, e, x, Twist(x, y, gfP2Double(a.y \otimes a.z), c.t)>>)
twistAdd(c, a, b) ==
  LET z1z1 == gfP2Square(a.z)
      z2z2 == gfP2Square(b.z)
      u1 == a.x \otimes z2z2
      u2 == b.x \otimes z1z1
      s1 == a.y \otimes (b.z \otimes z2z2)
      s2 == b.y \otimes (a.z \otimes z1z1)
      h == u2 \ominus u1
      i == gfP2Square(gfP2Double(h))
      j == h \otimes i
      r == gfP2Double(s2 \ominus s1)
      v == u1 \otimes i
      x == gfP2Square(r) \ominus j \ominus gfP2Double(v)
      y == (r \otimes (v \ominus x)) \ominus gfP2Double(s1 \otimes j)
      z == (gfP2Square(a.z \oplus b.z) \ominus z1z1 \ominus z2z2) \otimes h
  IN IF twistIsInfinity(a) THEN b
     ELSE IF twistIsInfinity(b) THEN a
     ELSE IF gfP2IsZero(h) /\ gfP2IsZero(s2 \ominus s1) THEN twistDouble(c, a)
     ELSE InOrder(<<u1, u2, s1, s2, h, i, j, r, v, x, Twist(x, y, z, c.t)>>)
RECURSIVE twistMul(_, _)
twistMul(a, scalar) ==
  LET sum == twistMul(a, scalar \div 2)
      t == twistDouble(twistZero, sum)
  IN IF scalar = 0 THEN twistDouble(twistZero, twistZero)
     ELSE InOrder(<<sum, t, IF scalar % 2 # 0 THEN twistAdd(sum, t, a) ELSE t>>)
twistMakeAffine(c) ==
  LET zInv == gfP2Invert(c.z)
      zInv2 == gfP2Square(zInv)
  IN IF gfP2IsOne(c.z) THEN c
     ELSE IF twistIsInfinity(c) THEN Twist(gfP2Zero, gfP2One, gfP2Zero, gfP2Zero)
     ELSE Twist(c.x \otimes zInv2, (c.y \otimes zInv) \otimes zInv2, gfP2One, gfP2One)
\* Mutant: without the test of the order.
twistIsOnCurveAny(p) ==
  LET c == twistMakeAffine(p)
  IN \/ twistIsInfinity(c)
     \/ gfP2Square(c.y) = (gfP2Square(c.x) \otimes c.x) \oplus gfP2Encode(twistB)
twistIsOnCurve(p) ==
  LET c == twistMakeAffine(p)
  IN \/ twistIsInfinity(c)
     \/ /\ gfP2Square(c.y) = (gfP2Square(c.x) \otimes c.x) \oplus gfP2Encode(twistB)
        /\ gfP2IsZero(twistMul(c, Order).z)
twistNegative(a) == [a EXCEPT !.y = gfP2Negative(@), !.t = gfP2Zero]
-----------------------------------------------------------------------------
(* optate.go: the optimal ate pairing *)
LineAdded(r, p, q, r2, L1, J, V, x, z) ==
  LET t == gfP2Square(z)
  IN InOrder(<<L1, J, V, x, z,
     [a |-> gfP2Double(L1 \otimes p.x) \ominus (gfP2Square(p.y \oplus z) \ominus r2 \ominus t),
      b |-> gfP2Double(gfP2MulScalar(gfP2Negative(L1), q.x)),
      c |-> gfP2Double(gfP2MulScalar(z, q.y)),
      rOut |-> Twist(x, ((V \ominus x) \otimes L1) \ominus gfP2Double(r.y \otimes J), z, t)]>>)
LineAdd(r, p, q, r2, H, I, L1, J, V) ==
  InOrder(<<H, I, L1, J, V,
    LineAdded(r, p, q, r2, L1, J, V, gfP2Square(L1) \ominus J \ominus V \ominus V,
              gfP2Square(r.z \oplus H) \ominus r.t \ominus I)>>)
LineAddAt(r, p, q, r2, H, L1) ==
  LET I == gfP2Square(H)
      E == gfP2Double(gfP2Double(I))
  IN InOrder(<<H, L1, LineAdd(r, p, q, r2, H, I, L1, H \otimes E, r.x \otimes E)>>)
lineFunctionAdd(r, p, q, r2) ==
  LET B == p.x \otimes r.t
      D == (gfP2Square(p.y \oplus r.z) \ominus r2 \ominus r.t) \otimes r.t
  IN InOrder(<<r, p, q, r2,
               LineAddAt(r, p, q, r2, B \ominus r.x, D \ominus r.y \ominus r.y)>>)
LineDoubled(r, q, A, B, C, D, E, G, z) ==
  LET x == G \ominus D \ominus D
      y == ((D \ominus x) \otimes E) \ominus gfP2Double(gfP2Double(gfP2Double(C)))
  IN InOrder(<<r, q, A, B, C, D, E, G, z,
     [a |-> (gfP2Square(r.x \oplus E) \ominus A \ominus G) \ominus gfP2Double(gfP2Double(B)),
      b |-> gfP2MulScalar(gfP2Negative(gfP2Double(E \otimes r.t)), q.x),
      c |-> gfP2MulScalar(gfP2Double(z \otimes r.t), q.y),
      rOut |-> Twist(x, y, z, gfP2Square(z))]>>)
LineDouble(r, q, A, B, C) ==
  LET D == gfP2Double(gfP2Square(r.x \oplus B) \ominus A \ominus C)
      E == A \oplus A \oplus A
  IN InOrder(<<A, B, C, LineDoubled(r, q, A, B, C, D, E, gfP2Square(E),
                                    gfP2Square(r.y \oplus r.z) \ominus B \ominus r.t)>>)
lineFunctionDouble(r, q) ==
  LET B == gfP2Square(r.y)
  IN InOrder(<<r, q, LineDouble(r, q, gfP2Square(r.x), B, gfP2Square(B))>>)
mulLine(ret, l) ==
  LET a2 == GF6(gfP2Zero, l.a, l.b) ** ret.x
      t3 == gfP6MulScalar(ret.y, l.c)
      t2 == GF6(gfP2Zero, l.a, l.b \oplus l.c)
  IN InOrder(<<ret, l, a2, t3, GF12((((ret.x ++ ret.y) ** t2) -- a2) -- t3, t3 ++ gfP6MulTau(a2))>>)

(* One iteration of miller's loop: d doubles r, and digit (element i - 1 of the  *)
(* Go slice) adds A or its negative                                              *)
MillerAdd(ret, digit, r, A, q) ==
  LET l == lineFunctionAdd(r, IF digit = 1 THEN A ELSE twistNegative(A), q, gfP2Square(A.y))
  IN InOrder(<<ret, [ret |-> mulLine(ret, l), r |-> l.rOut]>>)
MillerStep(ret, d, digit, A, q) ==
  InOrder(<<ret, d, IF digit = 0 THEN [ret |-> mulLine(ret, d), r |-> d.rOut]
                    ELSE MillerAdd(mulLine(ret, d), digit, d.rOut, A, q)>>)
MillerIteration(i, s, A, q) ==
  InOrder(<<s, A, q, MillerStep(IF i # Len(sixuPlus2NAF) - 1 THEN gfP12Square(s.ret) ELSE s.ret,
                                lineFunctionDouble(s.r, q), sixuPlus2NAF[i], A, q)>>)
(* ret and r after the iterations for Len - 1 down to i *)
RECURSIVE millerLoop(_, _, _)
millerLoop(i, A, q) ==
  IF i = Len(sixuPlus2NAF) THEN [ret |-> gfP12One, r |-> A]
  ELSE MillerIteration(i, millerLoop(i + 1, A, q), A, q)
(* The two lines after the loop, through q1 and minusQ2 *)
MillerLine(s, p, q) ==
  LET l == lineFunctionAdd(s.r, p, q, gfP2Square(p.y))
  IN InOrder(<<s, [ret |-> mulLine(s.ret, l), r |-> l.rOut]>>)
millerAffine(A, q) ==
  LET q1 == Twist(gfP2Conjugate(A.x) \otimes gfP2Encode(xiToPMinus1Over3),
                  gfP2Conjugate(A.y) \otimes gfP2Encode(xiToPMinus1Over2), gfP2One, gfP2One)
      minusQ2 == Twist(gfP2MulScalar(A.x, newGFp(xiToPSquaredMinus1Over3)), A.y, gfP2One, gfP2One)
  IN InOrder(<<A, q, MillerLine(MillerLine(millerLoop(1, A, q), q1, q), minusQ2, q).ret>>)
miller(q, p) == millerAffine(twistMakeAffine(q), curveMakeAffine(p))
(* The easy part: in to the power (p^6 - 1)(p^2 + 1).  The hard part: the powers  *)
(* by u, the seven factors they give and the addition chain that joins them.    *)
FinalEasy(t) == InOrder(<<t, gfP12Mul(t, gfP12FrobeniusP2(t))>>)
FinalJoin(a2, y0, y1) ==
  InOrder(<<a2, y0, y1, gfP12Mul(gfP12Square(gfP12Mul(a2, y1)), gfP12Mul(a2, y0))>>)
FinalChain(a0, y0, y1, y2, y3, y5) ==
  InOrder(<<a0, y0, y1, y2, y3, y5,
    FinalJoin(gfP12Square(gfP12Mul(gfP12Square(gfP12Mul(gfP12Mul(y3, y5), a0)),
                                   gfP12Mul(a0, y2))), y0, y1)>>)
FinalFactors(t1, fp2, fu, fu2, fu3) ==
  LET y4 == gfP12Conjugate(gfP12Mul(fu, gfP12Frobenius(fu2)))
      y5 == gfP12Conjugate(fu2)
      y6 == gfP12Conjugate(gfP12Mul(fu3, gfP12Frobenius(fu3)))
  IN InOrder(<<t1, fp2, fu, fu2, fu3,
       FinalChain(gfP12Mul(gfP12Mul(gfP12Square(y6), y4), y5),
                  gfP12Mul(gfP12Mul(gfP12Frobenius(t1), fp2), gfP12Frobenius(fp2)),
                  gfP12Conjugate(t1), gfP12FrobeniusP2(fu2),
                  gfP12Conjugate(gfP12Frobenius(fu)), y5)>>)
FinalPowers(t1, fu, fu2) ==
  InOrder(<<t1, fu, fu2, FinalFactors(t1, gfP12FrobeniusP2(t1), fu, fu2, gfP12Exp(fu2, u))>>)
FinalPower(t1, fu) == InOrder(<<t1, fu, FinalPowers(t1, fu, gfP12Exp(fu, u))>>)
FinalHard(t1) == InOrder(<<t1, FinalPower(t1, gfP12Exp(t1, u))>>)
finalExponentiation(in) ==
  FinalHard(FinalEasy(gfP12Mul(gfP12Conjugate(in), gfP12Invert(in))))
(* optimalAte in two steps: this, then finalExponentiation, which maps 1 to 1 *)
optimalAteLoop(a, b) ==
  IF twistIsInfinity(a) \/ curveIsInfinity(b) THEN gfP12One ELSE miller(a, b)
-----------------------------------------------------------------------------
(* bn256.go.  A coordinate of the encoding is the number its bytes spell;     *)
(* e is the receiver, which Marshal normalises in place.                      *)
G1ScalarBaseMult(k) == curveMul(Curve(newGFp(curveGen[1]), newGFp(curveGen[2]), newGFp(1)), k)
G1ScalarMult(a, k) == curveMul(a, k)
G1Add(a, b) == curveAdd(a, b)
G1Neg(a) == curveNegative(a)
G1Normal(e) == curveMakeAffine(e)
G1Marshal(e) ==
  LET n == curveMakeAffine(e)
  IN IF curveIsInfinity(n) THEN <<0, 0>> ELSE <<montDecode(n.x), montDecode(n.y)>>
G1Unmarshal(m) ==                      \* the receiver's x and y are cleared first
  LET c == [i \in 1 .. 2 |-> gfpUnmarshal(0, m[i])]
      p == Curve(montEncode(c[1]), montEncode(c[2]), newGFp(1))
  IN IF \E i \in 1 .. 2 : c[i] >= P THEN Failed
     ELSE IF c[1] = 0 /\ c[2] = 0 THEN Curve(0, newGFp(1), 0)
     ELSE IF curveIsOnCurve(p) THEN p
     ELSE Failed
G2ScalarBaseMult(k) ==
  twistMul(Twist(gfP2Encode(twistGen[1]), gfP2Encode(twistGen[2]), gfP2One, gfP2One), k)
G2ScalarMult(a, k) == twistMul(a, k)
G2Add(e, a, b) == twistAdd(e, a, b)
G2Neg(a) == twistNegative(a)
G2Normal(e) == twistMakeAffine(e)
G2Marshal(e) ==
  LET n == twistMakeAffine(e)
  IN IF twistIsInfinity(n) THEN <<0, 0, 0, 0>>
     ELSE <<montDecode(n.x.x), montDecode(n.x.y), montDecode(n.y.x), montDecode(n.y.y)>>
G2Unmarshal(e, m) ==                   \* and here they are not
  LET r == <<e.x.x, e.x.y, e.y.x, e.y.y>>
      c == [i \in 1 .. 4 |-> gfpUnmarshal(r[i], m[i])]
      p == Twist(gfP2Encode(GF2(c[1], c[2])), gfP2Encode(GF2(c[3], c[4])), gfP2One, gfP2One)
  IN IF \E i \in 1 .. 4 : c[i] >= P THEN Failed
     ELSE IF \A i \in 1 .. 4 : c[i] = 0 THEN Twist(gfP2Zero, gfP2One, gfP2Zero, gfP2Zero)
     ELSE IF twistIsOnCurve(p) THEN p
     ELSE Failed
GTScalarMult(a, k) == gfP12Exp(a, k)
GTAdd(a, b) == gfP12Mul(a, b)
GTNeg(a) == gfP12Conjugate(a)
GTMarshal(e) ==
  LET six(a) == <<a.x.x, a.x.y, a.y.x, a.y.y, a.z.x, a.z.y>>
      n == six(e.x) \o six(e.y)
  IN <<>> \o [i \in 1 .. 12 |-> montDecode(n[i])]
GTUnmarshal(m) ==                      \* into a new GT
  LET c == [i \in 1 .. 12 |-> gfpUnmarshal(0, m[i])]
      two(i) == gfP2Encode(GF2(c[i], c[i + 1]))
  IN IF \E i \in 1 .. 12 : c[i] >= P THEN Failed
     ELSE GF12(GF6(two(1), two(3), two(5)), GF6(two(7), two(9), two(11)))
(* One iteration of PairingCheck's loop, and the answer after the last *)
PairingAccumulate(acc, a, b) ==
  InOrder(<<a, b, IF curveIsInfinity(a) \/ twistIsInfinity(b) THEN acc
                  ELSE gfP12Mul(acc, miller(b, a))>>)
PairingAnswer(acc) == gfP12IsOne(finalExponentiation(acc))
=============================================================================

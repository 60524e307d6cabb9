------------------------------ MODULE BN256Google ------------------------------
(***************************************************************************)
(* crypto/bn256/google: the portable Barreto-Naehrig pairing, the one that *)
(* bn256_slow.go builds on every platform but amd64 and arm64.  A field    *)
(* element is a big.Int that only Mul, Square and Invert reduce modulo P:  *)
(* sums, differences and multiples of xi are left as they come, and        *)
(* IsZero, IsOne and IsInfinity look at the number and not at its residue. *)
(* The model keeps the integers unreduced where the code does.             *)
(*                                                                         *)
(* The curve is a constant: the code's 254-bit prime is replaced by a      *)
(* small prime of the same family (36u^4+36u^3+24u^2+6u+1), with xi, the   *)
(* curve's coefficient and the generators that go with it.  The pool of    *)
(* temporaries is left out: a temporary is read only after it is written.  *)
(***************************************************************************)
EXTENDS Integers, Sequences

CONSTANTS P, Order, u,       \* the primes and the parameter they come from
          xiY,               \* xi = i + xiY (9 in the code)
          curveB,            \* y^2 = x^3 + curveB (3 in the code)
          curveGen, twistGen, twistB,  \* the generators <<x, y>> and the twist
          sixuPlus2NAF,                \* 6u+2 in signed binary, low digit first
          xiToPMinus1Over6, xiToPMinus1Over3, xiToPMinus1Over2, xiTo2PMinus2Over3,
          xiToPSquaredMinus1Over3, xiTo2PSquaredMinus2Over3, xiToPSquaredMinus1Over6

(* big.Int.Mod and big.Int.ModInverse *)
Mod(n) == n % P
ModInverse(a) == CHOOSE n \in 1 .. P - 1 : Mod(a * n) = 1
(* The last of values computed one after another *)
InOrder(values) == values[Len(values)]
-----------------------------------------------------------------------------
(* gfp2.go: x i + y *)
GF2(x, y) == [x |-> x, y |-> y]
gfP2Zero == GF2(0, 0)
gfP2One == GF2(0, 1)
gfP2Minimal(e) == GF2(e.x % P, e.y % P)
gfP2IsZero(e) == e.x = 0 /\ e.y = 0
gfP2IsOne(e) == e.x = 0 /\ e.y \in {1, -1}      \* Bits is the absolute value
gfP2Conjugate(a) == GF2(-a.x, a.y)
gfP2Negative(a) == GF2(-a.x, -a.y)
gfP2Add(a, b) == GF2(a.x + b.x, a.y + b.y)
gfP2Sub(a, b) == GF2(a.x - b.x, a.y - b.y)
gfP2Double(a) == GF2(2 * a.x, 2 * a.y)
gfP2Mul(a, b) == GF2(Mod(a.x * b.y + b.x * a.y), Mod(a.y * b.y - a.x * b.x))
(* The code leaves the product unreduced; it is only ever multiplied again, *)
(* so an operand's residue stands for it and the product stays small.       *)
gfP2MulScalar(a, b) == GF2((a.x % P) * b, (a.y % P) * b)
gfP2MulXi(a) == GF2(xiY * a.x + a.y, xiY * a.y - a.x)
gfP2Square(a) == GF2(Mod(2 * a.x * a.y), Mod((a.y - a.x) * (a.x + a.y)))
gfP2Invert(a) ==
  LET inv == ModInverse(Mod(a.y * a.y + a.x * a.x))
  IN GF2(Mod(-a.x * inv), Mod(a.y * inv))
RECURSIVE gfP2Exp(_, _)
gfP2Exp(a, power) ==
  IF power = 0 THEN gfP2One
  ELSE LET t == gfP2Square(gfP2Exp(a, power \div 2))
       IN IF power % 2 # 0 THEN gfP2Mul(t, a) ELSE t

a \oplus b == gfP2Add(a, b)
a \ominus b == gfP2Sub(a, b)
a \otimes b == InOrder(<<a, b, gfP2Mul(a, b)>>)
-----------------------------------------------------------------------------
(* constants.go and twist.go: the powers of xi that the Frobenius maps      *)
(* multiply by, and the coefficient of the twist, are literals in the code   *)
xi == GF2(1, xiY)
Literals ==
  /\ P = 36 * u * u * u * u + 36 * u * u * u + 24 * u * u + 6 * u + 1
  /\ Order = 36 * u * u * u * u + 36 * u * u * u + 18 * u * u + 6 * u + 1
  /\ xiToPMinus1Over6 = gfP2Exp(xi, (P - 1) \div 6)
  /\ xiToPMinus1Over3 = gfP2Exp(xi, (P - 1) \div 3)
  /\ xiToPMinus1Over2 = gfP2Exp(xi, (P - 1) \div 2)
  /\ xiTo2PMinus2Over3 = gfP2Exp(xi, (2 * P - 2) \div 3)
  /\ GF2(0, xiToPSquaredMinus1Over3) = gfP2Exp(xi, (P * P - 1) \div 3)
  /\ GF2(0, xiTo2PSquaredMinus2Over3) = gfP2Exp(xi, (2 * P * P - 2) \div 3)
  /\ GF2(0, xiToPSquaredMinus1Over6) = gfP2Exp(xi, (P * P - 1) \div 6)
  /\ gfP2Mul(twistB, xi) = GF2(0, curveB)
-----------------------------------------------------------------------------
(* gfp6.go: x tau^2 + y tau + z with tau^3 = xi *)
GF6(x, y, z) == [x |-> x, y |-> y, z |-> z]
gfP6Zero == GF6(gfP2Zero, gfP2Zero, gfP2Zero)
gfP6One == GF6(gfP2Zero, gfP2Zero, gfP2One)
gfP6Minimal(e) == GF6(gfP2Minimal(e.x), gfP2Minimal(e.y), gfP2Minimal(e.z))
gfP6IsZero(e) == gfP2IsZero(e.x) /\ gfP2IsZero(e.y) /\ gfP2IsZero(e.z)
gfP6IsOne(e) == gfP2IsZero(e.x) /\ gfP2IsZero(e.y) /\ gfP2IsOne(e.z)
gfP6Negative(a) == GF6(gfP2Negative(a.x), gfP2Negative(a.y), gfP2Negative(a.z))
gfP6Frobenius(a) ==
  GF6(gfP2Conjugate(a.x) \otimes xiTo2PMinus2Over3,
      gfP2Conjugate(a.y) \otimes xiToPMinus1Over3, gfP2Conjugate(a.z))
gfP6FrobeniusP2(a) ==
  GF6(gfP2MulScalar(a.x, xiTo2PSquaredMinus2Over3),
      gfP2MulScalar(a.y, xiToPSquaredMinus1Over3), a.z)
gfP6Add(a, b) == GF6(a.x \oplus b.x, a.y \oplus b.y, a.z \oplus b.z)
gfP6Sub(a, b) == GF6(a.x \ominus b.x, a.y \ominus b.y, a.z \ominus b.z)
gfP6Double(a) == GF6(gfP2Double(a.x), gfP2Double(a.y), gfP2Double(a.z))
(* The product from the products of the coefficients and of their pairwise sums *)
Karatsuba(v0, v1, v2, xy, yz, xz) ==
  InOrder(<<v0, v1, v2, xy, yz, xz,
    GF6(((xz \ominus v0) \oplus v1) \ominus v2,
        ((yz \ominus v0) \ominus v1) \oplus gfP2MulXi(v2),
        gfP2MulXi((xy \ominus v1) \ominus v2) \oplus v0)>>)
gfP6Mul(a, b) ==
  Karatsuba(a.z \otimes b.z, a.y \otimes b.y, a.x \otimes b.x,
            (a.x \oplus a.y) \otimes (b.x \oplus b.y), (a.y \oplus a.z) \otimes (b.y \oplus b.z),
            (a.x \oplus a.z) \otimes (b.x \oplus b.z))
gfP6MulScalar(a, b) == GF6(a.x \otimes b, a.y \otimes b, a.z \otimes b)
gfP6MulGFP(a, b) ==
  GF6(gfP2MulScalar(a.x, b), gfP2MulScalar(a.y, b), gfP2MulScalar(a.z, b))
gfP6MulTau(a) == GF6(a.y, a.z, gfP2MulXi(a.x))
gfP6Square(a) ==
  Karatsuba(gfP2Square(a.z), gfP2Square(a.y), gfP2Square(a.x), gfP2Square(a.x \oplus a.y),
            gfP2Square(a.y \oplus a.z), gfP2Square(a.x \oplus a.z))
gfP6Invert(a) ==
  LET A == gfP2Square(a.z) \ominus gfP2MulXi(a.x \otimes a.y)
      B == gfP2MulXi(gfP2Square(a.x)) \ominus (a.y \otimes a.z)
      C == gfP2Square(a.y) \ominus (a.x \otimes a.z)
      F == gfP2MulXi(C \otimes a.y) \oplus (A \otimes a.z)
           \oplus gfP2MulXi(B \otimes a.x)
      f == gfP2Invert(F)
  IN InOrder(<<A, B, C, F, f, GF6(C \otimes f, B \otimes f, A \otimes f)>>)

a ++ b == gfP6Add(a, b)
a -- b == gfP6Sub(a, b)
a ** b == InOrder(<<a, b, gfP6Mul(a, b)>>)
-----------------------------------------------------------------------------
(* gfp12.go: x omega + y with omega^2 = tau *)
GF12(x, y) == [x |-> x, y |-> y]
gfP12One == GF12(gfP6Zero, gfP6One)
gfP12Minimal(e) == GF12(gfP6Minimal(e.x), gfP6Minimal(e.y))
gfP12IsZero(e) == LET n == gfP12Minimal(e) IN gfP6IsZero(n.x) /\ gfP6IsZero(n.y)
gfP12IsOne(e) == LET n == gfP12Minimal(e) IN gfP6IsZero(n.x) /\ gfP6IsOne(n.y)
gfP12Conjugate(a) == GF12(gfP6Negative(a.x), a.y)
gfP12Negative(a) == GF12(gfP6Negative(a.x), gfP6Negative(a.y))
gfP12Frobenius(a) ==
  GF12(gfP6MulScalar(gfP6Frobenius(a.x), xiToPMinus1Over6), gfP6Frobenius(a.y))
gfP12FrobeniusP2(a) ==
  GF12(gfP6MulGFP(gfP6FrobeniusP2(a.x), xiToPSquaredMinus1Over6), gfP6FrobeniusP2(a.y))
gfP12Add(a, b) == GF12(a.x ++ b.x, a.y ++ b.y)
gfP12Sub(a, b) == GF12(a.x -- b.x, a.y -- b.y)
gfP12Mul(a, b) ==
  InOrder(<<a, b,
    GF12((a.x ** b.y) ++ (b.x ** a.y), (a.y ** b.y) ++ gfP6MulTau(a.x ** b.x))>>)
gfP12MulScalar(e, b) == GF12(e.x ** b, e.y ** b)
gfP12Square(a) ==
  LET v0 == a.x ** a.y
      ty == ((a.x ++ a.y) ** (a.y ++ gfP6MulTau(a.x))) -- v0
  IN GF12(gfP6Double(v0), ty -- gfP6MulTau(v0))
gfP12Invert(a) ==
  LET t1 == gfP6Square(a.y) -- gfP6MulTau(gfP6Square(a.x))
      t2 == gfP6Invert(t1)
  IN InOrder(<<a, t1, t2, gfP12MulScalar(gfP12Conjugate(a), t2)>>)
RECURSIVE gfP12Exp(_, _)
gfP12Exp(a, power) ==
  IF power = 0 THEN gfP12One
  ELSE LET sum == gfP12Exp(a, power \div 2)
           t == gfP12Square(sum)
       IN InOrder(<<sum, t, IF power % 2 # 0 THEN gfP12Mul(t, a) ELSE t>>)
-----------------------------------------------------------------------------
(* curve.go: Jacobian points of y^2 = x^3 + curveB.  The field t of a       *)
(* curvePoint is written and copied but never read, and is left out.        *)
Curve(x, y, z) == [x |-> x, y |-> y, z |-> z]
curveIsOnCurve(c) == (c.y * c.y - c.x * c.x * c.x - curveB) % P = 0
curveInfinity == Curve(0, 0, 0)           \* SetInfinity on a new point
curveIsInfinity(c) == c.z = 0
curveDouble(a) ==
  LET A == Mod(a.x * a.x)
      B == Mod(a.y * a.y)
      C == Mod(B * B)
      d == 2 * (Mod((a.x + B) * (a.x + B)) - A - C)
      e == 3 * A
      x == Mod(e * e) - 2 * d
      y == Mod(e * (d - x)) - 8 * C
  IN Curve(x, y, 2 * Mod(a.y * a.z))
curveAdd(a, b) ==
  LET z1z1 == Mod(a.z * a.z)
      z2z2 == Mod(b.z * b.z)
      u1 == Mod(a.x * z2z2)
      u2 == Mod(b.x * z1z1)
      s1 == Mod(a.y * Mod(b.z * z2z2))
      s2 == Mod(b.y * Mod(a.z * z1z1))
      h == u2 - u1
      i == Mod(4 * h * h)
      j == Mod(h * i)
      r == 2 * (s2 - s1)
      v == Mod(u1 * i)
      x == Mod(r * r) - j - 2 * v
      y == Mod(r * (v - x)) - 2 * Mod(s1 * j)
      z == Mod((Mod((a.z + b.z) * (a.z + b.z)) - z1z1 - z2z2) * h)
  IN IF curveIsInfinity(a) THEN b
     ELSE IF curveIsInfinity(b) THEN a
     ELSE IF h = 0 /\ s2 - s1 = 0 THEN curveDouble(a)
     ELSE Curve(x, y, z)
RECURSIVE curveMul(_, _)
curveMul(a, scalar) ==          \* the first iteration is over a zero bit
  IF scalar = 0 THEN curveDouble(curveInfinity)
  ELSE LET sum == curveMul(a, scalar \div 2)
           t == curveDouble(sum)
       IN InOrder(<<sum, t, IF scalar % 2 # 0 THEN curveAdd(t, a) ELSE t>>)
curveMakeAffine(c) ==
  LET zInv == ModInverse(c.z)
      zInv2 == Mod(zInv * zInv)
  IN IF c.z \in {1, -1} THEN c               \* Bits is the absolute value
     ELSE IF curveIsInfinity(c) THEN Curve(0, 1, 0)
     ELSE Curve(Mod(c.x * zInv2), Mod(Mod(c.y * zInv) * zInv2), 1)
curveNegative(a) == [a EXCEPT !.y = -@]
-----------------------------------------------------------------------------
(* twist.go: the same over gfP2, on y^2 = x^3 + twistB; t = z^2 where set.   *)
(* Add and Double leave the t of the receiver c alone unless they copy a     *)
(* point; the temporaries of Mul are new points, whose t is zero.            *)
Twist(x, y, z, t) == [x |-> x, y |-> y, z |-> z, t |-> t]
twistInfinity == Twist(gfP2Zero, gfP2Zero, gfP2Zero, gfP2Zero)
twistIsInfinity(c) == gfP2IsZero(c.z)
twistDouble(c, a) ==
  LET A == gfP2Square(a.x)
      B == gfP2Square(a.y)
      C == gfP2Square(B)
      d == gfP2Double(gfP2Square(a.x \oplus B) \ominus A \ominus C)
      e == A \oplus A \oplus A
      x == gfP2Square(e) \ominus gfP2Double(d)
      y == (e \otimes (d \ominus x)) \ominus gfP2Double(gfP2Double(gfP2Double(C)))
  IN InOrder(<<a, A, B, C, d, e, x, Twist(x, y, gfP2Double(a.y \otimes a.z), c.t)>>)
twistAdd(c, a, b) ==
  LET z1z1 == gfP2Square(a.z)
      z2z2 == gfP2Square(b.z)
      u1 == a.x \otimes z2z2
      u2 == b.x \otimes z1z1
      s1 == a.y \otimes (b.z \otimes z2z2)
      s2 == b.y \otimes (a.z \otimes z1z1)
      h == u2 \ominus u1
      i == gfP2Square(gfP2Double(h))
      j == h \otimes i
      r == gfP2Double(s2 \ominus s1)
      v == u1 \otimes i
      x == gfP2Square(r) \ominus j \ominus gfP2Double(v)
      y == (r \otimes (v \ominus x)) \ominus gfP2Double(s1 \otimes j)
      z == (gfP2Square(a.z \oplus b.z) \ominus z1z1 \ominus z2z2) \otimes h
  IN IF twistIsInfinity(a) THEN b
     ELSE IF twistIsInfinity(b) THEN a
     ELSE IF gfP2IsZero(h) /\ gfP2IsZero(s2 \ominus s1) THEN twistDouble(c, a)
     ELSE InOrder(<<u1, u2, s1, s2, h, i, j, r, v, x, Twist(x, y, z, c.t)>>)
RECURSIVE twistMul(_, _)
twistMul(a, scalar) ==
  LET sum == twistMul(a, scalar \div 2)
      t == twistDouble(twistInfinity, sum)
  IN IF scalar = 0 THEN twistDouble(twistInfinity, twistInfinity)
     ELSE InOrder(<<sum, t, IF scalar % 2 # 0 THEN twistAdd(sum, t, a) ELSE t>>)
twistIsOnCurve(c) ==
  LET yy == gfP2Square(c.y) \ominus (gfP2Square(c.x) \otimes c.x) \ominus twistB
  IN gfP2IsZero(gfP2Minimal(yy)) /\ gfP2IsZero(twistMul(c, Order).z)
twistMakeAffine(c) ==
  LET zInv == gfP2Invert(c.z)
      zInv2 == gfP2Square(zInv)
  IN IF gfP2IsOne(c.z) THEN c
     ELSE IF twistIsInfinity(c) THEN Twist(gfP2Zero, gfP2One, gfP2Zero, gfP2Zero)
     ELSE Twist(c.x \otimes zInv2, (c.y \otimes zInv) \otimes zInv2, gfP2One, gfP2One)
twistNegative(a) == [a EXCEPT !.y = gfP2Zero \ominus @, !.t = gfP2Zero]
-----------------------------------------------------------------------------
(* optate.go: the optimal ate pairing *)
LineAdded(r, p, q, r2, L1, J, V, x, z) ==
  LET t == gfP2Square(z)
  IN InOrder(<<L1, J, V, x, z,
     [a |-> gfP2Double(L1 \otimes p.x) \ominus (gfP2Square(p.y \oplus z) \ominus r2 \ominus t),
      b |-> gfP2Double(gfP2MulScalar(gfP2Negative(L1), q.x)),
      c |-> gfP2Double(gfP2MulScalar(z, q.y)),
      rOut |-> Twist(x, ((V \ominus x) \otimes L1) \ominus gfP2Double(r.y \otimes J), z, t)]>>)
LineAdd(r, p, q, r2, H, I, L1, J, V) ==
  InOrder(<<H, I, L1, J, V,
    LineAdded(r, p, q, r2, L1, J, V, gfP2Square(L1) \ominus J \ominus V \ominus V,
              gfP2Square(r.z \oplus H) \ominus r.t \ominus I)>>)
LineAddAt(r, p, q, r2, H, L1) ==
  LET I == gfP2Square(H)
      E == gfP2Double(gfP2Double(I))
  IN InOrder(<<H, L1, LineAdd(r, p, q, r2, H, I, L1, H \otimes E, r.x \otimes E)>>)
lineFunctionAdd(r, p, q, r2) ==
  LET B == p.x \otimes r.t
      D == (gfP2Square(p.y \oplus r.z) \ominus r2 \ominus r.t) \otimes r.t
  IN InOrder(<<r, p, q, r2,
               LineAddAt(r, p, q, r2, B \ominus r.x, D \ominus r.y \ominus r.y)>>)
LineDoubled(r, q, A, B, C, D, E, G, z) ==
  LET x == G \ominus D \ominus D
      y == ((D \ominus x) \otimes E) \ominus gfP2Double(gfP2Double(gfP2Double(C)))
  IN InOrder(<<r, q, A, B, C, D, E, G, z,
     [a |-> (gfP2Square(r.x \oplus E) \ominus A \ominus G) \ominus gfP2Double(gfP2Double(B)),
      b |-> gfP2MulScalar(gfP2Negative(gfP2Double(E \otimes r.t)), q.x),
      c |-> gfP2MulScalar(gfP2Double(z \otimes r.t), q.y),
      rOut |-> Twist(x, y, z, gfP2Square(z))]>>)
LineDouble(r, q, A, B, C) ==
  LET D == gfP2Double(gfP2Square(r.x \oplus B) \ominus A \ominus C)
      E == A \oplus A \oplus A
  IN InOrder(<<A, B, C, LineDoubled(r, q, A, B, C, D, E, gfP2Square(E),
                                    gfP2Square(r.y \oplus r.z) \ominus B \ominus r.t)>>)
lineFunctionDouble(r, q) ==
  LET B == gfP2Square(r.y)
  IN InOrder(<<r, q, LineDouble(r, q, gfP2Square(r.x), B, gfP2Square(B))>>)
mulLine(ret, l) ==
  LET a2 == GF6(gfP2Zero, l.a, l.b) ** ret.x
      t3 == gfP6MulScalar(ret.y, l.c)
      t2 == GF6(gfP2Zero, l.a, l.b \oplus l.c)
  IN InOrder(<<ret, l, a2, t3, GF12((((ret.x ++ ret.y) ** t2) -- a2) -- t3, t3 ++ gfP6MulTau(a2))>>)

(* One iteration of miller's loop: d doubles r, and digit (element i - 1 of the  *)
(* Go slice) adds A or its negative                                              *)
MillerAdd(ret, digit, r, A, q) ==
  LET l == lineFunctionAdd(r, IF digit = 1 THEN A ELSE twistNegative(A), q, gfP2Square(A.y))
  IN InOrder(<<ret, [ret |-> mulLine(ret, l), r |-> l.rOut]>>)
MillerStep(ret, d, digit, A, q) ==
  InOrder(<<ret, d, IF digit = 0 THEN [ret |-> mulLine(ret, d), r |-> d.rOut]
                    ELSE MillerAdd(mulLine(ret, d), digit, d.rOut, A, q)>>)
MillerIteration(i, s, A, q) ==
  InOrder(<<s, A, q, MillerStep(IF i # Len(sixuPlus2NAF) - 1 THEN gfP12Square(s.ret) ELSE s.ret,
                                lineFunctionDouble(s.r, q), sixuPlus2NAF[i], A, q)>>)
(* ret and r after the iterations for Len - 1 down to i *)
RECURSIVE millerLoop(_, _, _)
millerLoop(i, A, q) ==
  IF i = Len(sixuPlus2NAF) THEN [ret |-> gfP12One, r |-> A]
  ELSE MillerIteration(i, millerLoop(i + 1, A, q), A, q)
(* The two lines after the loop, through q1 and minusQ2 *)
MillerLine(s, p, q) ==
  LET l == lineFunctionAdd(s.r, p, q, gfP2Square(p.y))
  IN InOrder(<<s, [ret |-> mulLine(s.ret, l), r |-> l.rOut]>>)
millerAffine(A, q) ==
  LET q1 == Twist(gfP2Conjugate(A.x) \otimes xiToPMinus1Over3,
                  gfP2Conjugate(A.y) \otimes xiToPMinus1Over2, gfP2One, gfP2One)
      minusQ2 == Twist(gfP2MulScalar(A.x, xiToPSquaredMinus1Over3), A.y, gfP2One, gfP2One)
  IN InOrder(<<A, q, MillerLine(MillerLine(millerLoop(1, A, q), q1, q), minusQ2, q).ret>>)
miller(q, p) == millerAffine(twistMakeAffine(q), curveMakeAffine(p))
(* The easy part: in to the power (p^6 - 1)(p^2 + 1).  The hard part: the powers  *)
(* by u, the seven factors they give and the addition chain that joins them.    *)
FinalEasy(t) == InOrder(<<t, gfP12Mul(t, gfP12FrobeniusP2(t))>>)
FinalJoin(a2, y0, y1) ==
  InOrder(<<a2, y0, y1, gfP12Mul(gfP12Square(gfP12Mul(a2, y1)), gfP12Mul(a2, y0))>>)
FinalChain(a0, y0, y1, y2, y3, y5) ==
  InOrder(<<a0, y0, y1, y2, y3, y5,
    FinalJoin(gfP12Square(gfP12Mul(gfP12Square(gfP12Mul(gfP12Mul(y3, y5), a0)),
                                   gfP12Mul(a0, y2))), y0, y1)>>)
FinalFactors(t1, fp2, fu, fu2, fu3) ==
  LET y4 == gfP12Conjugate(gfP12Mul(fu, gfP12Frobenius(fu2)))
      y5 == gfP12Conjugate(fu2)
      y6 == gfP12Conjugate(gfP12Mul(fu3, gfP12Frobenius(fu3)))
  IN InOrder(<<t1, fp2, fu, fu2, fu3,
       FinalChain(gfP12Mul(gfP12Mul(gfP12Square(y6), y4), y5),
                  gfP12Mul(gfP12Mul(gfP12Frobenius(t1), fp2), gfP12Frobenius(fp2)),
                  gfP12Conjugate(t1), gfP12FrobeniusP2(fu2),
                  gfP12Conjugate(gfP12Frobenius(fu)), y5)>>)
FinalPowers(t1, fu, fu2) ==
  InOrder(<<t1, fu, fu2, FinalFactors(t1, gfP12FrobeniusP2(t1), fu, fu2, gfP12Exp(fu2, u))>>)
FinalPower(t1, fu) == InOrder(<<t1, fu, FinalPowers(t1, fu, gfP12Exp(fu, u))>>)
FinalHard(t1) == InOrder(<<t1, FinalPower(t1, gfP12Exp(t1, u))>>)
finalExponentiation(in) ==
  FinalHard(FinalEasy(gfP12Mul(gfP12Conjugate(in), gfP12Invert(in))))
(* optimalAte in two steps: this, then finalExponentiation, which maps 1 to 1 *)
optimalAteLoop(a, b) ==
  IF twistIsInfinity(a) \/ curveIsInfinity(b) THEN gfP12One ELSE miller(a, b)
-----------------------------------------------------------------------------
(* bn256.go: the groups as the precompiled contracts use them.  A coordinate  *)
(* of the encoding is the number its bytes spell.                             *)
Failed == [error |-> TRUE]
G1ScalarBaseMult(k) == curveMul(Curve(curveGen[1], curveGen[2], 1), k)
G1ScalarMult(a, k) == curveMul(a, k)
G1Add(a, b) == curveAdd(a, b)
G1Neg(a) == curveNegative(a)
G1Normal(e) == IF curveIsInfinity(e) THEN e ELSE curveMakeAffine(e)   \* in place
G1Marshal(e) ==
  LET n == G1Normal(e)
  IN IF curveIsInfinity(e) THEN <<0, 0>> ELSE <<Mod(n.x), Mod(n.y)>>
G1Unmarshal(m) ==
  IF \E i \in 1 .. 2 : m[i] >= P THEN Failed
  ELSE IF m = <<0, 0>> THEN Curve(0, 1, 0)
  ELSE IF curveIsOnCurve(Curve(m[1], m[2], 1)) THEN Curve(m[1], m[2], 1)
  ELSE Failed
G2ScalarBaseMult(k) == twistMul(Twist(twistGen[1], twistGen[2], gfP2One, gfP2One), k)
G2ScalarMult(a, k) == twistMul(a, k)
G2Add(e, a, b) == twistAdd(e, a, b)
G2Normal(n) == IF twistIsInfinity(n) THEN n ELSE twistMakeAffine(n)   \* in place
G2Marshal(n) ==
  LET a == G2Normal(n)
  IN IF twistIsInfinity(n) THEN <<0, 0, 0, 0>>
     ELSE <<Mod(a.x.x), Mod(a.x.y), Mod(a.y.x), Mod(a.y.y)>>
G2Unmarshal(m) ==
  LET p == Twist(GF2(m[1], m[2]), GF2(m[3], m[4]), gfP2One, gfP2One)
  IN IF \E i \in 1 .. 4 : m[i] >= P THEN Failed
     ELSE IF m = <<0, 0, 0, 0>> THEN Twist(gfP2Zero, gfP2One, gfP2Zero, gfP2Zero)
     ELSE IF twistIsOnCurve(p) THEN p
     ELSE Failed
GTScalarMult(a, k) == gfP12Exp(a, k)
GTAdd(a, b) == gfP12Mul(a, b)
GTNeg(a) == gfP12Invert(a)
GTMarshal(e) ==
  LET n == gfP12Minimal(e)
      six(a) == <<a.x.x, a.x.y, a.y.x, a.y.y, a.z.x, a.z.y>>
  IN six(n.x) \o six(n.y)
GTUnmarshal(m) ==
  LET two(i) == GF2(m[i], m[i + 1])
  IN GF12(GF6(two(1), two(3), two(5)), GF6(two(7), two(9), two(11)))
(* One iteration of PairingCheck's loop, and the answer after the last *)
\* Mutant: the product of earlier pairs is lost.
PairingAccumulateLast(acc, a, b) ==
  IF curveIsInfinity(a) \/ twistIsInfinity(b) THEN acc ELSE miller(b, a)
PairingAccumulate(acc, a, b) ==
  InOrder(<<a, b, IF curveIsInfinity(a) \/ twistIsInfinity(b) THEN acc
                  ELSE gfP12Mul(acc, miller(b, a))>>)
PairingAnswer(acc) == gfP12IsOne(finalExponentiation(acc))
=============================================================================

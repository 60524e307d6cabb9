-------------------------------- MODULE Sums --------------------------------
(***************************************************************************)
(* What the library's fold of + over a function computes: changing one     *)
(* value of the function changes the sum by the difference.  The balances  *)
(* of all accounts and the gas of all slots are summed this way.           *)
(*                                                                         *)
(* The fold is a recursive function over the subsets of the domain, which  *)
(* takes out an arbitrary element at a time.  The proofs go by a smallest  *)
(* counterexample among these subsets, first for the existence of the      *)
(* function, then for its values.                                          *)
(***************************************************************************)
EXTENDS Integers, Functions, FiniteSetTheorems, WellFoundedInduction, TLAPS

\* The recursion of the fold, one step of it, and the function it defines.
SumPick(s) == CHOOSE x \in s : TRUE
SumStep(f, g, s) == IF s = {} THEN 0 ELSE f[SumPick(s)] + g[s \ {SumPick(s)}]
IsSumTable(f, g, S) == g = [s \in SUBSET S |-> SumStep(f, g, s)]
SumTable(f, S) == CHOOSE g : IsSumTable(f, g, S)

\* FoldFunction is the value of that function on the whole domain.
LEMMA FoldIsTable ==
  ASSUME NEW f
  PROVE  FoldFunction(+, 0, f) = SumTable(f, DOMAIN f)[DOMAIN f]
BY Zenon DEF FoldFunction, FoldFunctionOnSet, MapThenFoldSet, SumTable, IsSumTable, SumStep, SumPick

-----------------------------------------------------------------------------
(* Smallest counterexamples.                                                *)

\* A set of natural numbers has a least element.
LEMMA LeastNumber ==
  ASSUME NEW T \in SUBSET Nat, T # {}
  PROVE  \E m \in T : \A n \in T : m <= n
<1> DEFINE R == OpToRel(<, Nat)
<1>1. ASSUME NEW m \in Nat, NEW n \in Nat, <<n, m>> \notin R PROVE m <= n
  <2>1. ~(n < m)
    BY <1>1 DEF OpToRel
  <2> QED BY <2>1, SMT
<1>2. IsWellFoundedOn(R, Nat)
  BY NatLessThanWellFounded, Zenon
<1> HIDE DEF R
<1>3. PICK m \in T : \A y \in T : ~(<<y, m>> \in R)
  BY <1>2, WFMin, Zenon
<1>4. ASSUME NEW n \in T PROVE m <= n
  <2>1. m \in Nat /\ n \in Nat /\ <<n, m>> \notin R
    BY <1>3
  <2> QED BY <2>1, <1>1
<1> QED BY <1>4

\* Among subsets of a finite set there is one none of whose proper subsets is among them.
LEMMA LeastSubset ==
  ASSUME NEW S, IsFiniteSet(S), NEW B \in SUBSET SUBSET S, B # {}
  PROVE  \E s \in B : \A t \in SUBSET s : t # s => t \notin B
<1> DEFINE N == {Cardinality(s) : s \in B}
<1>1. \A s \in SUBSET S : IsFiniteSet(s) /\ Cardinality(s) \in Nat
  BY FS_Subset, FS_CardinalityType
<1>2. N \in SUBSET Nat /\ N # {}
  BY <1>1
<1>3. PICK s \in B : \A t \in B : Cardinality(s) <= Cardinality(t)
  <2> HIDE DEF N
  <2>1. PICK m \in N : \A n \in N : m <= n
    BY <1>2, LeastNumber
  <2> QED BY <2>1 DEF N
<1>4. ASSUME NEW t \in SUBSET s, t # s, t \in B PROVE FALSE
  <2>1. s \in SUBSET S /\ IsFiniteSet(s) /\ Cardinality(s) \in Nat /\ Cardinality(t) \in Nat
    BY <1>1, <1>4
  <2>2. Cardinality(t) < Cardinality(s)
    BY <1>4, <2>1, FS_Subset
  <2> QED BY <1>3, <1>4, <2>1, <2>2
<1> QED BY <1>4

-----------------------------------------------------------------------------
(* The fold's function exists.                                              *)

\* A function for the subsets of at most n elements.
UpTo(S, n) == {s \in SUBSET S : Cardinality(s) <= n}
HasTable(f, S, n) == \E g : g = [s \in UpTo(S, n) |-> SumStep(f, g, s)]

\* The function for n elements extends to one for n + 1.
LEMMA TableGrows ==
  ASSUME NEW S, IsFiniteSet(S), NEW f, NEW n \in Nat, HasTable(f, S, n)
  PROVE  HasTable(f, S, n + 1)
<1>1. PICK g : g = [s \in UpTo(S, n) |-> SumStep(f, g, s)]
  BY DEF HasTable
<1> DEFINE h == [s \in UpTo(S, n + 1) |-> SumStep(f, g, s)]
<1>2. ASSUME NEW s \in UpTo(S, n + 1) PROVE SumStep(f, g, s) = SumStep(f, h, s)
  <2>1. CASE s = {}
    BY <2>1 DEF SumStep
  <2>2. CASE s # {}
    <3> DEFINE t == s \ {SumPick(s)}
    <3>1. SumPick(s) \in s
      BY <2>2 DEF SumPick
    <3>2. IsFiniteSet(s) /\ Cardinality(s) \in Nat /\ Cardinality(s) <= n + 1 /\ s \in SUBSET S
      BY FS_Subset, FS_CardinalityType DEF UpTo
    <3>3. Cardinality(t) = Cardinality(s) - 1
      BY <3>1, <3>2, FS_RemoveElement, Zenon
    <3>4. t \in UpTo(S, n) /\ t \in UpTo(S, n + 1)
      BY <3>2, <3>3 DEF UpTo
    <3>5. g[t] = SumStep(f, g, t)
      BY <1>1, <3>4
    <3>6. h[t] = SumStep(f, g, t)
      BY <3>4
    <3> HIDE DEF h
    <3> QED BY <2>2, <3>5, <3>6 DEF SumStep
  <2> QED BY <2>1, <2>2
<1>3. h = [s \in UpTo(S, n + 1) |-> SumStep(f, h, s)]
  <2> DEFINE k == [s \in UpTo(S, n + 1) |-> SumStep(f, h, s)]
  <2>1. \A s \in UpTo(S, n + 1) : h[s] = k[s]
    <3> SUFFICES ASSUME NEW s \in UpTo(S, n + 1) PROVE h[s] = k[s]
      OBVIOUS
    <3>1. h[s] = SumStep(f, g, s)
      OBVIOUS
    <3>2. k[s] = SumStep(f, h, s)
      OBVIOUS
    <3> QED BY <1>2, <3>1, <3>2, Zenon
  <2>2. h = [s \in UpTo(S, n + 1) |-> h[s]] /\ k = [s \in UpTo(S, n + 1) |-> k[s]]
    OBVIOUS
  <2> HIDE DEF h, k
  <2>3. h = k
    BY <2>1, <2>2
  <2> QED BY <2>3 DEF k
<1> HIDE DEF h
<1> QED BY <1>3 DEF HasTable

\* The fold's function satisfies its recursion.
LEMMA TableExists ==
  ASSUME NEW S, IsFiniteSet(S), NEW f
  PROVE  IsSumTable(f, SumTable(f, S), S)
<1>1. ASSUME NEW n \in Nat PROVE HasTable(f, S, n)
  <2> DEFINE B == {m \in Nat : ~HasTable(f, S, m)}
  <2>1. HasTable(f, S, 0)
    <3> DEFINE g == [s \in UpTo(S, 0) |-> 0]
    <3>1. \A s \in UpTo(S, 0) : s = {}
      <4> SUFFICES ASSUME NEW s \in UpTo(S, 0) PROVE s = {}
        OBVIOUS
      <4>1. IsFiniteSet(s) /\ Cardinality(s) \in Nat /\ Cardinality(s) <= 0
        BY FS_Subset, FS_CardinalityType DEF UpTo
      <4> QED BY <4>1, FS_EmptySet
    <3>2. \A s \in UpTo(S, 0) : SumStep(f, g, s) = 0
      BY <3>1 DEF SumStep
    <3>3. g = [s \in UpTo(S, 0) |-> SumStep(f, g, s)]
      <4> HIDE DEF g
      <4>1. g = [s \in UpTo(S, 0) |-> 0]
        BY DEF g
      <4> QED BY <3>2, <4>1
    <3> HIDE DEF g
    <3> QED BY <3>3 DEF HasTable
  <2>2. ASSUME B # {} PROVE FALSE
    <3>1. B \in SUBSET Nat
      OBVIOUS
    <3>2. PICK m \in B : \A k \in B : m <= k
      <4> HIDE DEF B
      <4> QED BY <2>2, <3>1, LeastNumber
    <3>3. m \in Nat /\ m # 0 /\ ~HasTable(f, S, m)
      BY <2>1
    <3>4. m - 1 \in Nat /\ ~(m <= m - 1) /\ (m - 1) + 1 = m
      BY <3>3
    <3>5. HasTable(f, S, m - 1)
      BY <3>2, <3>4
    <3> DEFINE k == m - 1
    <3>6. HasTable(f, S, k + 1)
      <4>1. k \in Nat /\ HasTable(f, S, k)
        BY <3>4, <3>5
      <4> HIDE DEF k
      <4> QED BY <4>1, TableGrows
    <3>7. k + 1 = m
      BY <3>4
    <3> HIDE DEF k
    <3> QED BY <3>3, <3>6, <3>7
  <2> QED BY <2>2
<1>2. UpTo(S, Cardinality(S)) = SUBSET S
  <2>1. \A s \in SUBSET S : Cardinality(s) <= Cardinality(S)
    BY FS_Subset
  <2> QED BY <2>1 DEF UpTo
<1>3. \E g : IsSumTable(f, g, S)
  <2>1. Cardinality(S) \in Nat
    BY FS_CardinalityType
  <2>2. PICK g : g = [s \in UpTo(S, Cardinality(S)) |-> SumStep(f, g, s)]
    BY <1>1, <2>1 DEF HasTable
  <2> QED BY <1>2, <2>2 DEF IsSumTable
<1> QED BY <1>3 DEF SumTable

-----------------------------------------------------------------------------
(* What it computes.                                                        *)

\* One step of the recursion.
LEMMA TableStep ==
  ASSUME NEW S, IsFiniteSet(S), NEW f, NEW s \in SUBSET S
  PROVE  /\ s = {} => SumTable(f, S)[s] = 0
         /\ s # {} => /\ SumPick(s) \in s
                      /\ SumTable(f, S)[s] = f[SumPick(s)] + SumTable(f, S)[s \ {SumPick(s)}]
<1> DEFINE g == SumTable(f, S)
<1>1. g = [t \in SUBSET S |-> SumStep(f, g, t)]
  BY TableExists, Zenon DEF IsSumTable
<1> HIDE DEF g
<1>2. g[s] = SumStep(f, g, s)
  BY <1>1
<1>3. s # {} => SumPick(s) \in s
  BY DEF SumPick
<1> QED BY <1>2, <1>3 DEF SumStep, g

\* Sums of integers are integers.
LEMMA TableTyped ==
  ASSUME NEW S, IsFiniteSet(S), NEW f \in [S -> Int]
  PROVE  \A s \in SUBSET S : SumTable(f, S)[s] \in Int
<1> DEFINE g == SumTable(f, S)
           B == {s \in SUBSET S : g[s] \notin Int}
<1> SUFFICES ASSUME B # {} PROVE FALSE
  OBVIOUS
<1>1. PICK s \in B : \A t \in SUBSET s : t # s => t \notin B
  <2>1. B \in SUBSET SUBSET S
    OBVIOUS
  <2> HIDE DEF B
  <2> QED BY <2>1, LeastSubset
<1>2. s \in SUBSET S /\ g[s] \notin Int
  OBVIOUS
<1>3. s # {} /\ SumPick(s) \in s /\ g[s] = f[SumPick(s)] + g[s \ {SumPick(s)}]
  BY <1>2, TableStep
<1> DEFINE t == s \ {SumPick(s)}
<1>4. t \in SUBSET s /\ t # s /\ t \in SUBSET S
  BY <1>2, <1>3
<1>5. g[t] \in Int /\ f[SumPick(s)] \in Int
  BY <1>1, <1>2, <1>3, <1>4
<1> HIDE DEF g, t
<1> QED BY <1>2, <1>3, <1>5 DEF t

\* Any element may be taken out first.
LEMMA TakeOut ==
  ASSUME NEW S, IsFiniteSet(S), NEW f \in [S -> Int], NEW s \in SUBSET S, NEW a \in s
  PROVE  SumTable(f, S)[s] = f[a] + SumTable(f, S)[s \ {a}]
<1> DEFINE g == SumTable(f, S)
           B == {t \in SUBSET S : \E b \in t : g[t] # f[b] + g[t \ {b}]}
<1> SUFFICES ASSUME B # {} PROVE FALSE
  BY Zenon
<1>1. PICK t \in B : \A u \in SUBSET t : u # t => u \notin B
  <2>1. B \in SUBSET SUBSET S
    OBVIOUS
  <2> HIDE DEF B
  <2> QED BY <2>1, LeastSubset
<1>2. PICK b \in t : g[t] # f[b] + g[t \ {b}]
  OBVIOUS
<1> DEFINE p == SumPick(t)
<1>3. t \in SUBSET S /\ t # {} /\ p \in t /\ g[t] = f[p] + g[t \ {p}]
  BY TableStep
<1>4. p # b
  BY <1>2, <1>3, Zenon
<1>5. \A u \in SUBSET S : g[u] \in Int
  BY TableTyped
<1> HIDE DEF g, p
<1>6. g[t \ {p}] = f[b] + g[(t \ {p}) \ {b}]
  BY <1>1, <1>3, <1>4, Zenon
<1>7. g[t \ {b}] = f[p] + g[(t \ {b}) \ {p}]
  BY <1>1, <1>3, <1>4, Zenon
<1>8. (t \ {p}) \ {b} = (t \ {b}) \ {p}
  OBVIOUS
<1> DEFINE rest == g[(t \ {b}) \ {p}]
<1>9. rest \in Int /\ f[b] \in Int /\ f[p] \in Int
  BY <1>3, <1>5
<1>10. g[t] = f[p] + (f[b] + rest) /\ g[t \ {b}] = f[p] + rest
  BY <1>3, <1>6, <1>7, <1>8, Zenon
<1> HIDE DEF rest
<1>11. f[p] + (f[b] + rest) = f[b] + (f[p] + rest)
  BY <1>9
<1> QED BY <1>2, <1>10, <1>11

\* Only the values on the set count, not the rest of the domain.
LEMMA TablesAgree ==
  ASSUME NEW S, IsFiniteSet(S), NEW f \in [S -> Int], NEW T, IsFiniteSet(T), NEW h \in [T -> Int],
         NEW s \in SUBSET S, s \in SUBSET T, \A x \in s : f[x] = h[x]
  PROVE  SumTable(f, S)[s] = SumTable(h, T)[s]
<1> DEFINE F == SumTable(f, S)
           H == SumTable(h, T)
<1>1. \A u \in SUBSET S :
        /\ u = {} => F[u] = 0
        /\ u # {} => SumPick(u) \in u /\ F[u] = f[SumPick(u)] + F[u \ {SumPick(u)}]
  BY TableStep, Zenon
<1>2. \A u \in SUBSET T :
        /\ u = {} => H[u] = 0
        /\ u # {} => SumPick(u) \in u /\ H[u] = h[SumPick(u)] + H[u \ {SumPick(u)}]
  BY TableStep, Zenon
<1> HIDE DEF F, H
<1> DEFINE B == {t \in SUBSET s : F[t] # H[t]}
<1> SUFFICES ASSUME B # {} PROVE FALSE
  BY Zenon DEF F, H
<1>3. PICK t \in B : \A u \in SUBSET t : u # t => u \notin B
  <2>1. B \in SUBSET SUBSET S
    OBVIOUS
  <2> HIDE DEF B
  <2> QED BY <2>1, LeastSubset
<1>4. t \in SUBSET s /\ t \in SUBSET S /\ t \in SUBSET T /\ F[t] # H[t]
  OBVIOUS
<1>5. t # {} /\ SumPick(t) \in t
  BY <1>1, <1>2, <1>4, Zenon
<1>6. F[t \ {SumPick(t)}] = H[t \ {SumPick(t)}]
  BY <1>3, <1>4, <1>5
<1> QED BY <1>1, <1>2, <1>4, <1>5, <1>6

\* Zeros add up to zero.
LEMMA TableOfZeros ==
  ASSUME NEW S, IsFiniteSet(S), NEW f \in [S -> Int], \A x \in S : f[x] = 0
  PROVE  \A s \in SUBSET S : SumTable(f, S)[s] = 0
<1> DEFINE g == SumTable(f, S)
           B == {s \in SUBSET S : g[s] # 0}
<1> SUFFICES ASSUME B # {} PROVE FALSE
  OBVIOUS
<1>1. PICK s \in B : \A t \in SUBSET s : t # s => t \notin B
  <2>1. B \in SUBSET SUBSET S
    OBVIOUS
  <2> HIDE DEF B
  <2> QED BY <2>1, LeastSubset
<1>2. s \in SUBSET S /\ g[s] # 0
  OBVIOUS
<1>3. s # {} /\ SumPick(s) \in s /\ g[s] = f[SumPick(s)] + g[s \ {SumPick(s)}]
  BY <1>2, TableStep
<1>4. g[s \ {SumPick(s)}] = 0 /\ f[SumPick(s)] = 0
  BY <1>1, <1>2, <1>3
<1> HIDE DEF g
<1> QED BY <1>2, <1>3, <1>4

-----------------------------------------------------------------------------
(* The theorems.                                                            *)

\* The sum of a finite function into the integers is an integer.
THEOREM SumTyped ==
  ASSUME NEW S, IsFiniteSet(S), NEW f \in [S -> Int]
  PROVE  FoldFunction(+, 0, f) \in Int
<1>1. DOMAIN f = S /\ S \in SUBSET S
  OBVIOUS
<1>2. SumTable(f, S)[S] \in Int
  BY <1>1, TableTyped
<1> QED BY <1>1, <1>2, FoldIsTable, Zenon

\* Changing one value of a function changes its sum by the difference.
THEOREM SumUpdate ==
  ASSUME NEW S, IsFiniteSet(S), NEW f \in [S -> Int], NEW a \in S, NEW x \in Int
  PROVE  FoldFunction(+, 0, [f EXCEPT ![a] = x]) = FoldFunction(+, 0, f) - f[a] + x
<1> DEFINE h == [f EXCEPT ![a] = x]
           F == SumTable(f, S)
           H == SumTable(h, S)
           rest == S \ {a}
<1>1. /\ DOMAIN f = S /\ DOMAIN h = S /\ h \in [S -> Int] /\ h[a] = x
      /\ \A y \in rest : f[y] = h[y]
  OBVIOUS
<1>2. S \in SUBSET S /\ rest \in SUBSET S
  OBVIOUS
<1> HIDE DEF h, rest
<1>3. F[S] = f[a] + F[rest]
  BY <1>2, TakeOut DEF rest
<1>4. H[S] = h[a] + H[rest]
  BY <1>1, <1>2, TakeOut DEF rest
<1>5. F[rest] = H[rest]
  BY <1>1, <1>2, TablesAgree
<1>6. F[rest] \in Int
  BY <1>2, TableTyped
<1>7. FoldFunction(+, 0, f) = F[S]
  BY <1>1, FoldIsTable, Zenon
<1>8. FoldFunction(+, 0, h) = H[S]
  BY <1>1, FoldIsTable, Zenon
<1>9. f[a] \in Int
  OBVIOUS
<1> HIDE DEF F, H
<1> DEFINE sf == FoldFunction(+, 0, f)
           sh == FoldFunction(+, 0, h)
<1>10. sf = F[S] /\ sh = H[S]
  BY <1>7, <1>8, Zenon
<1> HIDE DEF sf, sh
<1>11. sh = sf - f[a] + x
  BY <1>1, <1>3, <1>4, <1>5, <1>6, <1>9, <1>10
<1>12. FoldFunction(+, 0, h) = FoldFunction(+, 0, f) - f[a] + x
  BY <1>11, Zenon DEF sf, sh
<1> QED BY <1>12, Zenon DEF h

\* A sum of zeros is zero.
THEOREM SumZero ==
  ASSUME NEW S, IsFiniteSet(S), NEW f \in [S -> Int], \A x \in S : f[x] = 0
  PROVE  FoldFunction(+, 0, f) = 0
<1>1. DOMAIN f = S /\ S \in SUBSET S
  OBVIOUS
<1>2. SumTable(f, S)[S] = 0
  BY <1>1, TableOfZeros
<1> QED BY <1>1, <1>2, FoldIsTable, Zenon

\* Function h has one value more than f, at a.
OneMore(h, f, S, a) ==
  /\ IsFiniteSet(S) /\ f \in [S -> Int]
  /\ a \notin S /\ h \in [S \cup {a} -> Int]
  /\ \A x \in S : h[x] = f[x]

\* One more value adds itself to the sum.
THEOREM SumExtend ==
  ASSUME NEW h, NEW f, NEW S, NEW a, OneMore(h, f, S, a)
  PROVE  FoldFunction(+, 0, h) = FoldFunction(+, 0, f) + h[a]
<1> DEFINE T == S \cup {a}
           F == SumTable(f, S)
           H == SumTable(h, T)
<1>0. /\ IsFiniteSet(S) /\ f \in [S -> Int] /\ a \notin S /\ h \in [T -> Int]
      /\ \A x \in S : h[x] = f[x]
  BY DEF OneMore
<1>1. /\ DOMAIN f = S /\ DOMAIN h = T /\ IsFiniteSet(T)
      /\ T \in SUBSET T /\ S \in SUBSET T /\ S \in SUBSET S /\ T \ {a} = S /\ a \in T
  BY <1>0, FS_AddElement
<1> HIDE DEF T
<1>2. H[T] = h[a] + H[S]
  <2>1. H[T] = h[a] + H[T \ {a}]
    BY <1>0, <1>1, TakeOut
  <2> HIDE DEF H
  <2> QED BY <1>1, <2>1, Zenon
<1>3. F[S] = H[S]
  BY <1>0, <1>1, TablesAgree
<1>4. F[S] \in Int /\ h[a] \in Int
  BY <1>0, <1>1, TableTyped
<1>5. FoldFunction(+, 0, f) = F[S]
  BY <1>1, FoldIsTable, Zenon
<1>6. FoldFunction(+, 0, h) = H[T]
  BY <1>1, FoldIsTable, Zenon
<1> HIDE DEF F, H
<1> DEFINE sf == FoldFunction(+, 0, f)
           sh == FoldFunction(+, 0, h)
<1>7. sf = F[S] /\ sh = H[T]
  BY <1>5, <1>6, Zenon
<1> HIDE DEF sf, sh
<1>8. sh = sf + h[a]
  BY <1>2, <1>3, <1>4, <1>7
<1> QED BY <1>8, Zenon DEF sf, sh

=============================================================================

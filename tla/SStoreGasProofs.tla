--------------------------- MODULE SStoreGasProofs ---------------------------
(***************************************************************************)
(* Proofs about SStoreGas: without storage overrides the refund counter    *)
(* never goes below zero, and what a message pays for its writes depends   *)
(* only on the first and the last word of each slot.                       *)
(***************************************************************************)
EXTENDS SStoreGas, Sums, SequenceTheorems

RuleSets == {"legacy", "eip1283", "eip2200", "eip2929", "eip3529"}

\* The schedules' entries are natural numbers and clearing is refunded by the same amount.
LEMMA ScheduleFacts ==
  ASSUME NEW f \in RuleSets
  PROVE  /\ Schedule(f).set \in Nat /\ Schedule(f).reset \in Nat /\ Schedule(f).dirty \in Nat
         /\ Schedule(f).clear \in Nat /\ Schedule(f).unset \in Nat
         /\ Schedule(f).restore \in Nat
<1>1. CASE f = "legacy"
  BY <1>1 DEF Schedule
<1>2. CASE f = "eip1283"
  BY <1>2 DEF Schedule
<1>3. CASE f = "eip2200"
  BY <1>3 DEF Schedule
<1>4. CASE f = "eip2929"
  BY <1>4 DEF Schedule
<1>5. CASE f = "eip3529"
  BY <1>5 DEF Schedule
<1> QED
  BY <1>1, <1>2, <1>3, <1>4, <1>5 DEF RuleSets

\* Restoring a slot refunds exactly what its first write cost beyond a dirty one.
LEMMA RestoreFacts ==
  ASSUME NEW f \in RuleSets, f # "legacy"
  PROVE  /\ Schedule(f).unset = Schedule(f).set - Schedule(f).dirty
         /\ Schedule(f).restore = Schedule(f).reset - Schedule(f).dirty
<1>2. CASE f = "eip1283"
  BY <1>2 DEF Schedule
<1>3. CASE f = "eip2200"
  BY <1>3 DEF Schedule
<1>4. CASE f = "eip2929"
  BY <1>4 DEF Schedule
<1>5. CASE f = "eip3529"
  BY <1>5 DEF Schedule
<1> QED
  BY <1>2, <1>3, <1>4, <1>5 DEF RuleSets

\* Under every net-metered rule set, the price of one SSTORE less its refund is the price of a
\* dirty write plus the change in Base: summed over any sequence of writes, only the first and
\* the last word count.
THEOREM NetMeteringStep ==
  ASSUME NEW f \in RuleSets, f # "legacy", NEW o \in Val, NEW c \in Val, NEW x \in Val
  PROVE  Cost(f, o, c, x) - Refund(f, o, c, x)
           = Schedule(f).dirty + Base(f, o, x) - Base(f, o, c)
<1> DEFINE S == Schedule(f)
<1>1. /\ S.set \in Nat /\ S.reset \in Nat /\ S.dirty \in Nat /\ S.clear \in Nat
      /\ S.unset = S.set - S.dirty /\ S.restore = S.reset - S.dirty
  BY ScheduleFacts, RestoreFacts
<1>2. c \in Nat /\ o \in Nat /\ x \in Nat
  BY SStoreAssumption
<1>3. /\ Cost(f, o, c, x) = NetCost(f, o, c, x)
      /\ Refund(f, o, c, x) = ClearRefund(f, o, c, x) + RestoreRefund(f, o, c, x)
  BY DEF Cost, Refund
<1> HIDE DEF S
<1>4. CASE c = x
  <2>1. /\ NetCost(f, o, c, x) = S.dirty /\ ClearRefund(f, o, c, x) = 0
        /\ RestoreRefund(f, o, c, x) = 0
    BY <1>4 DEF NetCost, ClearRefund, RestoreRefund, S
  <2>2. Base(f, o, x) \in Int
    BY <1>1, <1>2 DEF Base, S
  <2> QED
    BY <1>1, <1>3, <1>4, <2>1, <2>2 DEF S
<1>5. CASE c # x /\ o = 0
  BY <1>1, <1>2, <1>3, <1>5 DEF NetCost, ClearRefund, RestoreRefund, Base, S
<1>6. CASE c # x /\ o # 0
  BY <1>1, <1>2, <1>3, <1>6 DEF NetCost, ClearRefund, RestoreRefund, Base, S
<1> QED
  BY <1>4, <1>5, <1>6

-----------------------------------------------------------------------------
(* The refund counter.                                                      *)

\* The slots for whose clearing a refund stands.
Cleared(cur) == {s \in Slot : original[s] # 0 /\ cur[s] = 0}

\* The refund of one clearing stands for every slot that is now cleared; the strengthening of
\* RefundNeverNegative that the steps preserve.
RefundCovers(cur, v) == v.refund >= Schedule(fork).clear * Cardinality(Cleared(cur))

RefundsStand ==
  /\ RefundCovers(Stored, w)
  /\ \A i \in 1 .. Len(frames) : RefundCovers(frames[i].cur, frames[i])

\* Cardinalities of the cleared slots exist, and none are cleared where nothing was written.
LEMMA ClearedFacts ==
  ASSUME NEW cur
  PROVE  /\ IsFiniteSet(Cleared(cur)) /\ Cardinality(Cleared(cur)) \in Nat
         /\ cur = original => Cardinality(Cleared(cur)) = 0
<1>1. IsFiniteSet(Cleared(cur)) /\ Cardinality(Cleared(cur)) \in Nat
  BY SStoreAssumption, FS_Subset, FS_CardinalityType DEF Cleared
<1>2. cur = original => Cleared(cur) = {}
  BY DEF Cleared
<1> QED
  BY <1>1, <1>2, FS_EmptySet

\* One write moves the number of cleared slots by what ClearRefund pays for.
LEMMA ClearedStep ==
  ASSUME NEW cur \in [Slot -> Val], original \in [Slot -> Val], NEW s \in Slot, NEW x \in Val
  PROVE  LET new == [cur EXCEPT ![s] = x]
             k   == Cardinality(Cleared(cur))
             l   == Cardinality(Cleared(new))
         IN  /\ original[s] # 0 /\ cur[s] = 0 /\ x # 0 => l = k - 1 /\ k >= 1
             /\ original[s] # 0 /\ cur[s] # 0 /\ x = 0 => l = k + 1
             /\ original[s] = 0 \/ (cur[s] = 0 /\ x = 0) \/ (cur[s] # 0 /\ x # 0) => l = k
<1> DEFINE new == [cur EXCEPT ![s] = x]
           C == Cleared(cur)
           D == Cleared(new)
<1>1. IsFiniteSet(C) /\ Cardinality(C) \in Nat
  BY ClearedFacts
<1>2. ASSUME original[s] # 0, cur[s] = 0, x # 0
      PROVE  D = C \ {s} /\ s \in C
  BY <1>2 DEF Cleared
<1>3. ASSUME original[s] # 0, cur[s] # 0, x = 0
      PROVE  D = C \cup {s} /\ s \notin C
  BY <1>3 DEF Cleared
<1>4. ASSUME original[s] = 0 \/ (cur[s] = 0 /\ x = 0) \/ (cur[s] # 0 /\ x # 0)
      PROVE  D = C
  BY <1>4 DEF Cleared
<1>5. s \in C => Cardinality(C \ {s}) = Cardinality(C) - 1 /\ Cardinality(C) >= 1
  <2> SUFFICES ASSUME s \in C
               PROVE  Cardinality(C \ {s}) = Cardinality(C) - 1 /\ Cardinality(C) >= 1
    OBVIOUS
  <2>1. Cardinality(C \ {s}) = Cardinality(C) - 1
    BY <1>1, FS_RemoveElement, Zenon
  <2>2. Cardinality(C \ {s}) \in Nat
    BY <1>1, FS_Subset, FS_CardinalityType
  <2> QED
    BY <1>1, <2>1, <2>2
<1>6. s \notin C => Cardinality(C \cup {s}) = Cardinality(C) + 1
  BY <1>1, FS_AddElement, Zenon
<1> HIDE DEF C, D
<1> QED
  BY <1>2, <1>3, <1>4, <1>5, <1>6, Zenon DEF C, D

\* The gas function keeps the counter above the standing clearings, and never takes back more
\* than it holds.
LEMMA RefundStep ==
  ASSUME NEW cur \in [Slot -> Val], original \in [Slot -> Val], NEW s \in Slot, NEW x \in Val,
         fork \in RuleSets, NEW r \in Nat,
         r >= Schedule(fork).clear * Cardinality(Cleared(cur))
  PROVE  /\ Refund(fork, original[s], cur[s], x) \in Int
         /\ r + Refund(fork, original[s], cur[s], x)
              >= Schedule(fork).clear * Cardinality(Cleared([cur EXCEPT ![s] = x]))
         /\ r + Refund(fork, original[s], cur[s], x) >= 0
         /\ fork # "legacy" => r + ClearRefund(fork, original[s], cur[s], x) >= 0
<1> DEFINE k == Cardinality(Cleared(cur))
           l == Cardinality(Cleared([cur EXCEPT ![s] = x]))
           c == Schedule(fork).clear
           o == original[s]
           y == cur[s]
<1>1. /\ k \in Nat /\ l \in Nat /\ c \in Nat
      /\ o \in Nat /\ y \in Nat /\ x \in Nat
  BY ClearedFacts, ScheduleFacts, SStoreAssumption, Zenon
<1>2. /\ o # 0 /\ y = 0 /\ x # 0 => l = k - 1 /\ k >= 1
      /\ o # 0 /\ y # 0 /\ x = 0 => l = k + 1
      /\ o = 0 \/ (y = 0 /\ x = 0) \/ (y # 0 /\ x # 0) => l = k
  BY ClearedStep, Zenon
<1>3. /\ l = k - 1 => c * l = c * k - c
      /\ l = k + 1 => c * l = c * k + c
      /\ k >= 1 => c * k >= c
      /\ c * l >= 0
  <2>1. \A i, j \in Nat : i * j >= 0
    OBVIOUS
  <2>2. \A i, j \in Nat : j >= 1 => i * j >= i
    <3> SUFFICES ASSUME NEW i \in Nat, NEW j \in Nat, j >= 1 PROVE i * j >= i
      OBVIOUS
    <3>1. i * j = i * (j - 1) + i
      OBVIOUS
    <3>2. i * (j - 1) >= 0
      OBVIOUS
    <3>3. i * (j - 1) \in Int
      OBVIOUS
    <3> QED
      BY <3>1, <3>2, <3>3
  <2> HIDE DEF k, l, c
  <2>3. c * (k - 1) = c * k - c /\ c * (k + 1) = c * k + c
    BY <1>1
  <2> QED
    BY <1>1, <2>1, <2>2, <2>3
<1>4. r >= c * k
  OBVIOUS
<1>5. RestoreRefund(fork, o, y, x) \in Nat
  BY <1>1, ScheduleFacts DEF RestoreRefund
<1> DEFINE d == ClearRefund(fork, o, y, x)
<1>6. /\ o # 0 /\ y = 0 /\ x # 0 => d = -c
      /\ o # 0 /\ y # 0 /\ x = 0 => d = c
      /\ o = 0 \/ (y = 0 /\ x = 0) \/ (y # 0 /\ x # 0) => d = 0
  BY <1>1 DEF ClearRefund
<1>7. LegacyRefund(fork, y, x) = IF y # 0 /\ x = 0 THEN c ELSE 0
  BY DEF LegacyRefund
<1>8. Refund(fork, o, y, x) = IF fork = "legacy" THEN LegacyRefund(fork, y, x)
                                                 ELSE d + RestoreRefund(fork, o, y, x)
  BY DEF Refund
<1>9. c * k \in Int /\ c * l \in Int
  BY <1>1
<1> HIDE DEF k, l, c, o, y, d
<1>10. d \in Int /\ r + d >= c * l /\ r + d >= 0
  <2>1. CASE o # 0 /\ y = 0 /\ x # 0
    BY <1>1, <1>2, <1>3, <1>4, <1>6, <1>9, <2>1
  <2>2. CASE o # 0 /\ y # 0 /\ x = 0
    BY <1>1, <1>2, <1>3, <1>4, <1>6, <1>9, <2>2
  <2>3. CASE o = 0 \/ (y = 0 /\ x = 0) \/ (y # 0 /\ x # 0)
    BY <1>1, <1>2, <1>3, <1>4, <1>6, <1>9, <2>3, SMTT(30)
  <2> QED
    BY <1>1, <2>1, <2>2, <2>3
<1>11. CASE fork # "legacy"
  BY <1>1, <1>3, <1>5, <1>8, <1>9, <1>10, <1>11 DEF c, l, o, y, d
<1>12. CASE fork = "legacy"
  <2>1. LegacyRefund(fork, y, x) >= d /\ LegacyRefund(fork, y, x) \in Int
    BY <1>1, <1>6, <1>7
  <2> QED
    BY <1>1, <1>8, <1>9, <1>10, <1>12, <2>1 DEF c, l, o, y
<1> QED
  BY <1>11, <1>12

-----------------------------------------------------------------------------
(* The inductive invariant.                                                 *)

\* Before a message runs, the slots hold their committed words: true without overrides only.
IInv ==
  /\ TypeOK
  /\ RefundsStand
  /\ phase = "apply" => w.cur = original

\* What the steps of a running frame rely on.
LEMMA RunFacts ==
  ASSUME IInv
  PROVE  /\ fork \in RuleSets /\ Schedule(fork).clear \in Nat
         /\ original \in [Slot -> Val] /\ w.cur \in [Slot -> Val] /\ w.refund \in Nat
         /\ Len(frames) \in Nat /\ frames \in Seq(Worlds)
         /\ pending = None => Stored = w.cur
<1>1. fork \in RuleSets
  BY SStoreAssumption DEF IInv, TypeOK, RuleSets
<1>2. w.refund \in 0 .. UintMod - 1
  BY DEF IInv, TypeOK, Worlds
<1>3. w.refund \in Nat
  BY <1>2, SStoreAssumption
<1> QED
  BY <1>1, <1>3, ScheduleFacts DEF IInv, TypeOK, Worlds, Stored

\* Where every slot holds its committed word, any counter covers the clearings.
LEMMA NothingCleared ==
  ASSUME NEW f \in RuleSets, NEW r \in Nat, NEW n, n = 0
  PROVE  r >= Schedule(f).clear * n
  BY ScheduleFacts

\* Counting below the modulus does not wrap.
LEMMA NoWrap ==
  ASSUME NEW m \in Nat \ {0}, NEW r \in Int, r >= 0, r < m
  PROVE  r % m = r /\ r \in 0 .. m - 1
  OBVIOUS

\* A world keeps its type when its counters move.
LEMMA WorldUpdate ==
  ASSUME NEW v \in Worlds, NEW r \in 0 .. UintMod - 1,
         NEW m \in SUBSET Slot, NEW g \in Nat, NEW n \in Nat, NEW c \in Nat
  PROVE  [v EXCEPT !.refund = r, !.warm = m, !.gas = g, !.writes = n, !.colds = c] \in Worlds
  BY Zenon DEF Worlds

\* A world keeps its type when a contract is destroyed.
LEMMA WorldDestroyed ==
  ASSUME NEW v \in Worlds, NEW r \in 0 .. UintMod - 1
  PROVE  [v EXCEPT !.refund = r, !.destroyed = TRUE] \in Worlds
  BY Zenon DEF Worlds

\* The invariant holds initially.
LEMMA InitImpliesIInv ==
  Init => IInv
<1> SUFFICES ASSUME Init PROVE IInv
  OBVIOUS
<1>1. TypeOK
  BY SStoreAssumption DEF Init, TypeOK, World, Worlds
<1>2. Stored = original /\ w.cur = original /\ w.refund = 0 /\ frames = << >>
  BY DEF Init, Stored, World
<1>3. fork \in RuleSets
  BY SStoreAssumption DEF Init, RuleSets
<1>4. RefundCovers(Stored, w)
  BY <1>2, <1>3, ClearedFacts, NothingCleared DEF RefundCovers
<1> QED
  BY <1>1, <1>2, <1>4 DEF IInv, RefundsStand

\* A frame opens at a world whose clearings are covered.
LEMMA FramesExtend ==
  ASSUME IInv, NEW v \in Worlds, frames' = Append(frames, v), original' = original, fork' = fork,
         RefundCovers(v.cur, v)
  PROVE  /\ frames' \in Seq(Worlds) /\ frames' # << >>
         /\ \A i \in 1 .. Len(frames') : RefundCovers(frames[i].cur, frames[i])'
<1>1. frames \in Seq(Worlds) /\ Len(frames) \in Nat
  BY RunFacts
<1>2. /\ frames' \in Seq(Worlds) /\ frames' # << >> /\ Len(frames') = Len(frames) + 1
      /\ frames'[Len(frames) + 1] = v
      /\ \A i \in 1 .. Len(frames) : frames'[i] = frames[i]
  BY <1>1, AppendProperties
<1>3. ASSUME NEW i \in 1 .. Len(frames') PROVE RefundCovers(frames[i].cur, frames[i])'
  <2>1. CASE i = Len(frames) + 1
    BY <1>2, <2>1, Zenon DEF RefundCovers, Cleared
  <2>2. CASE i \in 1 .. Len(frames)
    BY <1>2, <2>2 DEF RefundCovers, Cleared, IInv, RefundsStand
  <2> QED
    BY <1>1, <1>2, <1>3, <2>1, <2>2
<1> QED
  BY <1>2, <1>3

\* A frame that ends leaves the outer frames' worlds as they are.
LEMMA FramesShrink ==
  ASSUME IInv, phase = "run", Leave
  PROVE  /\ frames' \in Seq(Worlds) /\ phase' \in {"run", "done"}
         /\ (phase' = "run") = (frames' # << >>)
         /\ \A i \in 1 .. Len(frames') : RefundCovers(frames[i].cur, frames[i])'
<1>1. frames \in Seq(Worlds) /\ Len(frames) \in Nat /\ frames # << >>
  BY RunFacts DEF IInv, TypeOK
<1>2. Len(frames) >= 1
  BY <1>1
<1>3. /\ frames' \in Seq(Worlds) /\ Len(frames') = Len(frames) - 1
      /\ \A i \in 1 .. Len(frames) - 1 : frames'[i] = frames[i]
  <2>1. frames' = SubSeq(frames, 1, Len(frames) - 1)
    BY DEF Leave
  <2>2. \A i \in 1 .. Len(frames) - 1 : frames[i] \in Worlds /\ i \in 1 .. Len(frames)
    BY <1>1
  <2>3. frames' = [i \in 1 .. Len(frames) - 1 |-> frames[i]]
    BY <1>1, <1>2, <2>1
  <2> QED
    BY <1>1, <1>2, <2>2, <2>3
<1>4. (phase' = "run") = (frames' # << >>) /\ phase' \in {"run", "done"}
  <2>1. frames' # << >> <=> Len(frames') # 0
    BY <1>3
  <2> QED
    BY <1>1, <1>2, <1>3, <2>1 DEF Leave
<1>5. \A i \in 1 .. Len(frames') : RefundCovers(frames[i].cur, frames[i])'
  BY <1>1, <1>3, SMTT(30) DEF RefundCovers, Cleared, IInv, RefundsStand, Leave
<1> QED
  BY <1>3, <1>4, <1>5

\* Every step keeps the invariant, if no message comes with a storage override.
LEMMA NextKeepsIInv ==
  ASSUME Diffs = {}, IInv, [Next]_vars
  PROVE  IInv'
<1>0. /\ fork \in RuleSets /\ Schedule(fork).clear \in Nat
      /\ original \in [Slot -> Val] /\ w.cur \in [Slot -> Val] /\ w.refund \in Nat
      /\ Len(frames) \in Nat /\ frames \in Seq(Worlds)
      /\ pending = None => Stored = w.cur
  BY RunFacts
<1>1. /\ TypeOK /\ RefundCovers(Stored, w) /\ (phase = "apply" => w.cur = original)
      /\ w \in Worlds /\ UintMod \in Nat \ {0}
      /\ \A i \in 1 .. Len(frames) : RefundCovers(frames[i].cur, frames[i])
  BY SStoreAssumption DEF IInv, RefundsStand, TypeOK
<1>2. ASSUME NEW l \in Listed, Begin(l) PROVE IInv'
  <2>1. /\ phase = "apply" /\ frames = << >> /\ pending = None /\ phase' = "run"
        /\ UNCHANGED <<fork, original, pending, msgs>> /\ frames' = <<w'>>
        /\ w'.cur = w.cur /\ w'.refund = w.refund /\ w' \in Worlds
    BY <1>1, <1>2, SStoreAssumption, Zenon DEF Begin, TypeOK, Worlds
  <2>2. RefundCovers(w.cur, w)' /\ Stored' = w'.cur
    BY <1>0, <1>1, <2>1 DEF RefundCovers, Cleared, Stored
  <2>3. frames' \in Seq(Worlds) /\ frames' # << >>
    BY <2>1
  <2>4. TypeOK'
    BY <1>1, <1>2, <2>1, <2>3 DEF TypeOK, Begin
  <2>5. \A i \in 1 .. Len(frames') : frames'[i] = w'
    BY <2>1
  <2> QED
    BY <2>1, <2>2, <2>4, <2>5 DEF IInv, RefundsStand
<1>3. CASE Enter
  <2>1. /\ Executing /\ UNCHANGED <<fork, phase, original, w, pending, msgs>>
        /\ frames' = Append(frames, w) /\ pending = None /\ phase = "run"
    BY <1>3 DEF Enter, Executing
  <2>2. /\ frames' \in Seq(Worlds) /\ frames' # << >>
        /\ \A i \in 1 .. Len(frames') : RefundCovers(frames[i].cur, frames[i])'
    BY <1>0, <1>1, <2>1, FramesExtend
  <2>3. RefundCovers(Stored, w)'
    BY <1>1, <2>1 DEF RefundCovers, Cleared, Stored
  <2>4. TypeOK'
    BY <1>1, <2>1, <2>2 DEF TypeOK
  <2> QED
    BY <2>1, <2>2, <2>3, <2>4 DEF IInv, RefundsStand
<1>4. ASSUME w' \in Worlds, w'.cur = w.cur, w'.refund >= w.refund, pending = None, phase = "run",
             UNCHANGED <<fork, phase, original, frames, pending, msgs>>
      PROVE  IInv'
  <2>1. TypeOK'
    BY <1>1, <1>4 DEF TypeOK
  <2>2. RefundCovers(Stored, w)'
    <3>1. Stored' = w.cur /\ Stored = w.cur /\ Cleared(w.cur)' = Cleared(w.cur)
      BY <1>4 DEF Stored, Cleared
    <3>2. w'.refund \in Int /\ Cardinality(Cleared(w.cur)) \in Nat
      BY <1>4, ClearedFacts DEF Worlds
    <3> QED
      BY <1>0, <1>1, <1>4, <3>1, <3>2 DEF RefundCovers
  <2> QED
    BY <1>1, <1>4, <2>1, <2>2 DEF IInv, RefundsStand, RefundCovers, Cleared
<1>5. ASSUME NEW s \in Slot, SLoad(s) PROVE IInv'
  <2>1. w' \in Worlds /\ w'.cur = w.cur /\ w'.refund = w.refund
    BY <1>1, <1>5 DEF SLoad, Worlds
  <2> QED
    BY <1>0, <1>4, <1>5, <2>1 DEF SLoad, Executing
<1>6. CASE SelfDestruct
  <2>1. w.refund + 24000 < UintMod
    BY <1>6 DEF SelfDestruct, RefundFits, SelfdestructRefundGas
  <2>2. w' = [w EXCEPT !.refund = w.refund + 24000, !.destroyed = TRUE]
    BY <1>6 DEF SelfDestruct, SelfdestructRefundGas
  <2>3. w.refund + 24000 \in 0 .. UintMod - 1
    BY <1>0, <1>1, <2>1
  <2>4. w' \in Worlds /\ w'.cur = w.cur /\ w'.refund = w.refund + 24000
    <3>0. w \in Worlds
      BY <1>1
    <3> DEFINE r == w.refund + 24000
    <3> HIDE DEF r
    <3>1. w' \in Worlds
      <4>1. r \in 0 .. UintMod - 1 /\ w' = [w EXCEPT !.refund = r, !.destroyed = TRUE]
        BY <2>2, <2>3 DEF r
      <4> QED
        BY <3>0, <4>1, WorldDestroyed, Zenon
    <3>2. w = [cur |-> w.cur, warm |-> w.warm, refund |-> w.refund, destroyed |-> w.destroyed,
               gas |-> w.gas, writes |-> w.writes, colds |-> w.colds]
      BY <1>1 DEF Worlds
    <3> QED
      BY <2>2, <3>1, <3>2
  <2> QED
    BY <1>0, <1>4, <1>6, <2>4 DEF SelfDestruct, Executing
<1>7. ASSUME NEW s \in Slot, NEW x \in Val, GasSStore(s, x) PROVE IInv'
  <2> DEFINE n == Refund(fork, original[s], w.cur[s], x)
             cold == Surcharge(fork, s, w.warm)
             price == Cost(fork, original[s], w.cur[s], x)
  <2>1. /\ pending = None /\ phase = "run" /\ pending' = <<s, x>>
        /\ UNCHANGED <<fork, phase, original, frames, msgs>> /\ w.refund + n < UintMod
        /\ w' = [w EXCEPT !.refund = (w.refund + n) % UintMod,
                          !.warm = IF cold = 0 THEN w.warm ELSE w.warm \cup {s},
                          !.gas = w.gas + price + cold,
                          !.writes = w.writes + 1,
                          !.colds = IF cold = 0 THEN w.colds ELSE w.colds + 1]
    BY <1>7 DEF GasSStore, Executing, RefundFits
  <2>2. /\ n \in Int /\ w.refund + n >= 0
        /\ w.refund + n >= Schedule(fork).clear * Cardinality(Cleared([w.cur EXCEPT ![s] = x]))
    BY <1>0, <1>1, <2>1, RefundStep, Zenon DEF RefundCovers
  <2>3. price \in Nat /\ cold \in Nat
    <3>1. price \in Nat
      BY <1>0, ScheduleFacts DEF Cost, LegacyCost, NetCost
    <3>2. cold \in Nat
      BY DEF Surcharge, ColdSloadCostEIP2929
    <3> QED
      BY <3>1, <3>2
  <2> HIDE DEF n, cold, price
  <2>4. (w.refund + n) % UintMod = w.refund + n /\ w.refund + n \in 0 .. UintMod - 1
    BY <1>0, <1>1, <2>1, <2>2, NoWrap
  <2>5. w' \in Worlds /\ w'.cur = w.cur /\ w'.refund = w.refund + n
    <3>1. /\ (IF cold = 0 THEN w.warm ELSE w.warm \cup {s}) \in SUBSET Slot
          /\ w.gas + price + cold \in Nat /\ w.writes + 1 \in Nat
          /\ (IF cold = 0 THEN w.colds ELSE w.colds + 1) \in Nat
      BY <1>1, <2>3 DEF Worlds
    <3>2. w' \in Worlds
      BY <1>1, <2>1, <2>4, <3>1, WorldUpdate, ZenonT(60)
    <3>3. w = [cur |-> w.cur, warm |-> w.warm, refund |-> w.refund, destroyed |-> w.destroyed,
               gas |-> w.gas, writes |-> w.writes, colds |-> w.colds]
      BY <1>1 DEF Worlds
    <3> QED
      BY <2>1, <2>4, <3>2, <3>3
  <2>6. <<s, x>> # None /\ <<s, x>> \in Slot \X Val
    BY SStoreAssumption
  <2>7. TypeOK'
    BY <1>1, <2>1, <2>5, <2>6 DEF TypeOK
  <2>8. Stored' = [w.cur EXCEPT ![s] = x]
    BY <2>1, <2>5, <2>6 DEF Stored
  <2>9. RefundCovers(Stored, w)'
    BY <2>1, <2>2, <2>5, <2>8 DEF RefundCovers, Cleared
  <2> QED
    BY <1>1, <2>1, <2>7, <2>9 DEF IInv, RefundsStand, RefundCovers, Cleared
<1>8. CASE SStore
  <2>1. /\ pending \in Slot \X Val /\ pending # None /\ pending' = None /\ phase = "run"
        /\ UNCHANGED <<fork, phase, original, frames, msgs>>
        /\ w' = [w EXCEPT !.cur = [w.cur EXCEPT ![pending[1]] = pending[2]]]
    BY <1>1, <1>8 DEF SStore, TypeOK
  <2>2. w' \in Worlds /\ w'.cur = Stored /\ w'.refund = w.refund
    BY <1>0, <1>1, <2>1, Zenon DEF Worlds, Stored
  <2>3. TypeOK'
    BY <1>1, <2>1, <2>2 DEF TypeOK
  <2>4. RefundCovers(Stored, w)'
    BY <1>1, <2>1, <2>2 DEF RefundCovers, Cleared, Stored
  <2> QED
    BY <1>1, <2>1, <2>3, <2>4 DEF IInv, RefundsStand, RefundCovers, Cleared
<1>9. CASE Return
  <2>1. /\ phase = "run" /\ pending = None /\ pending' = None /\ w' = w /\ Leave
        /\ UNCHANGED <<fork, original, msgs>>
    BY <1>9 DEF Return, Leave, Executing
  <2>2. /\ frames' \in Seq(Worlds) /\ phase' \in {"run", "done"}
        /\ (phase' = "run") = (frames' # << >>)
        /\ \A i \in 1 .. Len(frames') : RefundCovers(frames[i].cur, frames[i])'
    BY <2>1, FramesShrink
  <2>3. TypeOK'
    BY <1>1, <2>1, <2>2 DEF TypeOK
  <2>4. RefundCovers(Stored, w)'
    BY <1>1, <2>1 DEF RefundCovers, Cleared, Stored
  <2> QED
    BY <2>1, <2>2, <2>3, <2>4 DEF IInv, RefundsStand
<1>10. CASE Fail
  <2>1. /\ phase = "run" /\ pending' = None /\ w' = frames[Len(frames)] /\ Leave
        /\ UNCHANGED <<fork, original, msgs>> /\ Len(frames) \in 1 .. Len(frames)
    <3>1. frames # << >>
      BY <1>1, <1>10 DEF Fail, TypeOK
    <3> QED
      BY <1>0, <1>10, <3>1 DEF Fail, Leave
  <2>2. /\ frames' \in Seq(Worlds) /\ phase' \in {"run", "done"}
        /\ (phase' = "run") = (frames' # << >>)
        /\ \A i \in 1 .. Len(frames') : RefundCovers(frames[i].cur, frames[i])'
    BY <2>1, FramesShrink
  <2>3. w' \in Worlds /\ RefundCovers(w'.cur, w')
    BY <1>0, <1>1, <2>1
  <2>4. TypeOK'
    BY <1>1, <2>1, <2>2, <2>3 DEF TypeOK
  <2>5. RefundCovers(Stored, w)'
    BY <2>1, <2>3 DEF RefundCovers, Cleared, Stored
  <2> QED
    BY <2>1, <2>2, <2>4, <2>5 DEF IInv, RefundsStand
<1>11. CASE Finalise
  <2>1. /\ phase = "done" /\ phase' = "apply" /\ original' = w.cur /\ frames = << >>
        /\ pending = None /\ w' = World(w.cur, {}) /\ UNCHANGED <<fork, frames, pending>>
        /\ msgs' \in 0 .. MaxMsgs
    BY <1>1, <1>11, SStoreAssumption, SMTT(30) DEF Finalise, TypeOK
  <2>2. w' \in Worlds /\ w'.cur = original' /\ w'.refund = 0 /\ Stored' = original'
    BY <1>0, <1>1, <2>1, SMTT(60) DEF World, Worlds, Stored
  <2>3. TypeOK'
    BY <1>0, <1>1, <2>1, <2>2 DEF TypeOK
  <2>4. Cleared(Stored)' = {}
    BY <2>2 DEF Cleared
  <2>5. RefundCovers(Stored, w)'
    BY <1>0, <2>1, <2>2, <2>4, FS_EmptySet, NothingCleared, SMTT(30) DEF RefundCovers
  <2> QED
    BY <2>1, <2>2, <2>3, <2>5 DEF IInv, RefundsStand
<1>12. CASE UNCHANGED vars
  BY <1>1, <1>12, SMTT(60) DEF vars, IInv, TypeOK, RefundsStand, RefundCovers, Cleared, Stored
<1> QED
  BY <1>2, <1>3, <1>5, <1>6, <1>7, <1>8, <1>9, <1>10, <1>11, <1>12 DEF Next

-----------------------------------------------------------------------------
(* The theorem.                                                             *)

\* The comment's "We can prove that refund counter will never go below 0", for any finite set
\* of slots, any words, frames and messages, under every rule set: as long as no storage
\* override makes a slot differ from its committed word before the message runs.
THEOREM RefundCounterIsSafe ==
  ASSUME Diffs = {}
  PROVE  Spec => []RefundNeverNegative
<1>1. IInv => RefundNeverNegative
  <2> SUFFICES ASSUME IInv, Executing, NEW s \in Slot, NEW x \in Val, fork # "legacy"
               PROVE  w.refund + ClearRefund(fork, original[s], w.cur[s], x) >= 0
    BY DEF RefundNeverNegative
  <2>1. Stored = w.cur
    BY RunFacts DEF Executing
  <2>2. w.refund >= Schedule(fork).clear * Cardinality(Cleared(w.cur))
    BY <2>1 DEF IInv, RefundsStand, RefundCovers
  <2> QED
    BY <2>2, RunFacts, RefundStep, Zenon
<1>2. IInv /\ [Next]_vars => IInv'
  BY NextKeepsIInv
<1> QED
  BY <1>1, <1>2, InitImpliesIInv, PTL DEF Spec

-----------------------------------------------------------------------------
(* Net metering.                                                            *)

\* What a world has charged beyond the dirty writes and the cold slots.
\* (The rule set f and the committed words o are parameters, so that a step that changes
\* neither visibly keeps the meaning.)
Net(f, v) == v.gas - v.refund + (IF v.destroyed THEN SelfdestructRefundGas ELSE 0)
               - v.writes * Schedule(f).dirty - v.colds * ColdSloadCostEIP2929

Bases(f, o, cur) == [s \in Slot |-> Base(f, o[s], cur[s])]

MeteredBy(f, o, cur, v) == f # "legacy" => Net(f, v) = FoldFunction(+, 0, Bases(f, o, cur))

Metered(cur, v) == MeteredBy(fork, original, cur, v)

\* The current world is metered, the pending write included, and so is every saved one: a frame
\* that fails gives back both the words and the gas and refunds that were counted for them.
AllMetered ==
  /\ Metered(Stored, w)
  /\ \A i \in 1 .. Len(frames) : Metered(frames[i].cur, frames[i])

\* The potential of a slot is an integer, and zero where the slot holds its committed word.
LEMMA BaseFacts ==
  ASSUME NEW f \in RuleSets, NEW o \in Val, NEW c \in Val
  PROVE  Base(f, o, c) \in Int /\ (o = c => Base(f, o, c) = 0)
<1> DEFINE S == Schedule(f)
<1>1. /\ S.set \in Nat /\ S.reset \in Nat /\ S.dirty \in Nat /\ S.clear \in Nat
      /\ o \in Nat /\ c \in Nat
  BY ScheduleFacts, SStoreAssumption
<1> HIDE DEF S
<1> QED
  BY <1>1 DEF Base, S

\* The potentials of all slots.
LEMMA BasesFacts ==
  ASSUME NEW f \in RuleSets, NEW o \in [Slot -> Val], NEW cur \in [Slot -> Val]
  PROVE  /\ Bases(f, o, cur) \in [Slot -> Int]
         /\ FoldFunction(+, 0, Bases(f, o, cur)) \in Int
         /\ cur = o => FoldFunction(+, 0, Bases(f, o, cur)) = 0
<1>1. \A s \in Slot : Base(f, o[s], cur[s]) \in Int
  BY BaseFacts
<1>2. Bases(f, o, cur) \in [Slot -> Int]
  BY <1>1 DEF Bases
<1>3. FoldFunction(+, 0, Bases(f, o, cur)) \in Int
  BY <1>2, SumTyped, SStoreAssumption, Zenon
<1>4. ASSUME cur = o PROVE FoldFunction(+, 0, Bases(f, o, cur)) = 0
  <2>1. \A s \in Slot : Bases(f, o, cur)[s] = 0
    BY <1>4, BaseFacts DEF Bases
  <2> QED
    BY <1>2, <2>1, SumZero, SStoreAssumption, Zenon
<1> QED
  BY <1>2, <1>3, <1>4, Zenon

\* A write changes the potential of its slot only.
LEMMA BasesStep ==
  ASSUME NEW f \in RuleSets, NEW o \in [Slot -> Val], NEW cur \in [Slot -> Val],
         NEW s \in Slot, NEW x \in Val
  PROVE  FoldFunction(+, 0, Bases(f, o, [cur EXCEPT ![s] = x]))
           = FoldFunction(+, 0, Bases(f, o, cur)) - Base(f, o[s], cur[s])
             + Base(f, o[s], x)
<1> DEFINE b == Base(f, o[s], x)
           g == Bases(f, o, cur)
<1>1. g \in [Slot -> Int] /\ b \in Int /\ g[s] = Base(f, o[s], cur[s])
  BY BasesFacts, BaseFacts, Zenon DEF Bases
<1>2. Bases(f, o, [cur EXCEPT ![s] = x]) = [g EXCEPT ![s] = b]
  BY Zenon DEF Bases
<1> HIDE DEF b, g
<1>3. FoldFunction(+, 0, [g EXCEPT ![s] = b]) = FoldFunction(+, 0, g) - g[s] + b
  <2>1. IsFiniteSet(Slot) /\ g \in [Slot -> Int] /\ b \in Int
    BY <1>1, SStoreAssumption
  <2> QED BY <2>1, SumUpdate, Zenon
<1>4. FoldFunction(+, 0, Bases(f, o, [cur EXCEPT ![s] = x])) = FoldFunction(+, 0, g) - g[s] + b
  BY <1>2, <1>3, Zenon
<1>5. g[s] = Base(f, o[s], cur[s])
  BY <1>1
<1> QED
  BY <1>4, <1>5, Zenon DEF b, g

\* The world's counters, as the arithmetic needs them.
LEMMA CountersTyped ==
  ASSUME NEW v \in Worlds, NEW f \in RuleSets
  PROVE  /\ v.gas \in Nat /\ v.refund \in Nat /\ v.writes \in Nat /\ v.colds \in Nat
         /\ v.destroyed \in BOOLEAN /\ Schedule(f).dirty \in Nat
         /\ v.cur \in [Slot -> Val]
<1>1. v.refund \in 0 .. UintMod - 1
  BY DEF Worlds
<1>2. v.refund \in Nat
  BY <1>1, SStoreAssumption
<1> QED
  BY <1>2, ScheduleFacts DEF Worlds

\* Every step keeps the worlds metered, if no message comes with a storage override.
LEMMA NextKeepsMetered ==
  ASSUME Diffs = {}, IInv, AllMetered, [Next]_vars
  PROVE  AllMetered'
<1>0. /\ fork \in RuleSets /\ original \in [Slot -> Val] /\ w.cur \in [Slot -> Val]
      /\ Len(frames) \in Nat /\ frames \in Seq(Worlds) /\ w \in Worlds
      /\ pending = None => Stored = w.cur
  BY RunFacts DEF IInv, TypeOK
<1>1. Metered(Stored, w) /\ \A i \in 1 .. Len(frames) : Metered(frames[i].cur, frames[i])
  BY DEF AllMetered
<1>2. ASSUME UNCHANGED <<fork, original>>, NEW cur, NEW v, Metered(cur, v)
      PROVE  Metered(cur, v)'
  BY <1>2 DEF Metered
<1>3. ASSUME UNCHANGED <<fork, original, frames>>, Metered(Stored', w') PROVE AllMetered'
  BY <1>1, <1>2, <1>3 DEF AllMetered
<1>4. ASSUME NEW l \in Listed, Begin(l) PROVE AllMetered'
  <2>1. /\ pending = None /\ UNCHANGED <<fork, original, pending>> /\ frames' = <<w'>>
        /\ w'.cur = w.cur /\ Net(fork, w') = Net(fork, w)
    BY <1>0, <1>4 DEF Begin, IInv, TypeOK, Worlds, Net
  <2>2. Stored' = w.cur
    BY <2>1 DEF Stored
  <2>3. Metered(w.cur, w')
    BY <1>0, <1>1, <2>1, Zenon DEF Metered, MeteredBy
  <2>4. \A i \in 1 .. Len(frames') : frames'[i] = w'
    BY <2>1
  <2>5. Metered(Stored, w)' /\ Metered(w.cur, w)'
    BY <1>2, <2>1, <2>2, <2>3
  <2> QED
    BY <2>4, <2>5 DEF AllMetered
<1>5. CASE Enter
  <2>1. /\ UNCHANGED <<fork, original, w, pending>> /\ pending = None
        /\ frames' = Append(frames, w)
    BY <1>5 DEF Enter, Executing
  <2>2. /\ Len(frames') = Len(frames) + 1 /\ frames'[Len(frames) + 1] = w
        /\ \A i \in 1 .. Len(frames) : frames'[i] = frames[i]
    BY <1>0, <2>1, AppendProperties
  <2>3. Stored' = Stored /\ Stored = w.cur
    BY <1>0, <2>1 DEF Stored
  <2>4. ASSUME NEW i \in 1 .. Len(frames') PROVE Metered(frames[i].cur, frames[i])'
    <3>1. CASE i = Len(frames) + 1
      BY <1>1, <1>2, <2>1, <2>2, <2>3, <3>1
    <3>2. CASE i \in 1 .. Len(frames)
      BY <1>1, <1>2, <2>1, <2>2, <3>2
    <3> QED
      BY <1>0, <2>2, <2>4, <3>1, <3>2
  <2>5. Metered(Stored, w)'
    BY <1>1, <1>2, <2>1, <2>3
  <2> QED
    BY <2>4, <2>5 DEF AllMetered
<1>6. ASSUME NEW s \in Slot, SLoad(s) PROVE AllMetered'
  <2>1. /\ UNCHANGED <<fork, original, frames, pending>> /\ w'.cur = w.cur /\ Net(fork, w') = Net(fork, w)
    BY <1>0, <1>6 DEF SLoad, Worlds, Net
  <2>2. Stored' = Stored
    BY <2>1 DEF Stored
  <2> QED
    BY <1>1, <1>3, <2>1, <2>2, Zenon DEF Metered, MeteredBy
<1>7. CASE SelfDestruct
  <2> DEFINE r == w.refund + SelfdestructRefundGas
  <2>1. /\ UNCHANGED <<fork, original, frames, pending>> /\ ~w.destroyed
        /\ w' = [w EXCEPT !.refund = r, !.destroyed = TRUE]
    BY <1>7 DEF SelfDestruct
  <2>2. /\ w'.cur = w.cur /\ w'.refund = r /\ w'.destroyed = TRUE /\ w'.gas = w.gas
        /\ w'.writes = w.writes /\ w'.colds = w.colds
    <3> HIDE DEF r
    <3> QED
      BY <1>0, <2>1 DEF Worlds
  <2>3. Net(fork, w') = Net(fork, w)
    <3> DEFINE a == w.writes * Schedule(fork).dirty
               b == w.colds * ColdSloadCostEIP2929
    <3>1. /\ w.gas \in Int /\ w.refund \in Int /\ SelfdestructRefundGas \in Int
          /\ a \in Int /\ b \in Int
      BY <1>0, CountersTyped DEF SelfdestructRefundGas, ColdSloadCostEIP2929
    <3>2. /\ Net(fork, w) = w.gas - w.refund + 0 - a - b
          /\ Net(fork, w') = w.gas - (w.refund + SelfdestructRefundGas) + SelfdestructRefundGas
                               - a - b
      BY <2>1, <2>2, Zenon DEF Net
    <3> HIDE DEF a, b
    <3> QED
      BY <3>1, <3>2
  <2>4. Stored' = Stored
    BY <2>1, <2>2 DEF Stored
  <2> QED
    BY <1>1, <1>3, <2>1, <2>3, <2>4, Zenon DEF Metered, MeteredBy
<1>8. ASSUME NEW s \in Slot, NEW x \in Val, GasSStore(s, x) PROVE AllMetered'
  <2> DEFINE n == Refund(fork, original[s], w.cur[s], x)
             cold == Surcharge(fork, s, w.warm)
             price == Cost(fork, original[s], w.cur[s], x)
             new == [w.cur EXCEPT ![s] = x]
             old == FoldFunction(+, 0, Bases(fork, original, w.cur))
  <2>1. /\ pending = None /\ pending' = <<s, x>>
        /\ UNCHANGED <<fork, original, frames>> /\ w.refund + n < UintMod
        /\ w' = [w EXCEPT !.refund = (w.refund + n) % UintMod,
                          !.warm = IF cold = 0 THEN w.warm ELSE w.warm \cup {s},
                          !.gas = w.gas + price + cold,
                          !.writes = w.writes + 1,
                          !.colds = IF cold = 0 THEN w.colds ELSE w.colds + 1]
    BY <1>8 DEF GasSStore, Executing, RefundFits
  <2>2. n \in Int /\ w.refund + n >= 0
    <3>1. w.refund \in Nat /\ w.refund >= Schedule(fork).clear * Cardinality(Cleared(w.cur))
      BY <1>0, <2>1, RunFacts DEF IInv, RefundsStand, RefundCovers
    <3> QED
      BY <1>0, <3>1, RefundStep, Zenon
  <2>3. price \in Nat /\ cold \in {0, ColdSloadCostEIP2929}
    <3>1. price \in Nat
      BY <1>0, ScheduleFacts DEF Cost, LegacyCost, NetCost
    <3>2. cold \in {0, ColdSloadCostEIP2929}
      BY DEF Surcharge
    <3> QED
      BY <3>1, <3>2
  <2>4. Stored' = new
    <3>1. <<s, x>> # None
      BY SStoreAssumption
    <3>2. w'.cur = w.cur
      BY <1>0, <2>1 DEF Worlds
    <3> QED
      BY <2>1, <3>1, <3>2 DEF Stored
  <2>5. ASSUME fork # "legacy" PROVE Net(fork, w') = FoldFunction(+, 0, Bases(fork, original, new))
    <3> DEFINE b == Base(fork, original[s], w.cur[s])
               c == Base(fork, original[s], x)
               d == Schedule(fork).dirty
               sum == FoldFunction(+, 0, Bases(fork, original, new))
    <3>1. price - n = d + c - b
      BY <1>0, <2>5, NetMeteringStep
    <3>2. b \in Int /\ c \in Int /\ old \in Int
      BY <1>0, BaseFacts, BasesFacts, Zenon
    <3>3. sum = old - b + c
      BY <1>0, BasesStep, Zenon
    <3>4. Net(fork, w) = old
      BY <1>0, <1>1, <2>1, <2>5, Zenon DEF Metered, MeteredBy
    <3>5. (w.refund + n) % UintMod = w.refund + n
      <4>1. w.refund \in Nat /\ UintMod \in Nat \ {0}
        BY <1>0, CountersTyped, SStoreAssumption
      <4> HIDE DEF n
      <4> QED
        BY <2>1, <2>2, <4>1, NoWrap
    <3>6. /\ w'.gas = w.gas + price + cold /\ w'.refund = w.refund + n
          /\ w'.writes = w.writes + 1 /\ w'.destroyed = w.destroyed
          /\ w'.colds = IF cold = 0 THEN w.colds ELSE w.colds + 1
      <4> HIDE DEF n, cold, price
      <4>1. w = [cur |-> w.cur, warm |-> w.warm, refund |-> w.refund, destroyed |-> w.destroyed,
                 gas |-> w.gas, writes |-> w.writes, colds |-> w.colds]
        BY <1>0 DEF Worlds
      <4> QED
        BY <2>1, <3>5, <4>1
    <3>7. /\ w.gas \in Nat /\ w.refund \in Nat /\ w.writes \in Nat /\ w.colds \in Nat
          /\ w.destroyed \in BOOLEAN /\ d \in Nat
      BY <1>0, CountersTyped
    <3> HIDE DEF n, cold, price, old, b, c, sum
    <3>8. Net(fork, w') = Net(fork, w) + price - n - d
      <4> DEFINE k == IF w.destroyed THEN SelfdestructRefundGas ELSE 0
                 e == w.writes * d
                 h == w.colds * ColdSloadCostEIP2929
      <4>1. w'.colds * ColdSloadCostEIP2929 = h + cold
        BY <2>3, <3>6, <3>7 DEF ColdSloadCostEIP2929
      <4>2. w'.writes * d = e + d
        BY <3>6, <3>7
      <4>3. k \in Int /\ e \in Int /\ h \in Int /\ cold \in Int
        BY <2>3, <3>7 DEF ColdSloadCostEIP2929, SelfdestructRefundGas
      <4>4. /\ Net(fork, w) = w.gas - w.refund + k - e - h
            /\ Net(fork, w') = (w.gas + price + cold) - (w.refund + n) + k - (e + d) - (h + cold)
        BY <3>6, <4>1, <4>2, Zenon DEF Net
      <4> HIDE DEF k, e, h, d
      <4> QED
        BY <2>2, <2>3, <3>7, <4>3, <4>4
    <3>9. Net(fork, w') = sum
      BY <2>2, <2>3, <3>1, <3>2, <3>3, <3>4, <3>7, <3>8
    <3> QED
      BY <3>9, Zenon DEF sum
  <2>6. Metered(Stored', w')
    BY <2>4, <2>5, Zenon DEF Metered, MeteredBy
  <2> QED
    BY <1>3, <2>1, <2>6
<1>9. CASE SStore
  <2>1. /\ pending # None /\ pending' = None /\ UNCHANGED <<fork, original, frames>>
        /\ w' = [w EXCEPT !.cur = [w.cur EXCEPT ![pending[1]] = pending[2]]]
    BY <1>0, <1>9 DEF SStore, Worlds
  <2>2. w'.cur = Stored /\ Net(fork, w') = Net(fork, w)
    BY <1>0, <2>1 DEF Worlds, Stored, Net
  <2>3. Stored' = Stored
    BY <2>1, <2>2 DEF Stored
  <2> QED
    BY <1>1, <1>3, <2>1, <2>2, <2>3, Zenon DEF Metered, MeteredBy
<1>10. ASSUME phase = "run", Leave, Metered(w'.cur, w') PROVE AllMetered'
  <2>1. /\ UNCHANGED <<fork, original>> /\ pending' = None
        /\ frames' = SubSeq(frames, 1, Len(frames) - 1)
    BY <1>10 DEF Leave
  <2>2. Len(frames) >= 1
    BY <1>0, <1>10 DEF IInv, TypeOK
  <2>3. frames' = [i \in 1 .. Len(frames) - 1 |-> frames[i]]
    BY <1>0, <2>1, <2>2
  <2>4. \A i \in 1 .. Len(frames') : i \in 1 .. Len(frames) /\ frames'[i] = frames[i]
    BY <1>0, <2>2, <2>3
  <2>5. Stored' = w'.cur
    BY <2>1 DEF Stored
  <2>6. \A i \in 1 .. Len(frames') : Metered(frames[i].cur, frames[i])'
    BY <1>1, <1>2, <2>1, <2>4
  <2>7. Metered(Stored, w)'
    BY <1>2, <1>10, <2>1, <2>5
  <2> QED
    BY <2>6, <2>7 DEF AllMetered
<1>11. CASE Return
  BY <1>0, <1>1, <1>10, <1>11 DEF Return, Executing
<1>12. CASE Fail
  <2>1. /\ phase = "run" /\ Leave /\ w' = frames[Len(frames)] /\ frames # << >>
    BY <1>12 DEF Fail, IInv, TypeOK
  <2>2. Len(frames) \in 1 .. Len(frames)
    BY <1>0, <2>1
  <2> QED
    BY <1>1, <1>10, <2>1, <2>2
<1>13. CASE Finalise
  <2>1. /\ fork' = fork /\ original' = w.cur /\ w' = World(w.cur, {}) /\ pending' = None
        /\ frames' = << >>
    BY <1>13 DEF Finalise, IInv, TypeOK
  <2>2. Stored' = original'
    BY <2>1 DEF Stored, World
  <2>3. /\ fork' \in RuleSets /\ original' \in [Slot -> Val]
    BY <1>0, <2>1
  <2>4. FoldFunction(+, 0, Bases(fork', original', original')) = 0
    BY <2>3, BasesFacts, Zenon
  <2>5. Net(fork', w') = 0
    BY <1>0, <2>1, ScheduleFacts DEF Net, World, ColdSloadCostEIP2929, SelfdestructRefundGas
  <2>6. MeteredBy(fork', original', Stored', w')
    BY <2>2, <2>4, <2>5, Zenon DEF MeteredBy
  <2>7. Metered(Stored, w)'
    BY <2>6 DEF Metered
  <2> QED
    BY <2>1, <2>7 DEF AllMetered
<1>14. CASE UNCHANGED vars
  <2>1. Stored' = Stored /\ UNCHANGED <<fork, original, frames, w>>
    BY <1>14 DEF vars, Stored
  <2> QED
    BY <1>1, <1>3, <2>1
<1> QED
  BY <1>4, <1>5, <1>6, <1>7, <1>8, <1>9, <1>11, <1>12, <1>13, <1>14 DEF Next

\* What SSTOREs cost in a message, less the refunds, is a function of the number of writes and
\* of cold slots and of each slot's first and last word: for any finite set of slots, any words,
\* frames and messages, under every net-metered rule set and without storage overrides.
THEOREM NetMeteringHolds ==
  ASSUME Diffs = {}
  PROVE  Spec => []NetMetering
<1>1. Init => AllMetered
  <2> SUFFICES ASSUME Init PROVE AllMetered
    OBVIOUS
  <2>1. /\ Stored = original /\ frames = << >> /\ fork \in RuleSets /\ original \in [Slot -> Val]
        /\ w = World(original, {})
    BY SStoreAssumption DEF Init, Stored, World, RuleSets
  <2>2. Net(fork, w) = 0
    BY <2>1, ScheduleFacts DEF Net, World, ColdSloadCostEIP2929, SelfdestructRefundGas
  <2>3. FoldFunction(+, 0, Bases(fork, original, original)) = 0
    BY <2>1, BasesFacts, Zenon
  <2>4. Metered(Stored, w)
    BY <2>1, <2>2, <2>3, Zenon DEF Metered, MeteredBy
  <2> QED
    BY <2>1, <2>4 DEF AllMetered
<1>2. IInv /\ AllMetered /\ [Next]_vars => IInv' /\ AllMetered'
  BY NextKeepsIInv, NextKeepsMetered
<1>3. IInv /\ AllMetered => NetMetering
  <2> SUFFICES ASSUME IInv, AllMetered, fork # "legacy"
               PROVE  w.gas - w.refund + (IF w.destroyed THEN SelfdestructRefundGas ELSE 0)
                        = w.writes * Schedule(fork).dirty + w.colds * ColdSloadCostEIP2929
                          + FoldFunction(+, 0, Bases(fork, original, Stored))
    BY Zenon DEF NetMetering, Bases
  <2> DEFINE sum == FoldFunction(+, 0, Bases(fork, original, Stored))
  <2>1. Net(fork, w) = sum
    BY Zenon DEF AllMetered, Metered, MeteredBy
  <2>2. w \in Worlds /\ fork \in RuleSets
    BY RunFacts DEF IInv, TypeOK
  <2>3. /\ w.gas \in Nat /\ w.refund \in Nat /\ w.writes \in Nat /\ w.colds \in Nat
        /\ w.destroyed \in BOOLEAN /\ Schedule(fork).dirty \in Nat
    BY <2>2, CountersTyped
  <2> HIDE DEF sum
  <2>4. w.gas - w.refund + (IF w.destroyed THEN SelfdestructRefundGas ELSE 0)
          = w.writes * Schedule(fork).dirty + w.colds * ColdSloadCostEIP2929 + sum
    <3>1. w.writes * Schedule(fork).dirty \in Int
      BY <2>3
    <3> QED
      BY <2>1, <2>3, <3>1 DEF Net, ColdSloadCostEIP2929, SelfdestructRefundGas
  <2> QED
    BY <2>4, Zenon DEF sum
<1> QED
  BY <1>1, <1>2, <1>3, InitImpliesIInv, PTL DEF Spec

=============================================================================

--------------------------- MODULE StateDBProofs ---------------------------
(***************************************************************************)
(* Proofs about StateDB for all constants.  The inductive invariant ties   *)
(* the journal to the history: each entry undoes the step between two      *)
(* consecutive worlds, the newest of which is the current one.             *)
(***************************************************************************)
EXTENDS StateDB, SequenceTheorems, TLAPS

-----------------------------------------------------------------------------
(* Sequences whose elements have no common type, as the journal's.          *)

\* Such a list is a sequence over any set that holds its elements.
LEMMA SequenceOver ==
  ASSUME NEW s, IsList(s), NEW S, \A i \in 1 .. Len(s) : s[i] \in S
  PROVE  s \in Seq(S)
  BY DEF IsList

\* And every sequence is a list.
LEMMA SequenceIsList ==
  ASSUME NEW S, NEW s \in Seq(S)
  PROVE  IsList(s)
  BY DEF IsList

\* t is s with e behind it.
Appended(t, s, e) ==
  /\ IsList(t) /\ Len(t) = Len(s) + 1
  /\ \A i \in 1 .. Len(s) : t[i] = s[i]
  /\ t[Len(s) + 1] = e

\* Append puts one element behind a list.
LEMMA AppendShape ==
  ASSUME NEW s, IsList(s), NEW e
  PROVE  Appended(Append(s, e), s, e)
<1> DEFINE S == {s[i] : i \in 1 .. Len(s)} \cup {e}
           t == Append(s, e)
<1>1. s \in Seq(S)
  BY SequenceOver DEF IsList
<1> HIDE DEF S
<1>2. e \in S
  BY DEF S
<1>3. /\ t \in Seq(S) /\ Len(t) = Len(s) + 1
      /\ \A i \in 1 .. Len(s) : t[i] = s[i]
      /\ t[Len(s) + 1] = e
  BY <1>1, <1>2, AppendProperties
<1>4. IsList(t)
  BY <1>3, SequenceIsList, Zenon
<1> QED
  BY <1>3, <1>4 DEF Appended

\* t is s without its last element.
FrontOf(t, s) ==
  /\ IsList(t) /\ Len(t) = Len(s) - 1
  /\ \A i \in 1 .. Len(s) - 1 : t[i] = s[i]

\* SubSeq up to the last but one element is the front of a list.
LEMMA FrontShape ==
  ASSUME NEW s, IsList(s), Len(s) > 0
  PROVE  FrontOf(SubSeq(s, 1, Len(s) - 1), s)
<1> DEFINE S == {s[i] : i \in 1 .. Len(s)}
           t == SubSeq(s, 1, Len(s) - 1)
<1>1. s \in Seq(S)
  BY SequenceOver DEF IsList
<1> HIDE DEF S
<1>2. t \in Seq(S) /\ Len(t) = Len(s) - 1 /\ \A i \in 1 .. Len(s) - 1 : t[i] = s[i]
  BY <1>1 DEF IsList
<1>3. IsList(t)
  BY <1>2, SequenceIsList, Zenon
<1> QED
  BY <1>2, <1>3 DEF FrontOf

\* Two elements appended at once are appended one by one.
LEMMA PairShape ==
  ASSUME NEW s, IsList(s), NEW d, NEW e
  PROVE  s \o <<d, e>> = Append(Append(s, d), e)
<1> DEFINE S == {s[i] : i \in 1 .. Len(s)} \cup {d, e}
<1>1. s \in Seq(S)
  BY SequenceOver DEF IsList
<1> HIDE DEF S
<1>2. d \in S /\ e \in S
  BY DEF S
<1> QED
  BY <1>1, <1>2

-----------------------------------------------------------------------------
(* Each operation's entry undoes its write.                                 *)

\* u is a sound world from which undoing e leads back to v.
Reversible(e, u, v) ==
  /\ u \in Worlds /\ IndexesOK(u.al)
  /\ CanUndo(e, u) /\ Undo(e, u) = v

\* A write to one object whose entry puts the old object back.
LEMMA ObjectReversible ==
  ASSUME NEW v \in Worlds, IndexesOK(v.al), NEW a \in Addr, NEW o \in Objects,
         NEW u, u = [v EXCEPT !.objs[a] = o],
         NEW e, CanUndo(e, u), Undo(e, u) = [u EXCEPT !.objs[a] = v.objs[a]]
  PROVE  Reversible(e, u, v)
<1>1. u \in Worlds
  BY Zenon DEF Worlds
<1>2. u.al = v.al
  BY DEF Worlds
<1>3. [u EXCEPT !.objs[a] = v.objs[a]] = v
  BY Zenon DEF Worlds
<1> QED
  BY <1>1, <1>2, <1>3 DEF Reversible

\* The write and the undo, seen from the one object they change.
LEMMA ObjectInWorld ==
  ASSUME NEW v \in Worlds, NEW a \in Addr, NEW o \in Objects
  PROVE  /\ v.objs[a] \in Objects
         /\ [v EXCEPT !.objs[a] = o] \in Worlds
         /\ [v EXCEPT !.objs[a] = o].objs[a] = o
  BY Zenon DEF Worlds

\* CreateAccount puts a new object in the place of the old.
LEMMA CreateReversible ==
  ASSUME NEW v \in Worlds, IndexesOK(v.al), NEW a \in Addr, NEW o \in Objects
  PROVE  Reversible(Entry("create", a, Nil, v.objs[a]), [v EXCEPT !.objs[a] = o], v)
<1> DEFINE e == Entry("create", a, Nil, v.objs[a])
           u == [v EXCEPT !.objs[a] = o]
<1>1. CanUndo(e, u) /\ Undo(e, u) = [u EXCEPT !.objs[a] = v.objs[a]]
  BY DEF CanUndo, Undo, Entry
<1> QED
  BY <1>1, ObjectReversible, Zenon

\* Writing nonce is undone by writing it back.
LEMMA NonceReversible ==
  ASSUME NEW v \in Worlds, IndexesOK(v.al), NEW a \in Addr, NEW x \in Nat
  PROVE  Reversible(Entry("nonce", a, Nil, v.objs[a].nonce), [v EXCEPT !.objs[a].nonce = x], v)
<1> DEFINE p == v.objs[a]
           o == [p EXCEPT !.nonce = x]
           u == [v EXCEPT !.objs[a] = o]
           e == Entry("nonce", a, Nil, v.objs[a].nonce)
<1>1. p \in Objects
  BY DEF Worlds
<1>2. o \in Objects
  BY <1>1 DEF Objects
<1>3. [o EXCEPT !.nonce = p.nonce] = p
  BY <1>1, Zenon DEF Objects
<1>4. u = [v EXCEPT !.objs[a].nonce = x]
  BY DEF Worlds
<1>5. u \in Worlds /\ u.objs[a] = o
  BY <1>2, ObjectInWorld
<1>6. [u EXCEPT !.objs[a].nonce = p.nonce] = [u EXCEPT !.objs[a] = p]
  BY <1>3, <1>5, Zenon DEF Worlds
<1>7. CanUndo(e, u) /\ Undo(e, u) = [u EXCEPT !.objs[a] = p]
  BY <1>6 DEF CanUndo, Undo, Entry
<1> QED
  BY <1>2, <1>4, <1>7, ObjectReversible, Zenon

\* Writing code is undone by writing it back.
LEMMA CodeReversible ==
  ASSUME NEW v \in Worlds, IndexesOK(v.al), NEW a \in Addr, NEW x \in Code
  PROVE  Reversible(Entry("code", a, Nil, v.objs[a].code), [v EXCEPT !.objs[a].code = x], v)
<1> DEFINE p == v.objs[a]
           o == [p EXCEPT !.code = x]
           u == [v EXCEPT !.objs[a] = o]
           e == Entry("code", a, Nil, v.objs[a].code)
<1>1. p \in Objects
  BY DEF Worlds
<1>2. o \in Objects
  BY <1>1 DEF Objects
<1>3. [o EXCEPT !.code = p.code] = p
  BY <1>1, Zenon DEF Objects
<1>4. u = [v EXCEPT !.objs[a].code = x]
  BY DEF Worlds
<1>5. u \in Worlds /\ u.objs[a] = o
  BY <1>2, ObjectInWorld
<1>6. [u EXCEPT !.objs[a].code = p.code] = [u EXCEPT !.objs[a] = p]
  BY <1>3, <1>5, Zenon DEF Worlds
<1>7. CanUndo(e, u) /\ Undo(e, u) = [u EXCEPT !.objs[a] = p]
  BY <1>6 DEF CanUndo, Undo, Entry
<1> QED
  BY <1>2, <1>4, <1>7, ObjectReversible, Zenon

\* Writing fakeBalance is undone by writing it back.
LEMMA FakeReversible ==
  ASSUME NEW v \in Worlds, IndexesOK(v.al), NEW a \in Addr, NEW x \in Nat
  PROVE  Reversible(Entry("fake", a, Nil, v.objs[a].fakeBalance),
                    [v EXCEPT !.objs[a].fakeBalance = x], v)
<1> DEFINE p == v.objs[a]
           o == [p EXCEPT !.fakeBalance = x]
           u == [v EXCEPT !.objs[a] = o]
           e == Entry("fake", a, Nil, v.objs[a].fakeBalance)
<1>1. p \in Objects
  BY DEF Worlds
<1>2. o \in Objects
  BY <1>1 DEF Objects
<1>3. [o EXCEPT !.fakeBalance = p.fakeBalance] = p
  BY <1>1, Zenon DEF Objects
<1>4. u = [v EXCEPT !.objs[a].fakeBalance = x]
  BY DEF Worlds
<1>5. u \in Worlds /\ u.objs[a] = o
  BY <1>2, ObjectInWorld
<1>6. [u EXCEPT !.objs[a].fakeBalance = p.fakeBalance] = [u EXCEPT !.objs[a] = p]
  BY <1>3, <1>5, Zenon DEF Worlds
<1>7. CanUndo(e, u) /\ Undo(e, u) = [u EXCEPT !.objs[a] = p]
  BY <1>6 DEF CanUndo, Undo, Entry
<1> QED
  BY <1>2, <1>4, <1>7, ObjectReversible, Zenon

\* Writing dirty is undone by writing it back.
LEMMA StorageReversible ==
  ASSUME NEW v \in Worlds, IndexesOK(v.al), NEW a \in Addr, NEW x \in Storage
  PROVE  Reversible(Entry("storage", a, Nil, v.objs[a].dirty), [v EXCEPT !.objs[a].dirty = x], v)
<1> DEFINE p == v.objs[a]
           o == [p EXCEPT !.dirty = x]
           u == [v EXCEPT !.objs[a] = o]
           e == Entry("storage", a, Nil, v.objs[a].dirty)
<1>1. p \in Objects
  BY DEF Worlds
<1>2. o \in Objects
  BY <1>1 DEF Objects
<1>3. [o EXCEPT !.dirty = p.dirty] = p
  BY <1>1, Zenon DEF Objects
<1>4. u = [v EXCEPT !.objs[a].dirty = x]
  BY DEF Worlds
<1>5. u \in Worlds /\ u.objs[a] = o
  BY <1>2, ObjectInWorld
<1>6. [u EXCEPT !.objs[a].dirty = p.dirty] = [u EXCEPT !.objs[a] = p]
  BY <1>3, <1>5, Zenon DEF Worlds
<1>7. CanUndo(e, u) /\ Undo(e, u) = [u EXCEPT !.objs[a] = p]
  BY <1>6 DEF CanUndo, Undo, Entry
<1> QED
  BY <1>2, <1>4, <1>7, ObjectReversible, Zenon

\* A storage write is undone by writing back, or by deleting a key that was not there.
LEMMA StateReversible ==
  ASSUME NEW v \in Worlds, IndexesOK(v.al), NEW a \in Addr, NEW s \in Slot, NEW x \in Val
  PROVE  Reversible(Entry("state", a, s, v.objs[a].dirty[Keccak(s)]),
                    [v EXCEPT !.objs[a].dirty[Keccak(s)] = x], v)
<1> DEFINE p == v.objs[a]
           o == [p EXCEPT !.dirty[Keccak(s)] = x]
           u == [v EXCEPT !.objs[a] = o]
           e == Entry("state", a, s, v.objs[a].dirty[Keccak(s)])
<1>1. p \in Objects
  BY DEF Worlds
<1>2. o \in Objects
  BY <1>1, Zenon DEF Objects, Storage, Key, Keccak
<1>3. [o EXCEPT !.dirty[Keccak(s)] = p.dirty[Keccak(s)]] = p
  BY <1>1, Zenon DEF Objects, Storage, Key, Keccak
<1>4. u = [v EXCEPT !.objs[a].dirty[Keccak(s)] = x]
  BY DEF Worlds
<1>5. u \in Worlds /\ u.objs[a] = o
  BY <1>2, ObjectInWorld
<1>6. [u EXCEPT !.objs[a].dirty[Keccak(s)] = p.dirty[Keccak(s)]] = [u EXCEPT !.objs[a] = p]
  BY <1>3, <1>5, Zenon DEF Worlds
<1>7. CanUndo(e, u) /\ Undo(e, u) = [u EXCEPT !.objs[a] = p]
  BY <1>6 DEF CanUndo, Undo, Entry
<1> QED
  BY <1>2, <1>4, <1>7, ObjectReversible, Zenon

\* Only an unmarked account is marked.
LEMMA SuicideReversible ==
  ASSUME NEW v \in Worlds, IndexesOK(v.al), NEW a \in Addr, ~v.objs[a].suicided
  PROVE  Reversible(Entry("suicide", a, Nil, Nil), [v EXCEPT !.objs[a].suicided = TRUE], v)
<1> DEFINE p == v.objs[a]
           o == [p EXCEPT !.suicided = TRUE]
           u == [v EXCEPT !.objs[a] = o]
           e == Entry("suicide", a, Nil, Nil)
<1>1. p \in Objects
  BY DEF Worlds
<1>2. o \in Objects
  BY <1>1, Zenon DEF Objects
<1>3. [o EXCEPT !.suicided = FALSE] = p
  BY <1>1, Zenon DEF Objects
<1>4. u = [v EXCEPT !.objs[a].suicided = TRUE]
  BY DEF Worlds
<1>5. u \in Worlds /\ u.objs[a] = o
  BY <1>2, ObjectInWorld, ZenonT(60)
<1>6. [u EXCEPT !.objs[a].suicided = FALSE] = [u EXCEPT !.objs[a] = p]
  BY <1>3, <1>5, Zenon DEF Worlds
<1>7. CanUndo(e, u) /\ Undo(e, u) = [u EXCEPT !.objs[a] = p]
  BY <1>6 DEF CanUndo, Undo, Entry
<1> QED
  BY <1>2, <1>4, <1>7, ObjectReversible, Zenon

\* A transient write is undone by writing back.
LEMMA TransientReversible ==
  ASSUME NEW v \in Worlds, IndexesOK(v.al), NEW a \in Addr, NEW s \in Slot, NEW x \in Val
  PROVE  Reversible(Entry("transient", a, s, v.transient[a][s]),
                    [v EXCEPT !.transient[a][s] = x], v)
<1> DEFINE u == [v EXCEPT !.transient[a][s] = x]
           e == Entry("transient", a, s, v.transient[a][s])
<1>1. u \in Worlds
  BY Zenon DEF Worlds
<1>2. u.al = v.al
  BY DEF Worlds
<1>3. [u EXCEPT !.transient[a][s] = v.transient[a][s]] = v
  BY Zenon DEF Worlds
<1>4. CanUndo(e, u) /\ Undo(e, u) = [u EXCEPT !.transient[a][s] = v.transient[a][s]]
  BY DEF CanUndo, Undo, Entry
<1> QED
  BY <1>1, <1>2, <1>3, <1>4 DEF Reversible

\* A transfer is undone by the opposite one, and a delta it made by dropping it.
LEMMA BalanceReversible ==
  ASSUME NEW v \in Worlds, IndexesOK(v.al), NEW a \in Addr, NEW n \in Int,
         NEW d, d = v.objs[a].delta
  PROVE  Reversible(Entry("balance", a, Nil, [fresh |-> d = Nil, amount |-> n]),
                    [v EXCEPT !.objs[a].delta = IF d = Nil THEN n ELSE d + n], v)
<1> DEFINE p == v.objs[a]
           x == IF d = Nil THEN n ELSE d + n
           back == IF d = Nil THEN Nil ELSE x - n
           o == [p EXCEPT !.delta = x]
           u == [v EXCEPT !.objs[a] = o]
           e == Entry("balance", a, Nil, [fresh |-> d = Nil, amount |-> n])
<1>1. p \in Objects /\ d = p.delta
  BY DEF Worlds
<1>2. d \in Int \cup {Nil}
  BY <1>1 DEF Objects
<1>3. x \in Int /\ x # Nil /\ back = d
  BY <1>2, ConstantsAssumption
<1> HIDE DEF x, back
<1>4. o \in Objects
  BY <1>1, <1>3 DEF Objects
<1>5. [o EXCEPT !.delta = d] = p
  BY <1>1, Zenon DEF Objects
<1>6. u = [v EXCEPT !.objs[a].delta = x]
  BY DEF Worlds
<1>7. u \in Worlds /\ u.objs[a] = o
  BY <1>4, ObjectInWorld
<1>8. o.delta = x
  BY <1>1 DEF Objects
<1>9. CanUndo(e, u)
  BY <1>3, <1>7, <1>8, Zenon DEF CanUndo, Entry
<1>10. Undo(e, u) = UndoBalance(e, u)
  BY DEF Undo, Entry
<1>11. UndoBalance(e, u) =
        [u EXCEPT !.objs[a].delta = IF d = Nil THEN Nil ELSE u.objs[a].delta - n]
  <2>1. e.addr = a /\ e.old.fresh = (d = Nil) /\ e.old.amount = n
    BY DEF Entry
  <2> HIDE DEF e, u
  <2> QED
    BY <2>1, Zenon DEF UndoBalance
<1>12. (IF d = Nil THEN Nil ELSE u.objs[a].delta - n) = d
  BY <1>3, <1>7, <1>8, Zenon DEF back
<1>13. Undo(e, u) = [u EXCEPT !.objs[a].delta = d]
  BY <1>10, <1>11, <1>12, Zenon
<1>14. [u EXCEPT !.objs[a].delta = d] = [u EXCEPT !.objs[a] = p]
  BY <1>5, <1>7, Zenon DEF Worlds
<1>15. Reversible(e, u, v)
  BY <1>4, <1>9, <1>13, <1>14, ObjectReversible, ZenonT(60)
<1> QED
  BY <1>6, <1>15 DEF x

\* The closure of a refund change holds the old counter, so wrapping does no harm.
LEMMA RefundReversible ==
  ASSUME NEW v \in Worlds, IndexesOK(v.al), NEW n \in Int
  PROVE  Reversible(Entry("refund", Nil, Nil, v.refund),
                    [v EXCEPT !.refund = (v.refund + n) % UintMod], v)
<1> DEFINE x == (v.refund + n) % UintMod
           u == [v EXCEPT !.refund = x]
           e == Entry("refund", Nil, Nil, v.refund)
<1>1. x \in 0 .. UintMod - 1
  BY ConstantsAssumption DEF Worlds
<1> HIDE DEF x
<1>2. u \in Worlds
  BY <1>1 DEF Worlds
<1>3. u.al = v.al
  BY DEF Worlds
<1>4. [u EXCEPT !.refund = v.refund] = v
  BY Zenon DEF Worlds
<1>5. CanUndo(e, u) /\ Undo(e, u) = [u EXCEPT !.refund = v.refund]
  BY DEF CanUndo, Undo, Entry
<1> QED
  BY <1>2, <1>3, <1>4, <1>5 DEF Reversible, x

-----------------------------------------------------------------------------
(* The access list.                                                         *)

\* Adding an absent address keeps the indices sound, and DeleteAddress takes it back.
LEMMA AddAddressInverse ==
  ASSUME NEW al \in AccessLists, IndexesOK(al), NEW a \in Addr, ~ContainsAddress(al, a)
  PROVE  /\ AddAddress(al, a) \in AccessLists
         /\ IndexesOK(AddAddress(al, a))
         /\ AddAddress(al, a).addresses[a] = NoSlots
         /\ DeleteAddress(AddAddress(al, a), a) = al
<1> DEFINE bl == [al EXCEPT !.addresses[a] = NoSlots]
<1>1. AddAddress(al, a) = bl
  BY DEF AddAddress
<1>2. bl \in AccessLists /\ bl.slots = al.slots
  BY SMTT(30) DEF AccessLists, NoSlots
<1>3. \A b \in Addr : bl.addresses[b] = IF b = a THEN NoSlots ELSE al.addresses[b]
  BY DEF AccessLists
<1>4. IndexesOK(bl)
  <2>1. \A b \in Addr : bl.addresses[b] \in {Absent, NoSlots} \cup (0 .. Len(bl.slots) - 1)
    BY <1>2, <1>3, Zenon DEF IndexesOK
  <2>2. \A b, c \in Addr :
          bl.addresses[b] = bl.addresses[c] /\ bl.addresses[b] >= 0 => b = c
    BY <1>3 DEF IndexesOK, NoSlots, AccessLists
  <2> QED
    BY <1>2, <2>1, <2>2 DEF IndexesOK
<1>5. [bl EXCEPT !.addresses[a] = Absent] = al
  BY Zenon DEF AccessLists, ContainsAddress
<1> QED
  BY <1>1, <1>2, <1>3, <1>4, <1>5 DEF DeleteAddress

\* An address that takes the next index, and a set appended for it, keep the indices sound.
LEMMA IndexesAfterAppend ==
  ASSUME NEW f \in [Addr -> Int], NEW q \in Seq(SUBSET Slot),
         IndexesOK([addresses |-> f, slots |-> q]),
         NEW a \in Addr, NEW x \in SUBSET Slot, x # {}
  PROVE  IndexesOK([addresses |-> [f EXCEPT ![a] = Len(q)], slots |-> Append(q, x)])
<1> DEFINE n == Len(q)
           g == [f EXCEPT ![a] = n]
           r == Append(q, x)
<1>1. n \in Nat
  OBVIOUS
<1>2. /\ \A b \in Addr : f[b] \in {Absent, NoSlots} \cup (0 .. n - 1)
      /\ \A b, c \in Addr : f[b] = f[c] /\ f[b] >= 0 => b = c
      /\ \A i \in 1 .. n : q[i] # {}
  BY DEF IndexesOK
<1>3. /\ \A b \in Addr : g[b] = IF b = a THEN n ELSE f[b]
  OBVIOUS
<1>4. Len(r) = n + 1 /\ \A i \in 1 .. n + 1 : r[i] = IF i = n + 1 THEN x ELSE q[i]
  OBVIOUS
<1> HIDE DEF n, g, r
<1>5. \A b \in Addr : g[b] \in {Absent, NoSlots} \cup (0 .. n)
  <2> SUFFICES ASSUME NEW b \in Addr PROVE g[b] \in {Absent, NoSlots} \/ g[b] \in 0 .. n
    BY Zenon
  <2>1. f[b] \in {Absent, NoSlots} \/ f[b] \in 0 .. n - 1
    BY <1>2
  <2>2. g[b] = n \/ g[b] = f[b]
    BY <1>3
  <2> QED
    BY <1>1, <2>1, <2>2
<1>6. \A b \in Addr : b # a => g[b] < n
  BY <1>1, <1>2, <1>3, SMTT(30) DEF NoSlots, Absent
<1>7. \A b, c \in Addr : g[b] = g[c] /\ g[b] >= 0 => b = c
  BY <1>1, <1>2, <1>3, <1>6
<1>8. \A i \in 1 .. n + 1 : r[i] # {}
  <2> SUFFICES ASSUME NEW i \in 1 .. n + 1 PROVE r[i] # {}
    OBVIOUS
  <2>1. CASE i = n + 1
    BY <1>4, <2>1
  <2>2. CASE i # n + 1
    <3>1. i \in 1 .. n
      BY <1>1, <2>2
    <3> QED
      BY <1>2, <1>4, <2>2, <3>1
  <2> QED
    BY <2>1, <2>2
<1>9. n = Len(r) - 1
  BY <1>1, <1>4
<1> QED
  BY <1>4, <1>5, <1>7, <1>8, <1>9 DEF IndexesOK, g, r, n

\* Adding a new slot to a present address keeps the indices sound, and DeleteSlot takes it
\* back: the slice it cuts ends with the set that AddSlot appended.
LEMMA AddSlotInverse ==
  ASSUME NEW al \in AccessLists, IndexesOK(al), NEW a \in Addr, NEW s \in Slot,
         ContainsAddress(al, a), s \notin SlotsOf(al, a)
  PROVE  /\ AddSlot(al, a, s) \in AccessLists
         /\ IndexesOK(AddSlot(al, a, s))
         /\ CanDeleteSlot(AddSlot(al, a, s), a)
         /\ DeleteSlot(AddSlot(al, a, s), a, s) = al
<1> DEFINE idx == al.addresses[a]
           n == Len(al.slots)
           bl == AddSlot(al, a, s)
<1>0. /\ al.slots \in Seq(SUBSET Slot) /\ n \in Nat
      /\ al.addresses \in [Addr -> Int]
  BY DEF AccessLists
<1>3. al = [addresses |-> al.addresses, slots |-> al.slots]
  BY DEF AccessLists
<1>4. /\ \A b \in Addr : al.addresses[b] \in {Absent, NoSlots} \cup (0 .. n - 1)
      /\ \A b, c \in Addr :
           al.addresses[b] = al.addresses[c] /\ al.addresses[b] >= 0 => b = c
      /\ \A i \in 1 .. n : al.slots[i] # {}
  BY DEF IndexesOK
<1>1. CASE idx = NoSlots
  <2> DEFINE idxs == [al.addresses EXCEPT ![a] = n]
             sets == Append(al.slots, {s})
  <2>1. bl = [addresses |-> idxs, slots |-> sets]
    BY <1>1 DEF AddSlot
  <2>2. idxs \in [Addr -> Int] /\ idxs[a] = n /\ \A b \in Addr \ {a} : idxs[b] = al.addresses[b]
    BY <1>0
  <2>3. /\ sets \in Seq(SUBSET Slot) /\ Len(sets) = n + 1
        /\ sets[n + 1] = {s} /\ \A i \in 1 .. n : sets[i] = al.slots[i]
    BY <1>0
  <2>4. SubSeq(sets, 1, n) = al.slots
    BY <1>0
  <2> HIDE DEF idxs, sets
  <2>5. bl \in AccessLists
    BY <2>1, <2>2, <2>3 DEF AccessLists
  <2>6. IndexesOK([addresses |-> idxs, slots |-> sets])
    BY <1>0, <1>3, IndexesAfterAppend, Zenon DEF idxs, sets
  <2>7. CanDeleteSlot(bl, a)
    BY <1>0, <2>1, <2>2, <2>3 DEF CanDeleteSlot
  <2>8. [idxs EXCEPT ![a] = NoSlots] = al.addresses
    BY <1>0, <1>1 DEF idxs
  <2>9. DeleteSlot(bl, a, s) = [addresses |-> [idxs EXCEPT ![a] = NoSlots],
                                slots     |-> SubSeq(sets, 1, n)]
    <3>1. bl.addresses = idxs /\ bl.slots = sets
      BY <2>1
    <3>2. sets[n + 1] \ {s} = {}
      BY <2>3
    <3> HIDE DEF bl
    <3> QED
      BY <2>2, <3>1, <3>2, Zenon DEF DeleteSlot
  <2> QED
    BY <1>3, <2>1, <2>4, <2>5, <2>6, <2>7, <2>8, <2>9, Zenon
<1>2. CASE idx # NoSlots
  <2> DEFINE old == al.slots[idx + 1]
             sets == [al.slots EXCEPT ![idx + 1] = old \cup {s}]
  <2>0. idx \in 0 .. n - 1 /\ idx # Absent
    BY <1>2 DEF IndexesOK, ContainsAddress
  <2>1. bl = [al EXCEPT !.slots[idx + 1] = old \cup {s}]
    BY <1>2, <2>0 DEF AddSlot
  <2>2. bl = [addresses |-> al.addresses, slots |-> sets]
    BY <1>3, <2>1, Zenon
  <2>3. old \in SUBSET Slot /\ old # {} /\ s \notin old
    BY <1>0, <1>2, <2>0, SMTT(30) DEF IndexesOK, SlotsOf
  <2>4. /\ sets \in Seq(SUBSET Slot) /\ Len(sets) = n
        /\ sets[idx + 1] = old \cup {s}
        /\ \A i \in 1 .. n : i # idx + 1 => sets[i] = al.slots[i]
    BY <1>0, <2>0, <2>3
  <2>5. [sets EXCEPT ![idx + 1] = old] = al.slots
    <3>1. al.slots \in [1 .. n -> SUBSET Slot]
      BY <1>0
    <3> QED
      BY <2>0, <3>1
  <2> HIDE DEF sets, old
  <2>6. bl \in AccessLists
    BY <1>0, <2>2, <2>4 DEF AccessLists
  <2>7. IndexesOK([addresses |-> al.addresses, slots |-> sets])
    BY <1>0, <2>0, <2>4, Zenon DEF IndexesOK
  <2>8. CanDeleteSlot(bl, a)
    BY <2>0, <2>2, <2>4 DEF CanDeleteSlot
  <2>9. (sets[idx + 1] \ {s}) = old
    BY <2>3, <2>4
  <2>10. DeleteSlot(bl, a, s) = [bl EXCEPT !.slots[idx + 1] = old]
    <3>1. bl.addresses[a] = idx /\ bl.slots = sets
      BY <2>2
    <3> HIDE DEF bl, idx
    <3> QED
      BY <2>3, <2>9, <3>1, Zenon DEF DeleteSlot
  <2>11. [bl EXCEPT !.slots[idx + 1] = old] =
           [addresses |-> al.addresses, slots |-> [sets EXCEPT ![idx + 1] = old]]
    BY <2>2
  <2> QED
    BY <1>3, <2>2, <2>5, <2>6, <2>7, <2>8, <2>10, <2>11, SMTT(30)
<1> QED
  BY <1>1, <1>2

\* A world whose access list alone changes.
LEMMA ListInWorld ==
  ASSUME NEW v \in Worlds, NEW bl \in AccessLists
  PROVE  /\ v.al \in AccessLists
         /\ [v EXCEPT !.al = bl] \in Worlds
         /\ [v EXCEPT !.al = bl].al = bl
         /\ [[v EXCEPT !.al = bl] EXCEPT !.al = v.al] = v
  BY Zenon DEF Worlds

\* AddAddressToAccessList journals the deletion of an address that was absent.
LEMMA AddressReversible ==
  ASSUME NEW v \in Worlds, IndexesOK(v.al), NEW a \in Addr, ~ContainsAddress(v.al, a)
  PROVE  Reversible(Entry("address", a, Nil, Nil), [v EXCEPT !.al = AddAddress(v.al, a)], v)
<1> DEFINE bl == AddAddress(v.al, a)
           u == [v EXCEPT !.al = bl]
           e == Entry("address", a, Nil, Nil)
<1>1. v.al \in AccessLists
  BY DEF Worlds
<1>2. bl \in AccessLists /\ IndexesOK(bl) /\ DeleteAddress(bl, a) = v.al
  BY <1>1, AddAddressInverse
<1> HIDE DEF bl
<1>3. u \in Worlds /\ u.al = bl /\ [u EXCEPT !.al = v.al] = v
  BY <1>2, ListInWorld, Zenon
<1>4. CanUndo(e, u) /\ Undo(e, u) = [u EXCEPT !.al = DeleteAddress(u.al, a)]
  BY DEF CanUndo, Undo, Entry
<1> QED
  BY <1>2, <1>3, <1>4, Zenon DEF Reversible, bl

\* AddSlotToAccessList journals the deletion of a slot that was absent.
LEMMA SlotReversible ==
  ASSUME NEW v \in Worlds, IndexesOK(v.al), NEW a \in Addr, NEW s \in Slot,
         ContainsAddress(v.al, a), s \notin SlotsOf(v.al, a)
  PROVE  Reversible(Entry("slot", a, s, Nil), [v EXCEPT !.al = AddSlot(v.al, a, s)], v)
<1> DEFINE bl == AddSlot(v.al, a, s)
           u == [v EXCEPT !.al = bl]
           e == Entry("slot", a, s, Nil)
<1>1. v.al \in AccessLists
  BY DEF Worlds
<1>2. /\ bl \in AccessLists /\ IndexesOK(bl)
      /\ CanDeleteSlot(bl, a) /\ DeleteSlot(bl, a, s) = v.al
  BY <1>1, AddSlotInverse
<1> HIDE DEF bl
<1>3. u \in Worlds /\ u.al = bl /\ [u EXCEPT !.al = v.al] = v
  BY <1>2, ListInWorld, Zenon
<1>4. Undo(e, u) = [u EXCEPT !.al = DeleteSlot(u.al, a, s)]
  BY DEF Undo, Entry
<1>5. CanUndo(e, u)
  BY <1>2, <1>3 DEF CanUndo, Entry
<1> QED
  BY <1>2, <1>3, <1>4, <1>5, Zenon DEF Reversible, bl

\* A slot of an absent address is added as if its address had been added first.
LEMMA AddSlotAfterAddress ==
  ASSUME NEW al \in AccessLists, NEW a \in Addr, NEW s \in Slot, ~ContainsAddress(al, a)
  PROVE  /\ AddSlot(AddAddress(al, a), a, s) = AddSlot(al, a, s)
         /\ ContainsAddress(AddAddress(al, a), a)
         /\ SlotsOf(AddAddress(al, a), a) = {}
<1> DEFINE bl == [al EXCEPT !.addresses[a] = NoSlots]
<1>1. AddAddress(al, a) = bl
  BY DEF AddAddress
<1>2. al.addresses[a] = Absent
  BY DEF ContainsAddress
<1>3. bl.slots = al.slots /\ bl.addresses[a] = NoSlots
  BY DEF AccessLists
<1>4. [bl.addresses EXCEPT ![a] = Len(al.slots)] = [al.addresses EXCEPT ![a] = Len(al.slots)]
  BY DEF AccessLists
<1>5. ContainsAddress(bl, a) /\ SlotsOf(bl, a) = {}
  BY <1>3 DEF ContainsAddress, SlotsOf, Absent, NoSlots
<1> HIDE DEF bl
<1> QED
  BY <1>1, <1>2, <1>3, <1>4, <1>5, Zenon DEF AddSlot

-----------------------------------------------------------------------------
(* The inductive invariant.                                                 *)

\* The journal j and the worlds h since length b are linked, v being the newest world: every
\* world has a sound access list and every entry leads from one world back to the one before.
Linked(v, j, h, b) ==
  /\ IsList(j) /\ h \in Seq(Worlds) /\ Len(h) = Len(j) + 1
  /\ b \in Nat /\ b <= Len(j)
  /\ v = h[Len(j) + 1]
  /\ \A i \in b + 1 .. Len(j) + 1 : IndexesOK(h[i].al)
  /\ \A i \in b + 1 .. Len(j) : CanUndo(j[i], h[i + 1]) /\ Undo(j[i], h[i + 1]) = h[i]

IInv == TypeOK /\ Linked(w, journal, hist, base) /\ SnapshotsNest

\* A reversible write extends the chain.
LEMMA LinkedExtends ==
  ASSUME NEW v, NEW j, NEW h, NEW b, Linked(v, j, h, b),
         NEW e, NEW u, Reversible(e, u, v)
  PROVE  Linked(u, Append(j, e), Append(h, u), b) /\ Len(Append(j, e)) = Len(j) + 1
<1> DEFINE n == Len(j)
           k == Append(j, e)
           g == Append(h, u)
<1>1. /\ n \in Nat /\ Len(h) = n + 1 /\ h \in Seq(Worlds) /\ IsList(j)
      /\ v = h[n + 1] /\ b \in Nat /\ b <= n
      /\ \A i \in b + 1 .. n + 1 : IndexesOK(h[i].al)
      /\ \A i \in b + 1 .. n : CanUndo(j[i], h[i + 1]) /\ Undo(j[i], h[i + 1]) = h[i]
  BY DEF Linked, IsList
<1>2. u \in Worlds /\ IndexesOK(u.al) /\ CanUndo(e, u) /\ Undo(e, u) = v
  BY DEF Reversible
<1>3. /\ IsList(k) /\ Len(k) = n + 1
      /\ \A i \in 1 .. n : k[i] = j[i]
      /\ k[n + 1] = e
  <2>1. Appended(k, j, e)
    BY <1>1, AppendShape
  <2> QED
    BY <2>1 DEF Appended
<1>4. /\ g \in Seq(Worlds) /\ Len(g) = n + 2
      /\ \A i \in 1 .. n + 1 : g[i] = h[i]
      /\ g[n + 2] = u
  BY <1>1, <1>2, AppendProperties
<1> HIDE DEF n, k, g
<1>5. \A i \in b + 1 .. n + 2 : IndexesOK(g[i].al)
  <2> SUFFICES ASSUME NEW i \in b + 1 .. n + 2
               PROVE  IndexesOK(g[i].al)
    OBVIOUS
  <2>1. CASE i = n + 2
    BY <1>2, <1>4, <2>1, SMTT(30)
  <2>2. CASE i # n + 2
    <3>1. i \in 1 .. n + 1 /\ i \in b + 1 .. n + 1
      BY <1>1, <2>2
    <3> QED
      BY <1>1, <1>4, <3>1
  <2> QED
    BY <2>1, <2>2
<1>6. \A i \in b + 1 .. n + 1 : CanUndo(k[i], g[i + 1]) /\ Undo(k[i], g[i + 1]) = g[i]
  <2> SUFFICES ASSUME NEW i \in b + 1 .. n + 1
               PROVE  CanUndo(k[i], g[i + 1]) /\ Undo(k[i], g[i + 1]) = g[i]
    OBVIOUS
  <2>1. CASE i = n + 1
    <3>1. k[i] = e /\ g[i + 1] = u /\ g[i] = v
      BY <1>1, <1>3, <1>4, <2>1
    <3> QED
      BY <1>2, <3>1
  <2>2. CASE i # n + 1
    <3>1. i \in 1 .. n /\ i + 1 \in 1 .. n + 1 /\ i \in 1 .. n + 1 /\ i \in b + 1 .. n
      BY <1>1, <2>2
    <3>2. k[i] = j[i] /\ g[i + 1] = h[i + 1] /\ g[i] = h[i]
      BY <1>3, <1>4, <3>1, SMTT(30)
    <3> QED
      BY <1>1, <3>1, <3>2
  <2> QED
    BY <2>1, <2>2
<1>7. Linked(u, k, g, b)
  <2>1. Len(k) + 1 = n + 2 /\ Len(g) = Len(k) + 1 /\ b <= Len(k)
    BY <1>1, <1>3, <1>4
  <2> QED
    BY <1>1, <1>3, <1>4, <1>5, <1>6, <2>1, SMTT(30) DEF Linked
<1> QED
  BY <1>3, <1>7 DEF n, k, g

\* The invariant says of the current world what the operations start from.
LEMMA CurrentWorld ==
  ASSUME IInv
  PROVE  w \in Worlds /\ IndexesOK(w.al)
<1>1. Len(journal) + 1 \in base + 1 .. Len(journal) + 1
  BY DEF IInv, Linked, IsList
<1> QED
  BY <1>1 DEF IInv, TypeOK, Linked

\* A step that extends the chain by one entry or more keeps the invariant.
LEMMA ExtensionKeepsIInv ==
  ASSUME IInv, Running, Linked(w', journal', hist', base), Len(journal') >= Len(journal),
         w' \in Worlds, loaded' \subseteq {a \in Addr : DB[a].exists},
         UNCHANGED <<snaps, target, base, txs>>
  PROVE  IInv'
<1>1. TypeOK'
  BY DEF IInv, TypeOK, Linked
<1>2. Linked(w, journal, hist, base)'
  BY DEF Linked
<1>3. SnapshotsNest'
  <2>1. /\ SnapshotsNest /\ target = Nil /\ base \in Nat /\ snaps \in Seq(Nat)
        /\ Len(journal) \in Nat /\ Len(journal') \in Nat
    BY DEF IInv, TypeOK, Linked, IsList, Running
  <2> QED
    BY <2>1 DEF SnapshotsNest, Nested
<1> QED
  BY <1>1, <1>2, <1>3, SMTT(30) DEF IInv

\* So does a reversible write that journals its entry.
LEMMA JournaledKeepsIInv ==
  ASSUME IInv, Running, NEW e, NEW v, Journaled(e, v), Reversible(e, v, w),
         loaded' \subseteq {a \in Addr : DB[a].exists}
  PROVE  IInv'
<1>1. Linked(w, journal, hist, base) /\ Len(journal) \in Nat
  BY DEF IInv, TypeOK, IsList
<1>2. Linked(v, Append(journal, e), Append(hist, v), base)
      /\ Len(Append(journal, e)) = Len(journal) + 1
  BY <1>1, LinkedExtends
<1>3. Linked(w', journal', hist', base) /\ Len(journal') >= Len(journal) /\ w' \in Worlds
  BY <1>1, <1>2 DEF Journaled, Reversible
<1> QED
  BY <1>3, ExtensionKeepsIInv DEF Journaled

-----------------------------------------------------------------------------
(* The steps.                                                               *)

\* loadAccount only ever finds accounts the database holds.
LEMMA LoadingFindsExisting ==
  ASSUME NEW v, NEW a \in Addr, NEW ld, ld \subseteq {b \in Addr : DB[b].exists}
  PROVE  Loading(v, ld, a) \subseteq {b \in Addr : DB[b].exists}
  BY DEF Loading, LoadAccount

\* A balance is a number.
LEMMA ObjectBalanceType ==
  ASSUME NEW v \in Worlds, NEW ld, NEW a \in Addr
  PROVE  ObjectBalance(v, ld, a) \in Int
<1> DEFINE o == v.objs[a]
<1>1. o \in Objects
  BY DEF Worlds
<1>2. DB[a].balance \in Nat
  BY ConstantsAssumption DEF Accounts
<1>3. o.fakeBalance \in Nat \cup {Nil} /\ o.delta \in Int \cup {Nil}
  BY <1>1 DEF Objects
<1> HIDE DEF o
<1> QED
  BY <1>2, <1>3 DEF ObjectBalance, o

\* The object CreateAccount makes.
LEMMA CreatedObjectType ==
  ASSUME NEW d \in Int \cup {Nil}
  PROVE  [NewObject EXCEPT !.created = TRUE, !.delta = d] \in Objects
<1>1. NoStorage \in Storage
  BY DEF NoStorage, Storage
<1> QED
  BY <1>1, Zenon DEF NewObject, Objects

\* A getter only widens the set of loaded accounts.
LEMMA ReadKeepsIInv ==
  ASSUME IInv, NEW a \in Addr, Read(a)
  PROVE  IInv'
<1>1. loaded' \subseteq {b \in Addr : DB[b].exists}
  BY LoadingFindsExisting DEF Read, IInv, TypeOK
<1>2. TypeOK'
  BY <1>1 DEF IInv, TypeOK, Read
<1>3. Linked(w, journal, hist, base)'
  BY DEF IInv, Linked, Read
<1>4. SnapshotsNest'
  BY DEF IInv, SnapshotsNest, Read
<1> QED
  BY <1>2, <1>3, <1>4 DEF IInv

\* CreateAccount journals the object it replaces.
LEMMA CreateAccountKeepsIInv ==
  ASSUME IInv, NEW a \in Addr, CreateAccount(a)
  PROVE  IInv'
<1> DEFINE prev  == w.objs[a]
           alive == ~prev.deleted /\ ~prev.suicided /\ LoadAccount(w, a)
           ld    == IF ~prev.deleted /\ ~prev.suicided THEN Loading(w, loaded, a) ELSE loaded
           d     == IF alive THEN ObjectBalance(w, ld, a) ELSE Nil
           obj   == [NewObject EXCEPT !.created = TRUE, !.delta = d]
<1>1. /\ Running /\ loaded' = ld
      /\ Journaled(Entry("create", a, Nil, prev), [w EXCEPT !.objs[a] = obj])
  BY DEF CreateAccount
<1>2. loaded' \subseteq {b \in Addr : DB[b].exists}
  BY <1>1, LoadingFindsExisting DEF IInv, TypeOK
<1>3. d \in Int \cup {Nil}
  BY CurrentWorld, ObjectBalanceType
<1> HIDE DEF d
<1>4. obj \in Objects
  BY <1>3, CreatedObjectType, Zenon
<1> HIDE DEF obj
<1>5. Reversible(Entry("create", a, Nil, prev), [w EXCEPT !.objs[a] = obj], w)
  BY <1>4, CurrentWorld, CreateReversible
<1> QED
  BY <1>1, <1>2, <1>5, JournaledKeepsIInv

\* AddBalance and SubBalance journal a reversible change of the delta.
LEMMA ChangeBalanceKeepsIInv ==
  ASSUME IInv, NEW a \in Addr, NEW n \in Int, ChangeBalance(a, n)
  PROVE  IInv'
<1> DEFINE d == w.objs[a].delta
           e == Entry("balance", a, Nil, [fresh |-> d = Nil, amount |-> n])
           v == [w EXCEPT !.objs[a].delta = IF d = Nil THEN n ELSE d + n]
<1>1. Running /\ Journaled(e, v) /\ loaded' = loaded
  BY DEF ChangeBalance
<1>2. Reversible(e, v, w)
  BY CurrentWorld, BalanceReversible
<1> HIDE DEF e, v
<1> QED
  BY <1>1, <1>2, JournaledKeepsIInv DEF IInv, TypeOK

\* SetNonce journals the old nonce.
LEMMA SetNonceKeepsIInv ==
  ASSUME IInv, NEW a \in Addr, NEW n \in Nat, SetNonce(a, n)
  PROVE  IInv'
<1> DEFINE e == Entry("nonce", a, Nil, w.objs[a].nonce)
           v == [w EXCEPT !.objs[a].nonce = n]
<1>1. Running /\ Journaled(e, v) /\ loaded' = loaded
  BY DEF SetNonce
<1>2. Reversible(e, v, w)
  BY CurrentWorld, NonceReversible
<1> HIDE DEF e, v
<1> QED
  BY <1>1, <1>2, JournaledKeepsIInv DEF IInv, TypeOK

\* SetCode journals the old code.
LEMMA SetCodeKeepsIInv ==
  ASSUME IInv, NEW a \in Addr, NEW c \in Code, SetCode(a, c)
  PROVE  IInv'
<1> DEFINE e == Entry("code", a, Nil, w.objs[a].code)
           v == [w EXCEPT !.objs[a].code = c]
<1>1. Running /\ Journaled(e, v) /\ loaded' = loaded
  BY DEF SetCode
<1>2. Reversible(e, v, w)
  BY CurrentWorld, CodeReversible
<1> HIDE DEF e, v
<1> QED
  BY <1>1, <1>2, JournaledKeepsIInv DEF IInv, TypeOK

\* SetBalance journals the old override.
LEMMA SetBalanceKeepsIInv ==
  ASSUME IInv, NEW a \in Addr, NEW n \in Nat, SetBalance(a, n)
  PROVE  IInv'
<1> DEFINE e == Entry("fake", a, Nil, w.objs[a].fakeBalance)
           v == [w EXCEPT !.objs[a].fakeBalance = n]
<1>1. Running /\ Journaled(e, v) /\ loaded' = loaded
  BY DEF SetBalance
<1>2. Reversible(e, v, w)
  BY CurrentWorld, FakeReversible
<1> HIDE DEF e, v
<1> QED
  BY <1>1, <1>2, JournaledKeepsIInv DEF IInv, TypeOK

\* SetState journals the old dirty word.
LEMMA SetStateKeepsIInv ==
  ASSUME IInv, NEW a \in Addr, NEW s \in Slot, NEW x \in Val, SetState(a, s, x)
  PROVE  IInv'
<1> DEFINE e == Entry("state", a, s, w.objs[a].dirty[Keccak(s)])
           v == [w EXCEPT !.objs[a].dirty[Keccak(s)] = x]
<1>1. Running /\ Journaled(e, v) /\ loaded' = loaded
  BY DEF SetState
<1>2. Reversible(e, v, w)
  BY CurrentWorld, StateReversible
<1> HIDE DEF e, v
<1> QED
  BY <1>1, <1>2, JournaledKeepsIInv DEF IInv, TypeOK

\* SetTransientState journals the old word.
LEMMA SetTransientStateKeepsIInv ==
  ASSUME IInv, NEW a \in Addr, NEW s \in Slot, NEW x \in Val, SetTransientState(a, s, x)
  PROVE  IInv'
<1> DEFINE e == Entry("transient", a, s, w.transient[a][s])
           v == [w EXCEPT !.transient[a][s] = x]
<1>1. Running /\ Journaled(e, v) /\ loaded' = loaded
  BY DEF SetTransientState
<1>2. Reversible(e, v, w)
  BY CurrentWorld, TransientReversible, SMTT(30)
<1> HIDE DEF e, v
<1> QED
  BY <1>1, <1>2, JournaledKeepsIInv DEF IInv, TypeOK

\* Suicide marks only what it can unmark.
LEMMA SuicideKeepsIInv ==
  ASSUME IInv, NEW a \in Addr, Suicide(a)
  PROVE  IInv'
<1> DEFINE e == Entry("suicide", a, Nil, Nil)
           v == [w EXCEPT !.objs[a].suicided = TRUE]
<1>1. Running /\ Journaled(e, v) /\ loaded' = loaded
  BY DEF Suicide
<1>2. Reversible(e, v, w)
  BY CurrentWorld, SuicideReversible DEF Suicide
<1> HIDE DEF e, v
<1> QED
  BY <1>1, <1>2, JournaledKeepsIInv DEF IInv, TypeOK

\* AddRefund and SubRefund journal the old counter.
LEMMA ChangeRefundKeepsIInv ==
  ASSUME IInv, NEW n \in Int, ChangeRefund(n)
  PROVE  IInv'
<1> DEFINE e == Entry("refund", Nil, Nil, w.refund)
           v == [w EXCEPT !.refund = (w.refund + n) % UintMod]
<1>1. Running /\ Journaled(e, v) /\ loaded' = loaded
  BY DEF ChangeRefund
<1>2. Reversible(e, v, w)
  BY CurrentWorld, RefundReversible
<1> HIDE DEF e, v
<1> QED
  BY <1>1, <1>2, JournaledKeepsIInv DEF IInv, TypeOK

\* AddAddressToAccessList journals the address it added.
LEMMA AddAddressKeepsIInv ==
  ASSUME IInv, NEW a \in Addr, AddAddressToAccessList(a)
  PROVE  IInv'
<1> DEFINE e == Entry("address", a, Nil, Nil)
           v == [w EXCEPT !.al = AddAddress(w.al, a)]
<1>1. Running /\ Journaled(e, v) /\ loaded' = loaded
  BY DEF AddAddressToAccessList
<1>2. Reversible(e, v, w)
  BY CurrentWorld, AddressReversible, SMTT(30) DEF AddAddressToAccessList
<1> HIDE DEF e, v
<1> QED
  BY <1>1, <1>2, JournaledKeepsIInv DEF IInv, TypeOK

\* SetStorage journals the dirty map it replaces.
LEMMA SetStorageKeepsIInv ==
  ASSUME IInv, NEW a \in Addr, NEW m \in [Slot -> Val \cup {Nil}], SetStorage(a, m)
  PROVE  IInv'
<1> DEFINE x == [k \in Key |-> IF k[1] = "raw" THEN m[k[2]] ELSE Nil]
           e == Entry("storage", a, Nil, w.objs[a].dirty)
           v == [w EXCEPT !.objs[a].dirty = x]
<1>1. Running /\ Journaled(e, v) /\ loaded' = loaded
  BY DEF SetStorage
<1>2. x \in Storage
  BY DEF Storage, Key
<1> HIDE DEF x
<1>3. Reversible(e, v, w)
  BY <1>2, CurrentWorld, StorageReversible
<1> HIDE DEF e, v
<1> QED
  BY <1>1, <1>3, JournaledKeepsIInv DEF IInv, TypeOK

\* AddSlotToAccessList journals the slot, after the address if that is new too.
LEMMA AddSlotKeepsIInv ==
  ASSUME IInv, NEW a \in Addr, NEW s \in Slot, AddSlotToAccessList(a, s)
  PROVE  IInv'
<1> DEFINE slotEntry == Entry("slot", a, s, Nil)
           addrEntry == Entry("address", a, Nil, Nil)
           added     == [w EXCEPT !.al = AddSlot(w.al, a, s)]
           addrOnly  == [w EXCEPT !.al = AddAddress(w.al, a)]
<1>1. /\ Running /\ s \notin SlotsOf(w.al, a) /\ w' = added
      /\ loaded' \subseteq {b \in Addr : DB[b].exists}
      /\ UNCHANGED <<snaps, target, base, txs>>
  BY DEF AddSlotToAccessList, IInv, TypeOK
<1>2. w \in Worlds /\ IndexesOK(w.al) /\ w.al \in AccessLists
  BY CurrentWorld DEF Worlds
<1>3. Linked(w, journal, hist, base) /\ Len(journal) \in Nat
  BY DEF IInv, TypeOK, IsList
<1>4. CASE ContainsAddress(w.al, a)
  <2>1. journal' = Append(journal, slotEntry) /\ hist' = Append(hist, added)
    BY <1>4 DEF AddSlotToAccessList
  <2>2. Reversible(slotEntry, added, w)
    BY <1>1, <1>2, <1>4, SlotReversible
  <2> HIDE DEF slotEntry, added
  <2>3. Journaled(slotEntry, added)
    BY <1>1, <2>1 DEF Journaled
  <2> QED
    BY <1>1, <2>2, <2>3, JournaledKeepsIInv
<1>5. CASE ~ContainsAddress(w.al, a)
  <2> DEFINE bl == AddAddress(w.al, a)
  <2>1. /\ journal' = journal \o <<addrEntry, slotEntry>>
        /\ hist' = hist \o <<addrOnly, added>>
    BY <1>5, Zenon DEF AddSlotToAccessList
  <2>2. Reversible(addrEntry, addrOnly, w)
    BY <1>2, <1>5, AddressReversible
  <2>3. bl \in AccessLists /\ AddSlot(bl, a, s) = AddSlot(w.al, a, s)
        /\ ContainsAddress(bl, a) /\ s \notin SlotsOf(bl, a)
    BY <1>2, <1>5, AddAddressInverse, AddSlotAfterAddress
  <2>4. addrOnly \in Worlds /\ IndexesOK(addrOnly.al)
    BY <2>2 DEF Reversible
  <2>5. addrOnly.al = bl
    BY <1>2 DEF Worlds
  <2>6. [addrOnly EXCEPT !.al = AddSlot(addrOnly.al, a, s)] = added
    BY <1>2, <2>3, <2>5, Zenon DEF Worlds
  <2>7. Reversible(slotEntry, added, addrOnly)
    BY <2>3, <2>4, <2>5, <2>6, SlotReversible, Zenon
  <2> HIDE DEF slotEntry, addrEntry, added, addrOnly, bl
  <2>8. IsList(journal) /\ IsList(hist)
    BY SequenceIsList DEF IInv, TypeOK
  <2>9. /\ journal' = Append(Append(journal, addrEntry), slotEntry)
        /\ hist' = Append(Append(hist, addrOnly), added)
    BY <2>1, <2>8, PairShape
  <2>10. /\ Linked(addrOnly, Append(journal, addrEntry), Append(hist, addrOnly), base)
         /\ Len(Append(journal, addrEntry)) = Len(journal) + 1
    BY <1>3, <2>2, LinkedExtends
  <2>11. /\ Linked(added, journal', hist', base)
         /\ Len(journal') = Len(Append(journal, addrEntry)) + 1
    BY <2>7, <2>9, <2>10, LinkedExtends
  <2>12. Len(journal') >= Len(journal) /\ added \in Worlds
    BY <1>3, <2>7, <2>10, <2>11 DEF Reversible
  <2> QED
    BY <1>1, <2>11, <2>12, ExtensionKeepsIInv
<1> QED
  BY <1>4, <1>5

\* What the frame operations start from, without the chain itself.
LEMMA FrameFacts ==
  ASSUME IInv
  PROVE  /\ Len(journal) \in Nat /\ base \in Nat /\ snaps \in Seq(Nat)
         /\ Len(hist) = Len(journal) + 1 /\ hist \in Seq(Worlds) /\ IsList(journal)
         /\ target \in Nat \cup {Nil} /\ Nil \notin Nat
         /\ w = hist[Len(journal) + 1]
  BY ConstantsAssumption DEF IInv, TypeOK, IsList, Linked

\* A mark at the upper bound may follow nested marks.
LEMMA NestedAppend ==
  ASSUME NEW q \in Seq(Nat), NEW low \in Nat, NEW high \in Nat, low <= high,
         Nested(q, low, high)
  PROVE  Append(q, high) \in Seq(Nat) /\ Nested(Append(q, high), low, high)
<1> DEFINE r == Append(q, high)
<1>1. /\ r \in Seq(Nat) /\ Len(r) = Len(q) + 1 /\ Len(q) \in Nat
      /\ \A i \in 1 .. Len(q) : r[i] = q[i]
      /\ r[Len(q) + 1] = high
  OBVIOUS
<1> HIDE DEF r
<1>2. \A i \in 1 .. Len(r) : i \in 1 .. Len(q) \/ i = Len(q) + 1
  BY <1>1
<1>3. \A i \in 1 .. Len(r) : low <= r[i] /\ r[i] <= high
  <2> SUFFICES ASSUME NEW i \in 1 .. Len(r) PROVE low <= r[i] /\ r[i] <= high
    OBVIOUS
  <2>1. CASE i \in 1 .. Len(q)
    BY <1>1, <2>1, Zenon DEF Nested
  <2>2. CASE i = Len(q) + 1
    BY <1>1, <2>2
  <2> QED
    BY <1>2, <2>1, <2>2
<1>4. \A i, j \in 1 .. Len(r) : i <= j => r[i] <= r[j]
  <2> SUFFICES ASSUME NEW i \in 1 .. Len(r), NEW j \in 1 .. Len(r), i <= j
               PROVE  r[i] <= r[j]
    OBVIOUS
  <2>1. CASE j = Len(q) + 1
    BY <1>1, <1>3, <2>1
  <2>2. CASE j \in 1 .. Len(q)
    <3>1. i \in 1 .. Len(q)
      BY <1>1, <2>2
    <3> QED
      BY <1>1, <2>2, <3>1 DEF Nested
  <2> QED
    BY <1>2, <2>1, <2>2
<1> QED
  BY <1>1, <1>3, <1>4 DEF Nested, r

\* A prefix of nested marks is nested, below the first mark it leaves out.
LEMMA NestedPrefix ==
  ASSUME NEW q \in Seq(Nat), NEW low \in Nat, NEW high \in Nat, Nested(q, low, high),
         NEW k \in 1 .. Len(q)
  PROVE  LET r == SubSeq(q, 1, k - 1)
         IN  /\ r \in Seq(Nat) /\ Len(r) = k - 1
             /\ \A i \in 1 .. k - 1 : r[i] = q[i]
             /\ Nested(r, low, high) /\ Nested(r, low, q[k])
<1> DEFINE r == SubSeq(q, 1, k - 1)
<1>1. /\ r \in Seq(Nat) /\ Len(r) = k - 1 /\ Len(q) \in Nat
      /\ \A i \in 1 .. k - 1 : r[i] = q[i]
  BY SMTT(30)
<1> HIDE DEF r
<1>2. \A i \in 1 .. k - 1 : i \in 1 .. Len(q) /\ i <= k
  BY <1>1
<1>3. /\ \A i \in 1 .. Len(r) : low <= r[i] /\ r[i] <= high
      /\ \A i \in 1 .. Len(r) : r[i] <= q[k]
  BY <1>1, <1>2, Zenon DEF Nested
<1>4. \A i, j \in 1 .. Len(r) : i <= j => r[i] <= r[j]
  BY <1>1, <1>2 DEF Nested
<1> QED
  BY <1>1, <1>3, <1>4 DEF Nested, r

\* Snapshot adds a mark at the journal's end.
LEMMA SnapshotKeepsIInv ==
  ASSUME IInv, Snapshot
  PROVE  IInv'
<1>1. SnapshotsNest
  BY DEF IInv
<1>2. snaps' \in Seq(Nat) /\ Nested(snaps', base, Len(journal))
  BY <1>1, FrameFacts, NestedAppend DEF Snapshot, SnapshotsNest
<1>3. TypeOK'
  BY <1>2 DEF IInv, TypeOK, Snapshot
<1>4. Linked(w, journal, hist, base)'
  BY DEF IInv, Linked, Snapshot
<1>5. SnapshotsNest'
  BY <1>1, <1>2 DEF SnapshotsNest, Snapshot, Running
<1> QED
  BY <1>3, <1>4, <1>5 DEF IInv

\* A returning frame drops the innermost mark.
LEMMA ReturnKeepsIInv ==
  ASSUME IInv, Return
  PROVE  IInv'
<1>1. SnapshotsNest
  BY DEF IInv
<1>2. Len(snaps) \in 1 .. Len(snaps)
  BY FrameFacts DEF Return
<1>3. snaps' \in Seq(Nat) /\ Nested(snaps', base, Len(journal))
  BY <1>1, <1>2, FrameFacts, NestedPrefix DEF Return, SnapshotsNest
<1>4. TypeOK'
  BY <1>3 DEF IInv, TypeOK, Return
<1>5. Linked(w, journal, hist, base)'
  BY DEF IInv, Linked, Return
<1>6. SnapshotsNest'
  BY <1>1, <1>3 DEF SnapshotsNest, Return, Running
<1> QED
  BY <1>4, <1>5, <1>6 DEF IInv

\* Starting a revert drops the marks from its target on.
LEMMA RevertToSnapshotKeepsIInv ==
  ASSUME IInv, NEW i \in 1 .. Len(snaps), RevertToSnapshot(i)
  PROVE  IInv'
<1>1. SnapshotsNest
  BY DEF IInv
<1>2. snaps' \in Seq(Nat) /\ Nested(snaps', base, Len(journal)) /\ Nested(snaps', base, snaps[i])
  BY <1>1, FrameFacts, NestedPrefix DEF RevertToSnapshot, SnapshotsNest
<1>3. target' = snaps[i] /\ snaps[i] \in Nat /\ base <= snaps[i] /\ snaps[i] <= Len(journal)
  BY <1>1, FrameFacts DEF RevertToSnapshot, SnapshotsNest, Nested
<1>4. TypeOK'
  BY <1>2, <1>3 DEF IInv, TypeOK, RevertToSnapshot
<1>5. Linked(w, journal, hist, base)'
  BY DEF IInv, Linked, RevertToSnapshot
<1>6. SnapshotsNest'
  BY <1>1, <1>2, <1>3 DEF SnapshotsNest, RevertToSnapshot
<1> QED
  BY <1>4, <1>5, <1>6 DEF IInv

\* A finished revert leaves the worlds as they are.
LEMMA RevertDoneKeepsIInv ==
  ASSUME IInv, RevertDone
  PROVE  IInv'
<1>1. TypeOK'
  BY DEF IInv, TypeOK, RevertDone
<1>2. Linked(w, journal, hist, base)'
  BY DEF IInv, Linked, RevertDone
<1>3. SnapshotsNest'
  BY DEF IInv, SnapshotsNest, RevertDone
<1> QED
  BY <1>1, <1>2, <1>3 DEF IInv

\* Undoing the newest entry leads to the world before it.
LEMMA RevertEntryStep ==
  ASSUME IInv, RevertEntry
  PROVE  /\ target \in Nat /\ base <= target /\ target < Len(journal)
         /\ CanUndo(journal[Len(journal)], w)
         /\ w' = hist[Len(journal)]
<1>1. /\ target \in Nat /\ base <= target /\ target < Len(journal)
  BY FrameFacts DEF IInv, SnapshotsNest, RevertEntry, Running
<1>2. Len(journal) \in base + 1 .. Len(journal)
  BY <1>1, FrameFacts
<1>3. /\ CanUndo(journal[Len(journal)], hist[Len(journal) + 1])
      /\ Undo(journal[Len(journal)], hist[Len(journal) + 1]) = hist[Len(journal)]
  BY <1>2 DEF IInv, Linked
<1> QED
  BY <1>1, <1>3, FrameFacts DEF RevertEntry

\* One round of RevertToSnapshot's loop steps back to the previous world.
LEMMA RevertEntryKeepsIInv ==
  ASSUME IInv, RevertEntry
  PROVE  IInv'
<1> DEFINE n == Len(journal)
<1>1. /\ n \in Nat /\ base \in Nat /\ target \in Nat /\ base <= target /\ target <= n - 1
      /\ n \in 1 .. n + 1 /\ w' = hist[n]
  BY FrameFacts, RevertEntryStep
<1>2. /\ IsList(journal') /\ Len(journal') = n - 1
      /\ \A i \in 1 .. n - 1 : journal'[i] = journal[i]
  <2>1. FrontOf(journal', journal)
    BY <1>1, FrameFacts, FrontShape DEF RevertEntry
  <2> QED
    BY <2>1 DEF FrontOf
<1>3. /\ hist' \in Seq(Worlds) /\ Len(hist') = n
      /\ \A i \in 1 .. n : hist'[i] = hist[i]
  <2>1. hist' = SubSeq(hist, 1, n) /\ hist \in Seq(Worlds) /\ Len(hist) = n + 1
    BY <1>1, FrameFacts DEF RevertEntry
  <2> HIDE DEF n
  <2> QED
    BY <1>1, <2>1
<1>4. UNCHANGED <<loaded, snaps, target, base, txs>>
  BY DEF RevertEntry
<1>5. /\ \A i \in base + 1 .. n + 1 : IndexesOK(hist[i].al)
      /\ \A i \in base + 1 .. n :
           CanUndo(journal[i], hist[i + 1]) /\ Undo(journal[i], hist[i + 1]) = hist[i]
  BY DEF IInv, Linked
<1>6. Nested(snaps, base, target)
  BY FrameFacts DEF IInv, SnapshotsNest, RevertEntry, Running
<1>7. w' \in Worlds
  BY <1>1, FrameFacts
<1>8. TypeOK'
  BY <1>1, <1>2, <1>3, <1>4, <1>7, SMTT(30) DEF IInv, TypeOK
<1> HIDE DEF n
<1>9. Linked(w', journal', hist', base)
  <2>1. \A i \in base + 1 .. n : IndexesOK(hist'[i].al)
    <3> SUFFICES ASSUME NEW i \in base + 1 .. n PROVE IndexesOK(hist'[i].al)
      OBVIOUS
    <3>1. i \in 1 .. n /\ i \in base + 1 .. n + 1
      BY <1>1
    <3> QED
      BY <1>3, <1>5, <3>1
  <2>2. \A i \in base + 1 .. n - 1 :
          CanUndo(journal'[i], hist'[i + 1]) /\ Undo(journal'[i], hist'[i + 1]) = hist'[i]
    <3> SUFFICES ASSUME NEW i \in base + 1 .. n - 1
                 PROVE  /\ CanUndo(journal'[i], hist'[i + 1])
                        /\ Undo(journal'[i], hist'[i + 1]) = hist'[i]
      OBVIOUS
    <3>1. i \in 1 .. n - 1 /\ i \in 1 .. n /\ i + 1 \in 1 .. n /\ i \in base + 1 .. n
      BY <1>1
    <3>2. journal'[i] = journal[i] /\ hist'[i + 1] = hist[i + 1] /\ hist'[i] = hist[i]
      BY <1>2, <1>3, <3>1
    <3> QED
      BY <1>5, <3>1, <3>2
  <2>3. Len(journal') + 1 = n /\ base <= Len(journal') /\ w' = hist'[n]
    BY <1>1, <1>2, <1>3
  <2> QED
    BY <1>1, <1>2, <1>3, <2>1, <2>2, <2>3, SMTT(30) DEF Linked
<1>10. Linked(w, journal, hist, base)'
  BY <1>4, <1>9 DEF Linked
<1>11. SnapshotsNest'
  <2>1. snaps \in Seq(Nat)
    BY FrameFacts
  <2>2. Nested(snaps, base, n - 1)
    BY <1>1, <1>6, <2>1 DEF Nested
  <2> QED
    BY <1>1, <1>2, <1>4, <1>6, <2>2 DEF SnapshotsNest
<1> QED
  BY <1>8, <1>10, <1>11 DEF IInv

\* Merging the dirty slots and marking deletions keeps an object's type.
LEMMA FinaliseObjectType ==
  ASSUME NEW o \in Objects
  PROVE  FinaliseObject(o) \in Objects
<1> DEFINE c == [k \in Key |-> IF o.dirty[k] # Nil THEN o.dirty[k] ELSE o.clean[k]]
           d == o.deleted \/ o.suicided
<1>1. c \in Storage
  BY DEF Objects, Storage
<1>2. d \in BOOLEAN
  OBVIOUS
<1> HIDE DEF c, d
<1>3. [o EXCEPT !.clean = c, !.deleted = d] \in Objects
  BY <1>1, <1>2, Zenon DEF Objects
<1> QED
  BY <1>3 DEF FinaliseObject, c, d

\* A new access list is sound.
LEMMA EmptyList ==
  NewAccessList \in AccessLists /\ IndexesOK(NewAccessList)
<1>1. NewAccessList \in AccessLists
  BY DEF NewAccessList, AccessLists, Absent
<1>2. /\ \A a \in Addr : NewAccessList.addresses[a] = -2
      /\ Len(NewAccessList.slots) = 0
  BY SMTT(30) DEF NewAccessList, Absent
<1> QED
  BY <1>1, <1>2 DEF IndexesOK, Absent

\* Finalise starts the chain anew at the journal's end.
LEMMA FinaliseKeepsIInv ==
  ASSUME IInv, Finalise
  PROVE  IInv'
<1> DEFINE n == Len(journal)
           objs == [a \in Addr |-> FinaliseObject(w.objs[a])]
           v == [objs |-> objs, transient |-> NewWorld.transient, refund |-> 0,
                 al |-> NewAccessList]
<1>1. /\ w' = v /\ hist' = [hist EXCEPT ![Len(hist)] = v] /\ base' = n /\ txs < MaxTx
      /\ txs' = txs + 1 /\ snaps = << >> /\ target = Nil
      /\ UNCHANGED <<loaded, journal, snaps, target>>
  BY DEF Finalise, Running
<1>2. objs \in [Addr -> Objects]
  BY CurrentWorld, FinaliseObjectType, SMTT(30) DEF Worlds
<1> HIDE DEF objs
<1>3. NewWorld.transient \in [Addr -> [Slot -> Val]] /\ 0 \in 0 .. UintMod - 1
  BY ConstantsAssumption DEF NewWorld
<1>4. v \in Worlds /\ v.al = NewAccessList
  BY <1>2, <1>3, EmptyList, Zenon DEF Worlds
<1> HIDE DEF v
<1>5. n \in Nat /\ Len(hist) = n + 1 /\ hist \in Seq(Worlds) /\ IsList(journal)
  BY FrameFacts
<1>6. hist' \in Seq(Worlds) /\ Len(hist') = n + 1 /\ hist'[n + 1] = v
  BY <1>1, <1>4, <1>5, SMTT(30)
<1>7. TypeOK'
  <2>1. txs' \in 0 .. MaxTx
    BY <1>1, ConstantsAssumption DEF IInv, TypeOK
  <2> QED
    BY <1>1, <1>4, <1>5, <1>6, <2>1, SMTT(30) DEF IInv, TypeOK
<1>8. Linked(v, journal, hist', n)
  <2>1. \A i \in n + 1 .. n + 1 : IndexesOK(hist'[i].al)
    BY <1>4, <1>5, <1>6, EmptyList
  <2>2. \A i \in n + 1 .. n : FALSE
    BY <1>5, SMTT(30)
  <2> QED
    BY <1>5, <1>6, <2>1, <2>2 DEF Linked
<1>9. Linked(w, journal, hist, base)'
  BY <1>1, <1>8 DEF Linked
<1>10. SnapshotsNest'
  BY <1>1, <1>5 DEF SnapshotsNest, Nested
<1> QED
  BY <1>7, <1>9, <1>10 DEF IInv

\* A new StateDB satisfies the invariant.
LEMMA InitImpliesIInv ==
  Init => IInv
<1> SUFFICES ASSUME Init PROVE IInv
  OBVIOUS
<1>1. NewWorld \in Worlds /\ NewWorld.al = NewAccessList
  <2>1. NoStorage \in Storage
    BY DEF NoStorage, Storage
  <2>2. NewObject \in Objects
    BY <2>1 DEF NewObject, Objects
  <2> QED
    BY <2>2, EmptyList, ConstantsAssumption DEF NewWorld, Worlds
<1> USE DEF Init
<1>2. hist \in Seq(Worlds) /\ Len(hist) = 1 /\ hist[1] = NewWorld
  BY <1>1
<1>3. Len(journal) = 0 /\ IsList(journal) /\ Len(snaps) = 0 /\ snaps \in Seq(Nat)
  BY DEF IsList
<1>4. TypeOK
  BY <1>1, <1>2, <1>3, ConstantsAssumption, SMTT(30) DEF TypeOK
<1>5. Linked(w, journal, hist, base)
  BY <1>1, <1>2, <1>3, EmptyList DEF Linked
<1>6. SnapshotsNest
  BY <1>3 DEF SnapshotsNest, Nested
<1> QED
  BY <1>4, <1>5, <1>6 DEF IInv

\* Every step of the StateDB keeps the invariant.
LEMMA NextKeepsIInv ==
  ASSUME IInv, [Next]_vars
  PROVE  IInv'
<1>1. CASE AccountOp
  <2>1. PICK a \in Touched :
          \/ Read(a) \/ CreateAccount(a)
          \/ \E n \in Amounts : AddBalance(a, n) \/ SubBalance(a, n)
          \/ \E n \in Nonces : SetNonce(a, n)
          \/ \E c \in Codes : SetCode(a, c)
          \/ \E n \in Balances : SetBalance(a, n)
          \/ Suicide(a) \/ SelfDestruct6780(a)
    BY <1>1 DEF AccountOp
  <2>2. a \in Addr
    BY ConstantsAssumption
  <2>3. CASE Read(a)
    BY <2>2, <2>3, ReadKeepsIInv
  <2>4. CASE CreateAccount(a)
    BY <2>2, <2>4, CreateAccountKeepsIInv
  <2>5. CASE \E n \in Amounts : AddBalance(a, n) \/ SubBalance(a, n)
    <3>1. PICK n \in Amounts : ChangeBalance(a, n) \/ ChangeBalance(a, -n)
      BY <2>5 DEF AddBalance, SubBalance
    <3>2. n \in Int /\ -n \in Int
      BY ConstantsAssumption
    <3> QED
      BY <2>2, <3>1, <3>2, ChangeBalanceKeepsIInv
  <2>6. CASE \E n \in Nonces : SetNonce(a, n)
    BY <2>2, <2>6, ConstantsAssumption, SetNonceKeepsIInv
  <2>7. CASE \E c \in Codes : SetCode(a, c)
    BY <2>2, <2>7, ConstantsAssumption, SetCodeKeepsIInv
  <2>8. CASE \E n \in Balances : SetBalance(a, n)
    BY <2>2, <2>8, ConstantsAssumption, SetBalanceKeepsIInv
  <2>9. CASE Suicide(a) \/ SelfDestruct6780(a)
    BY <2>2, <2>9, SuicideKeepsIInv DEF SelfDestruct6780
  <2> QED
    BY <2>1, <2>3, <2>4, <2>5, <2>6, <2>7, <2>8, <2>9, SMTT(30)
<1>2. CASE StorageOp
  <2>1. PICK a \in Touched :
          \/ \E s \in Slot, x \in Words : SetState(a, s, x) \/ SetTransientState(a, s, x)
          \/ \E m \in Storages : SetStorage(a, m)
    BY <1>2 DEF StorageOp
  <2>2. a \in Addr
    BY ConstantsAssumption
  <2>3. CASE \E s \in Slot, x \in Words : SetState(a, s, x) \/ SetTransientState(a, s, x)
    BY <2>2, <2>3, ConstantsAssumption, SetStateKeepsIInv, SetTransientStateKeepsIInv, SMTT(30)
  <2>4. CASE \E m \in Storages : SetStorage(a, m)
    BY <2>2, <2>4, ConstantsAssumption, SetStorageKeepsIInv
  <2> QED
    BY <2>1, <2>3, <2>4
<1>3. CASE GasOp
  <2>1. CASE \E n \in Refunds : ChangeRefund(n) \/ ChangeRefund(-n)
    <3>1. PICK n \in Refunds : ChangeRefund(n) \/ ChangeRefund(-n)
      BY <2>1
    <3>2. n \in Int /\ -n \in Int
      BY ConstantsAssumption
    <3> QED
      BY <3>1, <3>2, ChangeRefundKeepsIInv
  <2>2. CASE \E a \in Addr : AddAddressToAccessList(a)
    BY <2>2, AddAddressKeepsIInv
  <2>3. CASE \E a \in Addr, s \in Slot : AddSlotToAccessList(a, s)
    BY <2>3, AddSlotKeepsIInv
  <2> QED
    BY <1>3, <2>1, <2>2, <2>3 DEF GasOp
<1>4. CASE FrameOp
  BY <1>4, SnapshotKeepsIInv, ReturnKeepsIInv, RevertToSnapshotKeepsIInv,
     RevertEntryKeepsIInv, RevertDoneKeepsIInv, FinaliseKeepsIInv, SMTT(30) DEF FrameOp
<1>5. CASE UNCHANGED vars
  <2>1. TypeOK'
    BY <1>5 DEF IInv, TypeOK, vars
  <2>2. Linked(w, journal, hist, base)'
    BY <1>5 DEF IInv, Linked, vars
  <2>3. SnapshotsNest'
    BY <1>5 DEF IInv, SnapshotsNest, vars
  <2> QED
    BY <2>1, <2>2, <2>3 DEF IInv
<1> QED
  BY <1>1, <1>2, <1>3, <1>4, <1>5, SMTT(30) DEF Next

\* The inductive invariant holds in every reachable state.
LEMMA Invariance ==
  Spec => []IInv
  BY InitImpliesIInv, NextKeepsIInv, PTL DEF Spec

-----------------------------------------------------------------------------
(* The theorems.                                                            *)

\* No revert of the inductive invariant's states runs an undo closure that would panic.
LEMMA RevertIsSafe ==
  IInv => RevertNeverPanics
<1> SUFFICES ASSUME IInv, ~Running, Len(journal) > target
             PROVE  CanUndo(journal[Len(journal)], w)
  BY DEF RevertNeverPanics
<1>1. target \in Nat /\ base <= target
  BY FrameFacts DEF IInv, SnapshotsNest, Running
<1>2. Len(journal) \in base + 1 .. Len(journal)
  BY <1>1, FrameFacts
<1> QED
  BY <1>2, FrameFacts, SMTT(30) DEF IInv, Linked

\* Every component keeps its type, every entry the running transaction journaled undoes
\* exactly its own write, and the open frames' snapshots nest inside the journal and never
\* reach behind the last Finalise: for any database, accounts, slots, inputs and bounds.
THEOREM JournalIsSound ==
  Spec => []JournalSound
<1>1. IInv => JournalUndoes
  BY DEF IInv, Linked, JournalUndoes
<1>2. IInv => JournalSound
  BY <1>1 DEF IInv, JournalSound
<1> QED
  BY <1>2, Invariance, PTL

\* No revert ever runs an undo closure that would panic, and the access list's indices stay
\* distinct and inside its slice through any additions and reverts.
THEOREM RevertsAreSafe ==
  Spec => []RevertSafe
<1>1. IInv => AccessListWellFormed
  BY CurrentWorld DEF AccessListWellFormed
<1>2. IInv => RevertSafe
  BY <1>1, RevertIsSafe DEF RevertSafe
<1> QED
  BY <1>2, Invariance, PTL

-----------------------------------------------------------------------------
(* Refinement: the journal implements the stack of saved worlds.            *)

\* What every operation other than the frame operations does to snapshots and history.
OnlyWrites ==
  /\ Running /\ snaps' = snaps /\ target' = target
  /\ \/ hist' = hist
     \/ \E v : hist' = Append(hist, v)
     \/ \E u, v : hist' = hist \o <<u, v>>

\* The operations on accounts, storage and gas only append to the history.
LEMMA OperationsOnlyWrite ==
  ASSUME AccountOp \/ StorageOp \/ GasOp
  PROVE  OnlyWrites
<1>1. ASSUME NEW e, NEW v, Running, Journaled(e, v) PROVE OnlyWrites
  BY <1>1 DEF Journaled, OnlyWrites
<1>2. CASE AccountOp
  BY <1>1, <1>2, ZenonT(60) DEF AccountOp, Read, CreateAccount, AddBalance, SubBalance, ChangeBalance,
     SetNonce, SetCode, SetBalance, Suicide, SelfDestruct6780, OnlyWrites
<1>3. CASE StorageOp
  BY <1>1, <1>3, Zenon DEF StorageOp, SetState, SetTransientState, SetStorage
<1>4. CASE GasOp
  <2>1. ASSUME NEW a \in Addr, NEW s \in Slot, AddSlotToAccessList(a, s) PROVE OnlyWrites
    BY <2>1, Zenon DEF AddSlotToAccessList, OnlyWrites
  <2> QED
    BY <1>1, <1>4, <2>1, Zenon DEF GasOp, ChangeRefund, AddAddressToAccessList
<1> QED
  BY <1>2, <1>3, <1>4

\* Such a step leaves the history up to its old end alone.
LEMMA HistoryKept ==
  ASSUME IInv, OnlyWrites
  PROVE  \A i \in 1 .. Len(hist) : hist'[i] = hist[i]
<1>1. IsList(hist)
  BY FrameFacts, SequenceIsList
<1>2. ASSUME NEW v PROVE Appended(Append(hist, v), hist, v)
  BY <1>1, AppendShape
<1>3. CASE hist' = hist
  BY <1>3
<1>4. CASE \E v : hist' = Append(hist, v)
  <2>1. PICK v : hist' = Append(hist, v)
    BY <1>4
  <2>2. Appended(hist', hist, v)
    BY <1>2, <2>1
  <2> QED
    BY <2>2 DEF Appended
<1>5. CASE \E u, v : hist' = hist \o <<u, v>>
  <2>1. PICK u, v : hist' = hist \o <<u, v>>
    BY <1>5, Zenon
  <2> DEFINE h == Append(hist, u)
  <2>2. Appended(h, hist, u)
    BY <1>2
  <2>3. hist' = Append(h, v)
    BY <1>1, <2>1, PairShape
  <2>4. Appended(hist', h, v)
    BY <2>2, <2>3, AppendShape DEF Appended
  <2> HIDE DEF h
  <2>5. Len(h) = Len(hist) + 1 /\ \A i \in 1 .. Len(hist) : h[i] = hist[i]
    BY <2>2 DEF Appended
  <2>6. \A i \in 1 .. Len(h) : hist'[i] = h[i]
    BY <2>4 DEF Appended
  <2>7. \A i \in 1 .. Len(hist) : i \in 1 .. Len(h)
    BY <1>1, <2>5 DEF IsList
  <2> QED
    BY <2>5, <2>6, <2>7
<1> QED
  BY <1>3, <1>4, <1>5, Zenon DEF OnlyWrites

\* A step that keeps the snapshots and the worlds they stand for is a write of the store.
LEMMA WriteStep ==
  ASSUME IInv, IInv', target = Nil, target' = Nil, snaps' = snaps,
         \A i \in 1 .. Len(snaps) : hist'[snaps[i] + 1] = hist[snaps[i] + 1]
  PROVE  Store!Write
<1>1. w' \in Worlds
  BY DEF IInv, TypeOK
<1>2. [i \in 1 .. Len(snaps) |-> hist[snaps[i] + 1]]'
        = [i \in 1 .. Len(snaps) |-> hist[snaps[i] + 1]]
  OBVIOUS
<1> QED
  BY <1>1, <1>2 DEF Store!Write, Running

\* The saved worlds of a prefix of the snapshots.
LEMMA SavedPrefix ==
  ASSUME NEW h, NEW q \in Seq(Nat), NEW k \in 1 .. Len(q), NEW r,
         Len(r) = k - 1, \A i \in 1 .. k - 1 : r[i] = q[i]
  PROVE  [i \in 1 .. Len(r) |-> h[r[i] + 1]]
           = SubSeq([i \in 1 .. Len(q) |-> h[q[i] + 1]], 1, k - 1)
  OBVIOUS

\* Every step of the StateDB is a step of the store or leaves it alone.
LEMMA StoreStep ==
  ASSUME IInv, IInv', [Next]_vars
  PROVE  [Store!Next]_(Store!vars)
<1> DEFINE saved == [i \in 1 .. Len(snaps) |-> hist[snaps[i] + 1]]
<1>0. /\ Len(journal) \in Nat /\ base \in Nat /\ snaps \in Seq(Nat) /\ Len(snaps) \in Nat
      /\ Len(hist) = Len(journal) + 1 /\ hist \in Seq(Worlds)
      /\ target \in Nat \cup {Nil} /\ Nil \notin Nat
      /\ w = hist[Len(journal) + 1]
      /\ \A i \in 1 .. Len(snaps) : snaps[i] \in Nat /\ snaps[i] <= Len(journal)
  BY FrameFacts, SMTT(60) DEF IInv, SnapshotsNest, Nested
<1>1. CASE AccountOp \/ StorageOp \/ GasOp
  <2>1. OnlyWrites
    BY <1>1, OperationsOnlyWrite
  <2>2. \A i \in 1 .. Len(snaps) : hist'[snaps[i] + 1] = hist[snaps[i] + 1]
    <3>1. \A i \in 1 .. Len(snaps) : snaps[i] + 1 \in 1 .. Len(hist)
      BY <1>0, SMTT(30)
    <3> QED
      BY <2>1, <3>1, HistoryKept
  <2> QED
    BY <2>1, <2>2, WriteStep DEF OnlyWrites, Running, Store!Next
<1>2. CASE Snapshot
  <2>1. /\ Running /\ Running' /\ w' = w /\ hist' = hist
        /\ snaps' = Append(snaps, Len(journal))
    BY <1>2, SMTT(30) DEF Snapshot, Running
  <2>2. Len(snaps') = Len(snaps) + 1 /\ snaps'[Len(snaps) + 1] = Len(journal)
        /\ \A i \in 1 .. Len(snaps) : snaps'[i] = snaps[i]
    BY <1>0, <2>1, AppendProperties, SMTT(30)
  <2>3. saved' = Append(saved, w)
    <3>1. Appended(Append(saved, w), saved, w)
      <4>1. IsList(saved)
        BY <1>0 DEF IsList
      <4> QED
        BY <4>1, AppendShape
    <3>2. Len(saved) = Len(snaps)
      BY <1>0
    <3>3. saved' = [i \in 1 .. Len(snaps) + 1 |-> hist[snaps'[i] + 1]]
      BY <2>1, <2>2
    <3>4. \A i \in 1 .. Len(snaps) + 1 : hist[snaps'[i] + 1] = Append(saved, w)[i]
      <4> SUFFICES ASSUME NEW i \in 1 .. Len(snaps) + 1
                   PROVE  hist[snaps'[i] + 1] = Append(saved, w)[i]
        BY SMTT(30)
      <4>1. CASE i = Len(snaps) + 1
        BY <1>0, <2>2, <3>1, <3>2, <4>1, SMTT(30) DEF Appended
      <4>2. CASE i # Len(snaps) + 1
        <5>1. i \in 1 .. Len(snaps)
          BY <1>0, <4>2
        <5>2. Append(saved, w)[i] = saved[i]
          BY <3>1, <3>2, <5>1 DEF Appended
        <5> QED
          BY <2>2, <5>1, <5>2
      <4> QED
        BY <4>1, <4>2
    <3>5. Append(saved, w) = [i \in 1 .. Len(snaps) + 1 |-> Append(saved, w)[i]]
      <4>1. IsList(Append(saved, w)) /\ Len(Append(saved, w)) = Len(snaps) + 1
        BY <3>1, <3>2, SMTT(30) DEF Appended
      <4> QED
        BY <4>1, Zenon DEF IsList
    <3> HIDE DEF saved
    <3> QED
      BY <3>3, <3>4, <3>5
  <2> QED
    BY <2>1, <2>3 DEF Store!Next, Store!Snapshot
<1>3. CASE Return
  <2>1. /\ Running /\ Running' /\ w' = w /\ hist' = hist /\ Len(snaps) \in 1 .. Len(snaps)
        /\ snaps' = SubSeq(snaps, 1, Len(snaps) - 1)
    BY <1>0, <1>3 DEF Return, Running
  <2>2. Len(snaps') = Len(snaps) - 1 /\ \A i \in 1 .. Len(snaps) - 1 : snaps'[i] = snaps[i]
    BY <1>0, <2>1, NestedPrefix, ZenonT(60) DEF IInv, SnapshotsNest
  <2>3. saved' = SubSeq(saved, 1, Len(snaps) - 1)
    BY <1>0, <2>1, <2>2, SavedPrefix, SMTT(60)
  <2>4. Len(saved) = Len(snaps) /\ saved # << >>
    <3>1. Len(saved) = Len(snaps) /\ Len(snaps) # 0
      BY <1>0, <2>1
    <3>2. Len(<< >>) = 0
      OBVIOUS
    <3> HIDE DEF saved
    <3> QED
      BY <3>1, <3>2, Zenon
  <2> QED
    BY <2>1, <2>3, <2>4, SMTT(30) DEF Store!Next, Store!Discard
<1>4. ASSUME NEW i \in 1 .. Len(snaps), RevertToSnapshot(i) PROVE Store!Next
  <2>1. /\ Running /\ target' = snaps[i] /\ w' = w /\ hist' = hist
        /\ snaps' = SubSeq(snaps, 1, i - 1)
    BY <1>4, SMTT(30) DEF RevertToSnapshot
  <2>2. Len(snaps') = i - 1 /\ \A j \in 1 .. i - 1 : snaps'[j] = snaps[j]
    BY <1>0, <1>4, <2>1, NestedPrefix, SMTT(60) DEF IInv, SnapshotsNest
  <2>3. saved' = SubSeq(saved, 1, i - 1)
    BY <1>0, <1>4, <2>1, <2>2, SavedPrefix, SMTT(60)
  <2>4. Len(saved) = Len(snaps) /\ saved[i] = hist[snaps[i] + 1] /\ ~Running'
    BY <1>0, <1>4, <2>1, SMTT(30) DEF Running
  <2>5. (IF Running THEN w ELSE hist[target + 1])' = saved[i]
    BY <2>1, <2>4
  <2>6. (~Running)' = TRUE
    BY <2>4
  <2>7. Store!Revert(i)
    BY <2>1, <2>3, <2>5, <2>6, Zenon DEF Store!Revert
  <2> QED
    BY <1>4, <2>4, <2>7, Zenon DEF Store!Next
<1>5. CASE RevertEntry
  <2>1. /\ target \in Nat /\ target < Len(journal) /\ ~Running /\ ~Running'
        /\ snaps' = snaps /\ target' = target /\ hist' = SubSeq(hist, 1, Len(journal))
        /\ \A i \in 1 .. Len(snaps) : snaps[i] <= target
    BY <1>0, <1>5, RevertEntryStep, SMTT(60) DEF RevertEntry, Running, IInv, SnapshotsNest, Nested
  <2>2. \A i \in 1 .. Len(journal) : hist'[i] = hist[i]
    BY <1>0, <2>1, SMTT(60)
  <2>3. hist'[target + 1] = hist[target + 1]
    BY <1>0, <2>1, <2>2, SMTT(30)
  <2>4. \A i \in 1 .. Len(snaps) : hist'[snaps[i] + 1] = hist[snaps[i] + 1]
    <3> SUFFICES ASSUME NEW i \in 1 .. Len(snaps)
                 PROVE  hist'[snaps[i] + 1] = hist[snaps[i] + 1]
      OBVIOUS
    <3>1. snaps[i] \in Nat /\ snaps[i] <= target
      BY <1>0, <2>1
    <3>2. Len(journal) \in Nat
      BY <1>0
    <3>3. snaps[i] + 1 \in 1 .. Len(journal)
      BY <2>1, <3>1, <3>2
    <3> QED
      BY <2>2, <3>3
  <2>5. saved' = saved
    BY <2>1, <2>4, Zenon
  <2>6. (~Running)' = ~Running
    BY <2>1
  <2>7. (IF Running THEN w ELSE hist[target + 1])' = IF Running THEN w ELSE hist[target + 1]
    BY <2>1, <2>3
  <2> QED
    BY <2>5, <2>6, <2>7, ZenonT(60) DEF Store!vars
<1>6. CASE RevertDone
  <2>1. /\ target \in Nat /\ target = Len(journal) /\ ~Running /\ Running'
        /\ UNCHANGED <<w, snaps, hist>>
    BY <1>0, <1>6, SMTT(60) DEF RevertDone, Running, IInv, SnapshotsNest
  <2>2. w = hist[target + 1] /\ target' = Nil
    BY <1>0, <1>6, <2>1 DEF RevertDone
  <2>3. Store!Reverted
    BY <2>1, <2>2 DEF Store!Reverted
  <2> QED
    BY <2>3, SMTT(30) DEF Store!Next
<1>7. CASE Finalise
  <2>1. snaps = << >> /\ target = Nil /\ UNCHANGED <<snaps, target>>
    BY <1>7 DEF Finalise, Running
  <2> QED
    BY <2>1, WriteStep, SMTT(30) DEF Store!Next
<1>8. CASE UNCHANGED vars
  BY <1>8 DEF vars, Store!vars, Running
<1> QED
  BY <1>1, <1>2, <1>3, <1>4, <1>5, <1>6, <1>7, <1>8, SMTT(30) DEF Next, FrameOp

\* The journal implements the stack of saved worlds, for any database, inputs and bounds.
THEOREM Refinement ==
  Spec => ImplementsSnapshotStore
<1>1. Init => Store!Init
  <2> SUFFICES ASSUME Init PROVE Store!Init
    OBVIOUS
  <2>1. IInv
    BY InitImpliesIInv
  <2>2. w \in Worlds /\ Running /\ snaps = << >>
    BY <2>1 DEF Init, Running, IInv, TypeOK
  <2>3. [i \in 1 .. Len(snaps) |-> hist[snaps[i] + 1]] = << >>
    BY <2>2
  <2> QED
    BY <2>2, <2>3 DEF Store!Init
<1>2. IInv /\ IInv' /\ [Next]_vars => [Store!Next]_(Store!vars)
  BY StoreStep
<1> QED
  BY <1>1, <1>2, Invariance, PTL DEF Spec, ImplementsSnapshotStore, Store!Spec

=============================================================================

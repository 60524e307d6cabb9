--------------------------- MODULE EVMWorldProofs ---------------------------
(***************************************************************************)
(* What the proofs about the call frames of EVM.tla rest on: the inductive *)
(* invariant, and how worlds, stacks of frames, ether and gas behave under *)
(* the operators of EVM.tla.                                               *)
(*                                                                         *)
(* The argument is about the whole stack of frames.  A revert brings back  *)
(* the world a frame saved, so whatever the frames below it rely on must   *)
(* hold of that saved world too: each frame's snapshot backs the frames    *)
(* below it, and the world backs them all.                                 *)
(***************************************************************************)
EXTENDS EVM, Sums

-----------------------------------------------------------------------------
(* The inductive invariant.                                                 *)

\* The operators of the invariant have the rules R and the database st as parameters, so that
\* a step that changes neither visibly keeps their meaning.
Total(st, w) ==
  Sum([a \in Addr |-> IF w.acct[a].made \/ a \in DOMAIN st THEN w.acct[a].balance ELSE 0])

\* No more ether than a transaction found.
CapIn(R, st, w) ==
  R.eip6780 => \E s \in Start : s.rules = R /\ Total(st, w) <= Total(st, s.world)

\* A world the evm can be in.
WorldIn(R, st, w) ==
  /\ w \in Worlds
  /\ \A a \in Addr : /\ w.acct[a].balance >= 0
                     /\ ~w.acct[a].made /\ a \in DOMAIN st => w.acct[a].code = st[a]
                     /\ a \in Precompiles => w.acct[a].store = 0 /\ ~w.acct[a].gone
  /\ CapIn(R, st, w)

FrameType ==
  [kind : {"CALL", "CALLCODE", "DELEGATECALL", "STATICCALL", "CREATE"},
   self : Addr \ Precompiles, hash : Codes \cup {ZeroHash}, code : Codes, gas : Nat,
   before : Worlds, snapshot : Worlds, analysis : Codes \cup {None}, static : BOOLEAN]

\* A frame by itself: a failure brings back the world the instruction found, and the code
\* hash, where there is one, and the analysis are those of the frame's code.
FrameIn(R, st, f) ==
  /\ f \in FrameType
  /\ f.hash \in {ZeroHash, f.code}
  /\ f.analysis \in {None, f.code}
  /\ f.snapshot = f.before
  /\ WorldIn(R, st, f.snapshot)

\* World w is one the first n frames can go on in.
BacksIn(R, fs, n, w) ==
  \A i \in 1 .. n :
    /\ R.berlin => fs[i].self \in w.warm
    /\ fs[i].kind = "CREATE" => w.acct[fs[i].self].made
    /\ fs[i].kind = "STATICCALL" => Contents(w) = Contents(fs[i].before)

\* The read-only flag is ro, and the outermost static frame is the one that set it.
FlagsIn(R, fs, ro) ==
  /\ ro \in BOOLEAN
  /\ ro <=> \E i \in 1 .. Len(fs) : fs[i].kind = "STATICCALL"
  /\ ro => R.byzantium
  /\ \A i \in 1 .. Len(fs) :
       /\ fs[i].static <=> /\ fs[i].kind = "STATICCALL"
                           /\ \A j \in 1 .. i - 1 : fs[j].kind # "STATICCALL"
       /\ fs[i].kind = "CREATE" => \A j \in 1 .. i - 1 : fs[j].kind # "STATICCALL"

StackIn(R, st, fs, w, ro) ==
  /\ fs \in Seq(FrameType)
  /\ \A i \in 1 .. Len(fs) : FrameIn(R, st, fs[i])
  /\ WorldIn(R, st, w)
  /\ BacksIn(R, fs, Len(fs), w)
  /\ \A j \in 1 .. Len(fs) : BacksIn(R, fs, j - 1, fs[j].snapshot)
  /\ FlagsIn(R, fs, ro)

Capped(w) == CapIn(rules, stored, w)
WorldOK(w) == WorldIn(rules, stored, w)
FrameOK(f) == FrameIn(rules, stored, f)
Backs(fs, n, w) == BacksIn(rules, fs, n, w)
Flags(fs, ro) == FlagsIn(rules, fs, ro)
Stack(fs, w, ro) == StackIn(rules, stored, fs, w, ro)

\* The analyses are kept under the hashes of their codes.
Analyses == \A h \in DOMAIN jumpdests : h # ZeroHash /\ jumpdests[h] = h

Counters ==
  /\ limit \in Nat /\ spent \in Int /\ abort \in BOOLEAN
  /\ result.gas \in Nat
  /\ result.err = "none" => result.gas = limit
  /\ rules.byzantium => rules.eip158

IInv == Stack(frames, world, readOnly) /\ Analyses /\ Counters /\ GasConserved

-----------------------------------------------------------------------------
(* Ether.                                                                   *)

Balances(w) == [a \in Addr |-> GetBalance(w, a)]

\* A balance shown is no more than the balance there.
LEMMA BalanceFacts ==
  ASSUME NEW w \in Worlds, NEW a \in Addr
  PROVE  /\ w.acct[a] \in Accounts /\ w.acct[a].balance \in Int /\ GetBalance(w, a) \in Int
         /\ \/ GetBalance(w, a) = w.acct[a].balance
            \/ GetBalance(w, a) = 0 /\ ~w.acct[a].made /\ a \notin DOMAIN stored
         /\ w.acct[a].balance >= 0 => /\ GetBalance(w, a) >= 0
                                      /\ GetBalance(w, a) <= w.acct[a].balance
<1>1. w.acct[a] \in Accounts
  BY DEF Worlds
<1>2. w.acct[a].balance \in Int
  BY <1>1 DEF Accounts
<1> QED
  BY <1>1, <1>2 DEF GetBalance

\* The sum of the balances is a number.
LEMMA EtherTyped ==
  ASSUME NEW w \in Worlds
  PROVE  Balances(w) \in [Addr -> Int] /\ Ether(w) \in Int
<1>1. Balances(w) \in [Addr -> Int]
  BY BalanceFacts DEF Balances
<1>2. FoldFunction(+, 0, Balances(w)) \in Int
  BY <1>1, SumTyped, CodeAssumption, Zenon
<1> QED
  BY <1>1, <1>2, Zenon DEF Ether, Sum, Balances

\* A change of one account changes the sum by the change of its balance.
LEMMA EtherPoint ==
  ASSUME NEW w \in Worlds, NEW v \in Worlds, NEW a \in Addr,
         \A b \in Addr : b # a => /\ v.acct[b].balance = w.acct[b].balance
                                  /\ v.acct[b].made = w.acct[b].made
  PROVE  Ether(v) = Ether(w) - GetBalance(w, a) + GetBalance(v, a)
<1> DEFINE f == Balances(w)
           x == GetBalance(v, a)
<1>1. f \in [Addr -> Int] /\ x \in Int
  BY EtherTyped, BalanceFacts
<1>2. \A b \in Addr : b # a => GetBalance(v, b) = GetBalance(w, b)
  BY DEF GetBalance
<1>3. Balances(v) = [f EXCEPT ![a] = x]
  BY <1>2, Zenon DEF Balances
<1>4. f[a] = GetBalance(w, a)
  BY DEF Balances
<1> HIDE DEF f, x
<1>5. FoldFunction(+, 0, [f EXCEPT ![a] = x]) = FoldFunction(+, 0, f) - f[a] + x
  BY <1>1, SumUpdate, CodeAssumption, ZenonT(60)
<1>6. Sum(Balances(v)) = Sum(f) - f[a] + x
  BY <1>3, <1>5, Zenon DEF Sum
<1>7. Ether(v) = Sum(Balances(v)) /\ Ether(w) = Sum(f)
  BY Zenon DEF Ether, Balances, f
<1> QED
  BY <1>4, <1>6, <1>7 DEF x

\* The two sums are one.
LEMMA TotalIsEther ==
  \A w : Total(stored, w) = Ether(w)
BY Zenon DEF Total, Ether, GetBalance

\* A world with no more ether than a capped one is capped.
LEMMA CapStays ==
  ASSUME NEW w \in Worlds, NEW v \in Worlds, Capped(w), rules.eip6780 => Ether(v) <= Ether(w)
  PROVE  Capped(v)
<1> SUFFICES ASSUME rules.eip6780
             PROVE  \E s \in Start : s.rules = rules /\ Ether(v) <= Ether(s.world)
  BY TotalIsEther DEF Capped, CapIn
<1>1. PICK s \in Start : s.rules = rules /\ Ether(w) <= Ether(s.world)
  BY TotalIsEther DEF Capped, CapIn
<1>2. Ether(s.world) \in Int /\ Ether(w) \in Int /\ Ether(v) \in Int
  BY EtherTyped, StartAssumption
<1> QED
  BY <1>1, <1>2

-----------------------------------------------------------------------------
(* Worlds.                                                                  *)

\* A step from w to v within a frame, or into one.
Grows(w, v) ==
  /\ WorldOK(v)
  /\ w.warm \subseteq v.warm
  /\ \A a \in Addr : w.acct[a].made => v.acct[a].made

\* Such steps compose.
LEMMA GrowsTransitive ==
  ASSUME NEW w, NEW v, NEW u, Grows(w, v), Grows(v, u)
  PROVE  Grows(w, u)
BY DEF Grows

\* A change of one account.
LEMMA PointOK ==
  ASSUME NEW w, WorldOK(w), NEW v \in Worlds, NEW a \in Addr, w.warm \subseteq v.warm,
         \A b \in Addr : b # a => v.acct[b] = w.acct[b],
         v.acct[a].balance >= 0,
         w.acct[a].made => v.acct[a].made,
         ~v.acct[a].made /\ a \in DOMAIN stored => v.acct[a].code = stored[a],
         a \in Precompiles => v.acct[a].store = 0 /\ ~v.acct[a].gone,
         rules.eip6780 => GetBalance(v, a) <= GetBalance(w, a)
  PROVE  Grows(w, v)
<1>1. w \in Worlds /\ Capped(w)
  BY DEF WorldOK, WorldIn, Capped
<1>2. Capped(v)
  <2>1. Ether(v) = Ether(w) - GetBalance(w, a) + GetBalance(v, a)
    BY <1>1, EtherPoint
  <2>2. Ether(v) \in Int /\ Ether(w) \in Int
    BY <1>1, EtherTyped
  <2>3. GetBalance(w, a) \in Int /\ GetBalance(v, a) \in Int
    BY <1>1, BalanceFacts
  <2>4. rules.eip6780 => Ether(v) <= Ether(w)
    BY <2>1, <2>2, <2>3
  <2> QED
    BY <1>1, <2>4, CapStays
<1>3. ASSUME NEW b \in Addr
      PROVE  /\ v.acct[b].balance >= 0
             /\ ~v.acct[b].made /\ b \in DOMAIN stored => v.acct[b].code = stored[b]
             /\ b \in Precompiles => v.acct[b].store = 0 /\ ~v.acct[b].gone
             /\ w.acct[b].made => v.acct[b].made
  <2>1. CASE b = a
    BY <2>1
  <2>2. CASE b # a
    BY <2>2 DEF WorldOK, WorldIn, Capped
  <2> QED
    BY <2>1, <2>2
<1> QED
  BY <1>2, <1>3 DEF Grows, WorldOK, WorldIn, Capped

\* A world that differs in its access list only.
LEMMA WarmOK ==
  ASSUME NEW w, WorldOK(w), NEW v \in Worlds, v.acct = w.acct, w.warm \subseteq v.warm
  PROVE  Grows(w, v) /\ Contents(v) = Contents(w)
<1>1. w \in Worlds /\ Capped(w)
  BY DEF WorldOK, WorldIn, Capped
<1>2. Balances(v) = Balances(w)
  BY DEF Balances, GetBalance
<1>3. Ether(v) = Ether(w)
  <2>1. Ether(v) = Sum(Balances(v)) /\ Ether(w) = Sum(Balances(w))
    BY Zenon DEF Ether, Balances
  <2> QED
    BY <1>2, <2>1
<1>4. Capped(v)
  BY <1>1, <1>3, TotalIsEther DEF Capped, CapIn
<1> QED
  BY <1>4 DEF WorldOK, Grows, Contents, WorldIn, Capped

\* An account's balance changes, and nothing else does.
Rebalanced(w, v, a, n) ==
  /\ v \in Worlds /\ v.warm = w.warm
  /\ \A b \in Addr : /\ v.acct[b].made = w.acct[b].made /\ v.acct[b].nonce = w.acct[b].nonce
                     /\ v.acct[b].code = w.acct[b].code /\ v.acct[b].store = w.acct[b].store
                     /\ v.acct[b].gone = w.acct[b].gone
                     /\ v.acct[b].balance = IF b = a THEN n ELSE w.acct[b].balance

\* A world with one balance set.
LEMMA BalanceSet ==
  ASSUME NEW w \in Worlds, NEW a \in Addr, NEW n \in Int
  PROVE  Rebalanced(w, [w EXCEPT !.acct[a].balance = n], a, n)
<1> DEFINE v == [w EXCEPT !.acct[a].balance = n]
           c == [w.acct[a] EXCEPT !.balance = n]
<1>1. /\ w.acct \in [Addr -> Accounts] /\ w.warm \in SUBSET Addr
      /\ w = [acct |-> w.acct, warm |-> w.warm] /\ w.acct[a] \in Accounts
  BY DEF Worlds
<1>2. /\ c \in Accounts /\ c.balance = n /\ c.made = w.acct[a].made
      /\ c.nonce = w.acct[a].nonce /\ c.code = w.acct[a].code /\ c.store = w.acct[a].store
      /\ c.gone = w.acct[a].gone
  BY <1>1 DEF Accounts
<1>3. v = [w EXCEPT !.acct[a] = c]
  OBVIOUS
<1> HIDE DEF c, v
<1>4. /\ v.warm = w.warm /\ v.acct = [w.acct EXCEPT ![a] = c]
      /\ v = [acct |-> v.acct, warm |-> v.warm]
  BY <1>1, <1>3
<1>5. v.acct[a] = c /\ \A b \in Addr : b # a => v.acct[b] = w.acct[b]
  BY <1>1, <1>4
<1>6. v \in Worlds
  BY <1>1, <1>2, <1>4 DEF Worlds
<1>7. Rebalanced(w, v, a, n)
  BY <1>2, <1>4, <1>5, <1>6 DEF Rebalanced
<1> QED
  BY <1>7 DEF v

\* AddBalance and SubBalance are such changes.
LEMMA BalanceChanges ==
  ASSUME NEW w \in Worlds, NEW a \in Addr, NEW n \in Int
  PROVE  /\ Rebalanced(w, AddBalance(w, a, n), a, w.acct[a].balance + n)
         /\ Rebalanced(w, SubBalance(w, a, n), a, w.acct[a].balance - n)
<1>1. w.acct[a].balance + n \in Int /\ w.acct[a].balance - n \in Int
  BY BalanceFacts
<1>2. AddBalance(w, a, n) = [w EXCEPT !.acct[a].balance = w.acct[a].balance + n]
  BY DEF AddBalance
<1>3. SubBalance(w, a, n) = [w EXCEPT !.acct[a].balance = w.acct[a].balance - n]
  BY DEF SubBalance
<1> QED
  BY <1>1, <1>2, <1>3, BalanceSet

\* A transfer whose sender shows the value.
LEMMA TransferOK ==
  ASSUME NEW w, WorldOK(w), NEW from \in Addr, NEW to \in Addr, NEW value \in Nat,
         GetBalance(w, from) >= value
  PROVE  LET v == Transfer(w, from, to, value)
         IN  /\ Grows(w, v) /\ v.warm = w.warm
             /\ \A b \in Addr : v.acct[b].made = w.acct[b].made
             /\ value = 0 => Contents(v) = Contents(w)
<1> DEFINE m == SubBalance(w, from, value)
           debited == m.acct
           v == Transfer(w, from, to, value)
<1>0. w \in Worlds /\ Capped(w) /\ w.acct \in [Addr -> Accounts] /\ w.warm \in SUBSET Addr
  BY DEF WorldOK, Worlds, WorldIn, Capped
<1>1. Rebalanced(w, m, from, w.acct[from].balance - value)
  BY <1>0, BalanceChanges
<1>2. m \in Worlds
  BY <1>1 DEF Rebalanced
<1>3. Rebalanced(m, v, to, m.acct[to].balance + value)
  BY <1>2, BalanceChanges DEF Transfer
<1> HIDE DEF m, v
<1>4. m.acct = debited /\ m.warm = w.warm /\ v.warm = w.warm
  BY <1>1, <1>3 DEF Rebalanced
<1>5. v \in Worlds
  BY <1>3 DEF Rebalanced
<1>6. \A b \in Addr : /\ debited[b].made = w.acct[b].made /\ debited[b].nonce = w.acct[b].nonce
                      /\ debited[b].code = w.acct[b].code /\ debited[b].store = w.acct[b].store
                      /\ debited[b].gone = w.acct[b].gone
                      /\ debited[b].balance
                           = IF b = from THEN w.acct[b].balance - value ELSE w.acct[b].balance
  BY <1>1 DEF Rebalanced
<1>7. \A b \in Addr : /\ v.acct[b].made = debited[b].made /\ v.acct[b].nonce = debited[b].nonce
                      /\ v.acct[b].code = debited[b].code /\ v.acct[b].store = debited[b].store
                      /\ v.acct[b].gone = debited[b].gone
                      /\ v.acct[b].balance
                           = IF b = to THEN debited[b].balance + value ELSE debited[b].balance
  BY <1>3 DEF Rebalanced
<1> HIDE DEF debited
<1>8. \A b \in Addr : w.acct[b].balance \in Int /\ w.acct[b].balance >= 0
  BY <1>0, BalanceFacts DEF WorldOK, WorldIn, Capped
<1>9. w.acct[from].balance >= value
  BY <1>0, <1>8, BalanceFacts
<1>10. \A b \in Addr : debited[b].balance \in Int /\ debited[b].balance >= 0
                       /\ v.acct[b].balance \in Int /\ v.acct[b].balance >= 0
  BY <1>6, <1>7, <1>8, <1>9
<1>11. Ether(v) <= Ether(w)
  <2>1. Ether(m) = Ether(w) - GetBalance(w, from) + GetBalance(m, from)
    BY <1>0, <1>2, <1>4, <1>6, EtherPoint
  <2>2. Ether(v) = Ether(m) - GetBalance(m, to) + GetBalance(v, to)
    BY <1>2, <1>4, <1>5, <1>7, EtherPoint
  <2>3. GetBalance(w, from) \in Int /\ GetBalance(m, from) \in Int /\ GetBalance(m, to) \in Int
        /\ GetBalance(v, to) \in Int /\ Ether(w) \in Int /\ Ether(m) \in Int /\ Ether(v) \in Int
    BY <1>0, <1>2, <1>5, BalanceFacts, EtherTyped
  <2>4. GetBalance(m, from) <= GetBalance(w, from) - value
    <3>1. CASE w.acct[from].made \/ from \in DOMAIN stored
      <4>1. /\ GetBalance(m, from) = w.acct[from].balance - value
            /\ GetBalance(w, from) = w.acct[from].balance
        BY <1>4, <1>6, <3>1 DEF GetBalance
      <4> QED
        BY <1>8, <4>1
    <3>2. CASE ~(w.acct[from].made \/ from \in DOMAIN stored)
      BY <1>4, <1>6, <3>2 DEF GetBalance
    <3> QED
      BY <3>1, <3>2
  <2>5. GetBalance(v, to) <= GetBalance(m, to) + value
    <3>1. CASE debited[to].made \/ to \in DOMAIN stored
      <4>1. /\ GetBalance(v, to) = debited[to].balance + value
            /\ GetBalance(m, to) = debited[to].balance
        BY <1>4, <1>7, <3>1 DEF GetBalance
      <4> QED
        BY <1>10, <4>1
    <3>2. CASE ~(debited[to].made \/ to \in DOMAIN stored)
      BY <1>4, <1>7, <3>2 DEF GetBalance
    <3> QED
      BY <3>1, <3>2
  <2> QED
    BY <2>1, <2>2, <2>3, <2>4, <2>5
<1>12. Capped(v)
  BY <1>0, <1>5, <1>11, CapStays
<1>13. Grows(w, v)
  <2>1. \A b \in Addr : /\ w.acct[b].made = v.acct[b].made /\ v.acct[b].code = w.acct[b].code
                        /\ v.acct[b].store = w.acct[b].store /\ v.acct[b].gone = w.acct[b].gone
    BY <1>6, <1>7
  <2>2. WorldOK(v)
    BY <1>5, <1>10, <1>12, <2>1 DEF WorldOK, WorldIn, Capped
  <2> QED
    BY <1>4, <2>1, <2>2 DEF Grows
<1>14. ASSUME value = 0 PROVE Contents(v) = Contents(w)
  <2>1. \A b \in Addr : v.acct[b].balance = w.acct[b].balance
    BY <1>6, <1>7, <1>8, <1>10, <1>14
  <2> QED
    BY <1>6, <1>7, <2>1 DEF Contents
<1> QED
  BY <1>4, <1>6, <1>7, <1>13, <1>14 DEF v

\* The hash an account shows is none, or that of its code.
LEMMA HashFacts ==
  ASSUME NEW w, WorldOK(w), NEW a \in Addr
  PROVE  /\ GetCodeHash(w, a) \in {ZeroHash, w.acct[a].code} /\ w.acct[a].code \in Codes
         /\ CodeAddress(w, a) \in Addr
         /\ resolveCode(w, a) \in Codes
         /\ resolveCodeHash(w, a) \in {ZeroHash, resolveCode(w, a)}
         /\ ~w.acct[a].made => GetCodeHash(w, a) = w.acct[a].code
         /\ w.acct[a].made => GetCodeHash(w, a) = ZeroHash
<1>1. w \in Worlds
  BY DEF WorldOK, WorldIn, Capped
<1>2. ASSUME NEW b \in Addr
      PROVE  /\ GetCodeHash(w, b) \in {ZeroHash, w.acct[b].code} /\ w.acct[b].code \in Codes
             /\ ~w.acct[b].made => GetCodeHash(w, b) = w.acct[b].code
             /\ w.acct[b].made => GetCodeHash(w, b) = ZeroHash
  <2>1. w.acct[b] \in Accounts
    BY <1>1, BalanceFacts
  <2>2. w.acct[b].code \in Codes /\ w.acct[b].made \in BOOLEAN
    BY <2>1 DEF Accounts
  <2>3. ~w.acct[b].made /\ b \in DOMAIN stored => w.acct[b].code = stored[b]
    BY DEF WorldOK, WorldIn, Capped
  <2> QED
    BY <2>2, <2>3 DEF GetCodeHash
<1>3. CodeAddress(w, a) \in Addr
  BY <1>2, CodeAssumption DEF CodeAddress
<1> QED
  BY <1>2, <1>3 DEF resolveCode, resolveCodeHash

\* What CreateAccount makes of an account.
Blank(c, n) == [c EXCEPT !.balance = n, !.made = TRUE, !.gone = FALSE, !.nonce = 0,
                         !.code = EmptyCode, !.store = 0]

\* It is an account again.
LEMMA BlankFacts ==
  ASSUME NEW c \in Accounts, NEW n \in Int
  PROVE  /\ Blank(c, n) \in Accounts /\ Blank(c, n).balance = n /\ Blank(c, n).made = TRUE
         /\ Blank(c, n).gone = FALSE /\ Blank(c, n).nonce = 0 /\ Blank(c, n).code = EmptyCode
         /\ Blank(c, n).store = 0
<1> DEFINE d == [c EXCEPT !.balance = n, !.made = TRUE]
           e == [d EXCEPT !.gone = FALSE, !.nonce = 0]
           g == [e EXCEPT !.code = EmptyCode]
           r == [g EXCEPT !.store = 0]
<1>1. d \in Accounts /\ d.balance = n /\ d.made = TRUE
  BY Zenon DEF Accounts
<1>2. Blank(c, n) = r
  BY DEF Blank
<1> HIDE DEF d
<1>3. /\ e \in Accounts /\ e.balance = n /\ e.made = TRUE /\ e.gone = FALSE
      /\ e.nonce = 0
  BY <1>1, Zenon DEF Accounts
<1> HIDE DEF e
<1>4. EmptyCode \in Codes
  BY CodeAssumption
<1>5. /\ g \in Accounts /\ g.balance = n /\ g.made = TRUE /\ g.gone = FALSE
      /\ g.nonce = 0 /\ g.code = EmptyCode
  BY <1>3, <1>4 DEF Accounts
<1> HIDE DEF g
<1>6. 0 \in 0 .. 1
  OBVIOUS
<1>7. /\ r \in Accounts /\ r.balance = n /\ r.made = TRUE /\ r.gone = FALSE
      /\ r.nonce = 0 /\ r.code = EmptyCode /\ r.store = 0
  BY <1>5, <1>6 DEF Accounts
<1> HIDE DEF r
<1> QED
  BY <1>2, <1>7

\* A new object keeps no more than the balance shown.
LEMMA CreateOK ==
  ASSUME NEW w, WorldOK(w), NEW a \in Addr
  PROVE  LET v == CreateAccount(w, a)
         IN  /\ Grows(w, v) /\ v.warm = w.warm /\ v.acct[a].made
             /\ \A b \in Addr : b # a => /\ v.acct[b] = w.acct[b]
                                          /\ GetBalance(v, b) = GetBalance(w, b)
             /\ ~w.acct[a].gone => GetBalance(v, a) = GetBalance(w, a)
             /\ a \in Precompiles /\ ~Exist(w, a) => Contents(v) = Contents(w)
<1> DEFINE n == IF w.acct[a].gone THEN 0 ELSE GetBalance(w, a)
           v == CreateAccount(w, a)
<1>0. /\ w \in Worlds /\ w.acct \in [Addr -> Accounts] /\ w.warm \in SUBSET Addr
      /\ w.acct[a] \in Accounts /\ w.acct[a].balance >= 0
  BY DEF WorldOK, Worlds, WorldIn, Capped
<1>1. n \in Int /\ n >= 0 /\ n <= GetBalance(w, a) /\ GetBalance(w, a) \in Int
  BY <1>0, BalanceFacts
<1> HIDE DEF n
<1> DEFINE r == Blank(w.acct[a], n)
<1>2. /\ r \in Accounts /\ r.balance = n /\ r.made = TRUE /\ r.gone = FALSE /\ r.nonce = 0
      /\ r.code = EmptyCode /\ r.store = 0
  BY <1>0, <1>1, BlankFacts, ZenonT(60)
<1>3. v = [w EXCEPT !.acct[a] = r]
  BY DEF CreateAccount, Blank, n
<1> HIDE DEF v, r
<1>4. /\ v \in Worlds /\ v.warm = w.warm /\ v.acct[a] = r
      /\ \A b \in Addr : b # a => v.acct[b] = w.acct[b]
  BY <1>0, <1>2, <1>3 DEF Worlds
<1>5. /\ GetBalance(v, a) = n
      /\ \A b \in Addr : b # a => GetBalance(v, b) = GetBalance(w, b)
  BY <1>2, <1>4 DEF GetBalance
<1>6. Grows(w, v)
  <2>1. /\ v.acct[a].balance >= 0 /\ v.acct[a].made /\ v.acct[a].store = 0 /\ ~v.acct[a].gone
        /\ GetBalance(v, a) <= GetBalance(w, a)
    BY <1>1, <1>2, <1>4, <1>5
  <2> QED
    BY <1>4, <2>1, PointOK
<1>7. ASSUME a \in Precompiles, ~Exist(w, a)
      PROVE  Contents(v) = Contents(w)
  <2>1. w.acct[a].balance = 0 /\ w.acct[a].nonce = 0 /\ GetCodeHash(w, a) = EmptyCode
    BY <1>7 DEF Exist
  <2>2. w.acct[a].store = 0 /\ ~w.acct[a].gone /\ w.acct[a].gone \in BOOLEAN
    BY <1>0, <1>7 DEF WorldOK, Accounts, WorldIn, Capped
  <2>3. w.acct[a].code = EmptyCode
    BY <2>1, HashFacts, CodeAssumption
  <2>4. n = 0
    BY <1>0, <1>1, <2>1, <2>2, BalanceFacts DEF n
  <2>5. \A b \in Addr : <<v.acct[b].balance, v.acct[b].nonce, v.acct[b].code, v.acct[b].store,
                          v.acct[b].gone>>
                        = <<w.acct[b].balance, w.acct[b].nonce, w.acct[b].code,
                            w.acct[b].store, w.acct[b].gone>>
    BY <1>2, <1>4, <2>1, <2>2, <2>3, <2>4, Zenon
  <2> QED
    BY <2>5 DEF Contents
<1> QED
  BY <1>2, <1>4, <1>5, <1>6, <1>7 DEF v, n

-----------------------------------------------------------------------------
(* Stacks of frames.                                                        *)

\* A sequence is given by its elements.
LEMMA SameElements ==
  ASSUME NEW S, NEW s \in Seq(S), NEW t \in Seq(S), Len(s) = Len(t),
         \A i \in 1 .. Len(s) : s[i] = t[i]
  PROVE  s = t
OBVIOUS

\* The last element of a sequence and those before it.
LEMMA FrontFacts ==
  ASSUME NEW S, NEW fs \in Seq(S), fs # << >>
  PROVE  /\ Len(fs) \in Nat /\ Len(fs) >= 1
         /\ Front(fs) \in Seq(S) /\ Len(Front(fs)) = Len(fs) - 1
         /\ \A i \in 1 .. Len(fs) - 1 : Front(fs)[i] = fs[i]
         /\ Last(fs) = fs[Len(fs)] /\ Last(fs) \in S
<1>1. Len(fs) \in Nat
  OBVIOUS
<1>2. Len(fs) # 0
  <2>1. Len(fs) = 0 => fs = << >>
    BY SameElements
  <2> QED BY <2>1
<1>3. Len(fs) \in Nat /\ Len(fs) >= 1
  BY <1>1, <1>2
<1> QED
  BY <1>3, SMTT(30) DEF Front, Last

\* Adding an element at the end.
LEMMA AppendFacts ==
  ASSUME NEW S, NEW fs \in Seq(S), NEW f \in S
  PROVE  /\ Append(fs, f) \in Seq(S) /\ Append(fs, f) # << >> /\ Len(fs) \in Nat
         /\ Len(Append(fs, f)) = Len(fs) + 1
         /\ \A i \in 1 .. Len(fs) : Append(fs, f)[i] = fs[i]
         /\ Append(fs, f)[Len(fs) + 1] = f
OBVIOUS

\* A frame whose gas or analysis was changed.
Like(f, g) ==
  /\ g.kind = f.kind /\ g.self = f.self /\ g.static = f.static
  /\ g.before = f.before /\ g.snapshot = f.snapshot

\* Neither matters to the other frames.
LEMMA StackLike ==
  ASSUME NEW fs, NEW w, NEW ro, Stack(fs, w, ro), NEW gs \in Seq(FrameType), Len(gs) = Len(fs),
         \A i \in 1 .. Len(fs) : Like(fs[i], gs[i]) /\ FrameOK(gs[i])
  PROVE  Stack(gs, w, ro)
<1>0. Len(fs) \in Nat
  BY DEF Stack, StackIn, WorldOK, FrameOK, Backs, Flags
<1>1. ASSUME NEW v, NEW n \in 0 .. Len(fs), Backs(fs, n, v)
      PROVE  Backs(gs, n, v)
  BY <1>0, <1>1 DEF Backs, Like, BacksIn
<1>2. Backs(gs, Len(gs), w)
  BY <1>0, <1>1 DEF Stack, StackIn, WorldOK, FrameOK, Backs, Flags
<1>3. \A j \in 1 .. Len(gs) : Backs(gs, j - 1, gs[j].snapshot)
  <2> SUFFICES ASSUME NEW j \in 1 .. Len(gs) PROVE Backs(gs, j - 1, gs[j].snapshot)
    OBVIOUS
  <2>1. j \in 1 .. Len(fs) /\ j - 1 \in 0 .. Len(fs) /\ gs[j].snapshot = fs[j].snapshot
    BY <1>0 DEF Like
  <2>2. Backs(fs, j - 1, fs[j].snapshot)
    BY <2>1 DEF Stack, StackIn, WorldOK, FrameOK, Backs, Flags
  <2> QED
    BY <1>1, <2>1, <2>2
<1>4. Flags(gs, ro)
  <2>1. Flags(fs, ro)
    BY DEF Stack, StackIn, WorldOK, FrameOK, Backs, Flags
  <2>2. \A i \in 1 .. Len(fs) : gs[i].kind = fs[i].kind /\ gs[i].static = fs[i].static
    BY DEF Like
  <2>3. \A i \in 1 .. Len(fs) : \A j \in 1 .. i - 1 : j \in 1 .. Len(fs)
    BY <1>0
  <2> QED
    BY <2>1, <2>2, <2>3 DEF Flags, FlagsIn
<1> QED
  BY <1>2, <1>3, <1>4 DEF Stack, StackIn, WorldOK, FrameOK, Backs, Flags

\* Changing the gas or the analysis of the innermost frame.
LEMMA StackTop ==
  ASSUME NEW fs, NEW w, NEW ro, Stack(fs, w, ro), fs # << >>,
         NEW g, FrameOK(g), Like(Last(fs), g)
  PROVE  Stack(Append(Front(fs), g), w, ro)
<1> DEFINE gs == Append(Front(fs), g)
<1>0. fs \in Seq(FrameType) /\ g \in FrameType
  BY DEF Stack, FrameOK, StackIn, WorldOK, Backs, Flags, FrameIn
<1>1. /\ Len(fs) \in Nat /\ Len(fs) >= 1 /\ Front(fs) \in Seq(FrameType)
      /\ Len(Front(fs)) = Len(fs) - 1
      /\ \A i \in 1 .. Len(fs) - 1 : Front(fs)[i] = fs[i]
      /\ Last(fs) = fs[Len(fs)]
  BY <1>0, FrontFacts, SMTT(30)
<1>2. /\ gs \in Seq(FrameType) /\ Len(gs) = Len(fs)
      /\ \A i \in 1 .. Len(fs) - 1 : gs[i] = fs[i]
      /\ gs[Len(fs)] = g
  BY <1>0, <1>1, AppendFacts, SMTT(30)
<1> HIDE DEF gs
<1>3. ASSUME NEW i \in 1 .. Len(fs)
      PROVE  Like(fs[i], gs[i]) /\ FrameOK(gs[i])
  <2>1. CASE i = Len(fs)
    BY <1>1, <1>2, <2>1
  <2>2. CASE i # Len(fs)
    <3>1. gs[i] = fs[i]
      BY <1>1, <1>2, <2>2
    <3>2. FrameOK(fs[i])
      BY DEF Stack, StackIn, WorldOK, FrameOK, Backs, Flags
    <3> QED
      BY <3>1, <3>2 DEF Like
  <2> QED
    BY <2>1, <2>2
<1>4. Stack(gs, w, ro)
  BY <1>2, <1>3, StackLike
<1> QED
  BY <1>4 DEF gs

\* The caller gets gas back.
LEMMA StackRepaid ==
  ASSUME NEW fs, NEW w, NEW ro, Stack(fs, w, ro), NEW gas \in Nat
  PROVE  Stack(Repaid(fs, gas), w, ro)
<1>1. CASE fs = << >>
  BY <1>1 DEF Repaid
<1>2. CASE fs # << >>
  <2> DEFINE gs == [fs EXCEPT ![Len(fs)].gas = @ + gas]
             g == [fs[Len(fs)] EXCEPT !.gas = @ + gas]
  <2>0. fs \in Seq(FrameType) /\ Len(fs) \in Nat /\ Len(fs) >= 1
    BY <1>2, FrontFacts DEF Stack, StackIn, WorldOK, FrameOK, Backs, Flags
  <2>1. FrameOK(fs[Len(fs)]) /\ fs[Len(fs)] \in FrameType
    BY <2>0 DEF Stack, FrameOK, StackIn, WorldOK, Backs, Flags, FrameIn
  <2>2. FrameOK(g) /\ Like(fs[Len(fs)], g)
    <3>1. fs[Len(fs)].gas + gas \in Nat
      BY <2>1 DEF FrameType
    <3>2. /\ g \in FrameType /\ g.kind = fs[Len(fs)].kind /\ g.self = fs[Len(fs)].self
          /\ g.hash = fs[Len(fs)].hash /\ g.code = fs[Len(fs)].code
          /\ g.before = fs[Len(fs)].before /\ g.snapshot = fs[Len(fs)].snapshot
          /\ g.analysis = fs[Len(fs)].analysis /\ g.static = fs[Len(fs)].static
      BY <2>1, <3>1 DEF FrameType
    <3> HIDE DEF g
    <3> QED
      BY <2>1, <3>2 DEF FrameOK, Like, FrameIn, WorldOK
  <2> HIDE DEF g
  <2>3. /\ gs \in Seq(FrameType) /\ Len(gs) = Len(fs) /\ gs[Len(fs)] = g
        /\ \A i \in 1 .. Len(fs) : i # Len(fs) => gs[i] = fs[i]
    <3>1. gs = [fs EXCEPT ![Len(fs)] = g]
      BY DEF g
    <3>2. g \in FrameType
      BY <2>2 DEF FrameOK, FrameIn, WorldOK
    <3> HIDE DEF gs
    <3> QED
      BY <2>0, <3>1, <3>2
  <2>4. ASSUME NEW i \in 1 .. Len(fs) PROVE Like(fs[i], gs[i]) /\ FrameOK(gs[i])
    <3>1. CASE i = Len(fs)
      BY <2>2, <2>3, <3>1
    <3>2. CASE i # Len(fs)
      <4>1. gs[i] = fs[i] /\ FrameOK(fs[i])
        BY <2>3, <3>2 DEF Stack, StackIn, WorldOK, FrameOK, Backs, Flags
      <4> QED
        BY <4>1 DEF Like
    <3> QED
      BY <3>1, <3>2
  <2> HIDE DEF gs
  <2>5. Stack(gs, w, ro)
    BY <2>3, <2>4, StackLike
  <2> QED
    BY <1>2, <2>5 DEF Repaid, gs
<1> QED
  BY <1>1, <1>2

\* What backs frames goes on backing them through a step; a static frame sees no change.
LEMMA BacksGrows ==
  ASSUME NEW fs, NEW n, NEW w, NEW v, Backs(fs, n, w), Grows(w, v),
         \A i \in 1 .. n : fs[i].self \in Addr,
         (\E i \in 1 .. n : fs[i].kind = "STATICCALL") => Contents(v) = Contents(w)
  PROVE  Backs(fs, n, v)
<1> SUFFICES ASSUME NEW i \in 1 .. n
             PROVE  /\ rules.berlin => fs[i].self \in v.warm
                    /\ fs[i].kind = "CREATE" => v.acct[fs[i].self].made
                    /\ fs[i].kind = "STATICCALL" => Contents(v) = Contents(fs[i].before)
  BY DEF Backs, BacksIn
<1>1. /\ rules.berlin => fs[i].self \in w.warm
      /\ fs[i].kind = "CREATE" => w.acct[fs[i].self].made
      /\ fs[i].kind = "STATICCALL" => Contents(w) = Contents(fs[i].before)
  BY DEF Backs, BacksIn
<1> QED
  BY <1>1, SMTT(30) DEF Grows

\* The stack in a world a step has led to.
LEMMA StackWorld ==
  ASSUME NEW fs, NEW w, NEW ro, Stack(fs, w, ro), NEW v, Grows(w, v),
         ro => Contents(v) = Contents(w)
  PROVE  Stack(fs, v, ro) /\ Backs(fs, Len(fs), v)
<1>1. \A i \in 1 .. Len(fs) : fs[i].self \in Addr
  BY DEF Stack, FrameOK, FrameType, StackIn, WorldOK, Backs, Flags, FrameIn
<1>2. (\E i \in 1 .. Len(fs) : fs[i].kind = "STATICCALL") => Contents(v) = Contents(w)
  BY DEF Stack, Flags, StackIn, WorldOK, FrameOK, Backs, FlagsIn
<1>3. Backs(fs, Len(fs), w)
  BY DEF Stack, StackIn, WorldOK, FrameOK, Backs, Flags
<1>4. Backs(fs, Len(fs), v)
  BY <1>1, <1>2, <1>3, BacksGrows
<1> QED
  BY <1>4 DEF Stack, Grows, StackIn, WorldOK, FrameOK, Backs, Flags

\* The innermost frame ends, and the read-only flag is what StillReadOnly says.
LEMMA StackPop ==
  ASSUME NEW fs, NEW w, NEW ro, Stack(fs, w, ro), fs # << >>,
         NEW v, WorldOK(v), Backs(fs, Len(fs) - 1, v)
  PROVE  Stack(Front(fs), v, ro /\ ~Last(fs).static)
<1> DEFINE gs == Front(fs)
           q == ro /\ ~Last(fs).static
<1>0. fs \in Seq(FrameType)
  BY DEF Stack, StackIn, WorldOK, FrameOK, Backs, Flags
<1>1. /\ Len(fs) \in Nat /\ Len(fs) >= 1 /\ gs \in Seq(FrameType)
      /\ Len(gs) = Len(fs) - 1
      /\ \A i \in 1 .. Len(fs) - 1 : gs[i] = fs[i]
      /\ Last(fs) = fs[Len(fs)]
  BY <1>0, FrontFacts
<1> HIDE DEF gs
<1>2. \A i \in 1 .. Len(gs) : FrameOK(gs[i])
  BY <1>1 DEF Stack, StackIn, WorldOK, FrameOK, Backs, Flags
<1>3. ASSUME NEW u, NEW n \in 0 .. Len(fs) - 1, Backs(fs, n, u) PROVE Backs(gs, n, u)
  BY <1>1, <1>3 DEF Backs, BacksIn
<1>4. Backs(gs, Len(gs), v)
  BY <1>1, <1>3
<1>5. ASSUME NEW j \in 1 .. Len(gs) PROVE Backs(gs, j - 1, gs[j].snapshot)
  <2>1. j \in 1 .. Len(fs) /\ j - 1 \in 0 .. Len(fs) - 1 /\ gs[j] = fs[j]
    BY <1>1
  <2>2. Backs(fs, j - 1, fs[j].snapshot)
    BY <2>1 DEF Stack, StackIn, WorldOK, FrameOK, Backs, Flags
  <2> QED
    BY <1>3, <2>1, <2>2
<1>6. Flags(gs, q)
  <2>1. Flags(fs, ro)
    BY DEF Stack, StackIn, WorldOK, FrameOK, Backs, Flags
  <2>2. /\ \A i \in 1 .. Len(gs) : i \in 1 .. Len(fs) /\ gs[i] = fs[i]
        /\ \A i \in 1 .. Len(gs) : \A j \in 1 .. i - 1 : j \in 1 .. Len(gs)
        /\ \A i \in 1 .. Len(fs) : i = Len(fs) \/ i \in 1 .. Len(gs)
        /\ Len(fs) \in 1 .. Len(fs) /\ 1 .. Len(fs) - 1 = 1 .. Len(gs)
    BY <1>1
  <2>3. q <=> \E i \in 1 .. Len(gs) : gs[i].kind = "STATICCALL"
    <3>1. /\ ro <=> \E i \in 1 .. Len(fs) : fs[i].kind = "STATICCALL"
          /\ Last(fs).static <=> /\ fs[Len(fs)].kind = "STATICCALL"
                                 /\ \A j \in 1 .. Len(gs) : fs[j].kind # "STATICCALL"
      BY <1>1, <2>1, <2>2, ZenonT(60) DEF Flags, FlagsIn
    <3> QED
      BY <2>2, <3>1
  <2>4. \A i \in 1 .. Len(gs) :
          /\ gs[i].static <=> /\ gs[i].kind = "STATICCALL"
                              /\ \A j \in 1 .. i - 1 : gs[j].kind # "STATICCALL"
          /\ gs[i].kind = "CREATE" => \A j \in 1 .. i - 1 : gs[j].kind # "STATICCALL"
    BY <2>1, <2>2 DEF Flags, FlagsIn
  <2>5. q \in BOOLEAN /\ (q => rules.byzantium)
    BY <2>1 DEF Flags, FlagsIn
  <2> HIDE DEF q
  <2> QED
    BY <2>3, <2>4, <2>5 DEF Flags, FlagsIn
<1> HIDE DEF q
<1>7. Stack(gs, v, q)
  BY <1>1, <1>2, <1>4, <1>5, <1>6 DEF Stack, StackIn, WorldOK, FrameOK, Backs, Flags
<1> QED
  BY <1>7 DEF gs, q

\* What frame f may rely on in world v when it begins under the flag ro.
Begins(f, v, ro) ==
  /\ f.static = (f.kind = "STATICCALL" /\ ~ro)
  /\ f.kind = "CREATE" => ~ro /\ v.acct[f.self].made
  /\ f.kind = "STATICCALL" => rules.byzantium /\ Contents(v) = Contents(f.before)
  /\ rules.berlin => f.self \in v.warm

\* A frame starts.
LEMMA StackPush ==
  ASSUME NEW fs, NEW w, NEW ro, Stack(fs, w, ro), NEW f, FrameOK(f), NEW v, WorldOK(v),
         Backs(fs, Len(fs), v), Backs(fs, Len(fs), f.snapshot),
         Begins(f, v, ro)
  PROVE  Stack(Append(fs, f), v, ro \/ f.static)
<1> USE DEF Begins
<1> DEFINE gs == Append(fs, f)
           q == ro \/ f.static
<1>0. fs \in Seq(FrameType) /\ f \in FrameType
  BY DEF Stack, FrameOK, StackIn, WorldOK, Backs, Flags, FrameIn
<1>1. /\ Len(fs) \in Nat /\ gs \in Seq(FrameType) /\ Len(gs) = Len(fs) + 1
      /\ \A i \in 1 .. Len(fs) : gs[i] = fs[i]
      /\ gs[Len(gs)] = f
  BY <1>0, AppendFacts
<1> HIDE DEF gs
<1>2. \A i \in 1 .. Len(gs) : i = Len(gs) \/ i \in 1 .. Len(fs)
  BY <1>1, SMTT(30)
<1>3. \A i \in 1 .. Len(gs) : FrameOK(gs[i])
  BY <1>1, <1>2, SMTT(30) DEF Stack, StackIn, WorldOK, FrameOK, Backs, Flags
<1>4. ASSUME NEW u, NEW n \in 0 .. Len(fs), Backs(fs, n, u) PROVE Backs(gs, n, u)
  BY <1>1, <1>4, SMTT(30) DEF Backs, BacksIn
<1>5. Backs(gs, Len(gs), v)
  <2>1. Backs(gs, Len(fs), v)
    BY <1>1, <1>4
  <2> QED
    BY <1>1, <1>2, <2>1, SMTT(30) DEF Backs, BacksIn
<1>6. ASSUME NEW j \in 1 .. Len(gs) PROVE Backs(gs, j - 1, gs[j].snapshot)
  <2>1. CASE j = Len(gs)
    <3>1. j - 1 = Len(fs) /\ Len(fs) \in 0 .. Len(fs) /\ gs[j] = f
      BY <1>1, <2>1, SMTT(30)
    <3> QED
      BY <1>4, <3>1, SMTT(30)
  <2>2. CASE j \in 1 .. Len(fs)
    <3>1. j - 1 \in 0 .. Len(fs) /\ gs[j] = fs[j]
      BY <1>1, <2>2, SMTT(30)
    <3>2. Backs(fs, j - 1, fs[j].snapshot)
      BY <2>2, SMTT(30) DEF Stack, StackIn, WorldOK, FrameOK, Backs, Flags
    <3> QED
      BY <1>4, <3>1, <3>2, SMTT(30)
  <2> QED
    BY <1>2, <2>1, <2>2, SMTT(30)
<1>7. Flags(gs, q)
  <2>1. Flags(fs, ro)
    BY DEF Stack, StackIn, WorldOK, FrameOK, Backs, Flags
  <2>2. /\ \A i \in 1 .. Len(fs) : i \in 1 .. Len(gs) /\ gs[i] = fs[i]
        /\ \A i \in 1 .. Len(fs) : \A j \in 1 .. i - 1 : j \in 1 .. Len(fs)
        /\ Len(gs) \in 1 .. Len(gs) /\ 1 .. Len(gs) - 1 = 1 .. Len(fs)
    BY <1>1
  <2>3. q <=> \E i \in 1 .. Len(gs) : gs[i].kind = "STATICCALL"
    <3>1. ro \in BOOLEAN /\ (ro <=> \E i \in 1 .. Len(fs) : fs[i].kind = "STATICCALL")
      BY <2>1 DEF Flags, FlagsIn
    <3>2. q <=> (ro \/ f.kind = "STATICCALL")
      BY <3>1, Zenon
    <3> HIDE DEF q
    <3> QED
      BY <1>1, <1>2, <2>2, <3>1, <3>2, SMTT(30)
  <2>4. ASSUME NEW i \in 1 .. Len(gs)
        PROVE  /\ gs[i].static <=> /\ gs[i].kind = "STATICCALL"
                                   /\ \A j \in 1 .. i - 1 : gs[j].kind # "STATICCALL"
               /\ gs[i].kind = "CREATE" => \A j \in 1 .. i - 1 : gs[j].kind # "STATICCALL"
    <3>1. CASE i \in 1 .. Len(fs)
      BY <2>1, <2>2, <3>1, SMTT(30) DEF Flags, FlagsIn
    <3>2. CASE i = Len(gs)
      <4>1. ~ro <=> \A j \in 1 .. i - 1 : gs[j].kind # "STATICCALL"
        BY <2>1, <2>2, <3>2 DEF Flags, FlagsIn
      <4> QED
        BY <1>1, <3>2, <4>1, ZenonT(60)
    <3> QED
      BY <1>2, <3>1, <3>2
  <2>5. q \in BOOLEAN /\ (q => rules.byzantium)
    BY <2>1 DEF Flags, FlagsIn
  <2> HIDE DEF q
  <2> QED
    BY <2>3, <2>4, <2>5, SMTT(30) DEF Flags, FlagsIn
<1> HIDE DEF q
<1>8. Stack(gs, v, q)
  BY <1>1, <1>3, <1>5, <1>6, <1>7 DEF Stack, StackIn, WorldOK, FrameOK, Backs, Flags
<1> QED
  BY <1>8 DEF gs, q

-----------------------------------------------------------------------------
(* Gas.                                                                     *)

Gases(fs) == [i \in 1 .. Len(fs) |-> fs[i].gas]

\* The gas of the frames is a sum over a finite set.
LEMMA GasTyped ==
  ASSUME NEW fs \in Seq(FrameType)
  PROVE  /\ Gases(fs) \in [1 .. Len(fs) -> Int] /\ IsFiniteSet(1 .. Len(fs))
         /\ GasOf(fs) = FoldFunction(+, 0, Gases(fs)) /\ GasOf(fs) \in Int
<1>1. Len(fs) \in Nat /\ \A i \in 1 .. Len(fs) : fs[i].gas \in Int
  <2>1. Len(fs) \in Nat /\ \A i \in 1 .. Len(fs) : fs[i] \in FrameType
    OBVIOUS
  <2>2. \A f \in FrameType : f.gas \in Int
    BY DEF FrameType
  <2> QED
    BY <2>1, <2>2
<1>2. Gases(fs) \in [1 .. Len(fs) -> Int]
  BY <1>1 DEF Gases
<1>3. IsFiniteSet(1 .. Len(fs))
  BY <1>1, FS_Interval
<1>4. FoldFunction(+, 0, Gases(fs)) \in Int
  BY <1>2, <1>3, SumTyped, Zenon
<1>5. DOMAIN fs = 1 .. Len(fs)
  OBVIOUS
<1>6. GasOf(fs) = FoldFunction(+, 0, Gases(fs))
  BY <1>5, Zenon DEF GasOf, Sum, Gases
<1> QED
  BY <1>2, <1>3, <1>4, <1>6, ZenonT(60)

\* No frames hold no gas.
LEMMA GasEmpty ==
  GasOf(<< >>) = 0
<1> DEFINE f == [i \in DOMAIN << >> |-> << >>[i].gas]
<1>1. f \in [{} -> Int] /\ \A x \in {} : f[x] = 0
  OBVIOUS
<1>2. IsFiniteSet({})
  BY FS_EmptySet
<1> HIDE DEF f
<1>3. FoldFunction(+, 0, f) = 0
  BY <1>1, <1>2, SumZero, Zenon
<1> QED
  BY <1>3, Zenon DEF GasOf, Sum, f

\* One frame more.
LEMMA GasExtend ==
  ASSUME NEW fs \in Seq(FrameType), NEW gs \in Seq(FrameType), Len(gs) = Len(fs) + 1,
         \A i \in 1 .. Len(fs) : gs[i].gas = fs[i].gas
  PROVE  GasOf(gs) = GasOf(fs) + gs[Len(gs)].gas
<1> DEFINE f == Gases(fs)
           h == Gases(gs)
           S == 1 .. Len(fs)
           T == 1 .. Len(gs)
           a == Len(gs)
<1>1. /\ f \in [S -> Int] /\ h \in [T -> Int] /\ IsFiniteSet(S)
      /\ GasOf(fs) = FoldFunction(+, 0, f) /\ GasOf(gs) = FoldFunction(+, 0, h)
  BY GasTyped, Zenon
<1>2. Len(fs) \in Nat /\ a \notin S /\ T = S \cup {a}
  OBVIOUS
<1>3. (\A x \in S : h[x] = f[x]) /\ h[a] = gs[a].gas
  BY <1>2 DEF Gases
<1> HIDE DEF f, h, S, T, a
<1>4. FoldFunction(+, 0, h) = FoldFunction(+, 0, f) + h[a]
  <2>1. OneMore(h, f, S, a)
    BY <1>1, <1>2, <1>3, Zenon DEF OneMore
  <2> QED
    BY <2>1, SumExtend, Zenon
<1>5. GasOf(gs) = GasOf(fs) + h[a]
  BY <1>1, <1>4, Zenon
<1> QED
  BY <1>3, <1>5 DEF a

\* The innermost frame's gas is changed to that of g.
LEMMA GasTop ==
  ASSUME NEW fs \in Seq(FrameType), fs # << >>, NEW g \in FrameType
  PROVE  /\ GasOf(fs) = GasOf(Front(fs)) + Last(fs).gas
         /\ GasOf(Append(Front(fs), g)) = GasOf(Front(fs)) + g.gas
<1>1. /\ Len(fs) \in Nat /\ Len(fs) >= 1 /\ Front(fs) \in Seq(FrameType)
      /\ Len(Front(fs)) = Len(fs) - 1
      /\ \A i \in 1 .. Len(fs) - 1 : Front(fs)[i] = fs[i]
      /\ Last(fs) = fs[Len(fs)]
  BY FrontFacts
<1>2. /\ Len(fs) = Len(Front(fs)) + 1
      /\ \A i \in 1 .. Len(Front(fs)) : fs[i].gas = Front(fs)[i].gas
  BY <1>1
<1>3. GasOf(fs) = GasOf(Front(fs)) + Last(fs).gas
  BY <1>1, <1>2, GasExtend
<1> DEFINE gs == Append(Front(fs), g)
<1>4. /\ gs \in Seq(FrameType) /\ Len(gs) = Len(Front(fs)) + 1
      /\ \A i \in 1 .. Len(Front(fs)) : gs[i].gas = Front(fs)[i].gas
      /\ gs[Len(gs)] = g
  BY <1>1, AppendFacts
<1> HIDE DEF gs
<1>5. GasOf(gs) = GasOf(Front(fs)) + g.gas
  BY <1>1, <1>4, GasExtend
<1> QED
  BY <1>3, <1>5 DEF gs

\* A caller that gets gas back has that much more.
LEMMA GasRepaid ==
  ASSUME NEW fs \in Seq(FrameType), fs # << >>, NEW gas \in Nat
  PROVE  GasOf(Repaid(fs, gas)) = GasOf(fs) + gas /\ Repaid(fs, gas) # << >>
<1> DEFINE n == Len(fs)
           g == [fs[n] EXCEPT !.gas = @ + gas]
           gs == Append(Front(fs), g)
<1>1. /\ n \in Nat /\ n >= 1 /\ Front(fs) \in Seq(FrameType) /\ Len(Front(fs)) = n - 1
      /\ \A i \in 1 .. n - 1 : Front(fs)[i] = fs[i]
      /\ Last(fs) = fs[n] /\ fs[n] \in FrameType
  BY FrontFacts
<1>2. fs[n].gas \in Nat
  BY <1>1 DEF FrameType
<1>3. g \in FrameType /\ g.gas = fs[n].gas + gas
  <2>1. fs[n] \in FrameType /\ fs[n].gas + gas \in Nat
    BY <1>1, <1>2
  <2> HIDE DEF n
  <2> QED
    BY <2>1, SMTT(30) DEF FrameType
<1>4. [fs EXCEPT ![n].gas = @ + gas] = [fs EXCEPT ![n] = g]
  OBVIOUS
<1> HIDE DEF g, n
<1>5. [fs EXCEPT ![n] = g] = gs /\ gs # << >>
  <2>1. /\ gs \in Seq(FrameType) /\ Len(gs) = n /\ gs # << >> /\ gs[n] = g
        /\ \A i \in 1 .. n - 1 : gs[i] = fs[i]
    BY <1>1, <1>3, AppendFacts
  <2>2. /\ [fs EXCEPT ![n] = g] \in Seq(FrameType) /\ Len([fs EXCEPT ![n] = g]) = n
        /\ \A i \in 1 .. n : [fs EXCEPT ![n] = g][i] = IF i = n THEN g ELSE fs[i]
    BY <1>1, <1>3 DEF n
  <2> HIDE DEF gs
  <2>3. \A i \in 1 .. n : i = n \/ i \in 1 .. n - 1
    BY <1>1
  <2>4. \A i \in 1 .. n : [fs EXCEPT ![n] = g][i] = gs[i]
    BY <2>1, <2>2, <2>3
  <2> QED
    BY <2>1, <2>2, <2>4, SameElements
<1>6. GasOf(fs) = GasOf(Front(fs)) + fs[n].gas /\ GasOf(gs) = GasOf(Front(fs)) + g.gas
  BY <1>1, <1>3, GasTop
<1>7. GasOf(Front(fs)) \in Int
  BY <1>1, GasTyped, Zenon
<1>8. GasOf(gs) = GasOf(fs) + gas
  BY <1>2, <1>3, <1>6, <1>7
<1>9. Repaid(fs, gas) = gs
  BY <1>4, <1>5 DEF Repaid, n
<1> QED
  BY <1>5, <1>8, <1>9

\* What EIP-150 leaves to the caller is no more than there is.
LEMMA ShareFacts ==
  ASSUME NEW n \in Int
  PROVE  /\ n \div Share \in Int
         /\ n >= 0 => 0 <= n \div Share /\ n \div Share <= n
         /\ n < 0 => n \div Share < 0
<1> DEFINE q == n \div Share
<1>1. Share \in Nat /\ Share > 0 /\ Share >= 1
  BY EVMAssumption
<1>2. q \in Int /\ Share * q <= n /\ n < Share * q + Share
  BY <1>1, SMTT(30)
<1> HIDE DEF q
<1>3. n >= 0 => q >= 0
  <2> SUFFICES ASSUME n >= 0, q <= -1 PROVE FALSE
    BY <1>2
  <2>1. Share * q <= Share * (-1)
    BY <1>1, <1>2, SMTT(30)
  <2> QED
    BY <1>1, <1>2, <2>1, SMTT(30)
<1>4. n >= 0 => q <= n
  <2> SUFFICES ASSUME n >= 0, q >= 0 PROVE q <= n
    BY <1>3
  <2>1. q <= Share * q
    BY <1>1, <1>2, SMTT(30)
  <2>2. Share * q \in Int
    BY <1>1, <1>2
  <2> QED
    BY <1>2, <2>1, <2>2
<1>5. n < 0 => q < 0
  <2> SUFFICES ASSUME n < 0, q >= 0 PROVE FALSE
    BY <1>2
  <2>1. Share * q >= 0
    BY <1>1, <1>2, SMTT(30)
  <2>2. Share * q \in Int
    BY <1>1, <1>2
  <2> QED
    BY <1>2, <2>1, <2>2
<1> QED
  BY <1>2, <1>3, <1>4, <1>5 DEF q

=============================================================================

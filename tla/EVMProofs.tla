------------------------------ MODULE EVMProofs -----------------------------
(***************************************************************************)
(* Proofs that the call frames of EVM.tla keep their context, their gas    *)
(* and the ether of the accounts, for any accounts, codes, prices and      *)
(* depth of calls: every action keeps the invariant of EVMWorldProofs, and *)
(* the properties follow from it.                                          *)
(***************************************************************************)
EXTENDS EVMCallProofs

-----------------------------------------------------------------------------
(* The actions.                                                             *)

\* A frame that fails or reverts: the world it saved backs its callers.
LEMMA FailKeeps ==
  ASSUME IInv, Running, NEW err, err # "none", NEW kept \in Nat,
         Leave(Top, Top.snapshot, err, kept), abort' = abort
  PROVE  IInv'
<1>1. abort' \in BOOLEAN
  BY DEF IInv, Counters
<1> QED
  BY <1>1, TopFacts, LeaveKeeps

\* A frame that may write has no static frame below it.
LEMMA WriteBacks ==
  ASSUME IInv, Running, ~readOnly, NEW v, Grows(world, v)
  PROVE  WorldOK(v) /\ Backs(frames, Len(frames) - 1, v)
<1>1. /\ Len(frames) \in Nat /\ Len(frames) >= 1 /\ Backs(frames, Len(frames) - 1, world)
      /\ frames \in Seq(FrameType)
  BY TopFacts
<1>2. \A i \in 1 .. Len(frames) - 1 : i \in 1 .. Len(frames)
  BY <1>1
<1>3. \A i \in 1 .. Len(frames) - 1 : frames[i].self \in Addr
  <2>1. \A i \in 1 .. Len(frames) : frames[i] \in FrameType
    BY <1>1
  <2>2. \A f \in FrameType : f.self \in Addr
    BY DEF FrameType
  <2> QED
    BY <1>2, <2>1, <2>2
<1>4. ~ \E i \in 1 .. Len(frames) - 1 : frames[i].kind = "STATICCALL"
  BY <1>2 DEF IInv, Stack, StackIn, FlagsIn
<1>5. Backs(frames, Len(frames) - 1, v)
  BY <1>1, <1>3, <1>4, BacksGrows
<1> QED
  BY <1>5 DEF Grows

\* Replacing one account.
LEMMA SetAccount ==
  ASSUME NEW w \in Worlds, NEW a \in Addr, NEW r \in Accounts
  PROVE  LET v == [w EXCEPT !.acct[a] = r]
         IN  /\ v \in Worlds /\ v.warm = w.warm /\ v.acct[a] = r
             /\ \A b \in Addr : b # a => v.acct[b] = w.acct[b]
BY DEF Worlds

\* Storing the code an initcode returned.
LEMMA DeployKeeps ==
  ASSUME IInv, NEW ret \in Deployed, Deploy(ret)
  PROVE  IInv'
<1> DEFINE left == Top.gas - Size[ret]
           v == [world EXCEPT !.acct[Top.self].code = ret]
<1>0. Running /\ Top.kind = "CREATE" /\ abort' = abort
  BY DEF Deploy
<1>1. /\ Top.gas \in Nat /\ left \in Int /\ ret \in Codes /\ Top.self \in Addr
      /\ Top.self \notin Precompiles /\ WorldOK(world) /\ world.acct[Top.self].made /\ ~readOnly
      /\ Backs(frames, Len(frames) - 1, world) /\ abort' \in BOOLEAN
  BY <1>0, TopFacts, CodeAssumption DEF IInv, Counters
<1>2. \/ Leave(Top, Top.snapshot, "failed", 0)
      \/ left >= 0 /\ Leave(Top, v, "nil", left)
      \/ Leave(Top, world, "codestore", Top.gas)
  BY DEF Deploy
<1>3. CASE Leave(Top, Top.snapshot, "failed", 0)
  BY <1>0, <1>3, FailKeeps
<1>4. CASE left >= 0 /\ Leave(Top, v, "nil", left)
  <2> DEFINE r == [world.acct[Top.self] EXCEPT !.code = ret]
  <2>1. world \in Worlds /\ world.acct[Top.self] \in Accounts /\ world.acct[Top.self].balance >= 0
    BY <1>1, BalanceFacts DEF WorldOK, WorldIn
  <2>2. r \in Accounts /\ r.balance = world.acct[Top.self].balance /\ r.made
    BY <1>1, <2>1 DEF Accounts
  <2>3. v = [world EXCEPT !.acct[Top.self] = r]
    OBVIOUS
  <2> HIDE DEF r, v
  <2>4. /\ v \in Worlds /\ v.warm = world.warm /\ v.acct[Top.self] = r
        /\ \A b \in Addr : b # Top.self => v.acct[b] = world.acct[b]
    BY <1>1, <2>1, <2>2, <2>3, SetAccount, SMTT(30)
  <2>5. GetBalance(v, Top.self) = GetBalance(world, Top.self) /\ GetBalance(v, Top.self) \in Int
    BY <1>1, <2>2, <2>4, BalanceFacts, SMTT(30) DEF GetBalance
  <2>6. Grows(world, v)
    BY <1>1, <2>1, <2>2, <2>4, <2>5, PointOK, SMTT(30)
  <2>7. WorldOK(v) /\ Backs(frames, Len(frames) - 1, v)
    BY <1>0, <1>1, <2>6, WriteBacks
  <2>8. left \in Nat
    BY <1>1, <1>4
  <2> HIDE DEF left
  <2> QED
    BY <1>0, <1>1, <1>4, <2>7, <2>8, LeaveKeeps, SMTT(30)
<1>5. CASE Leave(Top, world, "codestore", Top.gas)
  BY <1>0, <1>1, <1>5, LeaveKeeps
<1> QED
  BY <1>2, <1>3, <1>4, <1>5

\* A frame that ends well in the world as it is.
LEMMA StopKeeps ==
  ASSUME IInv, Running, NEW kept \in Nat, Leave(Top, world, "nil", kept), abort' \in BOOLEAN
  PROVE  IInv'
BY TopFacts, LeaveKeeps

\* Paying the beneficiary of a self-destruct.
LEMMA HeirOK ==
  ASSUME WorldOK(world), NEW self \in Addr, NEW b \in Addr
  PROVE  Grows(world, Heir(world, self, b)) /\ Heir(world, self, b).warm = world.warm
<1> DEFINE n == GetBalance(world, self)
<1>1. world \in Worlds
  BY DEF WorldOK, WorldIn
<1>2. n \in Nat
  <2>1. world.acct[self].balance >= 0
    BY DEF WorldOK, WorldIn
  <2> QED
    BY <1>1, <2>1, BalanceFacts
<1>3. CASE rules.eip6780
  <2>1. Heir(world, self, b) = Transfer(world, self, b, n)
    BY <1>3 DEF Heir
  <2>2. n >= n
    BY <1>2
  <2>3. /\ Grows(world, Transfer(world, self, b, n))
        /\ Transfer(world, self, b, n).warm = world.warm
    BY <1>2, <2>2, TransferOK
  <2> QED
    BY <2>1, <2>3
<1>4. CASE ~rules.eip6780
  <2> DEFINE r == [world.acct[b] EXCEPT !.balance = @ + n]
             v == [world EXCEPT !.acct[b] = r]
  <2>0. Heir(world, self, b) = AddBalance(world, b, n)
    BY <1>4, Zenon DEF Heir
  <2> HIDE DEF n
  <2>1. AddBalance(world, b, n) = v
    BY DEF AddBalance
  <2>2. /\ world.acct[b] \in Accounts /\ world.acct[b].balance \in Int
        /\ world.acct[b].balance >= 0
        /\ ~world.acct[b].made /\ b \in DOMAIN stored => world.acct[b].code = stored[b]
        /\ b \in Precompiles => world.acct[b].store = 0 /\ ~world.acct[b].gone
    BY <1>1, BalanceFacts DEF WorldOK, WorldIn
  <2>3. /\ r \in Accounts /\ r.balance = world.acct[b].balance + n /\ r.made = world.acct[b].made
        /\ r.code = world.acct[b].code /\ r.store = world.acct[b].store
        /\ r.gone = world.acct[b].gone
    BY <1>2, <2>2 DEF Accounts
  <2> HIDE DEF r
  <2>4. /\ v \in Worlds /\ v.warm = world.warm /\ v.acct[b] = r
        /\ \A c \in Addr : c # b => v.acct[c] = world.acct[c]
    BY <1>1, <2>3, SetAccount
  <2> HIDE DEF v
  <2>5. r.balance >= 0
    BY <1>2, <2>2, <2>3
  <2>6. Grows(world, v)
    BY <1>4, <2>2, <2>3, <2>4, <2>5, PointOK, SMTT(30)
  <2> QED
    BY <2>0, <2>1, <2>4, <2>6
<1> QED
  BY <1>3, <1>4

\* A self-destruct pays out, marks the account and warms the beneficiary.
LEMMA SelfdestructKeeps ==
  ASSUME IInv, NEW b \in Heirs, opSelfdestruct(b)
  PROVE  IInv'
<1> DEFINE self == Top.self
           given == Heir(world, self, b)
           dies == ~rules.eip6780 \/ world.acct[self].made
           warm == IF rules.berlin THEN world.warm \cup {b} ELSE world.warm
           v == [given EXCEPT !.acct[self].gone = @ \/ dies, !.warm = warm]
<1>0. /\ Running /\ Top.gas >= 1 /\ ~readOnly /\ Leave(Top, v, "nil", Top.gas - 1)
      /\ abort' = abort
  BY DEF opSelfdestruct
<1>1. /\ Top.gas \in Nat /\ self \in Addr /\ self \notin Precompiles /\ WorldOK(world)
      /\ b \in Addr /\ abort' \in BOOLEAN
  BY <1>0, TopFacts, CodeAssumption DEF IInv, Counters
<1>2. Grows(world, given) /\ given.warm = world.warm
  BY <1>1, HeirOK, SMTT(30)
<1>3. /\ WorldOK(given) /\ given \in Worlds /\ world.warm \subseteq given.warm
      /\ given.acct \in [Addr -> Accounts] /\ given.warm \in SUBSET Addr
      /\ world.warm \in SUBSET Addr
  BY <1>1, <1>2 DEF Grows, WorldOK, WorldIn, Worlds
<1> HIDE DEF given
<1> DEFINE r == [given.acct[self] EXCEPT !.gone = @ \/ dies]
<1>5. /\ given.acct[self] \in Accounts /\ given.acct[self].balance >= 0
      /\ ~given.acct[self].made /\ self \in DOMAIN stored => given.acct[self].code = stored[self]
  BY <1>1, <1>3 DEF WorldOK, WorldIn
<1>6. /\ r \in Accounts /\ r.balance = given.acct[self].balance /\ r.made = given.acct[self].made
      /\ r.code = given.acct[self].code
  <2>1. (given.acct[self].gone \/ dies) \in BOOLEAN
    OBVIOUS
  <2> HIDE DEF dies
  <2> QED
    BY <1>5, <2>1, Zenon DEF Accounts
<1>7. /\ v.acct = [given.acct EXCEPT ![self] = r] /\ v.warm = warm
      /\ v = [acct |-> v.acct, warm |-> v.warm]
  <2>1. given = [acct |-> given.acct, warm |-> given.warm]
    BY <1>3 DEF Worlds
  <2>2. v = [given EXCEPT !.acct = [given.acct EXCEPT ![self] = r], !.warm = warm]
    OBVIOUS
  <2> HIDE DEF r, v, warm
  <2> QED
    BY <2>1, <2>2, Zenon
<1> HIDE DEF r, v
<1>8. /\ v.acct \in [Addr -> Accounts] /\ v.acct[self] = r
      /\ \A c \in Addr : c # self => v.acct[c] = given.acct[c]
  BY <1>1, <1>3, <1>6, <1>7
<1>9. v \in Worlds /\ given.warm \subseteq v.warm
  BY <1>1, <1>2, <1>3, <1>7, <1>8, SMTT(30) DEF Worlds
<1>10. GetBalance(v, self) = GetBalance(given, self) /\ GetBalance(v, self) \in Int
  BY <1>1, <1>6, <1>8, <1>9, BalanceFacts, SMTT(30) DEF GetBalance
<1> HIDE DEF self
<1>11. Grows(given, v)
  BY <1>1, <1>3, <1>5, <1>6, <1>8, <1>9, <1>10, PointOK, SMTT(30)
<1>12. Grows(world, v)
  BY <1>2, <1>11, GrowsTransitive
<1>13. WorldOK(v) /\ Backs(frames, Len(frames) - 1, v)
  BY <1>0, <1>12, WriteBacks
<1>14. Top.gas - 1 \in Nat
  BY <1>0, <1>1
<1> QED
  BY <1>0, <1>1, <1>13, <1>14, LeaveKeeps

\* A write to the storage of a frame that may write.
LEMMA SStoreKeeps ==
  ASSUME IInv, SStore
  PROVE  IInv'
<1> DEFINE self == Top.self
           r == [world.acct[self] EXCEPT !.store = 1 - @]
           v == [world EXCEPT !.acct[self] = r]
<1>0. Running /\ ~readOnly /\ Turn(v, Top) /\ jumpdests' = jumpdests
  BY DEF SStore
<1>1. self \in Addr /\ self \notin Precompiles /\ WorldOK(world) /\ FrameOK(Top)
  BY <1>0, TopFacts
<1>2. /\ world \in Worlds /\ world.acct[self] \in Accounts /\ world.acct[self].balance >= 0
      /\ ~world.acct[self].made /\ self \in DOMAIN stored => world.acct[self].code = stored[self]
  BY <1>1, BalanceFacts DEF WorldOK, WorldIn
<1>3. /\ r \in Accounts /\ r.balance = world.acct[self].balance /\ r.made = world.acct[self].made
      /\ r.code = world.acct[self].code
  <2>1. 1 - world.acct[self].store \in 0 .. 1
    BY <1>2 DEF Accounts
  <2> QED
    BY <1>2, <2>1 DEF Accounts
<1> HIDE DEF r
<1>4. /\ v \in Worlds /\ v.warm = world.warm /\ v.acct[self] = r
      /\ \A b \in Addr : b # self => v.acct[b] = world.acct[b]
  BY <1>1, <1>2, <1>3, SetAccount, SMTT(30)
<1> HIDE DEF v
<1>5. GetBalance(v, self) = GetBalance(world, self) /\ GetBalance(v, self) \in Int
  BY <1>1, <1>3, <1>4, BalanceFacts, SMTT(30) DEF GetBalance
<1> HIDE DEF self
<1>6. Grows(world, v)
  BY <1>1, <1>2, <1>3, <1>4, <1>5, PointOK, SMTT(30)
<1>7. Analyses'
  BY <1>0 DEF IInv, Analyses
<1>8. Like(Top, Top)
  BY DEF Like
<1> QED
  BY <1>0, <1>1, <1>6, <1>7, <1>8, TurnKeeps, SMTT(30)

\* The analyses a jump leaves are of their codes, and the one it uses is of its own.
LEMMA AnalysisFacts ==
  ASSUME Analyses, NEW f, FrameOK(f)
  PROVE  LET known == isCode(f)
         IN  /\ \A h \in DOMAIN known : h # ZeroHash /\ known[h] = h
             /\ analysisOf(f, known) = f.code
<1> DEFINE known == isCode(f)
<1>1. f.hash \in {ZeroHash, f.code} /\ f.analysis \in {None, f.code}
  BY DEF FrameOK, FrameIn
<1>2. \A h \in DOMAIN known : h # ZeroHash /\ known[h] = h
  <2>1. CASE f.analysis # None \/ f.hash = ZeroHash \/ f.hash \in DOMAIN jumpdests
    BY <2>1 DEF isCode, Analyses
  <2>2. CASE ~(f.analysis # None \/ f.hash = ZeroHash \/ f.hash \in DOMAIN jumpdests)
    <3>1. /\ known = [h \in DOMAIN jumpdests \cup {f.hash} |->
                        IF h = f.hash THEN f.code ELSE jumpdests[h]]
          /\ f.hash = f.code /\ f.hash # ZeroHash
      BY <1>1, <2>2 DEF isCode
    <3> HIDE DEF known
    <3> QED
      BY <3>1 DEF Analyses
  <2> QED
    BY <2>1, <2>2
<1> HIDE DEF known
<1>3. analysisOf(f, known) = f.code
  BY <1>1, <1>2 DEF analysisOf
<1> QED
  BY <1>2, <1>3 DEF known

\* A jump.
LEMMA JumpKeeps ==
  ASSUME IInv, opJump
  PROVE  IInv'
<1> DEFINE known == isCode(Top)
           f == [Top EXCEPT !.analysis = analysisOf(Top, known)]
<1>0. Running /\ jumpdests' = known /\ Turn(world, f)
  BY DEF opJump
<1>1. FrameOK(Top) /\ Top \in FrameType /\ WorldOK(world) /\ Analyses
  BY <1>0, TopFacts DEF IInv
<1>2. /\ \A h \in DOMAIN known : h # ZeroHash /\ known[h] = h
      /\ analysisOf(Top, known) = Top.code
  BY <1>1, AnalysisFacts
<1>3. Analyses'
  BY <1>0, <1>2 DEF Analyses
<1>4. f = [Top EXCEPT !.analysis = Top.code]
  BY <1>2
<1> HIDE DEF known, f
<1>5. /\ f \in FrameType /\ f.kind = Top.kind /\ f.self = Top.self /\ f.hash = Top.hash
      /\ f.code = Top.code /\ f.gas = Top.gas /\ f.before = Top.before
      /\ f.snapshot = Top.snapshot /\ f.analysis = Top.code /\ f.static = Top.static
  BY <1>1, <1>4 DEF FrameType
<1>6. FrameOK(f) /\ Like(Top, f)
  BY <1>1, <1>5 DEF FrameOK, FrameIn, Like
<1>7. Grows(world, world)
  BY <1>1, GrowsReflexive
<1> QED
  BY <1>0, <1>3, <1>5, <1>6, <1>7, TurnKeeps, SMTT(30)

\* The caller pays n units of gas.
LEMMA Charged ==
  ASSUME IInv, Running, NEW n \in Nat, n <= Top.gas
  PROVE  LET fs == Append(Front(frames), [Top EXCEPT !.gas = Top.gas - n])
         IN  Stack(fs, world, readOnly) /\ GasOf(fs) = limit - spent - n
<1> DEFINE f == [Top EXCEPT !.gas = Top.gas - n]
<1>1. /\ frames \in Seq(FrameType) /\ frames # << >> /\ Top \in FrameType /\ FrameOK(Top)
      /\ Top.gas \in Nat /\ Top = Last(frames) /\ GasOf(frames) = limit - spent
      /\ Stack(frames, world, readOnly) /\ limit \in Nat /\ spent \in Int
  BY TopFacts DEF IInv, Running, Top, Counters
<1>2. Top.gas - n \in Nat
  BY <1>1
<1>3. /\ f \in FrameType /\ f.kind = Top.kind /\ f.self = Top.self /\ f.hash = Top.hash
      /\ f.code = Top.code /\ f.gas = Top.gas - n /\ f.before = Top.before
      /\ f.snapshot = Top.snapshot /\ f.analysis = Top.analysis /\ f.static = Top.static
  BY <1>1, <1>2, Zenon DEF FrameType
<1> HIDE DEF f
<1>4. FrameOK(f) /\ Like(Last(frames), f)
  BY <1>1, <1>3 DEF FrameOK, FrameIn, Like
<1>5. Stack(Append(Front(frames), f), world, readOnly)
  BY <1>1, <1>4, StackTop
<1>6. /\ GasOf(frames) = GasOf(Front(frames)) + Last(frames).gas
      /\ GasOf(Append(Front(frames), f)) = GasOf(Front(frames)) + f.gas
  BY <1>1, <1>3, GasTop
<1>7. GasOf(Front(frames)) \in Int
  <2>1. Front(frames) \in Seq(FrameType)
    BY <1>1, FrontFacts
  <2> QED
    BY <2>1, GasTyped, Zenon
<1>8. GasOf(Append(Front(frames), f)) = limit - spent - n
  <2> DEFINE m == GasOf(Front(frames))
             g == Top.gas
             all == GasOf(Append(Front(frames), f))
  <2>1. all = m + (g - n)
    BY <1>3, <1>6, Zenon
  <2>2. m + g = limit - spent
    BY <1>1, <1>6, ZenonT(60)
  <2>3. m \in Int /\ g \in Int /\ n \in Int /\ limit \in Int /\ spent \in Int
    BY <1>1, <1>7
  <2> HIDE DEF m, g, all
  <2>4. all = limit - spent - n
    BY <2>1, <2>2, <2>3
  <2> QED
    BY <2>4 DEF all
<1> QED
  BY <1>5, <1>8 DEF f

\* An address is warmed.
LEMMA WarmFacts ==
  ASSUME WorldOK(world), NEW a \in Addr
  PROVE  /\ Grows(world, Warm(a)) /\ Contents(Warm(a)) = Contents(world)
         /\ rules.berlin => a \in Warm(a).warm
<1>1. world \in Worlds
  BY DEF WorldOK, WorldIn
<1>2. /\ Warm(a) \in Worlds /\ Warm(a).acct = world.acct /\ world.warm \subseteq Warm(a).warm
      /\ rules.berlin => a \in Warm(a).warm
  BY <1>1 DEF Warm, Worlds
<1> QED
  BY <1>2, WarmOK

\* What a caller can hand over is a number that is not negative.
LEMMA CallGasFacts ==
  ASSUME NEW available \in Int, NEW request \in Nat
  PROVE  /\ callGas(available, request) \in Int
         /\ available >= callGas(available, request) => callGas(available, request) \in Nat
<1> DEFINE q == available \div Share
           most == available - q
           temp == callGas(available, request)
<1>1. /\ q \in Int /\ (available >= 0 => 0 <= q /\ q <= available)
      /\ (available < 0 => q < 0)
  BY ShareFacts
<1>2. temp = most \/ temp = request
  BY DEF callGas
<1> HIDE DEF q, temp
<1>3. temp \in Int /\ (available >= temp => temp \in Nat)
  BY <1>1, <1>2
<1> QED
  BY <1>3 DEF temp

\* CALL, CALLCODE, DELEGATECALL and STATICCALL.
LEMMA CallKeeps ==
  ASSUME IInv, NEW kind \in Kinds, NEW a \in Callees, NEW value \in Values,
         NEW request \in Requests, NEW ok, opCall(kind, a, value, request, ok)
  PROVE  IInv'
<1> DEFINE price == Price(kind, value)
           temp == callGas(Top.gas - price, request)
           extra == IF value # 0 THEN CallStipend ELSE 0
           gas == temp + extra
           w == Warm(a)
           self == Top.self
           n == price + temp
           fs == Append(Front(frames), [Top EXCEPT !.gas = @ - price - temp])
           o == CASE kind = "CALL"         -> Call(w, self, a, gas, value, ok)
                  [] kind = "CALLCODE"     -> CallCode(w, self, a, gas, value, ok)
                  [] kind = "DELEGATECALL" -> DelegateCall(w, self, a, gas, ok)
                  [] kind = "STATICCALL"   -> StaticCall(w, a, gas, ok)
<1>0. /\ Running /\ Top.gas >= price + temp /\ ~WriteProtected(kind, value)
      /\ Continue(fs, o, price, gas, extra)
  BY Zenon DEF opCall
<1>1. /\ Top.gas \in Nat /\ self \in Addr \ Precompiles /\ WorldOK(world)
      /\ rules.berlin => self \in world.warm
      /\ readOnly \in BOOLEAN /\ depth \in Nat /\ limit \in Nat /\ spent \in Int
      /\ Stack(frames, world, readOnly)
  BY <1>0, TopFacts DEF IInv, Counters, depth
<1>2. /\ kind \in {"CALL", "CALLCODE", "DELEGATECALL", "STATICCALL"}
      /\ kind = "STATICCALL" => rules.byzantium
      /\ kind = "CALL" /\ readOnly => value = 0 /\ rules.eip158
  <2>1. readOnly => rules.eip158
    BY DEF IInv, Counters, Stack, StackIn, FlagsIn
  <2> QED
    BY <1>0, <2>1 DEF Kinds, WriteProtected
<1>3. /\ a \in Addr /\ value \in Nat /\ request \in Nat /\ price \in Nat /\ extra \in Nat
  BY EVMAssumption, CodeAssumption DEF Price
<1> HIDE DEF price, extra
<1>4. temp \in Nat
  <2>1. Top.gas - price \in Int
    BY <1>1, <1>3
  <2>2. temp \in Int /\ (Top.gas - price >= temp => temp \in Nat)
    BY <1>3, <2>1, CallGasFacts, Zenon
  <2> HIDE DEF temp
  <2> QED
    BY <1>0, <1>1, <1>3, <2>2, SMTT(30)
<1> HIDE DEF temp
<1>5. gas \in Nat /\ n \in Nat /\ n <= Top.gas
  BY <1>0, <1>1, <1>3, <1>4
<1>6. Stack(fs, world, readOnly) /\ GasOf(fs) = limit - spent - n
  <2>1. Top.gas - price - temp = Top.gas - n
    BY <1>1, <1>3, <1>4
  <2>2. fs = Append(Front(frames), [Top EXCEPT !.gas = Top.gas - n])
    BY <2>1, SMTT(30)
  <2> HIDE DEF n, fs
  <2> QED
    BY <1>0, <1>5, <2>2, Charged
<1> HIDE DEF fs
<1>7. /\ Grows(world, w) /\ Contents(w) = Contents(world) /\ (rules.berlin => a \in w.warm)
      /\ WorldOK(w) /\ (rules.berlin => self \in w.warm)
  BY <1>1, <1>3, WarmFacts, SMTT(30) DEF Grows
<1>8. Stack(fs, w, readOnly)
  BY <1>6, <1>7, StackWorld
<1> HIDE DEF w, self
<1>9. GasOf(fs) + gas = limit - spent - price + extra
  BY <1>1, <1>3, <1>4, <1>6, SMTT(30)
<1> HIDE DEF gas, n
<1>10. Outcome(o, w, gas)
  BY <1>1, <1>2, <1>3, <1>5, <1>7, CallsOutcome, SMTT(30)
<1> HIDE DEF o
<1> QED
  BY <1>0, <1>3, <1>5, <1>8, <1>9, <1>10, ContinueKeeps, SMTT(30)

\* CREATE and CREATE2.
LEMMA CreateKeeps ==
  ASSUME IInv, NEW a \in Fresh, NEW value \in Values, NEW code \in Initcodes,
         NEW hash \in {ZeroHash, code}, opCreate(a, value, hash, code)
  PROVE  IInv'
<1> DEFINE rest == Top.gas - 1
           gas == IF rules.eip150 THEN rest - rest \div Share ELSE rest
           n == 1 + gas
           fs == Append(Front(frames), [Top EXCEPT !.gas = rest - gas])
           o == create(world, Top.self, a, hash, code, gas, value)
<1>0. Running /\ Top.gas >= 1 /\ ~readOnly /\ Continue(fs, o, 1, gas, 0)
  BY ZenonT(60) DEF opCreate
<1>1. /\ Top.gas \in Nat /\ Top.self \in Addr /\ WorldOK(world) /\ readOnly = FALSE
      /\ depth \in Nat /\ limit \in Nat /\ spent \in Int
  BY <1>0, TopFacts DEF IInv, Counters, depth
<1>2. value \in Nat /\ code \in Codes
  BY EVMAssumption, CodeAssumption
<1>3. gas \in Nat /\ gas <= rest
  <2>1. rest \in Nat
    BY <1>0, <1>1
  <2>2. rest \div Share \in Int /\ 0 <= rest \div Share /\ rest \div Share <= rest
    BY <2>1, ShareFacts
  <2> DEFINE q == rest \div Share
  <2> HIDE DEF q, rest
  <2> QED
    BY <2>1, <2>2 DEF q
<1> HIDE DEF gas
<1>4. Stack(fs, world, readOnly) /\ GasOf(fs) = limit - spent - n
  <2>1. n \in Nat /\ n <= Top.gas /\ rest - gas = Top.gas - n
    BY <1>1, <1>3
  <2>2. fs = Append(Front(frames), [Top EXCEPT !.gas = Top.gas - n])
    BY <2>1
  <2> HIDE DEF n, fs
  <2> QED
    BY <1>0, <2>1, <2>2, Charged
<1> HIDE DEF fs
<1>5. GasOf(fs) + gas = limit - spent - 1 + 0
  BY <1>1, <1>3, <1>4
<1>6. Outcome(o, world, gas)
  BY <1>1, <1>2, <1>3, CreateOutcome, Zenon
<1> HIDE DEF o
<1> QED
  BY <1>0, <1>3, <1>4, <1>5, <1>6, ContinueKeeps, SMTT(30)

\* The call or creation a transaction starts with.
LEMMA BeginKeeps ==
  ASSUME IInv, NEW w, Grows(world, w), NEW o, Outcome(o, w, limit), Begin(o)
  PROVE  IInv'
<1>1. /\ frames = << >> /\ result.err = "none" /\ Continue(<< >>, o, 0, limit, 0)
      /\ limit \in Nat /\ spent \in Int /\ Stack(frames, world, readOnly)
  BY DEF Begin, IInv, Counters
<1>2. readOnly = FALSE
  <2>1. readOnly \in BOOLEAN /\ (readOnly => \E i \in 1 .. Len(frames) : TRUE)
    BY <1>1 DEF Stack, StackIn, FlagsIn
  <2> QED
    BY <1>1, <2>1
<1>3. Stack(<< >>, w, readOnly)
  BY <1>1, <1>2, StackWorld
<1>4. spent = 0
  <2>1. result.gas = limit /\ result.gas = limit - spent
    BY <1>1 DEF IInv, Counters, GasConserved, Running
  <2> QED
    BY <1>1, <2>1
<1>5. GasOf(<< >>) + limit = limit - spent - 0 + 0
  BY <1>1, <1>4, GasEmpty
<1> QED
  BY <1>1, <1>3, <1>5, ContinueKeeps

\* What a transaction starts from.
LEMMA OuterFacts ==
  ASSUME IInv, frames = << >>
  PROVE  readOnly = FALSE /\ depth \in Nat /\ WorldOK(world) /\ limit \in Nat
<1>1. readOnly \in BOOLEAN /\ (readOnly => \E i \in 1 .. Len(frames) : TRUE) /\ WorldOK(world)
  BY DEF IInv, Stack, StackIn, FlagsIn, WorldOK
<1>2. Len(frames) = 0
  OBVIOUS
<1> QED
  BY <1>1, <1>2 DEF depth, IInv, Counters

\* A transaction starts.
LEMMA TransactKeeps ==
  ASSUME IInv, Transact
  PROVE  IInv'
<1>1. ASSUME NEW a \in Callees, NEW value \in Values, NEW ok,
             Begin(Call(Warm(a), Sender, a, limit, value, ok))
      PROVE  IInv'
  <2> DEFINE w == Warm(a)
             o == Call(w, Sender, a, limit, value, ok)
  <2>1. readOnly = FALSE /\ depth \in Nat /\ WorldOK(world) /\ limit \in Nat
    BY <1>1, OuterFacts DEF Begin
  <2>2. a \in Addr /\ Sender \in Addr /\ value \in Nat
    BY EVMAssumption, CodeAssumption
  <2>3. Grows(world, w) /\ WorldOK(w) /\ (rules.berlin => a \in w.warm)
    BY <2>1, <2>2, WarmFacts DEF Grows
  <2>4. Begin(o)
    BY <1>1
  <2> HIDE DEF w
  <2>5. Outcome(o, w, limit)
    BY <2>1, <2>2, <2>3, CallOutcome, Zenon
  <2> HIDE DEF o
  <2> QED
    BY <2>3, <2>4, <2>5, BeginKeeps
<1>2. ASSUME NEW a \in Fresh, NEW value \in Values, NEW init \in Initcodes,
             Begin(create(world, Sender, a, ZeroHash, init, limit, value))
      PROVE  IInv'
  <2> DEFINE o == create(world, Sender, a, ZeroHash, init, limit, value)
  <2>1. readOnly = FALSE /\ depth \in Nat /\ WorldOK(world) /\ limit \in Nat
    BY <1>2, OuterFacts DEF Begin
  <2>2. Sender \in Addr /\ value \in Nat /\ init \in Codes
    BY EVMAssumption, CodeAssumption
  <2>3. Grows(world, world)
    BY <2>1, GrowsReflexive
  <2>4. Outcome(o, world, limit)
    BY <2>1, <2>2, CreateOutcome, Zenon
  <2>5. Begin(o)
    BY <1>2
  <2> HIDE DEF o
  <2> QED
    BY <2>3, <2>4, <2>5, BeginKeeps
<1> QED
  BY <1>1, <1>2, ZenonT(60) DEF Transact

-----------------------------------------------------------------------------
(* The theorems.                                                            *)

\* The invariant holds when the transaction is about to start.
LEMMA InitInvariant ==
  Init => IInv
<1> SUFFICES ASSUME Init PROVE IInv
  OBVIOUS
<1>1. PICK s \in Start : rules = s.rules /\ limit = s.gas /\ stored = s.stored /\ world = s.world
  BY DEF Init
<1>2. /\ frames = << >> /\ readOnly = FALSE /\ jumpdests = << >> /\ abort = FALSE
      /\ result = [err |-> "none", gas |-> limit] /\ spent = 0
  BY DEF Init
<1>3. /\ limit \in Nat /\ world \in Worlds /\ (rules.byzantium => rules.eip158)
      /\ \A a \in Addr :
           /\ world.acct[a].balance >= 0
           /\ ~world.acct[a].made /\ a \in DOMAIN stored => world.acct[a].code = stored[a]
           /\ a \in Precompiles => world.acct[a].store = 0 /\ ~world.acct[a].gone
  BY <1>1, StartAssumption
<1>4. Capped(world)
  <2>1. Ether(world) \in Int
    BY <1>3, EtherTyped
  <2>2. Ether(world) <= Ether(s.world)
    BY <1>1, <2>1
  <2> QED
    BY <1>1, <2>2, TotalIsEther, SMTT(30) DEF Capped, CapIn
<1>5. Stack(frames, world, readOnly)
  <2>1. frames \in Seq(FrameType) /\ Len(frames) = 0
    BY <1>2
  <2>2. WorldIn(rules, stored, world)
    BY <1>3, <1>4 DEF WorldIn, Capped
  <2>3. \A n \in 1 .. Len(frames) : FALSE
    BY <2>1
  <2>4. BacksIn(rules, frames, Len(frames), world)
    BY <2>3 DEF BacksIn
  <2>5. FlagsIn(rules, frames, readOnly)
    BY <1>2, <2>3, ZenonT(60) DEF FlagsIn
  <2> QED
    BY <2>1, <2>2, <2>3, <2>4, <2>5, ZenonT(60) DEF Stack, StackIn
<1>6. Analyses
  BY <1>2 DEF Analyses
<1>7. Counters /\ GasConserved
  <2>1. result.gas = limit /\ limit - spent = limit /\ ~Running /\ spent \in Int
    BY <1>2, <1>3 DEF Running
  <2>2. Counters
    BY <1>2, <1>3, <2>1, ZenonT(60) DEF Counters
  <2>3. GasConserved
    BY <2>1, Zenon DEF GasConserved
  <2> QED
    BY <2>2, <2>3
<1> QED
  BY <1>5, <1>6, <1>7 DEF IInv

\* Every step keeps it, one case per instruction.
LEMMA StepInvariant ==
  IInv /\ [Next]_vars => IInv'
<1> SUFFICES ASSUME IInv, [Next]_vars PROVE IInv'
  OBVIOUS
<1>1. CASE Transact
  BY <1>1, TransactKeeps
<1>2. CASE Stop
  <2>1. /\ Running /\ Leave(Top, world, "nil", Top.gas) /\ abort' = abort
    BY <1>2, SMTT(30) DEF Stop
  <2>2. Top.gas \in Nat /\ abort' \in BOOLEAN
    BY <2>1, TopFacts DEF IInv, Counters
  <2> QED
    BY <2>1, <2>2, StopKeeps
<1>3. CASE Revert
  <2>1. /\ Running /\ Leave(Top, Top.snapshot, "reverted", Top.gas) /\ abort' = abort
    BY <1>3 DEF Revert
  <2>2. Top.gas \in Nat
    BY <2>1, TopFacts
  <2> QED
    BY <2>1, <2>2, FailKeeps, SMTT(30)
<1>4. CASE Fail
  <2>1. /\ Running /\ Leave(Top, Top.snapshot, "failed", 0) /\ abort' = abort
    BY <1>4 DEF Fail
  <2> QED
    BY <2>1, FailKeeps
<1>5. CASE \E ret \in Deployed : Deploy(ret)
  BY <1>5, DeployKeeps, SMTT(30)
<1>6. CASE SStore
  BY <1>6, SStoreKeeps
<1>7. CASE opJump
  BY <1>7, JumpKeeps
<1>8. CASE opJumpCancelled
  <2>1. Running /\ Top.gas >= 1 /\ Leave(Top, world, "nil", Top.gas - 1) /\ abort' = TRUE
    BY <1>8 DEF opJumpCancelled
  <2>2. Top.gas \in Nat
    BY <2>1, TopFacts
  <2>3. Top.gas - 1 \in Nat
    BY <2>1, <2>2, SMTT(30)
  <2> QED
    BY <2>1, <2>3, StopKeeps
<1>9. CASE \E b \in Heirs : opSelfdestruct(b)
  BY <1>9, SelfdestructKeeps
<1>10. CASE \E kind \in Kinds, a \in Callees, value \in Values, request \in Requests :
              \E ok \in Works(a) : opCall(kind, a, value, request, ok)
  BY <1>10, CallKeeps
<1>11. CASE \E a \in Fresh, value \in Values, init \in Initcodes,
               salted \in {FALSE, rules.constantinople} :
              opCreate(a, value, IF salted THEN init ELSE ZeroHash, init)
  <2>1. PICK a \in Fresh, value \in Values, init \in Initcodes,
             salted \in {FALSE, rules.constantinople} :
               opCreate(a, value, IF salted THEN init ELSE ZeroHash, init)
    BY <1>11, Zenon
  <2> DEFINE hash == IF salted THEN init ELSE ZeroHash
  <2>2. hash \in {ZeroHash, init} /\ opCreate(a, value, hash, init)
    BY <2>1
  <2> HIDE DEF hash
  <2> QED
    BY <2>2, CreateKeeps
<1>12. CASE UNCHANGED vars
  <2>1. /\ rules' = rules /\ limit' = limit /\ stored' = stored /\ world' = world
        /\ frames' = frames /\ readOnly' = readOnly /\ jumpdests' = jumpdests /\ abort' = abort
        /\ result' = result /\ spent' = spent
    BY <1>12 DEF vars
  <2> QED
    BY <2>1 DEF IInv, Stack, Analyses, Counters, GasConserved, Running
<1> QED
  BY <1>1, <1>2, <1>3, <1>4, <1>5, <1>6, <1>7, <1>8, <1>9, <1>10, <1>11, <1>12, Zenon
  DEF Next, Instruction

\* Through any nesting of calls, creations, failures and reverts, every saved world backs the
\* frames below it.
THEOREM FramesInvariant ==
  Spec => []IInv
BY InitInvariant, StepInvariant, PTL DEF Spec

\* The read-only flag is set exactly while a static call is open, a running contract's address
\* is in the access list, and a frame jumps by the analysis of its own code.
THEOREM ContextHolds ==
  Spec => []FrameContext
<1>1. IInv => FrameContext
  <2> SUFFICES ASSUME IInv PROVE FrameContext
    BY SMTT(30)
  <2>1. /\ frames \in Seq(FrameType) /\ world \in Worlds
        /\ BacksIn(rules, frames, Len(frames), world)
        /\ FlagsIn(rules, frames, readOnly)
        /\ \A i \in 1 .. Len(frames) : FrameIn(rules, stored, frames[i])
    BY DEF IInv, Stack, StackIn, WorldIn
  <2>2. \A i \in 1 .. Len(frames) :
          /\ frames[i].self \in Addr /\ frames[i].gas \in Nat
          /\ frames[i].analysis \in Codes \cup {None}
    <3>1. \A f \in FrameType : f.self \in Addr /\ f.gas \in Nat /\ f.analysis \in Codes \cup {None}
      BY DEF FrameType
    <3>2. \A i \in 1 .. Len(frames) : frames[i] \in FrameType
      BY <2>1, SMTT(30)
    <3> QED
      BY <3>1, <3>2, ZenonT(60)
  <2>3. TypeOK
    BY <2>1, <2>2, SMTT(30) DEF TypeOK, FlagsIn, IInv, Counters
  <2>4. ReadOnlyWhileStatic
    BY <2>1, SMTT(30) DEF ReadOnlyWhileStatic, FlagsIn
  <2>5. RunningAddressWarm
    BY <2>1, SMTT(30) DEF RunningAddressWarm, BacksIn
  <2>6. AnalysisOfOwnCode
    BY <2>1 DEF AnalysisOfOwnCode, FrameIn
  <2> QED
    BY <2>3, <2>4, <2>5, <2>6, SMTT(30) DEF FrameContext
<1> QED
  BY <1>1, FramesInvariant, PTL

\* Gas is neither made nor lost between the frames: stipends, refusals and the EIP-150 share
\* included.
THEOREM GasIsConserved ==
  Spec => []GasConserved
<1>1. IInv => GasConserved
  BY DEF IInv
<1> QED
  BY <1>1, FramesInvariant, PTL

\* No account is overdrawn and, since EIP-6780, no ether is made.
THEOREM EtherIsSafe ==
  Spec => []EtherSafe
<1>1. IInv => EtherSafe
  <2> SUFFICES ASSUME IInv PROVE EtherSafe
    OBVIOUS
  <2>1. WorldIn(rules, stored, world)
    BY DEF IInv, Stack, StackIn
  <2>2. EtherNeverMade
    BY <2>1, TotalIsEther DEF WorldIn, CapIn, EtherNeverMade
  <2>3. Solvent
    BY <2>1, SMTT(30) DEF WorldIn, Solvent
  <2> QED
    BY <2>2, <2>3 DEF EtherSafe
<1> QED
  BY <1>1, FramesInvariant, PTL

\* Whatever runs below a static call, the accounts stay as it found them.
THEOREM StaticCallsAreStatic ==
  Spec => []StaticKeepsAccounts
<1>1. IInv => StaticKeepsAccounts
  BY DEF IInv, Stack, StackIn, BacksIn, StaticKeepsAccounts
<1> QED
  BY <1>1, FramesInvariant, PTL

\* A frame that fails, reverts or has its code refused brings back the world its instruction
\* found.
THEOREM FailuresLeaveNothing ==
  Spec => FailureLeavesNothing
<1>1. ASSUME IInv, Revert \/ Fail \/ \E ret \in Deployed : Refused(ret) /\ Deploy(ret)
      PROVE  world' = Top.before
  <2>1. Running
    BY <1>1, Zenon DEF Revert, Fail, Deploy
  <2>2. FrameOK(Top)
    BY <1>1, <2>1, TopFacts
  <2>3. Top.snapshot = Top.before
    BY <2>2 DEF FrameOK, FrameIn
  <2>4. world' = Top.snapshot
    <3>1. CASE Revert
      BY <3>1 DEF Revert, Leave
    <3>2. CASE Fail
      BY <3>2 DEF Fail, Leave
    <3>3. CASE \E ret \in Deployed : Refused(ret) /\ Deploy(ret)
      BY <3>3 DEF Deploy, Leave
    <3> QED
      BY <1>1, <3>1, <3>2, <3>3, SMTT(30)
  <2> QED
    BY <2>3, <2>4
<1>2. IInv => [(Revert \/ Fail \/ \E ret \in Deployed : Refused(ret) /\ Deploy(ret))
                 => world' = Top.before]_vars
  BY <1>1
<1> QED
  BY <1>2, FramesInvariant, PTL DEF FailureLeavesNothing

=============================================================================

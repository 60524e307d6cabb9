---------------------------- MODULE EVMCallProofs ---------------------------
(***************************************************************************)
(* What a call or a creation in EVM.tla comes to, and that a frame which   *)
(* leaves the stack, goes on, or calls another keeps the invariant of      *)
(* EVMWorldProofs.                                                         *)
(***************************************************************************)
EXTENDS EVMWorldProofs

-----------------------------------------------------------------------------
(* What a call comes to.                                                    *)

\* Frame f, started from world w, begins to run in world v.
Starts(f, w, v, gas) ==
  /\ FrameOK(f) /\ f.gas = gas
  /\ Grows(w, f.snapshot)
  /\ readOnly => Contents(f.snapshot) = Contents(w)
  /\ Begins(f, v, readOnly)

\* Outcome o of a call given `gas` in world w.
Outcome(o, w, gas) ==
  /\ Grows(w, o.world)
  /\ readOnly => Contents(o.world) = Contents(w)
  /\ o.runs \in BOOLEAN
  /\ ~o.runs => o.gas \in Nat /\ o.err # "none"
  /\ o.runs => Starts(o.run, w, o.world, gas)

\* A world is a step from itself.
LEMMA GrowsReflexive ==
  ASSUME NEW w, WorldOK(w)
  PROVE  Grows(w, w)
BY DEF Grows

\* A call that returns at once.
LEMMA ReturnedOutcome ==
  ASSUME NEW w, NEW v, Grows(w, v), readOnly => Contents(v) = Contents(w),
         NEW kept \in Nat, NEW err, err # "none", NEW gas
  PROVE  Outcome(Returned(v, kept, err), w, gas)
BY DEF Outcome, Returned

\* A precompile that runs.
LEMMA PrecompileOutcome ==
  ASSUME NEW w, WorldOK(w), NEW v, Grows(w, v), readOnly => Contents(v) = Contents(w),
         NEW gas \in Nat, NEW ok
  PROVE  Outcome(RunPrecompiledContract(v, w, gas, ok), w, gas)
<1>1. CASE gas >= 1 /\ ok
  <2>1. gas - 1 \in Nat
    BY <1>1
  <2>2. RunPrecompiledContract(v, w, gas, ok) = Returned(v, gas - 1, "nil")
    BY <1>1 DEF RunPrecompiledContract
  <2> QED
    BY <2>1, <2>2, ReturnedOutcome
<1>2. CASE ~(gas >= 1 /\ ok)
  <2>1. RunPrecompiledContract(v, w, gas, ok) = Returned(w, 0, "failed")
    BY <1>2 DEF RunPrecompiledContract
  <2> QED
    BY <2>1, ReturnedOutcome, GrowsReflexive
<1> QED
  BY <1>1, <1>2

\* A contract that runs, or has no code.
LEMMA RunOutcome ==
  ASSUME readOnly \in BOOLEAN,
         NEW w, NEW v, Grows(w, v), readOnly => Contents(v) = Contents(w),
         NEW s, Grows(w, s), readOnly => Contents(s) = Contents(w),
         NEW kind \in {"CALL", "CALLCODE", "DELEGATECALL", "STATICCALL", "CREATE"},
         NEW self \in Addr \ Precompiles, NEW code \in Codes, NEW hash \in {ZeroHash, code},
         NEW gas \in Nat,
         kind = "CREATE" => ~readOnly /\ v.acct[self].made,
         kind = "STATICCALL" => rules.byzantium /\ Contents(v) = Contents(s),
         rules.berlin => self \in v.warm
  PROVE  Outcome(Run(v, NewContract(kind, self, hash, code, gas, s, s)), w, gas)
<1> DEFINE f == NewContract(kind, self, hash, code, gas, s, s)
<1>1. s \in Worlds /\ WorldOK(s)
  BY DEF Grows, WorldOK, WorldIn, Capped
<1>2. /\ f.kind = kind /\ f.self = self /\ f.hash = hash /\ f.code = code /\ f.gas = gas
      /\ f.before = s /\ f.snapshot = s /\ f.analysis = None
      /\ f.static = (kind = "STATICCALL" /\ ~readOnly)
      /\ f \in FrameType
  BY <1>1 DEF NewContract, FrameType
<1> HIDE DEF f
<1>3. Starts(f, w, v, gas)
  <2>1. FrameOK(f)
    BY <1>1, <1>2 DEF FrameOK, FrameIn, WorldOK
  <2> QED
    BY <1>2, <2>1 DEF Starts, Begins
<1>4. CASE code = EmptyCode
  <2>1. Run(v, f) = Returned(v, gas, "nil")
    BY <1>2, <1>4 DEF Run
  <2>2. Outcome(Returned(v, gas, "nil"), w, gas)
    BY ReturnedOutcome
  <2> QED
    BY <2>1, <2>2 DEF f
<1>5. CASE code # EmptyCode
  <2>1. Run(v, f) = [world |-> v, runs |-> TRUE, run |-> f]
    BY <1>2, <1>5 DEF Run
  <2>2. Outcome(Run(v, f), w, gas)
    BY <1>3, <2>1 DEF Outcome
  <2> QED
    BY <2>2 DEF f
<1> QED
  BY <1>4, <1>5

\* A message call: the account is created when it is not there, the value moves, and the code
\* runs from a snapshot taken before either.
LEMMA CallOutcome ==
  ASSUME readOnly \in BOOLEAN, depth \in Nat, NEW w, WorldOK(w),
         NEW caller \in Addr, NEW a \in Addr, NEW gas \in Nat, NEW value \in Nat, NEW ok,
         rules.berlin => a \in w.warm, readOnly => value = 0 /\ rules.eip158
  PROVE  Outcome(Call(w, caller, a, gas, value, ok), w, gas)
<1> DEFINE there == IF Exist(w, a) THEN w ELSE CreateAccount(w, a)
           paid == Transfer(there, caller, a, value)
           o == Call(w, caller, a, gas, value, ok)
           early == ~Exist(w, a) /\ a \notin Precompiles /\ rules.eip158 /\ value = 0
<1>0. CallCreateDepth \in Nat /\ Grows(w, w) /\ w \in Worlds
  BY EVMAssumption, GrowsReflexive DEF WorldOK, WorldIn, Capped
<1>1. CASE depth > CallCreateDepth
  <2>1. o = Returned(w, gas, "depth")
    BY <1>0, <1>1 DEF Call
  <2> QED
    BY <1>0, <2>1, ReturnedOutcome
<1>2. CASE depth <= CallCreateDepth /\ value # 0 /\ ~CanTransfer(w, caller, value)
  <2>1. o = Returned(w, gas, "balance")
    BY <1>0, <1>2 DEF Call
  <2> QED
    BY <1>0, <2>1, ReturnedOutcome
<1>3. CASE depth <= CallCreateDepth /\ (value = 0 \/ CanTransfer(w, caller, value)) /\ early
  <2>1. o = Returned(w, gas, "nil")
    BY <1>0, <1>3 DEF Call
  <2> QED
    BY <1>0, <2>1, ReturnedOutcome
<1>4. CASE depth <= CallCreateDepth /\ (value = 0 \/ CanTransfer(w, caller, value)) /\ ~early
  <2>1. /\ Grows(w, there) /\ there.warm = w.warm
        /\ readOnly => Contents(there) = Contents(w)
        /\ \A b \in Addr : b # a => GetBalance(there, b) = GetBalance(w, b)
    BY <1>0, <1>4, CreateOK, SMTT(30)
  <2>2. WorldOK(there) /\ there \in Worlds
    BY <2>1 DEF Grows, WorldOK, WorldIn, Capped
  <2>3. GetBalance(there, caller) >= value
    <3>1. GetBalance(there, caller) \in Int /\ GetBalance(there, caller) >= 0
      BY <2>2, BalanceFacts DEF WorldOK, WorldIn, Capped
    <3>2. CASE value = 0
      BY <3>1, <3>2
    <3>3. CASE CanTransfer(w, caller, value) /\ value # 0
      <4>1. GetBalance(w, caller) >= value /\ value > 0 /\ GetBalance(w, caller) \in Int
        BY <1>0, <3>3, BalanceFacts DEF CanTransfer
      <4>2. CASE Exist(w, a)
        BY <4>1, <4>2
      <4>3. CASE caller # a
        BY <2>1, <4>1, <4>3
      <4>4. CASE caller = a /\ ~Exist(w, a)
        <5>1. w.acct[caller].balance = 0
          BY <4>4 DEF Exist
        <5>2. GetBalance(w, caller) = 0
          BY <1>0, <5>1, BalanceFacts
        <5> QED
          BY <4>1, <5>2
      <4> QED
        BY <4>2, <4>3, <4>4
    <3> QED
      BY <1>4, <3>2, <3>3
  <2> HIDE DEF there
  <2>4. /\ Grows(there, paid) /\ paid.warm = there.warm
        /\ value = 0 => Contents(paid) = Contents(there)
    BY <2>2, <2>3, TransferOK
  <2> HIDE DEF paid
  <2>5. Grows(w, paid) /\ WorldOK(paid) /\ (readOnly => Contents(paid) = Contents(w))
    BY <2>1, <2>4, GrowsTransitive DEF Grows
  <2>6. CASE a \in Precompiles
    <3>1. o = RunPrecompiledContract(paid, w, gas, ok)
      BY <1>0, <1>4, <2>6 DEF Call, there, paid
    <3> HIDE DEF o
    <3> QED
      BY <2>5, <3>1, PrecompileOutcome DEF o
  <2>7. CASE a \notin Precompiles
    <3> DEFINE hash == resolveCodeHash(paid, a)
               code == resolveCode(paid, a)
    <3>1. o = Run(paid, NewContract("CALL", a, hash, code, gas, w, w))
      BY <1>0, <1>4, <2>7 DEF Call, there, paid
    <3>2. code \in Codes /\ hash \in {ZeroHash, code}
      BY <2>5, HashFacts
    <3> HIDE DEF hash, code, o
    <3>3. rules.berlin => a \in paid.warm
      BY <2>1, <2>4
    <3>4. Outcome(Run(paid, NewContract("CALL", a, hash, code, gas, w, w)), w, gas)
      BY <1>0, <2>5, <2>7, <3>2, <3>3, RunOutcome
    <3> QED
      BY <3>1, <3>4 DEF o
  <2> QED
    BY <2>6, <2>7
<1>5. depth > CallCreateDepth \/ depth <= CallCreateDepth
  BY <1>0
<1> QED
  BY <1>1, <1>2, <1>3, <1>4, <1>5

\* CALLCODE and DELEGATECALL: another account's code on the caller's own.
LEMMA BorrowOutcome ==
  ASSUME readOnly \in BOOLEAN, NEW kind \in {"CALLCODE", "DELEGATECALL"}, NEW w, WorldOK(w),
         NEW caller \in Addr \ Precompiles, NEW a \in Addr, NEW gas \in Nat, NEW ok,
         rules.berlin => caller \in w.warm
  PROVE  Outcome(Borrow(kind, w, caller, a, gas, ok), w, gas)
<1>0. Grows(w, w)
  BY GrowsReflexive
<1>1. CASE a \in Precompiles
  <2>1. Borrow(kind, w, caller, a, gas, ok) = RunPrecompiledContract(w, w, gas, ok)
    BY <1>1 DEF Borrow
  <2> QED
    BY <1>0, <2>1, PrecompileOutcome
<1>2. CASE a \notin Precompiles
  <2> DEFINE hash == resolveCodeHash(w, a)
             code == resolveCode(w, a)
  <2>1. Borrow(kind, w, caller, a, gas, ok)
          = Run(w, NewContract(kind, caller, hash, code, gas, w, w))
    BY <1>2 DEF Borrow
  <2>2. code \in Codes /\ hash \in {ZeroHash, code}
    BY HashFacts
  <2> HIDE DEF hash, code
  <2>3. Outcome(Run(w, NewContract(kind, caller, hash, code, gas, w, w)), w, gas)
    BY <1>0, <2>2, RunOutcome
  <2> QED
    BY <2>1, <2>3
<1> QED
  BY <1>1, <1>2

\* The four call instructions.
LEMMA CallsOutcome ==
  ASSUME readOnly \in BOOLEAN, depth \in Nat, NEW w, WorldOK(w),
         NEW caller \in Addr \ Precompiles, NEW a \in Addr, NEW gas \in Nat, NEW value \in Nat,
         NEW ok, rules.berlin => a \in w.warm /\ caller \in w.warm,
         NEW kind \in {"CALL", "CALLCODE", "DELEGATECALL", "STATICCALL"},
         kind = "STATICCALL" => rules.byzantium,
         kind = "CALL" /\ readOnly => value = 0 /\ rules.eip158
  PROVE  Outcome(CASE kind = "CALL"         -> Call(w, caller, a, gas, value, ok)
                   [] kind = "CALLCODE"     -> CallCode(w, caller, a, gas, value, ok)
                   [] kind = "DELEGATECALL" -> DelegateCall(w, caller, a, gas, ok)
                   [] kind = "STATICCALL"   -> StaticCall(w, a, gas, ok), w, gas)
<1> DEFINE o == CASE kind = "CALL"         -> Call(w, caller, a, gas, value, ok)
                  [] kind = "CALLCODE"     -> CallCode(w, caller, a, gas, value, ok)
                  [] kind = "DELEGATECALL" -> DelegateCall(w, caller, a, gas, ok)
                  [] kind = "STATICCALL"   -> StaticCall(w, a, gas, ok)
<1>0. Grows(w, w)
  BY GrowsReflexive
<1>1. CASE kind = "CALL"
  <2>1. o = Call(w, caller, a, gas, value, ok)
    BY <1>1
  <2>2. Outcome(Call(w, caller, a, gas, value, ok), w, gas)
    BY <1>1, CallOutcome
  <2> QED
    BY <2>1, <2>2
<1>2. CASE kind = "CALLCODE"
  <2>1. o = CallCode(w, caller, a, gas, value, ok)
    BY <1>2
  <2>2. CallCode(w, caller, a, gas, value, ok)
          \in {Returned(w, gas, "depth"), Returned(w, gas, "balance"),
               Borrow("CALLCODE", w, caller, a, gas, ok)}
    BY DEF CallCode
  <2>3. Outcome(Returned(w, gas, "depth"), w, gas) /\ Outcome(Returned(w, gas, "balance"), w, gas)
    BY <1>0, ReturnedOutcome
  <2>4. Outcome(Borrow("CALLCODE", w, caller, a, gas, ok), w, gas)
    BY BorrowOutcome
  <2> QED
    BY <2>1, <2>2, <2>3, <2>4
<1>3. CASE kind = "DELEGATECALL"
  <2>1. o = DelegateCall(w, caller, a, gas, ok)
    BY <1>3
  <2>2. DelegateCall(w, caller, a, gas, ok)
          \in {Returned(w, gas, "depth"), Borrow("DELEGATECALL", w, caller, a, gas, ok)}
    BY DEF DelegateCall
  <2>3. Outcome(Returned(w, gas, "depth"), w, gas)
    BY <1>0, ReturnedOutcome
  <2>4. Outcome(Borrow("DELEGATECALL", w, caller, a, gas, ok), w, gas)
    BY BorrowOutcome
  <2> QED
    BY <2>1, <2>2, <2>3, <2>4
<1>4. CASE kind = "STATICCALL"
  <2> DEFINE hash == GetCodeHash(w, a)
             code == w.acct[a].code
             run == Run(w, NewContract("STATICCALL", a, hash, code, gas, w, w))
  <2>1. o = StaticCall(w, a, gas, ok)
    BY <1>4
  <2>2. \/ o = Returned(w, gas, "depth")
        \/ o = RunPrecompiledContract(w, w, gas, ok)
        \/ o = run /\ a \notin Precompiles
    BY <2>1 DEF StaticCall
  <2>3. Outcome(Returned(w, gas, "depth"), w, gas)
    BY <1>0, ReturnedOutcome
  <2>4. Outcome(RunPrecompiledContract(w, w, gas, ok), w, gas)
    BY <1>0, PrecompileOutcome
  <2>5. ASSUME a \notin Precompiles PROVE Outcome(run, w, gas)
    <3>1. code \in Codes /\ hash \in {ZeroHash, code}
      BY HashFacts
    <3> HIDE DEF hash, code
    <3> QED
      BY <1>0, <1>4, <2>5, <3>1, RunOutcome
  <2> HIDE DEF run, o
  <2>6. Outcome(o, w, gas)
    BY <2>2, <2>3, <2>4, <2>5
  <2> QED
    BY <2>6 DEF o
<1> QED
  BY <1>1, <1>2, <1>3, <1>4

\* A creation: the nonce and the warm address outlive its failure.
LEMMA CreateOutcome ==
  ASSUME readOnly = FALSE, depth \in Nat, NEW w, WorldOK(w), NEW caller \in Addr, NEW a \in Fresh,
         NEW code \in Codes, NEW hash \in {ZeroHash, code}, NEW gas \in Nat, NEW value \in Nat
  PROVE  Outcome(create(w, caller, a, hash, code, gas, value), w, gas)
<1> DEFINE noted == Counted(w, caller, a)
           made == CreateAccount(noted, a)
           first == IF rules.eip158 THEN [made EXCEPT !.acct[a].nonce = 1] ELSE made
           paid == Transfer(first, caller, a, value)
           o == create(w, caller, a, hash, code, gas, value)
<1>0. /\ CallCreateDepth \in Nat /\ Grows(w, w) /\ w \in Worlds /\ w.acct \in [Addr -> Accounts]
      /\ w.warm \in SUBSET Addr /\ a \in Addr /\ a \notin Precompiles
  BY EVMAssumption, CodeAssumption, GrowsReflexive DEF WorldOK, Worlds, WorldIn, Capped
<1>1. /\ Grows(w, noted) /\ noted \in Worlds /\ (rules.berlin => a \in noted.warm)
      /\ noted.acct[caller].nonce # 0
      /\ GetBalance(noted, caller) = GetBalance(w, caller)
  <2> DEFINE r == [w.acct[caller] EXCEPT !.nonce = @ + 1]
             warm == IF rules.berlin THEN w.warm \cup {a} ELSE w.warm
  <2>1. w.acct[caller] \in Accounts /\ w.acct[caller].nonce \in Nat
    BY <1>0 DEF Accounts
  <2>2. /\ r \in Accounts /\ r.nonce = w.acct[caller].nonce + 1
        /\ r.balance = w.acct[caller].balance /\ r.made = w.acct[caller].made
        /\ r.code = w.acct[caller].code /\ r.store = w.acct[caller].store
        /\ r.gone = w.acct[caller].gone
    BY <2>1 DEF Accounts
  <2>3. noted.acct = [w.acct EXCEPT ![caller] = r] /\ noted.warm = warm
        /\ noted = [acct |-> noted.acct, warm |-> noted.warm]
    <3>1. noted = [w EXCEPT !.acct[caller] = r, !.warm = warm]
      BY DEF Counted
    <3>2. w = [acct |-> w.acct, warm |-> w.warm]
      BY <1>0 DEF Worlds
    <3> HIDE DEF noted, r, warm
    <3> QED
      BY <3>1, <3>2, Zenon
  <2> HIDE DEF noted, r
  <2>4. /\ noted.acct \in [Addr -> Accounts] /\ noted.acct[caller] = r
        /\ \A b \in Addr : b # caller => noted.acct[b] = w.acct[b]
    BY <1>0, <2>2, <2>3
  <2>5. noted \in Worlds /\ w.warm \subseteq noted.warm /\ (rules.berlin => a \in noted.warm)
    BY <1>0, <2>3, <2>4 DEF Worlds
  <2>6. GetBalance(noted, caller) = GetBalance(w, caller)
    BY <2>2, <2>4 DEF GetBalance
  <2>7. GetBalance(w, caller) \in Int
    BY <1>0, BalanceFacts
  <2>8. /\ w.acct[caller].balance >= 0
        /\ ~w.acct[caller].made /\ caller \in DOMAIN stored => w.acct[caller].code = stored[caller]
        /\ caller \in Precompiles => w.acct[caller].store = 0 /\ ~w.acct[caller].gone
    BY DEF WorldOK, WorldIn, Capped
  <2>9. Grows(w, noted)
    BY <2>2, <2>4, <2>5, <2>6, <2>7, <2>8, PointOK, SMTT(30)
  <2> QED
    BY <2>1, <2>2, <2>4, <2>5, <2>6, <2>9
<1>2. CASE depth > CallCreateDepth
  <2>1. o = Returned(w, gas, "depth")
    BY <1>0, <1>2 DEF create
  <2> QED
    BY <1>0, <2>1, ReturnedOutcome
<1>3. CASE depth <= CallCreateDepth /\ ~CanTransfer(w, caller, value)
  <2>1. o = Returned(w, gas, "balance")
    BY <1>0, <1>3 DEF create
  <2> QED
    BY <1>0, <2>1, ReturnedOutcome
<1>4. CASE depth <= CallCreateDepth /\ CanTransfer(w, caller, value) /\ Collides(noted, a)
  <2>1. o = Returned(noted, 0, "collision")
    BY <1>0, <1>4 DEF create
  <2> HIDE DEF noted, o
  <2>2. Outcome(Returned(noted, 0, "collision"), w, gas)
    BY <1>1, ReturnedOutcome
  <2> QED
    BY <2>1, <2>2 DEF o
<1>5. CASE depth <= CallCreateDepth /\ CanTransfer(w, caller, value) /\ ~Collides(noted, a)
  <2>1. o = Run(paid, NewContract("CREATE", a, hash, code, gas, noted, noted))
    BY <1>0, <1>5 DEF create
  <2>2. caller # a
    BY <1>1, <1>5 DEF Collides
  <2>3. WorldOK(noted)
    BY <1>1 DEF Grows
  <2> HIDE DEF noted, o
  <2>4. /\ Grows(noted, made) /\ made.warm = noted.warm /\ made.acct[a].made
        /\ GetBalance(made, caller) = GetBalance(noted, caller)
    BY <1>0, <2>2, <2>3, CreateOK, SMTT(30)
  <2>5. WorldOK(made) /\ made \in Worlds /\ made.acct \in [Addr -> Accounts]
    BY <2>4 DEF Grows, WorldOK, Worlds, WorldIn, Capped
  <2> HIDE DEF made
  <2>6. /\ Grows(made, first) /\ first.warm = made.warm /\ first.acct[a].made
        /\ GetBalance(first, caller) = GetBalance(made, caller)
    <3>1. CASE ~rules.eip158
      BY <2>4, <2>5, <3>1, GrowsReflexive, SMTT(30)
    <3>2. CASE rules.eip158
      <4> DEFINE r == [made.acct[a] EXCEPT !.nonce = 1]
      <4>1. made.acct[a] \in Accounts
        BY <1>0, <2>5
      <4>2. /\ r \in Accounts /\ r.balance = made.acct[a].balance /\ r.made = made.acct[a].made
            /\ r.store = made.acct[a].store /\ r.gone = made.acct[a].gone
        BY <4>1 DEF Accounts
      <4>3. first = [made EXCEPT !.acct[a] = r]
        BY <3>2
      <4> HIDE DEF r, first
      <4>4. /\ first \in Worlds /\ first.warm = made.warm /\ first.acct[a] = r
            /\ \A b \in Addr : b # a => first.acct[b] = made.acct[b]
        BY <1>0, <2>5, <4>2, <4>3, SMTT(30) DEF Worlds
      <4>5. /\ GetBalance(first, caller) = GetBalance(made, caller)
            /\ GetBalance(first, a) = GetBalance(made, a) /\ GetBalance(made, a) \in Int
        BY <1>0, <2>2, <2>5, <4>2, <4>4, BalanceFacts, SMTT(30) DEF GetBalance
      <4>6. made.acct[a].balance >= 0
        BY <1>0, <2>5 DEF WorldOK, WorldIn, Capped
      <4>7. Grows(made, first)
        <5>1. /\ made.warm \subseteq first.warm /\ first.acct[a].balance >= 0
              /\ first.acct[a].made
              /\ GetBalance(first, a) <= GetBalance(made, a)
          <6>1. first.warm = made.warm /\ first.acct[a].balance = made.acct[a].balance
            BY <4>2, <4>4
          <6>2. first.acct[a].made
            BY <2>4, <4>2, <4>4, ZenonT(60)
          <6> QED
            BY <4>5, <4>6, <6>1, <6>2
        <5> QED
          BY <1>0, <2>5, <4>4, <5>1, PointOK, SMTT(30)
      <4> QED
        BY <2>4, <4>2, <4>4, <4>5, <4>7, Zenon
    <3> QED
      BY <3>1, <3>2
  <2> HIDE DEF first
  <2>7. GetBalance(first, caller) >= value /\ WorldOK(first)
    BY <1>1, <1>5, <2>4, <2>6 DEF CanTransfer, Grows
  <2>8. /\ Grows(first, paid) /\ paid.warm = first.warm /\ paid.acct[a].made
    BY <1>0, <2>6, <2>7, TransferOK
  <2> HIDE DEF paid
  <2>9. Grows(w, paid)
    BY <1>1, <2>4, <2>6, <2>8, GrowsTransitive, SMTT(30)
  <2>10. rules.berlin => a \in paid.warm
    BY <1>1, <2>4, <2>6, <2>8, SMTT(30)
  <2>11. Outcome(Run(paid, NewContract("CREATE", a, hash, code, gas, noted, noted)), w, gas)
    BY <1>0, <1>1, <2>8, <2>9, <2>10, RunOutcome, ZenonT(60)
  <2> QED
    BY <2>1, <2>11 DEF o
<1>6. depth > CallCreateDepth \/ depth <= CallCreateDepth
  BY <1>0
<1> QED
  BY <1>2, <1>3, <1>4, <1>5, <1>6, SMTT(30)

-----------------------------------------------------------------------------
(* The invariant is kept.                                                   *)

\* What the invariant says of the innermost frame.
LEMMA TopFacts ==
  ASSUME IInv, Running
  PROVE  /\ frames \in Seq(FrameType) /\ Len(frames) \in Nat /\ Len(frames) >= 1
         /\ Top = frames[Len(frames)] /\ Top \in FrameType /\ FrameOK(Top)
         /\ Top.gas \in Nat /\ Top.self \in Addr /\ Top.self \notin Precompiles
         /\ Backs(frames, Len(frames) - 1, world)
         /\ Backs(frames, Len(frames) - 1, Top.snapshot)
         /\ WorldOK(world) /\ WorldOK(Top.snapshot)
         /\ rules.berlin => Top.self \in world.warm
         /\ Top.kind = "CREATE" => world.acct[Top.self].made /\ ~readOnly
         /\ readOnly \in BOOLEAN
         /\ GasOf(frames) = limit - spent
<1>0. Stack(frames, world, readOnly)
  BY DEF IInv
<1>1. /\ frames \in Seq(FrameType) /\ Len(frames) \in Nat /\ Len(frames) >= 1
      /\ Top = frames[Len(frames)] /\ Top \in FrameType
  <2>1. frames \in Seq(FrameType) /\ frames # << >>
    BY <1>0 DEF Running, Stack, StackIn
  <2> QED
    BY <2>1, FrontFacts DEF Top
<1>2. FrameOK(Top) /\ WorldOK(world)
  BY <1>0, <1>1 DEF Stack, StackIn, FrameOK, WorldOK
<1>3. WorldOK(Top.snapshot)
  BY <1>2 DEF FrameOK, FrameIn, WorldOK
<1>4. Top.gas \in Nat /\ Top.self \in Addr /\ Top.self \notin Precompiles
  BY <1>1 DEF FrameType
<1>5. Backs(frames, Len(frames), world) /\ Backs(frames, Len(frames) - 1, Top.snapshot)
  BY <1>0, <1>1, SMTT(30) DEF Stack, StackIn, Backs
<1>6. Backs(frames, Len(frames) - 1, world)
  BY <1>1, <1>5, SMTT(30) DEF Backs, BacksIn
<1>7. /\ rules.berlin => Top.self \in world.warm
      /\ Top.kind = "CREATE" => world.acct[Top.self].made
  BY <1>1, <1>5 DEF Backs, BacksIn
<1>8. (Top.kind = "CREATE" => ~readOnly) /\ readOnly \in BOOLEAN
  <2>1. Flags(frames, readOnly)
    BY <1>0 DEF Stack, StackIn, Flags
  <2>2. /\ \A i \in 1 .. Len(frames) : i = Len(frames) \/ i \in 1 .. Len(frames) - 1
        /\ Len(frames) \in 1 .. Len(frames)
    BY <1>1
  <2> QED
    BY <1>1, <2>1, <2>2 DEF Flags, FlagsIn
<1>9. GasOf(frames) = limit - spent
  BY DEF IInv, GasConserved
<1> QED
  BY <1>1, <1>2, <1>3, <1>4, <1>5, <1>6, <1>7, <1>8, <1>9

\* A frame ends in a world that backs its callers, keeping some gas.
LEMMA LeaveKeeps ==
  ASSUME IInv, Running, NEW v, WorldOK(v), Backs(frames, Len(frames) - 1, v),
         NEW err, err # "none", NEW kept \in Nat, Leave(Top, v, err, kept), abort' \in BOOLEAN
  PROVE  IInv'
<1>0. /\ Stack(frames, world, readOnly) /\ Counters
      /\ frames \in Seq(FrameType) /\ frames # << >> /\ Top.gas \in Nat
      /\ Top = Last(frames) /\ GasOf(frames) = limit - spent
  BY TopFacts DEF IInv, Running, Top
<1> DEFINE fs == Front(frames)
<1>1. /\ world' = v /\ frames' = Repaid(fs, kept) /\ readOnly' = (readOnly /\ ~Top.static)
      /\ result' = Ended(fs, err, kept) /\ spent' = spent + Top.gas - kept
      /\ rules' = rules /\ limit' = limit /\ stored' = stored /\ jumpdests' = jumpdests
  BY DEF Leave, StillReadOnly
<1>2. Stack(fs, v, readOnly /\ ~Top.static)
  BY <1>0, StackPop
<1>3. fs \in Seq(FrameType)
  BY <1>0, FrontFacts
<1> HIDE DEF fs
<1>4. Stack(Repaid(fs, kept), v, readOnly /\ ~Top.static)
  BY <1>2, StackRepaid
<1>5. Stack(frames, world, readOnly)'
  BY <1>1, <1>4, SMTT(30) DEF Stack
<1>6. Analyses'
  BY <1>1 DEF IInv, Analyses
<1>7. Counters'
  <2>1. result'.gas \in Nat /\ (result'.err = "none" => result'.gas = limit)
    BY <1>0, <1>1 DEF Ended, Counters
  <2>2. spent' \in Int
    BY <1>0, <1>1 DEF Counters
  <2> QED
    BY <1>0, <1>1, <2>1, <2>2, SMTT(30) DEF Counters
<1>8. GasConserved'
  <2>1. GasOf(frames) = GasOf(fs) + Top.gas
    <3>1. Top \in FrameType
      BY TopFacts
    <3> QED
      BY <1>0, <3>1, GasTop, SMTT(30) DEF fs
  <2>2. limit \in Nat /\ spent \in Int /\ GasOf(fs) \in Int
    BY <1>0, <1>3, GasTyped, ZenonT(60) DEF Counters
  <2>3. CASE fs = << >>
    <3>1. frames' = << >> /\ result'.gas = kept /\ GasOf(fs) = 0
      BY <1>1, <2>3, GasEmpty DEF Repaid, Ended
    <3> QED
      BY <1>0, <1>1, <2>1, <2>2, <3>1, SMTT(30) DEF GasConserved, Running
  <2>4. CASE fs # << >>
    <3>1. GasOf(frames') = GasOf(fs) + kept /\ frames' # << >>
      BY <1>1, <1>3, <2>4, GasRepaid
    <3>2. GasOf(frames') = limit' - spent'
      <4>1. /\ GasOf(fs) + Top.gas = limit - spent /\ Top.gas \in Nat
            /\ spent' = spent + Top.gas - kept /\ limit' = limit
        BY <1>0, <1>1, <2>1
      <4>2. GasOf(frames') = GasOf(fs) + kept
        BY <3>1
      <4> QED
        BY <2>2, <4>1, <4>2, SMTT(30)
    <3> QED
      BY <3>1, <3>2 DEF GasConserved, Running
  <2> QED
    BY <2>3, <2>4
<1> QED
  BY <1>5, <1>6, <1>7, <1>8, SMTT(30) DEF IInv

\* Parts m and n make up the limit l less what was spent, s.
Even(m, n, l, s) == m \in Int /\ n \in Int /\ l \in Int /\ s \in Int /\ m + n = l - s

\* One unit less on both sides.
LEMMA OneLess ==
  ASSUME NEW m, NEW n, NEW l, NEW s, Even(m, n, l, s)
  PROVE  m + (n - 1) = l - (s + 1)
BY SMTT(30) DEF Even

\* The innermost frame goes on, one unit of gas poorer, in a world a step away.
LEMMA TurnKeeps ==
  ASSUME IInv, NEW v, Grows(world, v), readOnly => Contents(v) = Contents(world),
         NEW f, FrameOK(f), Like(Top, f), f.gas = Top.gas, Turn(v, f), Analyses'
  PROVE  IInv'
<1> DEFINE g == [f EXCEPT !.gas = @ - 1]
<1>0. /\ Stack(frames, world, readOnly) /\ Counters /\ Running
      /\ frames \in Seq(FrameType) /\ frames # << >> /\ Top.gas \in Nat /\ Top.gas >= 1
      /\ Top = Last(frames) /\ GasOf(frames) = limit - spent /\ Top \in FrameType
  BY TopFacts, Zenon DEF IInv, Running, Top, Turn
<1>1. /\ frames' = Append(Front(frames), g) /\ world' = v /\ spent' = spent + 1
      /\ rules' = rules /\ limit' = limit /\ stored' = stored /\ readOnly' = readOnly
      /\ abort' = abort /\ result' = result
  BY DEF Turn
<1>2. f \in FrameType /\ f.gas - 1 \in Nat
  BY <1>0 DEF FrameOK, FrameIn
<1>3. /\ g \in FrameType /\ g.gas = f.gas - 1 /\ g.kind = f.kind /\ g.self = f.self
      /\ g.hash = f.hash /\ g.code = f.code /\ g.before = f.before /\ g.snapshot = f.snapshot
      /\ g.analysis = f.analysis /\ g.static = f.static
  BY <1>2, SMTT(30) DEF FrameType
<1> HIDE DEF g
<1>4. FrameOK(g) /\ Like(Last(frames), g)
  BY <1>0, <1>3 DEF FrameOK, FrameIn, Like
<1>5. Stack(frames, v, readOnly)
  BY <1>0, StackWorld
<1>6. Stack(Append(Front(frames), g), v, readOnly)
  BY <1>0, <1>4, <1>5, StackTop, SMTT(30)
<1>7. Stack(frames, world, readOnly)'
  BY <1>1, <1>6 DEF Stack
<1>8. Counters'
  BY <1>0, <1>1 DEF Counters
<1>9. GasConserved'
  <2>1. /\ GasOf(frames) = GasOf(Front(frames)) + Top.gas
        /\ GasOf(frames') = GasOf(Front(frames)) + g.gas
    BY <1>0, <1>1, <1>3, GasTop
  <2>2. limit \in Nat /\ spent \in Int /\ GasOf(Front(frames)) \in Int
    BY <1>0, FrontFacts, GasTyped, Zenon DEF Counters
  <2>3. GasOf(frames') = limit' - spent'
    <3>1. GasOf(Front(frames)) + Top.gas = limit - spent
      BY <1>0, <2>1, Zenon
    <3>2. GasOf(frames') = GasOf(Front(frames)) + (Top.gas - 1)
      BY <1>3, <2>1, ZenonT(60)
    <3>3. limit \in Int /\ spent \in Int /\ GasOf(Front(frames)) \in Int /\ Top.gas \in Int
      BY <1>0, <2>2
    <3>. Even(GasOf(Front(frames)), Top.gas, limit, spent)
      BY <3>1, <3>3, ZenonT(60) DEF Even
    <3>4. GasOf(Front(frames)) + (Top.gas - 1) = limit - (spent + 1)
      BY OneLess, Z3
    <3>5. spent' = spent + 1 /\ limit' = limit
      BY <1>1, SMTT(30)
    <3> QED
      BY <3>2, <3>4, <3>5, Zenon
  <2>4. frames' # << >>
    BY <1>0, <1>1, <1>3, FrontFacts, AppendFacts, SMTT(30)
  <2> QED
    BY <2>3, <2>4, SMTT(30) DEF GasConserved, Running
<1> QED
  BY <1>7, <1>8, <1>9, SMTT(30) DEF IInv

\* A frame that starts from the world of frames fs goes on top of them.
LEMMA StartsOnTop ==
  ASSUME NEW fs, NEW w, Stack(fs, w, readOnly), NEW f, NEW v, NEW gas, Starts(f, w, v, gas),
         Grows(w, v), readOnly => Contents(v) = Contents(w)
  PROVE  Stack(Append(fs, f), v, readOnly \/ f.static)
<1>1. /\ FrameOK(f) /\ Grows(w, f.snapshot) /\ Begins(f, v, readOnly)
      /\ readOnly => Contents(f.snapshot) = Contents(w)
  BY Zenon DEF Starts
<1>2. Backs(fs, Len(fs), f.snapshot)
  BY <1>1, StackWorld, Zenon
<1>3. Backs(fs, Len(fs), v)
  BY StackWorld, Zenon
<1>4. WorldOK(v)
  BY Zenon DEF Grows
<1> QED
  BY <1>1, <1>2, <1>3, <1>4, StackPush, Zenon

\* Frames fs go on with the outcome of a call.
LEMMA ContinueKeeps ==
  ASSUME IInv, NEW fs, NEW w, Stack(fs, w, readOnly), NEW o, NEW gas \in Nat, Outcome(o, w, gas),
         NEW price \in Int, NEW stipend \in Int, Continue(fs, o, price, gas, stipend),
         GasOf(fs) + gas = limit - spent - price + stipend
  PROVE  IInv'
<1>0. fs \in Seq(FrameType) /\ Counters /\ limit \in Nat /\ spent \in Int /\ GasOf(fs) \in Int
  BY GasTyped, Zenon DEF Stack, StackIn, IInv, Counters
<1>1. /\ world' = o.world /\ rules' = rules /\ limit' = limit /\ stored' = stored
      /\ jumpdests' = jumpdests /\ abort' = abort
      /\ readOnly' = (readOnly \/ (o.runs /\ o.run.static))
  BY DEF Continue
<1>2. Stack(fs, o.world, readOnly) /\ Backs(fs, Len(fs), o.world)
  BY StackWorld, SMTT(30) DEF Outcome
<1>3. Analyses'
  BY <1>1 DEF IInv, Analyses
<1>4. CASE o.runs
  <2>1. /\ frames' = Append(fs, o.run) /\ result' = result /\ spent' = spent + price - stipend + 0
        /\ readOnly' = (readOnly \/ o.run.static)
    BY <1>1, <1>4 DEF Continue
  <2>2. Starts(o.run, w, o.world, gas)
    BY <1>4, SMTT(30) DEF Outcome
  <2>3. Grows(w, o.world) /\ (readOnly => Contents(o.world) = Contents(w))
    BY Zenon DEF Outcome
  <2>4. Stack(Append(fs, o.run), o.world, readOnly \/ o.run.static)
    BY <2>2, <2>3, StartsOnTop, Zenon
  <2>5. Stack(frames, world, readOnly)'
    BY <1>1, <2>1, <2>4 DEF Stack
  <2>6. Counters'
    BY <1>0, <1>1, <2>1, SMTT(30) DEF Counters
  <2>7. GasConserved'
    <3>1. o.run \in FrameType /\ o.run.gas = gas
      BY <2>2 DEF Starts, FrameOK, FrameIn
    <3>2. /\ Append(fs, o.run) \in Seq(FrameType) /\ Append(fs, o.run) # << >>
          /\ Len(Append(fs, o.run)) = Len(fs) + 1
          /\ \A i \in 1 .. Len(fs) : Append(fs, o.run)[i] = fs[i]
          /\ Append(fs, o.run)[Len(fs) + 1] = o.run
      BY <1>0, <3>1, AppendFacts, SMTT(30)
    <3>3. GasOf(frames') = GasOf(fs) + gas
      BY <1>0, <2>1, <3>1, <3>2, GasExtend, ZenonT(60)
    <3>4. GasOf(frames') = limit' - spent'
      BY <1>0, <1>1, <2>1, <3>3
    <3> QED
      BY <2>1, <3>2, <3>4, SMTT(30) DEF GasConserved, Running
  <2> QED
    BY <1>3, <2>5, <2>6, <2>7, SMTT(30) DEF IInv
<1>5. CASE ~o.runs
  <2>1. /\ frames' = Repaid(fs, o.gas) /\ result' = Ended(fs, o.err, o.gas)
        /\ spent' = spent + price - stipend + (gas - o.gas) /\ readOnly' = readOnly
        /\ o.gas \in Nat /\ o.err # "none"
    <3>1. readOnly \in BOOLEAN
      BY Zenon DEF IInv, Stack, StackIn, FlagsIn
    <3> QED
      BY <1>1, <1>5, <3>1, SMTT(30) DEF Continue, Outcome
  <2>2. Stack(Repaid(fs, o.gas), o.world, readOnly)
    BY <1>2, <2>1, StackRepaid, SMTT(30)
  <2>3. Stack(frames, world, readOnly)'
    BY <1>1, <2>1, <2>2, SMTT(30) DEF Stack
  <2>4. Counters'
    <3>1. result'.gas \in Nat /\ (result'.err = "none" => result'.gas = limit)
      BY <1>0, <2>1 DEF Ended, Counters
    <3>2. spent' \in Int
      BY <1>0, <2>1
    <3> QED
      BY <1>0, <1>1, <3>1, <3>2, SMTT(30) DEF Counters
  <2>5. GasConserved'
    <3>1. CASE fs = << >>
      <4>1. frames' = << >> /\ result'.gas = o.gas /\ GasOf(fs) = 0
        BY <2>1, <3>1, GasEmpty DEF Repaid, Ended
      <4> QED
        BY <1>0, <1>1, <2>1, <4>1, SMTT(30) DEF GasConserved, Running
    <3>2. CASE fs # << >>
      <4>1. GasOf(frames') = GasOf(fs) + o.gas /\ frames' # << >>
        BY <1>0, <2>1, <3>2, GasRepaid, SMTT(30)
      <4>2. GasOf(frames') = limit' - spent'
        <5>1. /\ spent' = spent + price - stipend + (gas - o.gas) /\ o.gas \in Nat
              /\ limit' = limit /\ GasOf(frames') = GasOf(fs) + o.gas
          BY <1>1, <2>1, <4>1
        <5>2. limit \in Nat /\ spent \in Int /\ GasOf(fs) \in Int
          BY <1>0
        <5> QED
          BY <5>1, <5>2
      <4> QED
        BY <4>1, <4>2 DEF GasConserved, Running
    <3> QED
      BY <3>1, <3>2
  <2> QED
    BY <1>3, <2>3, <2>4, <2>5 DEF IInv
<1> QED
  BY <1>4, <1>5 DEF Outcome

=============================================================================

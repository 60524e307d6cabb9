-------------------------------- MODULE EVM --------------------------------
(***************************************************************************)
(* The call frames of vm/evm.go and vm/contract.go: Call, CallCode,        *)
(* DelegateCall, StaticCall and create, the op functions that reach them   *)
(* and the interpreter's Run around one frame.  One action is one turn of  *)
(* Run's loop; what the code of a contract is does not matter here, so any *)
(* instruction may come next.  Gas is counted in small units and every     *)
(* instruction has a price, which is what ends an execution.               *)
(*                                                                         *)
(* The StateDB is taken at its promise (SnapshotStore): a snapshot is a    *)
(* saved world and a revert brings it back.  Its getters keep the answers  *)
(* StateDB.tla gives: an account neither stored nor created shows no       *)
(* balance, and one created here has the zero code hash.                   *)
(***************************************************************************)
EXTENDS Integers, Sequences, FiniteSets, Functions

CONSTANTS
  Addr,         \* accounts
  Precompiles,  \* the precompiled ones among them
  Sender,       \* who sends the transaction
  Fresh,        \* addresses a creation may hash to
  Start,        \* the worlds a transaction may find: accounts and rules
  EmptyCode, ZeroHash, None,
  Target,       \* code -> the address it delegates to, or None
  Codes, Initcodes,
  Deployed,     \* codes an initcode may return
  Reserved,     \* those of them that start with 0xEF
  Size,         \* code -> its length in units of CreateDataGas
  MaxCodeSize,
  Callees,      \* addresses a call names
  Heirs,        \* beneficiaries of a self-destruct
  Values,       \* amounts a call may transfer
  Requests,     \* gas a caller may ask for its callee
  CallValueTransferGas, CallStipend,
  Share,        \* the EIP-150 divisor
  CallCreateDepth

ASSUME EVMAssumption ==
  /\ CallStipend \in Nat /\ Share \in Nat \ {0}
  /\ CallValueTransferGas \in Nat /\ CallStipend < CallValueTransferGas
  /\ Values \subseteq Nat /\ Requests \subseteq Nat
  /\ CallCreateDepth \in Nat

Accounts == [balance : Int, nonce : Nat, code : Codes, made : BOOLEAN, gone : BOOLEAN,
             store : 0 .. 1]

Worlds == [acct : [Addr -> Accounts], warm : SUBSET Addr]

\* Addresses and codes are what they are used as; no creation hashes to a precompile.
ASSUME CodeAssumption ==
  /\ IsFiniteSet(Addr) /\ Sender \in Addr
  /\ Callees \subseteq Addr /\ Heirs \subseteq Addr
  /\ Fresh \subseteq Addr \ Precompiles
  /\ EmptyCode \in Codes /\ EmptyCode # ZeroHash
  /\ Initcodes \subseteq Codes /\ Deployed \subseteq Codes
  /\ Target \in [Codes -> Addr \cup {None}] /\ Size \in [Codes -> Nat]

\* The database has the hash of the code it has, nothing was run at a precompile's address,
\* and STATICCALL came after EIP-158.
ASSUME StartAssumption ==
  \A s \in Start :
    /\ s.gas \in Nat /\ s.world \in Worlds
    /\ s.rules.byzantium => s.rules.eip158
    /\ \A a \in Addr : LET c == s.world.acct[a]
                      IN  /\ c.balance >= 0
                          /\ ~c.made /\ a \in DOMAIN s.stored => c.code = s.stored[a]
                          /\ a \in Precompiles => c.store = 0 /\ ~c.gone

VARIABLES
  rules,      \* evm.chainRules
  limit,      \* the gas of the transaction
  stored,     \* the accounts in the database, and the code hashes it has for them
  world,      \* what a StateDB snapshot saves: accounts and access list
  frames,     \* the running contracts, innermost last
  readOnly,   \* interpreter.readOnly
  jumpdests,  \* the analyses shared by the frames, by code hash
  abort,      \* evm.abort
  result,     \* what the outermost call returned: an error and gas
  spent       \* history: gas charged or consumed, less the stipends handed out

vars == <<rules, limit, stored, world, frames, readOnly, jumpdests, abort, result, spent>>

-----------------------------------------------------------------------------
(* The state, as the evm reads and changes it.                              *)

GetBalance(w, a) == IF w.acct[a].made \/ a \in DOMAIN stored THEN w.acct[a].balance ELSE 0

GetCodeHash(w, a) ==
  CASE w.acct[a].made -> ZeroHash
    [] ~w.acct[a].made /\ a \in DOMAIN stored -> stored[a]
    [] OTHER -> w.acct[a].code

Exist(w, a) ==
  w.acct[a].nonce # 0 \/ w.acct[a].balance # 0 \/ GetCodeHash(w, a) # EmptyCode

\* A fresh object that takes over the balance a live account shows.
CreateAccount(w, a) ==
  [w EXCEPT !.acct[a] =
     [@ EXCEPT !.balance = IF w.acct[a].gone THEN 0 ELSE GetBalance(w, a),
               !.made = TRUE, !.gone = FALSE, !.nonce = 0, !.code = EmptyCode,
               !.store = 0]]

CanTransfer(w, a, value) == GetBalance(w, a) >= value

AddBalance(w, a, n) == [w EXCEPT !.acct[a].balance = @ + n]

SubBalance(w, a, n) == [w EXCEPT !.acct[a].balance = @ - n]

Transfer(w, from, to, value) == AddBalance(SubBalance(w, from, value), to, value)

\* After Prague one level of delegation is followed.
CodeAddress(w, a) ==
  IF rules.prague /\ Target[w.acct[a].code] # None THEN Target[w.acct[a].code] ELSE a

resolveCode(w, a) == w.acct[CodeAddress(w, a)].code

resolveCodeHash(w, a) == GetCodeHash(w, CodeAddress(w, a))

-----------------------------------------------------------------------------
(* One call in world w: it returns at once, or a frame starts to run.       *)

\* The Go call stack: its innermost frame, and what returning from it leaves.
Last(stack) == stack[Len(stack)]
Front(stack) == SubSeq(stack, 1, Len(stack) - 1)

Top == Last(frames)
depth == Len(frames)
Running == frames # << >>

NewContract(kind, self, hash, code, gas, before, snapshot) ==
  [kind |-> kind, self |-> self, hash |-> hash, code |-> code, gas |-> gas,
   before |-> before, snapshot |-> snapshot, analysis |-> None,
   static |-> kind = "STATICCALL" /\ ~readOnly]

Returned(w, gas, err) == [world |-> w, runs |-> FALSE, gas |-> gas, err |-> err]

\* Run gives up at once when there is no code.
Run(w, f) ==
  IF f.code = EmptyCode THEN Returned(w, f.gas, "nil")
                        ELSE [world |-> w, runs |-> TRUE, run |-> f]

\* RunPrecompiledContract at a price of one, and the revert its caller makes of an error.
RunPrecompiledContract(w, snapshot, gas, ok) ==
  IF gas >= 1 /\ ok THEN Returned(w, gas - 1, "nil") ELSE Returned(snapshot, 0, "failed")

\* Mutant: the snapshot is taken after the transfer.
CallLateSnapshot(w, caller, a, gas, value, ok) ==
  LET there == IF Exist(w, a) THEN w ELSE CreateAccount(w, a)
      paid  == Transfer(there, caller, a, value)
  IN  IF depth > CallCreateDepth \/ ~CanTransfer(w, caller, value)
        THEN Returned(w, gas, "depth")
        ELSE Run(paid, NewContract("CALL", a, resolveCodeHash(paid, a), resolveCode(paid, a),
                                   gas, w, paid))

Call(w, caller, a, gas, value, ok) ==
  LET known == Exist(w, a)
      there == IF known THEN w ELSE CreateAccount(w, a)
      paid  == Transfer(there, caller, a, value)
  IN  CASE depth > CallCreateDepth -> Returned(w, gas, "depth")
        [] depth <= CallCreateDepth /\ value # 0 /\ ~CanTransfer(w, caller, value) ->
             Returned(w, gas, "balance")
        [] OTHER ->
             IF ~known /\ a \notin Precompiles /\ rules.eip158 /\ value = 0
               THEN Returned(w, gas, "nil")
               ELSE IF a \in Precompiles
                      THEN RunPrecompiledContract(paid, w, gas, ok)
                      ELSE Run(paid, NewContract("CALL", a, resolveCodeHash(paid, a),
                                                 resolveCode(paid, a), gas, w, w))

\* CallCode and DelegateCall run another account's code on the caller's own.
Borrow(kind, w, caller, a, gas, ok) ==
  IF a \in Precompiles
    THEN RunPrecompiledContract(w, w, gas, ok)
    ELSE Run(w, NewContract(kind, caller, resolveCodeHash(w, a), resolveCode(w, a), gas, w, w))

CallCode(w, caller, a, gas, value, ok) ==
  CASE depth > CallCreateDepth -> Returned(w, gas, "depth")
    [] depth <= CallCreateDepth /\ ~CanTransfer(w, caller, value) -> Returned(w, gas, "balance")
    [] OTHER -> Borrow("CALLCODE", w, caller, a, gas, ok)

DelegateCall(w, caller, a, gas, ok) ==
  IF depth > CallCreateDepth THEN Returned(w, gas, "depth")
                             ELSE Borrow("DELEGATECALL", w, caller, a, gas, ok)

\* The code is taken as the account holds it, a delegation included.
StaticCall(w, a, gas, ok) ==
  IF depth > CallCreateDepth
    THEN Returned(w, gas, "depth")
    ELSE IF a \in Precompiles
           THEN RunPrecompiledContract(w, w, gas, ok)
           ELSE Run(w, NewContract("STATICCALL", a, GetCodeHash(w, a), w.acct[a].code,
                                   gas, w, w))

Collides(w, a) == w.acct[a].nonce # 0 \/ GetCodeHash(w, a) \notin {ZeroHash, EmptyCode}

\* Mutant: the new address is not put into the access list.
CountedCold(w, caller, a) == [w EXCEPT !.acct[caller].nonce = @ + 1]

\* What a creation leaves behind even when it fails: the nonce and the warm address.
Counted(w, caller, a) ==
  [w EXCEPT !.acct[caller].nonce = @ + 1,
            !.warm = IF rules.berlin THEN @ \cup {a} ELSE @]

create(w, caller, a, hash, code, gas, value) ==
  LET noted == Counted(w, caller, a)
      made  == CreateAccount(noted, a)
      paid  == Transfer(IF rules.eip158 THEN [made EXCEPT !.acct[a].nonce = 1] ELSE made,
                        caller, a, value)
  IN  CASE depth > CallCreateDepth -> Returned(w, gas, "depth")
        [] depth <= CallCreateDepth /\ ~CanTransfer(w, caller, value) ->
             Returned(w, gas, "balance")
        [] OTHER ->
             IF Collides(noted, a)
               THEN Returned(noted, 0, "collision")
               ELSE Run(paid, NewContract("CREATE", a, hash, code, gas, noted, noted))

-----------------------------------------------------------------------------
(* How a turn of the loop ends.                                             *)

Repaid(fs, gas) == IF fs = << >> THEN fs ELSE [fs EXCEPT ![Len(fs)].gas = @ + gas]

Ended(fs, err, gas) == IF fs = << >> THEN [err |-> err, gas |-> gas] ELSE result

\* The frames fs go on with outcome o of a call made at a price and given `gas`.
Continue(fs, o, price, gas, stipend) ==
  /\ world' = o.world
  /\ frames' = IF o.runs THEN Append(fs, o.run) ELSE Repaid(fs, o.gas)
  /\ readOnly' = (readOnly \/ (o.runs /\ o.run.static))
  /\ result' = IF o.runs THEN result ELSE Ended(fs, o.err, o.gas)
  /\ spent' = spent + price - stipend + (IF o.runs THEN 0 ELSE gas - o.gas)
  /\ UNCHANGED <<rules, limit, stored, jumpdests, abort>>

\* Only the frame that set the flag takes it back.
StillReadOnly(f) == readOnly /\ ~f.static

\* The innermost frame, its gas now f.gas, ends in world w keeping `kept`.
Leave(f, w, err, kept) ==
  /\ world' = w
  /\ frames' = Repaid(Front(frames), kept)
  /\ readOnly' = StillReadOnly(f)
  /\ result' = Ended(Front(frames), err, kept)
  /\ spent' = spent + Top.gas - kept
  /\ UNCHANGED <<rules, limit, stored, jumpdests>>

\* REVERT keeps the gas left.
Revert == Running /\ Leave(Top, Top.snapshot, "reverted", Top.gas) /\ UNCHANGED abort

\* Every other error: no gas for an instruction, a write in a read-only frame, a stack or
\* jump error, an invalid opcode.
Fail == Running /\ Leave(Top, Top.snapshot, "failed", 0) /\ UNCHANGED abort

\* create's checks of the code its initcode returned.
Refused(ret) ==
  \/ rules.eip158 /\ Size[ret] > MaxCodeSize
  \/ rules.london /\ ret \in Reserved

Deploy(ret) ==
  LET left == Top.gas - Size[ret]
  IN  /\ Running /\ Top.kind = "CREATE"
      /\ CASE Refused(ret) -> Leave(Top, Top.snapshot, "failed", 0)
           [] ~Refused(ret) /\ left >= 0 ->
                Leave(Top, [world EXCEPT !.acct[Top.self].code = ret], "nil", left)
           [] OTHER ->
                IF rules.homestead THEN Leave(Top, Top.snapshot, "failed", 0)
                                   ELSE Leave(Top, world, "codestore", Top.gas)
      /\ UNCHANGED abort

\* STOP and RETURN of a called contract.
Stop ==
  Running /\ Top.kind # "CREATE" /\ Leave(Top, world, "nil", Top.gas) /\ UNCHANGED abort

\* An instruction that only costs, or only changes the world and its own frame.
Turn(w, f) ==
  /\ Running /\ Top.gas >= 1
  /\ frames' = Append(Front(frames), [f EXCEPT !.gas = @ - 1])
  /\ world' = w
  /\ spent' = spent + 1
  /\ UNCHANGED <<rules, limit, stored, readOnly, abort, result>>

SStore ==
  /\ Running /\ ~readOnly
  /\ Turn([world EXCEPT !.acct[Top.self].store = 1 - @], Top)
  /\ UNCHANGED jumpdests

\* The analyses after isCode: an initcode without a hash is analysed for itself only.
isCode(f) ==
  IF f.analysis # None \/ f.hash = ZeroHash \/ f.hash \in DOMAIN jumpdests
    THEN jumpdests
    ELSE [h \in DOMAIN jumpdests \cup {f.hash} |-> IF h = f.hash THEN f.code ELSE jumpdests[h]]

analysisOf(f, known) ==
  CASE f.analysis # None -> f.analysis
    [] f.analysis = None /\ f.hash \in DOMAIN known -> known[f.hash]
    [] OTHER -> f.code

opJump ==
  /\ Running /\ ~abort
  /\ jumpdests' = isCode(Top)
  /\ Turn(world, [Top EXCEPT !.analysis = analysisOf(Top, isCode(Top))])

\* A jump that finds the evm cancelled ends its frame the way STOP does.  Cancel may have come
\* from its own goroutine at any time before; the first jump to see it records it.
opJumpCancelled ==
  /\ Running /\ Top.gas >= 1
  /\ Leave(Top, world, "nil", Top.gas - 1)
  /\ abort' = TRUE

\* Mutant: the account keeps what it gives away.
HeirTwice(w, self, b) == AddBalance(w, b, GetBalance(w, self))

\* Before EIP-6780 the account kept its balance until the transaction was finalised.
Heir(w, self, b) ==
  LET n == GetBalance(w, self)
  IN  IF rules.eip6780 THEN Transfer(w, self, b, n) ELSE AddBalance(w, b, n)

opSelfdestruct(b) ==
  LET given == Heir(world, Top.self, b)
      dies  == ~rules.eip6780 \/ world.acct[Top.self].made
      warm  == IF rules.berlin THEN world.warm \cup {b} ELSE world.warm
  IN  /\ Running /\ Top.gas >= 1
      /\ ~readOnly
      /\ Leave(Top, [given EXCEPT !.acct[Top.self].gone = @ \/ dies, !.warm = warm],
               "nil", Top.gas - 1)
      /\ UNCHANGED abort

-----------------------------------------------------------------------------
(* CALL and its kin, from the gas function to the callee's first turn.  The *)
(* gas function leaves its result in evm.callGasTemp and the op function    *)
(* takes it from there before any other instruction runs.                   *)

callGas(available, request) ==
  LET most == available - available \div Share
  IN  IF rules.eip150 /\ most < request THEN most ELSE request

\* The gas function warms the address, before any snapshot of the call.
Warm(a) == IF rules.berlin THEN [world EXCEPT !.warm = @ \cup {a}] ELSE world

\* Mutant: CALLCODE's callee gets the stipend without the caller paying for the value.
PriceNoCallCode(kind, value) == 1 + (IF kind = "CALL" /\ value # 0 THEN CallValueTransferGas ELSE 0)

Price(kind, value) == 1 + (IF value # 0 THEN CallValueTransferGas ELSE 0)

\* Mutant: a read-only frame may send ether.
WriteProtectedNot(kind, value) == FALSE

\* CALLCODE moves no ether, so only CALL looks at the flag.
WriteProtected(kind, value) == kind = "CALL" /\ readOnly /\ value # 0

opCall(kind, a, value, request, ok) ==
  LET price == Price(kind, value)
      temp  == callGas(Top.gas - price, request)
      extra == IF value # 0 THEN CallStipend ELSE 0
      gas   == temp + extra
      w     == Warm(a)
      self  == Top.self
  IN  /\ Running
      /\ Top.gas >= price + temp
      /\ kind \in {"DELEGATECALL", "STATICCALL"} => value = 0
      /\ ~WriteProtected(kind, value)
      /\ Continue(Append(Front(frames), [Top EXCEPT !.gas = @ - price - temp]),
                  CASE kind = "CALL"         -> Call(w, self, a, gas, value, ok)
                    [] kind = "CALLCODE"     -> CallCode(w, self, a, gas, value, ok)
                    [] kind = "DELEGATECALL" -> DelegateCall(w, self, a, gas, ok)
                    [] kind = "STATICCALL"   -> StaticCall(w, a, gas, ok),
                  price, gas, extra)

\* Mutant: the creator is not charged what the initcode gets.
opCreateFree(a, value, hash, code) ==
  LET rest == Top.gas - 1
      gas  == IF rules.eip150 THEN rest - rest \div Share ELSE rest
  IN  /\ Running /\ Top.gas >= 1
      /\ ~readOnly
      /\ Continue(Append(Front(frames), [Top EXCEPT !.gas = rest]),
                  create(world, Top.self, a, hash, code, gas, value), 1, gas, 0)

\* CREATE and CREATE2; only the latter has hashed its initcode.
opCreate(a, value, hash, code) ==
  LET rest == Top.gas - 1
      gas  == IF rules.eip150 THEN rest - rest \div Share ELSE rest
  IN  /\ Running /\ Top.gas >= 1
      /\ ~readOnly
      /\ Continue(Append(Front(frames), [Top EXCEPT !.gas = rest - gas]),
                  create(world, Top.self, a, hash, code, gas, value), 1, gas, 0)

-----------------------------------------------------------------------------
(* The transaction: one call or creation from outside.                      *)

Begin(o) ==
  /\ frames = << >> /\ result.err = "none"
  /\ Continue(<< >>, o, 0, limit, 0)

Init ==
  /\ \E s \in Start :
       rules = s.rules /\ limit = s.gas /\ stored = s.stored /\ world = s.world
  /\ frames = << >>
  /\ readOnly = FALSE
  /\ jumpdests = << >>
  /\ abort = FALSE
  /\ result = [err |-> "none", gas |-> limit]
  /\ spent = 0

\* The instructions a rule set has.
Kinds == {k \in {"CALL", "CALLCODE", "DELEGATECALL", "STATICCALL"} :
            /\ k = "DELEGATECALL" => rules.homestead
            /\ k = "STATICCALL" => rules.byzantium}

\* A precompile may refuse its input.
Works(a) == IF a \in Precompiles THEN BOOLEAN ELSE {TRUE}

Instruction ==
  \/ Stop \/ Revert \/ Fail
  \/ \E ret \in Deployed : Deploy(ret)
  \/ SStore \/ opJump \/ opJumpCancelled
  \/ \E b \in Heirs : opSelfdestruct(b)
  \/ \E kind \in Kinds, a \in Callees, value \in Values, request \in Requests :
       \E ok \in Works(a) : opCall(kind, a, value, request, ok)
  \/ \E a \in Fresh, value \in Values, init \in Initcodes,
        salted \in {FALSE, rules.constantinople} :
       opCreate(a, value, IF salted THEN init ELSE ZeroHash, init)

\* PrepareAccessList has warmed the address a message calls.
Transact ==
  \/ \E a \in Callees, value \in Values : \E ok \in Works(a) :
       Begin(Call(Warm(a), Sender, a, limit, value, ok))
  \/ \E a \in Fresh, value \in Values, init \in Initcodes :
       Begin(create(world, Sender, a, ZeroHash, init, limit, value))

Next == Transact \/ Instruction

Spec == Init /\ [][Next]_vars

\* The interpreter's loop keeps turning: nothing in it waits.
FairSpec == Spec /\ WF_vars(Instruction)

-----------------------------------------------------------------------------
(* Properties.                                                              *)

\* The world, the frames and the flags have the shape their Go declarations give them.
TypeOK ==
  /\ world \in Worlds
  /\ \A i \in 1 .. Len(frames) :
       /\ frames[i].self \in Addr /\ frames[i].gas \in Nat
       /\ frames[i].analysis \in Codes \cup {None}
  /\ readOnly \in BOOLEAN /\ abort \in BOOLEAN
  /\ spent \in Int

Sum(f) == FoldFunction(+, 0, f)

GasOf(fs) == Sum([i \in DOMAIN fs |-> fs[i].gas])

\* Gas moves between frames and is charged, never made or lost: what the running frames hold,
\* or the last one gave back, is the transaction's gas less what was spent.
GasConserved ==
  (IF Running THEN GasOf(frames) ELSE result.gas) = limit - spent

Ether(w) == Sum([a \in Addr |-> GetBalance(w, a)])

\* No sequence of calls, creations, self-destructs and reverts makes ether out of nothing.
\* (Before EIP-6780 Suicide left the balance where it was until the end of the transaction.)
EtherNeverMade ==
  rules.eip6780 => \E s \in Start : s.rules = rules /\ Ether(world) <= Ether(s.world)

\* No account is ever taken below zero, the sender of a value included.
Solvent == \A a \in Addr : world.acct[a].balance >= 0

\* Ether is neither made nor spent by an account that lacks it.
EtherSafe == EtherNeverMade /\ Solvent

Contents(w) ==
  [a \in Addr |-> LET c == w.acct[a] IN <<c.balance, c.nonce, c.code, c.store, c.gone>>]

\* However calls nest below it, and whatever they run, a static call changes no account:
\* balances, nonces, code, storage and self-destructs stay as it found them.  Only the empty
\* object of a precompile nothing was ever sent to may come into being.
StaticKeepsAccounts ==
  \A i \in 1 .. Len(frames) :
    frames[i].kind = "STATICCALL" => Contents(world) = Contents(frames[i].before)

\* The interpreter's one flag is set exactly while a static call is open, although frames
\* only ever set it and the one that did takes it back.
ReadOnlyWhileStatic ==
  readOnly <=> \E i \in 1 .. Len(frames) : frames[i].kind = "STATICCALL"

\* gasSStoreEIP2929 panics when the running contract's address is not in the access list.
\* Through nested calls, creations and reverts it always is.
RunningAddressWarm ==
  rules.berlin => \A i \in 1 .. Len(frames) : frames[i].self \in world.warm

\* A frame jumps by the analysis of the code it runs, whichever frame made it.
AnalysisOfOwnCode ==
  \A i \in 1 .. Len(frames) : frames[i].analysis \in {None, frames[i].code}

\* What every running frame relies on: the flag tells whether it may write, its address is
\* warm, and the jump analysis it uses is that of its code.
FrameContext == TypeOK /\ ReadOnlyWhileStatic /\ RunningAddressWarm /\ AnalysisOfOwnCode

\* A call or creation that fails leaves the world its instruction found; a creation has
\* counted a nonce and warmed its address.
FailureLeavesNothing ==
  [][(Revert \/ Fail \/ \E ret \in Deployed : Refused(ret) /\ Deploy(ret))
       => world' = Top.before]_vars

\* Every execution ends, cancelled or not: each turn costs, and a stipend is less than the
\* price of the value it comes with.
Terminates == []<>(~Running)

=============================================================================

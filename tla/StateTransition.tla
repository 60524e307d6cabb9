--------------------------- MODULE StateTransition ---------------------------
(***************************************************************************)
(* How a message is paid for: ToMessage (api/transaction_args.go), then    *)
(* TransitionDb (api/state_transition.go) with the gas pool and EIP-7702   *)
(* authorizations, then the end of DoCall (api/eth.go).  Messages follow   *)
(* each other, each on a copy of the state the last adopted one left, as   *)
(* in EstimateGasList.                                                     *)
(*                                                                         *)
(* The EVM is seen through evm.Call and evm.Create: a run burns some of    *)
(* its gas, earns refunds, moves ether between accounts, or fails, which   *)
(* undoes all but the gas.  Call data and access lists are their counts;   *)
(* contract code has at least the three bytes of a delegation prefix.      *)
(***************************************************************************)
EXTENDS Integers, Sequences, FiniteSets, Functions

CONSTANTS
  Addr, Coinbase, Nil,
  NewAddrs,       \* what CreateAddress may return
  Chains,         \* pairs of chain rules and the header's base fee, which may be Nil
  NoBaseFee,      \* vm.Config.NoBaseFee
  GasCap,         \* globalGasCap, 0 for none
  MaxInitCodeSize,
  UintMod,        \* stands for 2^64
  Worlds0,        \* states the first message may find
  Requests,       \* TransactionArgs of the callers
  Burns, Refunds, \* gas an EVM run may use, and refunds it may earn
  MaxMsgs         \* bound: messages tried

MaxUint64 == UintMod - 1
TxGas == 21000
TxGasContractCreation == 53000
NoCode == <<"none">>
Contract == <<"contract">>
Delegation(a) == <<"delegation", a>>
Codes == {NoCode, Contract} \cup {Delegation(a) : a \in Addr}

World ==
  [balance : [Addr -> Int], nonce : [Addr -> 0 .. MaxUint64],
   code : [Addr -> Codes], refund : 0 .. MaxUint64]

\* An authorization: chain is "any", "this" or "other"; authority is Nil when the
\* signature does not recover; address is Nil for the zero address.
Authorization ==
  [chain : {"any", "this", "other"}, authority : Addr \cup {Nil},
   nonce : 0 .. MaxUint64, address : Addr \cup {Nil}]

ASSUME TransitionAssumption ==
  /\ IsFiniteSet(Addr) /\ Coinbase \in Addr /\ Nil \notin Addr /\ Nil \notin Int
  /\ NewAddrs \subseteq Addr
  /\ \A c \in Chains :
       /\ c.rules \in [homestead : BOOLEAN, eip158 : BOOLEAN, istanbul : BOOLEAN,
                       london : BOOLEAN, shanghai : BOOLEAN, prague : BOOLEAN]
       /\ c.baseFee \in Nat \cup {Nil}
  /\ NoBaseFee \in BOOLEAN
  /\ UintMod \in Nat \ {0, 1} /\ GasCap \in 0 .. MaxUint64 /\ MaxInitCodeSize \in Nat
  /\ \A s \in Worlds0 : s \in World /\ s.refund = 0 /\ \A a \in Addr : s.balance[a] >= 0
  /\ \A r \in Requests :
       /\ r.from \in Addr /\ r.to \in Addr \cup {Nil}
       /\ r.gas \in 0 .. MaxUint64 \cup {Nil}
       /\ {r.gasPrice, r.maxFee, r.maxTip} \subseteq Nat \cup {Nil}
       /\ {r.value, r.zeros, r.nonzeros, r.listed, r.keys} \subseteq Nat
       /\ r.auths \in Seq(Authorization)
  /\ Burns \subseteq Nat /\ Refunds \subseteq Nat
  /\ MaxMsgs \in Nat

Least(a, b) == IF a > b THEN b ELSE a

VARIABLES
  chain,    \* the rules and the base fee the messages run under
  kept,     \* the state the next message gets a copy of
  w,        \* the copy the running message works on
  req, msg, \* the request, and the message made of it
  size,     \* history: what the gas pool held at first
  pool,     \* GasPool
  gas,      \* StateTransition.gas
  initial,  \* StateTransition.initialGas
  consumed, \* history: gas used when the EVM returned
  failed,   \* ExecutionResult.Failed
  auths,    \* authorizations still to be applied
  phase,    \* how far the message has come, or the error it met
  msgs      \* messages tried, capped by MaxMsgs

vars == <<chain, kept, w, req, msg, size, pool, gas, initial, consumed, failed, auths, phase, msgs>>

Rules == chain.rules
BaseFee == chain.baseFee

-----------------------------------------------------------------------------
(* Prices.                                                                  *)

\* Data is summed with overflow checks, the two lists without.
IntrinsicData(r) ==
  LET creation == r.to = Nil
      words    == (r.zeros + r.nonzeros + 31) \div 32
  IN  (IF creation /\ Rules.homestead THEN TxGasContractCreation ELSE TxGas)
      + r.nonzeros * (IF Rules.istanbul THEN 16 ELSE 68)
      + r.zeros * 4
      + (IF creation /\ Rules.shanghai THEN words * 2 ELSE 0)

IntrinsicGas(r) ==
  (IntrinsicData(r) + r.listed * 2400 + r.keys * 1900 + Len(r.auths) * 25000) % UintMod

FloorDataGas(r) == TxGas + (r.nonzeros * 4 + r.zeros) * 10

\* The floor TransitionDb applies: none before Prague.
Floor(r) == IF Rules.prague THEN FloorDataGas(r) ELSE 0

MixedFees(r) == r.gasPrice # Nil /\ (r.maxFee # Nil \/ r.maxTip # Nil)

ToMessage(r) ==
  LET wanted == IF r.gas # Nil THEN r.gas
                ELSE IF GasCap = 0 THEN MaxUint64 \div 2 ELSE GasCap
      zero(x) == IF x = Nil THEN 0 ELSE x
      legacy == BaseFee = Nil \/ r.gasPrice # Nil
      fee    == zero(IF legacy THEN r.gasPrice ELSE r.maxFee)
      tip    == zero(IF legacy THEN r.gasPrice ELSE r.maxTip)
  IN  [gas      |-> IF GasCap # 0 THEN Least(wanted, GasCap) ELSE wanted,
       feeCap   |-> fee,
       tipCap   |-> tip,
       gasPrice |-> IF legacy \/ (fee = 0 /\ tip = 0) THEN fee
                    ELSE Least(tip + BaseFee, fee)]

-----------------------------------------------------------------------------
\* Errors of ToMessage, preCheck and TransitionDb, and a call cancelled too late to fail.
Errors == {"mixed", "fees", "funds", "limit", "overflow", "intrinsic", "floor",
           "transfer", "initcode", "aborted"}
Phases == {"idle", "check", "bought", "nonce", "auths", "returned", "settled"} \cup Errors

Idle == [gas |-> 0, feeCap |-> 0, tipCap |-> 0, gasPrice |-> 0]

Init ==
  /\ chain \in Chains
  /\ kept \in Worlds0
  /\ w = kept
  /\ req = Nil /\ msg = Idle
  /\ size = 0 /\ pool = 0 /\ gas = 0 /\ initial = 0 /\ consumed = 0 /\ failed = FALSE
  /\ auths = << >>
  /\ phase = "idle" /\ msgs = 0

\* DoCall fills its pool with MaxUint64, the tracing calls with the message's gas.
Start(r, full) ==
  /\ phase = "idle" /\ msgs < MaxMsgs
  /\ w' = kept
  /\ req' = r /\ msg' = ToMessage(r)
  /\ size' = (IF full THEN MaxUint64 ELSE ToMessage(r).gas) /\ pool' = size'
  /\ auths' = r.auths
  /\ phase' = (IF MixedFees(r) THEN "mixed" ELSE "check")
  /\ msgs' = msgs + 1
  /\ UNCHANGED <<chain, kept, gas, initial, consumed, failed>>

PaysBaseFee == Rules.london /\ BaseFee # Nil
ZeroPrice == msg.feeCap = 0 /\ msg.tipCap = 0

\* preCheck's fee rules.  ToMessage never asks for the nonce check.
FeesOK ==
  (PaysBaseFee /\ ~(NoBaseFee /\ ZeroPrice)) =>
    msg.feeCap >= msg.tipCap /\ msg.feeCap >= BaseFee

\* Mutant: the balance check looks at the value sent only.
BalanceCheckValueOnly == req.value

\* buyGas: the balance must cover the gas at the fee cap.
BalanceCheck == msg.gas * msg.feeCap

\* preCheck and buyGas: the first check that fails, or the purchase.
PreCheck ==
  LET error == IF ~FeesOK THEN "fees"
               ELSE IF w.balance[req.from] < BalanceCheck THEN "funds"
               ELSE IF pool < msg.gas THEN "limit"
               ELSE "bought"
  IN
  /\ phase = "check"
  /\ phase' = error
  /\ IF error = "bought"
     THEN /\ w' = [w EXCEPT !.balance[req.from] = @ - msg.gas * msg.gasPrice]
          /\ pool' = pool - msg.gas
          /\ gas' = msg.gas /\ initial' = msg.gas
     ELSE UNCHANGED <<w, pool, gas, initial>>
  /\ UNCHANGED <<chain, kept, req, msg, size, consumed, failed, auths, msgs>>

\* Clauses 4 to 6 of TransitionDb, and the size of the init code.
PayIntrinsic ==
  LET error ==
        IF IntrinsicData(req) > MaxUint64 THEN "overflow"
        ELSE IF gas < IntrinsicGas(req) THEN "intrinsic"
        ELSE IF Floor(req) > MaxUint64 THEN "overflow"
        ELSE IF msg.gas < Floor(req) THEN "floor"
        ELSE IF w.balance[req.from] < req.value /\ req.value > 0 THEN "transfer"
        ELSE IF Rules.shanghai /\ req.to = Nil /\ req.zeros + req.nonzeros > MaxInitCodeSize
        THEN "initcode" ELSE "nonce"
  IN
  /\ phase = "bought"
  /\ phase' = error
  /\ gas' = IF error \in {"overflow", "intrinsic", "floor"} THEN gas ELSE gas - IntrinsicGas(req)
  /\ UNCHANGED <<chain, kept, w, req, msg, size, pool, initial, consumed, failed, auths, msgs>>

\* A call takes its nonce before its authorizations; a creation leaves both to evm.Create.
TakeNonce ==
  /\ phase = "nonce" /\ req.to # Nil
  /\ w' = [w EXCEPT !.nonce[req.from] = (@ + 1) % UintMod]
  /\ phase' = "auths"
  /\ UNCHANGED <<chain, kept, req, msg, size, pool, gas, initial, consumed, failed, auths, msgs>>

Exist(a) == w.balance[a] # 0 \/ w.nonce[a] # 0 \/ w.code[a] # NoCode

Valid(auth) ==
  /\ auth.chain # "other"
  /\ auth.authority # Nil
  /\ w.code[auth.authority] # Contract
  /\ w.nonce[auth.authority] = auth.nonce

\* Mutant: the authority's nonce is left as it was.
AuthorizedKeepsNonce(auth) ==
  [w EXCEPT !.refund = (@ + IF Exist(auth.authority) THEN 12500 ELSE 0) % UintMod,
            !.code[auth.authority] =
              IF auth.address = Nil THEN NoCode ELSE Delegation(auth.address)]

Authorized(auth) ==
  [w EXCEPT !.refund = (@ + IF Exist(auth.authority) THEN 12500 ELSE 0) % UintMod,
            !.code[auth.authority] =
              IF auth.address = Nil THEN NoCode ELSE Delegation(auth.address),
            !.nonce[auth.authority] = (auth.nonce + 1) % UintMod]

\* One round of the loop: an invalid authorization is skipped.
ApplyAuthorization ==
  /\ phase = "auths" /\ auths # << >>
  /\ w' = IF Valid(Head(auths)) THEN Authorized(Head(auths)) ELSE w
  /\ auths' = Tail(auths)
  /\ UNCHANGED <<chain, kept, req, msg, size, pool, gas, initial, consumed, failed, phase, msgs>>

-----------------------------------------------------------------------------
(* The EVM.                                                                 *)

Move(bal, a, b, v) == [[bal EXCEPT ![a] = @ - v] EXCEPT ![b] = @ + v]

Left == {gas - b : b \in {b \in Burns : b <= gas}}

EVMReturns(left, err) ==
  /\ gas' = left
  /\ consumed' = initial - left
  /\ failed' = err
  /\ phase' = "returned"
  /\ auths' = << >>
  /\ UNCHANGED <<chain, kept, req, msg, size, pool, initial, msgs>>

\* A run that succeeds in account a of world s, passing on at most one wei to b.
Succeeds(s, a, b, left, refund) ==
  LET paid == Move(s.balance, req.from, a, req.value)
      sent == IF paid[a] > 0 THEN 1 ELSE 0
  IN  /\ w' = [s EXCEPT !.balance = Move(paid, a, b, sent),
                        !.refund = (@ + refund) % UintMod]
      /\ EVMReturns(left, FALSE)

\* A run that fails: REVERT keeps the gas left, any other error uses it all.
Fails(s, left) == w' = s /\ EVMReturns(left, TRUE)

Call ==
  /\ phase = "auths" /\ auths = << >>
  /\ \E left \in Left :
       \/ \E b \in Addr, refund \in Refunds : Succeeds(w, req.to, b, left, refund)
       \/ Fails(w, left)
       \/ Fails(w, 0)

\* create: the nonce stays taken when the creation fails or collides.
Create ==
  /\ phase = "nonce" /\ req.to = Nil
  /\ \E a \in NewAddrs, left \in Left :
       LET s == [w EXCEPT !.nonce[req.from] = (@ + 1) % UintMod]
           t == [s EXCEPT !.nonce[a] = IF Rules.eip158 THEN 1 ELSE @, !.code[a] = Contract]
           collides == s.nonce[a] # 0 \/ s.code[a] # NoCode
       IN  \/ /\ ~collides
              /\ \/ \E b \in Addr, refund \in Refunds : Succeeds(t, a, b, left, refund)
                 \/ Fails(s, left)
           \/ Fails(s, 0)

-----------------------------------------------------------------------------
GasUsed == (initial - gas) % UintMod
RefundQuotient == IF Rules.london THEN 5 ELSE 2

\* Mutant: the whole refund counter is paid out.
CalcRefundUncapped == Least(GasUsed, w.refund)

CalcRefund == Least(GasUsed \div RefundQuotient, w.refund)

\* The gas the sender gets back, after the refund and the floor.
Returned ==
  LET left == gas + CalcRefund
  IN  IF initial - left < Floor(req) THEN initial - Floor(req) ELSE left

EffectiveTip ==
  IF PaysBaseFee THEN Least(msg.tipCap, msg.feeCap - BaseFee) ELSE msg.gasPrice

\* Mutant: the sender is repaid for the gas the EVM left only.
SettleKeepsGas ==
  LET left   == Returned
      repaid == [w.balance EXCEPT ![req.from] = @ + gas * msg.gasPrice]
  IN
  /\ phase = "returned"
  /\ gas' = left
  /\ pool' = pool + left
  /\ w' = [w EXCEPT !.balance = [repaid EXCEPT ![Coinbase] = @ + (initial - left) * EffectiveTip]]
  /\ phase' = "settled"
  /\ UNCHANGED <<chain, kept, req, msg, size, initial, consumed, failed, auths, msgs>>

\* The tail of TransitionDb: refund, floor, sender, pool, coinbase.
Settle ==
  LET left   == Returned
      repaid == [w.balance EXCEPT ![req.from] = @ + left * msg.gasPrice]
  IN
  /\ phase = "returned"
  /\ gas' = left
  /\ pool' = pool + left
  /\ w' = [w EXCEPT !.balance = [repaid EXCEPT ![Coinbase] = @ + (initial - left) * EffectiveTip]]
  /\ phase' = "settled"
  /\ UNCHANGED <<chain, kept, req, msg, size, initial, consumed, failed, auths, msgs>>

Reset ==
  /\ w' = kept'
  /\ req' = Nil /\ msg' = Idle
  /\ size' = 0 /\ pool' = 0 /\ gas' = 0 /\ initial' = 0 /\ consumed' = 0 /\ failed' = FALSE
  /\ auths' = << >>
  /\ phase' = "idle"
  /\ UNCHANGED <<chain, msgs>>

\* DoCall finalises; `executable` keeps the state of a run that did not fail.
Adopt ==
  /\ phase = "settled" /\ ~failed
  /\ kept' = [w EXCEPT !.refund = 0]
  /\ Reset

\* The result is used and the state is not: Call, a failed run, an earlier try of a search.
Discard ==
  /\ phase = "settled"
  /\ UNCHANGED kept
  /\ Reset

\* The context expired while the message ran: DoCall returns an error in its place.
Abort ==
  /\ phase = "settled"
  /\ phase' = "aborted"
  /\ UNCHANGED <<chain, kept, w, req, msg, size, pool, gas, initial, consumed, failed, auths, msgs>>

\* An error returns no state.
Drop ==
  /\ phase \in Errors
  /\ UNCHANGED kept
  /\ Reset

Next ==
  \/ \E r \in Requests, full \in BOOLEAN : Start(r, full)
  \/ PreCheck \/ PayIntrinsic \/ TakeNonce \/ ApplyAuthorization
  \/ Call \/ Create \/ Settle
  \/ Adopt \/ Discard \/ Abort \/ Drop

Spec == Init /\ [][Next]_vars

-----------------------------------------------------------------------------
(* Properties.                                                              *)

Sum(f) == FoldFunction(+, 0, f)

Bought == phase \in {"bought", "intrinsic", "overflow", "floor", "transfer", "initcode",
                     "nonce", "auths", "returned"}
Done == phase \in {"settled", "aborted"}

\* Gas, pool and refund stay uint64 values, so no subtraction of TransitionDb or of
\* SubGas wraps and AddGas never panics; every phase is one the code has.
TypeOK ==
  /\ kept \in World /\ w \in World
  /\ {size, pool, gas, initial, consumed} \subseteq 0 .. MaxUint64
  /\ gas <= initial
  /\ failed \in BOOLEAN /\ phase \in Phases /\ msgs \in 0 .. MaxMsgs

\* TransitionDb neither makes nor loses ether: while a message runs, the accounts
\* lack what buyGas took, and at the end exactly the base fee of the gas used.
EtherConserved ==
  /\ Bought => Sum(w.balance) + initial * msg.gasPrice = Sum(kept.balance)
  /\ Done => Sum(w.balance) + GasUsed * (IF PaysBaseFee THEN BaseFee ELSE 0)
               = Sum(kept.balance)

\* buyGas and clause 6 together let nobody spend ether they lack, across prepayment,
\* value and forwarding.  The coinbase is left out: the tip of a call without
\* a price is less than nothing by the base fee.
Solvent == \A a \in Addr \ {Coinbase} : w.balance[a] >= 0

\* The pool ends up short by exactly the gas reported as used, refund and floor included.
PoolDebited ==
  /\ Bought => pool + initial = size
  /\ Done => pool + GasUsed = size

\* The gas reported lies between the floor and the limit; a refund takes off at most its
\* quotient of what the run consumed, and nothing but the floor adds to it.
UsedGasBounds ==
  Done => /\ GasUsed >= Floor(req) /\ GasUsed <= msg.gas
          /\ RefundQuotient * (consumed - GasUsed) <= consumed
          /\ GasUsed > consumed => GasUsed = Floor(req)

\* Gas is accounted for: nothing wraps, the pool is debited and the gas reported is bounded,
\* through purchase, refund and floor.
GasAccounted == TypeOK /\ PoolDebited /\ UsedGasBounds

\* What EIP-7702 rests on: an adopted message moves its sender's nonce on, and that of
\* every account it delegated or released, so no authorization can apply twice.
NonceConsumed ==
  [][kept' # kept =>
       /\ kept'.nonce[req.from] > kept.nonce[req.from]
       /\ \A a \in Addr : kept'.code[a] \notin {kept.code[a], Contract}
                          => kept'.nonce[a] > kept.nonce[a]]_vars
=============================================================================

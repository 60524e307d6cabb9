------------------------ MODULE StateTransitionProofs ------------------------
(***************************************************************************)
(* Proofs that TransitionDb accounts for gas and ether, for any accounts,  *)
(* chains, requests and EVM runs.  What buyGas checks is the fee cap, what *)
(* it takes is the gas price, what is paid at the end is a tip and a base  *)
(* fee, and the gas that is paid for depends on refund, quotient and       *)
(* floor: the invariant keeps, phase by phase, what the later clauses rely *)
(* on.                                                                     *)
(***************************************************************************)
EXTENDS StateTransition, Sums

Messages ==
  [gas : 0 .. MaxUint64, feeCap : Nat, tipCap : Nat, gasPrice : Nat]

\* The base fee of a unit of gas, which nobody gets.
Burnt == IF PaysBaseFee THEN BaseFee ELSE 0

\* The message is priced: it never pays more than its fee cap, and its price is what the
\* coinbase gets and what is burnt.
Priced ==
  /\ req \in Requests
  /\ msg \in Messages
  /\ msg.gasPrice <= msg.feeCap
  /\ EffectiveTip \in Int /\ Burnt \in Nat /\ msg.gasPrice = EffectiveTip + Burnt

Typed ==
  /\ chain \in Chains
  /\ kept \in World /\ w \in World
  /\ size \in 0 .. MaxUint64 /\ pool \in 0 .. MaxUint64
  /\ gas \in 0 .. MaxUint64 /\ initial \in 0 .. MaxUint64 /\ consumed \in 0 .. MaxUint64
  /\ gas <= initial
  /\ failed \in BOOLEAN /\ phase \in Phases /\ msgs \in 0 .. MaxMsgs
  /\ auths \in Seq(Authorization)

\* What was bought, and what clauses 5 and 6 found, still holds when it is used.
Accounted ==
  /\ phase # "idle" => Priced
  /\ phase = "check" => pool = size
  /\ Bought => initial = msg.gas /\ pool + initial = size
  /\ phase \in {"nonce", "auths", "returned"} => Floor(req) <= initial
  /\ phase = "auths" => req.to # Nil
  /\ phase = "returned" => consumed = initial - gas

Overdrawn(s) == \E a \in Addr \ {Coinbase} : s.balance[a] < 0

Funded ==
  /\ ~Overdrawn(kept) /\ ~Overdrawn(w)
  /\ phase \in {"nonce", "auths"} => req.value = 0 \/ req.value <= w.balance[req.from]

\* Before anything is bought the copy is as it was.
Conserved ==
  /\ phase \in {"idle", "check"} => w = kept
  /\ EtherConserved

IInv == Typed /\ Accounted /\ PoolDebited /\ UsedGasBounds /\ Funded /\ Conserved
-----------------------------------------------------------------------------
(* Constants, and prices.                                                   *)

\* uint64 values, and what is left of one after a division or a subtraction.
LEMMA Words ==
  /\ UintMod \in Nat \ {0} /\ MaxUint64 \in Nat \ {0} /\ GasCap \in 0 .. MaxUint64
  /\ \A n \in 0 .. MaxUint64 : n % UintMod = n
  /\ \A n \in Int : n % UintMod \in 0 .. MaxUint64
  /\ \A n \in Nat : n \div 2 \in 0 .. n
<1>1. UintMod \in Nat \ {0, 1} /\ GasCap \in 0 .. MaxUint64
  BY TransitionAssumption
<1>2. MaxUint64 \in Nat \ {0}
  BY <1>1 DEF MaxUint64
<1>3. \A n \in 0 .. MaxUint64 : n % UintMod = n
  BY <1>1 DEF MaxUint64
<1>4. \A n \in Int : n % UintMod \in 0 .. MaxUint64
  BY <1>1 DEF MaxUint64
<1>5. \A n \in Nat : n \div 2 \in 0 .. n
  OBVIOUS
<1> QED BY <1>1, <1>2, <1>3, <1>4, <1>5

\* What a request holds.
LEMMA RequestTyped ==
  ASSUME NEW r \in Requests
  PROVE  /\ r.from \in Addr /\ r.to \in Addr \cup {Nil}
         /\ r.gas \in 0 .. MaxUint64 \cup {Nil}
         /\ r.gasPrice \in Nat \cup {Nil} /\ r.maxFee \in Nat \cup {Nil}
         /\ r.maxTip \in Nat \cup {Nil}
         /\ r.value \in Nat /\ r.zeros \in Nat /\ r.nonzeros \in Nat
         /\ r.listed \in Nat /\ r.keys \in Nat
         /\ r.auths \in Seq(Authorization)
BY TransitionAssumption, Zenon

\* What ToMessage makes is typed, its price is at most its fee cap, and under a base fee it
\* is the tip plus the base fee, also for a message without fees.
LEMMA ToMessagePriced ==
  ASSUME chain \in Chains, NEW r \in Requests
  PROVE  /\ ToMessage(r) \in Messages
         /\ ToMessage(r).gasPrice <= ToMessage(r).feeCap
         /\ BaseFee # Nil =>
              /\ BaseFee \in Nat
              /\ ToMessage(r).gasPrice
                   = Least(ToMessage(r).tipCap, ToMessage(r).feeCap - BaseFee) + BaseFee
<1> DEFINE wanted == IF r.gas # Nil THEN r.gas
                     ELSE IF GasCap = 0 THEN MaxUint64 \div 2 ELSE GasCap
           zero(x) == IF x = Nil THEN 0 ELSE x
           legacy == BaseFee = Nil \/ r.gasPrice # Nil
           fee == zero(IF legacy THEN r.gasPrice ELSE r.maxFee)
           tip == zero(IF legacy THEN r.gasPrice ELSE r.maxTip)
           limit == IF GasCap # 0 THEN Least(wanted, GasCap) ELSE wanted
           price == IF legacy \/ (fee = 0 /\ tip = 0) THEN fee ELSE Least(tip + BaseFee, fee)
<1>1. wanted \in 0 .. MaxUint64
  BY Words, RequestTyped
<1>2. limit \in 0 .. MaxUint64
  <2> HIDE DEF wanted
  <2> QED BY <1>1, Words DEF Least
<1>3. fee \in Nat /\ tip \in Nat
  BY RequestTyped
<1>4. legacy \/ BaseFee \in Nat
  BY TransitionAssumption DEF BaseFee
<1>5. price \in Nat /\ price <= fee
  <2> HIDE DEF fee, tip, legacy
  <2> QED BY <1>3, <1>4 DEF Least
<1>6. ToMessage(r) = [gas |-> limit, feeCap |-> fee, tipCap |-> tip, gasPrice |-> price]
  BY DEF ToMessage
<1>7. BaseFee # Nil => BaseFee \in Nat /\ price = Least(tip, fee - BaseFee) + BaseFee
  <2>1. BaseFee # Nil => BaseFee \in Nat
    BY TransitionAssumption DEF BaseFee
  <2>2. legacy => fee = tip
    OBVIOUS
  <2> HIDE DEF fee, tip, legacy
  <2> QED BY <1>3, <2>1, <2>2 DEF Least
<1> HIDE DEF limit, fee, tip, price
<1> QED BY <1>2, <1>3, <1>5, <1>6, <1>7 DEF Messages

\* Intrinsic gas is a uint64, data gas and floor are natural numbers.
LEMMA PricesTyped ==
  ASSUME chain \in Chains, NEW r \in Requests
  PROVE  /\ IntrinsicGas(r) \in 0 .. MaxUint64
         /\ Floor(r) \in Nat
<1>1. /\ r.zeros \in Nat /\ r.nonzeros \in Nat /\ r.listed \in Nat /\ r.keys \in Nat
      /\ UintMod \in Nat \ {0}
  BY RequestTyped, Words
<1>2. Len(r.auths) \in Nat
  BY RequestTyped
<1>3. IntrinsicData(r) \in Nat
  <2> DEFINE creation == r.to = Nil
             words == (r.zeros + r.nonzeros + 31) \div 32
             base == IF creation /\ Rules.homestead THEN TxGasContractCreation ELSE TxGas
             perByte == IF Rules.istanbul THEN 16 ELSE 68
             init == IF creation /\ Rules.shanghai THEN words * 2 ELSE 0
  <2>1. words \in Nat /\ base \in Nat /\ perByte \in {16, 68}
    BY <1>1 DEF TxGas, TxGasContractCreation
  <2>2. init \in Nat
    BY <2>1
  <2>3. r.nonzeros * perByte \in Nat
    BY <1>1, <2>1
  <2>4. IntrinsicData(r) = base + r.nonzeros * perByte + r.zeros * 4 + init
    BY DEF IntrinsicData
  <2> HIDE DEF words, base, perByte, init
  <2> QED BY <1>1, <2>1, <2>2, <2>3, <2>4
<1>4. Floor(r) \in Nat
  BY <1>1 DEF Floor, FloorDataGas, TxGas
<1>5. IntrinsicGas(r) \in 0 .. MaxUint64
  <2> DEFINE total == IntrinsicData(r) + r.listed * 2400 + r.keys * 1900 + Len(r.auths) * 25000
  <2>1. total \in Nat
    <3> DEFINE n == Len(r.auths) d == IntrinsicData(r)
    <3>1. n \in Nat /\ d \in Nat
      BY <1>2, <1>3
    <3> HIDE DEF n, d
    <3>2. d + r.listed * 2400 + r.keys * 1900 + n * 25000 \in Nat
      BY <1>1, <3>1
    <3> QED BY <3>2 DEF n, d
  <2>2. IntrinsicGas(r) = total % UintMod
    BY DEF IntrinsicGas
  <2> HIDE DEF total
  <2> QED BY <1>1, <2>1, <2>2 DEF MaxUint64
<1> QED BY <1>4, <1>5

\* Gas used, while nothing wraps, is what initialGas and gas differ by.
LEMMA GasUsedIs ==
  ASSUME Typed
  PROVE  GasUsed = initial - gas /\ GasUsed \in 0 .. MaxUint64
<1>1. initial - gas \in 0 .. MaxUint64
  BY Words DEF Typed
<1> QED BY <1>1, Words DEF GasUsed

\* The initial states.
LEMMA InitEstablishes == Init => IInv
<1> SUFFICES ASSUME Init PROVE IInv
  OBVIOUS
<1>0. kept \in World /\ w = kept /\ \A a \in Addr : kept.balance[a] >= 0
  BY TransitionAssumption, Zenon DEF Init
<1>1. Typed
  <2>1. 0 \in 0 .. MaxUint64 /\ 0 \in 0 .. MaxMsgs
    BY Words, TransitionAssumption
  <2>2. << >> \in Seq(Authorization) /\ "idle" \in Phases /\ 0 <= 0
    BY DEF Phases
  <2> QED BY <1>0, <2>1, <2>2, Zenon DEF Init, Typed
<1>2. Accounted
  BY DEF Init, Accounted, Bought
<1>3. PoolDebited /\ UsedGasBounds
  BY DEF Init, PoolDebited, UsedGasBounds, Bought, Done
<1>4. Funded
  <2>1. \A a \in Addr : kept.balance[a] \in Int
    BY <1>0 DEF World
  <2>2. phase = "idle"
    BY DEF Init
  <2> QED BY <1>0, <2>1, <2>2 DEF Funded, Overdrawn
<1>5. Conserved
  BY DEF Init, Conserved, EtherConserved, Bought, Done
<1> QED BY <1>1, <1>2, <1>3, <1>4, <1>5 DEF IInv

\* A message begins on a copy of the state, with a full pool.
LEMMA StartKeeps ==
  ASSUME IInv, NEW r \in Requests, NEW full \in BOOLEAN, Start(r, full)
  PROVE  IInv'
<1>1. Typed /\ Funded
  BY DEF IInv
<1>2. /\ ToMessage(r) \in Messages /\ ToMessage(r).gasPrice <= ToMessage(r).feeCap
      /\ BaseFee # Nil =>
           /\ BaseFee \in Nat
           /\ ToMessage(r).gasPrice
                = Least(ToMessage(r).tipCap, ToMessage(r).feeCap - BaseFee) + BaseFee
  BY <1>1, ToMessagePriced DEF Typed
<1>3. ToMessage(r).gas \in 0 .. MaxUint64
  BY <1>2 DEF Messages
<1>4. Typed'
  <2>1. size' \in 0 .. MaxUint64 /\ pool' \in 0 .. MaxUint64
    BY <1>3, TransitionAssumption DEF Start, MaxUint64
  <2>2. auths' \in Seq(Authorization)
    BY TransitionAssumption DEF Start
  <2>3. msgs' \in 0 .. MaxMsgs /\ phase' \in Phases
    BY <1>1, TransitionAssumption DEF Start, Typed, Phases, Errors
  <2> QED BY <1>1, <2>1, <2>2, <2>3 DEF Start, Typed
<1>5. phase' \in {"mixed", "check"}
  BY DEF Start
<1>6. Accounted'
  <2>1. Priced'
    <3> DEFINE m == ToMessage(r)
    <3>1. req' = r /\ msg' = m /\ chain' = chain
      BY DEF Start
    <3>2. m \in Messages /\ m.gasPrice \in Nat /\ m.tipCap \in Nat /\ m.feeCap \in Nat
      BY <1>2 DEF Messages
    <3>3. /\ PaysBaseFee' = PaysBaseFee /\ BaseFee' = BaseFee
          /\ PaysBaseFee => BaseFee # Nil
      BY <3>1 DEF PaysBaseFee, BaseFee, Rules
    <3>4. /\ EffectiveTip' = IF PaysBaseFee THEN Least(m.tipCap, m.feeCap - BaseFee)
                                             ELSE m.gasPrice
          /\ Burnt' = IF PaysBaseFee THEN BaseFee ELSE 0
      BY <3>1, <3>3 DEF EffectiveTip, Burnt
    <3>5. m.gasPrice <= m.feeCap
      BY <1>2
    <3>6. /\ EffectiveTip' \in Int /\ Burnt' \in Nat
          /\ m.gasPrice = EffectiveTip' + Burnt'
      <4>1. CASE PaysBaseFee
        <5>1. BaseFee \in Nat /\ m.gasPrice = Least(m.tipCap, m.feeCap - BaseFee) + BaseFee
          BY <1>2, <3>3, <4>1
        <5>2. EffectiveTip' = Least(m.tipCap, m.feeCap - BaseFee) /\ Burnt' = BaseFee
          BY <3>4, <4>1
        <5>3. Least(m.tipCap, m.feeCap - BaseFee) \in Int
          BY <3>2, <5>1 DEF Least
        <5> QED BY <5>1, <5>2, <5>3
      <4>2. CASE ~PaysBaseFee
        BY <3>2, <3>4, <4>2
      <4> QED BY <4>1, <4>2
    <3> HIDE DEF m
    <3> QED BY <3>1, <3>2, <3>5, <3>6 DEF Priced
  <2> QED BY <1>5, <2>1 DEF Start, Accounted, Bought
<1>7. PoolDebited' /\ UsedGasBounds'
  BY <1>5 DEF PoolDebited, UsedGasBounds, Bought, Done
<1>8. Funded'
  BY <1>1, <1>5 DEF Start, Funded, Overdrawn
<1>9. Conserved'
  BY <1>5 DEF Start, Conserved, EtherConserved, Bought, Done
<1> QED BY <1>4, <1>6, <1>7, <1>8, <1>9 DEF IInv

\* A product grows with its second factor: the gas at its price costs at most the gas at
\* the fee cap.
LEMMA Dearer ==
  ASSUME NEW n \in Nat, NEW p \in Nat, NEW q \in Nat, p <= q
  PROVE  n * p \in Nat /\ n * q \in Nat /\ n * p <= n * q
BY SMT

\* Prices stay while the message does.
LEMMA PricedStays ==
  ASSUME Priced, UNCHANGED <<chain, req, msg>>
  PROVE  Priced'
BY DEF Priced, EffectiveTip, Burnt, PaysBaseFee, BaseFee, Rules

\* The sum of all balances is an integer, and setting one moves it by the difference.
LEMMA BalanceSum ==
  ASSUME NEW f \in [Addr -> Int]
  PROVE  /\ Sum(f) \in Int
         /\ \A a \in Addr, x \in Int : Sum([f EXCEPT ![a] = x]) = Sum(f) - f[a] + x
<1>1. IsFiniteSet(Addr)
  BY TransitionAssumption
<1>2. Sum(f) \in Int
  BY <1>1, SumTyped, Zenon DEF Sum
<1>3. ASSUME NEW a \in Addr, NEW x \in Int
      PROVE  Sum([f EXCEPT ![a] = x]) = Sum(f) - f[a] + x
  BY <1>1, SumUpdate, Zenon DEF Sum
<1> QED BY <1>2, <1>3

\* buyGas.
LEMMA PreCheckKeeps ==
  ASSUME IInv, PreCheck
  PROVE  IInv'
<1>1. /\ Typed /\ Accounted /\ Funded /\ Priced /\ phase = "check" /\ pool = size
      /\ w = kept
  BY DEF IInv, Accounted, Conserved, PreCheck
<1>2. /\ req.from \in Addr /\ msg.gas \in 0 .. MaxUint64
      /\ msg.gasPrice \in Nat /\ msg.feeCap \in Nat /\ msg.gasPrice <= msg.feeCap
  BY <1>1, TransitionAssumption DEF Priced, Messages
<1>3. /\ chain' = chain /\ kept' = kept /\ req' = req /\ msg' = msg /\ size' = size
      /\ consumed' = consumed /\ failed' = failed /\ auths' = auths /\ msgs' = msgs
      /\ phase' \in {"fees", "funds", "limit", "bought"}
  BY DEF PreCheck
<1>4. Priced'
  BY <1>1, <1>3, PricedStays
<1>5. UsedGasBounds'
  BY <1>3 DEF UsedGasBounds, Done
<1>6. CASE phase' # "bought"
  <2>1. w' = w /\ pool' = pool /\ gas' = gas /\ initial' = initial
    BY <1>6 DEF PreCheck
  <2>2. Typed'
    BY <1>1, <1>3, <2>1 DEF Typed, Phases, Errors
  <2>3. Accounted' /\ PoolDebited'
    BY <1>3, <1>4, <1>6 DEF Accounted, PoolDebited, Bought, Done
  <2>4. Funded'
    BY <1>1, <1>3, <1>6, <2>1 DEF Funded, Overdrawn
  <2>5. Conserved'
    BY <1>3, <1>6 DEF Conserved, EtherConserved, Bought, Done
  <2> QED BY <1>5, <2>2, <2>3, <2>4, <2>5 DEF IInv
<1>7. CASE phase' = "bought"
  <2> DEFINE cost == msg.gas * msg.gasPrice
             left == w.balance[req.from] - cost
  <2>1. /\ w.balance[req.from] >= msg.gas * msg.feeCap /\ pool >= msg.gas
        /\ w' = [w EXCEPT !.balance[req.from] = left]
        /\ pool' = pool - msg.gas /\ gas' = msg.gas /\ initial' = msg.gas
    <3>1. w \in World
      BY <1>1 DEF Typed
    <3>2. w.balance[req.from] \in Int /\ pool \in Int
      BY <1>1, <1>2 DEF Typed, World
    <3>3. msg.gas * msg.feeCap \in Int
      BY <1>2
    <3>4. ~(w.balance[req.from] < BalanceCheck) /\ ~(pool < msg.gas)
      BY <1>7 DEF PreCheck
    <3>5. /\ w' = [w EXCEPT !.balance[req.from] = @ - msg.gas * msg.gasPrice]
          /\ pool' = pool - msg.gas /\ gas' = msg.gas /\ initial' = msg.gas
      BY <1>7 DEF PreCheck
    <3>6. w' = [w EXCEPT !.balance[req.from] = left]
      BY <3>1, <3>5, <1>2 DEF World
    <3> HIDE DEF left
    <3> QED BY <1>2, <3>2, <3>3, <3>4, <3>5, <3>6 DEF BalanceCheck
  <2>2. cost \in Nat /\ cost <= msg.gas * msg.feeCap /\ msg.gas * msg.feeCap \in Nat
    BY <1>2, Dearer
  <2>3. w.balance[req.from] \in Int
    BY <1>1, <1>2 DEF Typed, World
  <2> HIDE DEF cost
  <2>4. left \in Int /\ left >= 0
    BY <2>1, <2>2, <2>3
  <2>5. /\ w' \in World
        /\ \A b \in Addr : w'.balance[b] = IF b = req.from THEN left ELSE w.balance[b]
        /\ Sum(w'.balance) = Sum(w.balance) - w.balance[req.from] + left
    <3>1. w \in World
      BY <1>1 DEF Typed
    <3> HIDE DEF left
    <3>2. /\ w' \in World /\ w'.balance = [w.balance EXCEPT ![req.from] = left]
          /\ w.balance \in [Addr -> Int]
      BY <1>2, <2>1, <2>4, <3>1 DEF World
    <3>3. Sum(w'.balance) = Sum(w.balance) - w.balance[req.from] + left
      BY <1>2, <2>4, <3>2, BalanceSum
    <3> QED BY <1>2, <3>2, <3>3
  <2>9. Conserved'
    <3>1. Sum(w.balance) \in Int
      BY <1>1, BalanceSum DEF Typed, World
    <3>2. Sum(w'.balance) + cost = Sum(w.balance)
      BY <2>2, <2>3, <2>4, <2>5, <3>1
    <3>3. initial' * msg'.gasPrice = cost /\ kept' = w
      BY <1>1, <1>3, <2>1 DEF cost
    <3> QED BY <1>7, <3>2, <3>3 DEF Conserved, EtherConserved, Bought, Done
  <2> HIDE DEF left
  <2>6. Typed'
    <3>1. /\ pool' \in 0 .. MaxUint64 /\ gas' \in 0 .. MaxUint64 /\ initial' \in 0 .. MaxUint64
          /\ gas' <= initial'
      <4>1. MaxUint64 \in Nat
        BY Words
      <4>2. pool \in 0 .. MaxUint64
        BY <1>1 DEF Typed
      <4> QED BY <1>2, <2>1, <4>1, <4>2
    <3> QED BY <1>1, <1>3, <1>7, <2>5, <3>1 DEF Typed, Phases
  <2>7. Accounted' /\ PoolDebited'
    BY <1>1, <1>2, <1>3, <1>4, <1>7, <2>1, SMTT(30) DEF Accounted, PoolDebited, Bought, Done, Typed
  <2>8. Funded'
    BY <1>1, <1>3, <1>7, <2>4, <2>5 DEF Funded, Overdrawn
  <2> QED BY <1>5, <2>6, <2>7, <2>8, <2>9 DEF IInv
<1> QED BY <1>6, <1>7

\* Clauses 4 to 6: what is left for the EVM is not negative, and the floor and the value
\* that were found covered are so when they are used.
LEMMA PayIntrinsicKeeps ==
  ASSUME IInv, PayIntrinsic
  PROVE  IInv'
<1>1. /\ Typed /\ Accounted /\ Funded /\ Conserved /\ Priced /\ phase = "bought"
      /\ initial = msg.gas /\ pool + initial = size
  BY DEF IInv, Accounted, PayIntrinsic, Bought
<1>2. /\ chain' = chain /\ kept' = kept /\ w' = w /\ req' = req /\ msg' = msg /\ size' = size
      /\ pool' = pool /\ initial' = initial /\ consumed' = consumed /\ failed' = failed
      /\ auths' = auths /\ msgs' = msgs
      /\ phase' \in {"overflow", "intrinsic", "floor", "transfer", "initcode", "nonce"}
  BY DEF PayIntrinsic
<1>3. /\ IntrinsicGas(req) \in 0 .. MaxUint64 /\ Floor(req) \in Nat /\ Floor(req)' = Floor(req)
      /\ req.value \in Nat /\ w.balance[req.from] \in Int
  <2>1. req \in Requests /\ chain \in Chains /\ w \in World
    BY <1>1 DEF Priced, Typed
  <2>2. Floor(req)' = Floor(req)
    BY <1>2 DEF Floor, FloorDataGas, Rules
  <2>3. req.value \in Nat /\ req.from \in Addr
    BY <2>1, RequestTyped
  <2> QED BY <2>1, <2>2, <2>3, PricesTyped DEF World
<1>4. Priced'
  BY <1>1, <1>2, PricedStays
<1>5. Bought /\ Bought' /\ ~Done' /\ phase' \notin {"idle", "check", "auths", "returned"}
  BY <1>1, <1>2 DEF Bought, Done
<1>6. gas' \in 0 .. MaxUint64 /\ gas' <= initial
  <2>1. gas' = gas \/ (gas >= IntrinsicGas(req) /\ gas' = gas - IntrinsicGas(req))
    <3>1. gas < IntrinsicGas(req) \/ gas >= IntrinsicGas(req)
      BY <1>1, <1>3 DEF Typed
    <3> QED BY <3>1 DEF PayIntrinsic
  <2>2. gas \in 0 .. MaxUint64 /\ initial \in 0 .. MaxUint64 /\ gas <= initial
    BY <1>1 DEF Typed
  <2> DEFINE g == IntrinsicGas(req)
  <2>3. g \in 0 .. MaxUint64 /\ (gas' = gas \/ (gas >= g /\ gas' = gas - g))
    BY <1>3, <2>1
  <2> HIDE DEF g
  <2> QED BY <2>2, <2>3, Words
<1>7. phase' = "nonce" =>
        /\ ~(msg.gas < Floor(req)) /\ ~(w.balance[req.from] < req.value /\ req.value > 0)
  BY DEF PayIntrinsic
<1>8. Typed'
  BY <1>1, <1>2, <1>6 DEF Typed, Phases, Errors
<1>9. Accounted' /\ PoolDebited'
  <2>1. phase' = "nonce" => Floor(req)' <= initial'
    BY <1>1, <1>2, <1>3, <1>7, SMTT(30) DEF Typed
  <2> QED BY <1>1, <1>2, <1>4, <1>5, <2>1, SMTT(30) DEF Accounted, PoolDebited
<1>10. Funded'
  <2>1. phase' = "nonce" => req'.value = 0 \/ req'.value <= w'.balance[req'.from]
    BY <1>2, <1>3, <1>7
  <2> QED BY <1>1, <1>2, <1>5, <2>1 DEF Funded, Overdrawn
<1>11. Conserved' /\ UsedGasBounds'
  BY <1>1, <1>2, <1>5 DEF Conserved, EtherConserved, UsedGasBounds
<1> QED BY <1>8, <1>9, <1>10, <1>11 DEF IInv

\* A step that changes nonces, code and refund only, between the purchase and the EVM.
LEMMA NoncesKeep ==
  ASSUME IInv, phase \in {"nonce", "auths"}, phase' = "auths",
         w' \in World, w'.balance = w.balance, auths' \in Seq(Authorization), req.to # Nil,
         UNCHANGED <<chain, kept, req, msg, size, pool, gas, initial, consumed, failed, msgs>>
  PROVE  IInv'
<1>1. /\ Typed /\ Accounted /\ Funded /\ Conserved /\ Priced
      /\ initial = msg.gas /\ pool + initial = size /\ Floor(req) <= initial
  BY DEF IInv, Accounted, Bought
<1>2. Typed'
  BY <1>1 DEF Typed, Phases
<1>3. Accounted' /\ PoolDebited'
  <2>1. Floor(req)' = Floor(req)
    BY DEF Floor, FloorDataGas, Rules
  <2>2. Priced'
    BY <1>1, PricedStays
  <2> QED BY <1>1, <2>1, <2>2 DEF Accounted, PoolDebited, Bought, Done
<1>4. Funded'
  BY <1>1 DEF Funded, Overdrawn
<1>5. Conserved' /\ UsedGasBounds'
  BY <1>1 DEF Conserved, EtherConserved, UsedGasBounds, Bought, Done
<1> QED BY <1>2, <1>3, <1>4, <1>5, SMTT(30) DEF IInv

\* The nonce of a call.
LEMMA TakeNonceKeeps ==
  ASSUME IInv, TakeNonce
  PROVE  IInv'
<1>1. w \in World /\ req.from \in Addr /\ auths \in Seq(Authorization)
  BY RequestTyped DEF IInv, Typed, Accounted, Priced, TakeNonce
<1>2. (w.nonce[req.from] + 1) % UintMod \in 0 .. MaxUint64
  <2>1. w.nonce[req.from] + 1 \in Int
    BY <1>1 DEF World
  <2> QED BY <2>1, Words
<1>3. w' \in World /\ w'.balance = w.balance
  BY <1>1, <1>2, Zenon DEF TakeNonce, World
<1> QED BY <1>1, <1>3, NoncesKeep DEF TakeNonce

\* An authorization.
LEMMA ApplyAuthorizationKeeps ==
  ASSUME IInv, ApplyAuthorization
  PROVE  IInv'
<1>1. w \in World /\ auths \in Seq(Authorization) /\ auths # << >>
  BY DEF IInv, Typed, ApplyAuthorization
<1> DEFINE auth == Head(auths)
<1>2. auth \in Authorization /\ Tail(auths) \in Seq(Authorization)
  BY <1>1
<1> HIDE DEF auth
<1>3. ASSUME Valid(auth)
      PROVE  Authorized(auth) \in World /\ Authorized(auth).balance = w.balance
  <2>1. auth.authority \in Addr
    BY <1>2, <1>3 DEF Valid, Authorization
  <2> DEFINE refund == (w.refund + IF Exist(auth.authority) THEN 12500 ELSE 0) % UintMod
             code == IF auth.address = Nil THEN NoCode ELSE Delegation(auth.address)
             nonce == (auth.nonce + 1) % UintMod
  <2>2. refund \in 0 .. MaxUint64
    <3>1. w.refund + (IF Exist(auth.authority) THEN 12500 ELSE 0) \in Int
      BY <1>1 DEF World
    <3> QED BY <3>1, Words
  <2>3. nonce \in 0 .. MaxUint64
    <3>1. auth.nonce + 1 \in Int
      BY <1>2, Words DEF Authorization
    <3> QED BY <3>1, Words, Zenon
  <2>4. code \in Codes
    BY <1>2 DEF Authorization, Codes
  <2>5. Authorized(auth) = [w EXCEPT !.refund = refund, !.code[auth.authority] = code,
                                     !.nonce[auth.authority] = nonce]
    BY DEF Authorized
  <2> DEFINE s == [w EXCEPT !.refund = refund]
             t == [s EXCEPT !.code[auth.authority] = code]
  <2> HIDE DEF refund, code, nonce
  <2>6. s \in World /\ s.balance = w.balance
    BY <1>1, <2>2, SMTT(30) DEF World
  <2> HIDE DEF s
  <2>7. t \in World /\ t.balance = w.balance
    BY <2>1, <2>4, <2>6 DEF World
  <2>8. Authorized(auth) = [t EXCEPT !.nonce[auth.authority] = nonce]
    BY <2>5 DEF s, t
  <2> HIDE DEF t
  <2> QED BY <2>1, <2>3, <2>7, <2>8 DEF World
<1>4. w' \in World /\ w'.balance = w.balance /\ auths' = Tail(auths)
  BY <1>1, <1>3 DEF ApplyAuthorization, auth
<1>5. req.to # Nil
  BY DEF IInv, Accounted, ApplyAuthorization
<1> QED BY <1>2, <1>4, <1>5, NoncesKeep DEF ApplyAuthorization
-----------------------------------------------------------------------------
(* The EVM.                                                                 *)

\* Transfer moves ether and makes none, and whoever could pay is not overdrawn.
LEMMA MoveKeeps ==
  ASSUME NEW bal \in [Addr -> Int], NEW a \in Addr, NEW b \in Addr, NEW v \in Nat,
         v = 0 \/ v <= bal[a]
  PROVE  /\ Move(bal, a, b, v) \in [Addr -> Int]
         /\ Sum(Move(bal, a, b, v)) = Sum(bal)
         /\ \A x \in Addr : bal[x] >= 0 => Move(bal, a, b, v)[x] >= 0
<1> DEFINE x1 == bal[a] - v
           f == [bal EXCEPT ![a] = x1]
           x2 == f[b] + v
<1>1. x1 \in Int
  OBVIOUS
<1>2. f \in [Addr -> Int] /\ \A x \in Addr : f[x] = IF x = a THEN x1 ELSE bal[x]
  BY <1>1
<1>3. x2 \in Int
  BY <1>2
<1>4. Move(bal, a, b, v) = [f EXCEPT ![b] = x2]
  BY DEF Move
<1>5. Sum(f) = Sum(bal) - bal[a] + x1 /\ Sum(bal) \in Int
  BY <1>1, BalanceSum, Zenon
<1>6. Sum([f EXCEPT ![b] = x2]) = Sum(f) - f[b] + x2
  <2> HIDE DEF f, x2
  <2> QED BY <1>2, <1>3, BalanceSum, Zenon
<1>7. Sum(Move(bal, a, b, v)) = Sum(bal)
  <2> DEFINE p == Sum(bal)  q == Sum(f)  r == Sum(Move(bal, a, b, v))  c == f[b]  d == bal[a]
  <2>1. c \in Int /\ d \in Int
    BY <1>2
  <2>2. p \in Int /\ q = p - d + (d - v) /\ r = q - c + (c + v)
    BY <1>4, <1>5, <1>6, Zenon
  <2> HIDE DEF p, q, r, c, d
  <2>3. r = p
    BY <2>1, <2>2
  <2> QED BY <2>3 DEF p, r
<1>8. ASSUME NEW x \in Addr, bal[x] >= 0
      PROVE  [f EXCEPT ![b] = x2][x] >= 0
  BY <1>2, <1>8
<1> QED BY <1>2, <1>3, <1>4, <1>7, <1>8

\* However a run ends, its gas is accounted for, provided it moves ether only.
LEMMA EVMKeeps ==
  ASSUME IInv, phase \in {"nonce", "auths"}, NEW left \in 0 .. gas, NEW err \in BOOLEAN,
         EVMReturns(left, err),
         w' \in World, ~Overdrawn(w'), Sum(w'.balance) = Sum(w.balance)
  PROVE  IInv'
<1>1. /\ Typed /\ Accounted /\ Funded /\ Conserved /\ Priced
      /\ initial = msg.gas /\ pool + initial = size /\ Floor(req) <= initial
  BY DEF IInv, Accounted, Bought
<1>2. /\ gas' = left /\ consumed' = initial - left /\ failed' = err /\ phase' = "returned"
      /\ auths' = << >>
      /\ UNCHANGED <<chain, kept, req, msg, size, pool, initial, msgs>>
  BY DEF EVMReturns
<1>3. Typed'
  <2>1. /\ gas' \in 0 .. MaxUint64 /\ consumed' \in 0 .. MaxUint64 /\ gas' <= initial
    <3> DEFINE m == MaxUint64
    <3>1. m \in Nat
      BY Words
    <3>2. gas \in 0 .. m /\ initial \in 0 .. m /\ gas <= initial
      BY <1>1 DEF Typed
    <3>3. gas' = left /\ consumed' = initial - left
      BY <1>2
    <3> HIDE DEF m
    <3>4. gas' \in 0 .. m /\ consumed' \in 0 .. m /\ gas' <= initial
      BY <3>1, <3>2, <3>3, SMTT(30)
    <3> QED BY <3>4 DEF m
  <2> QED BY <1>1, <1>2, <2>1 DEF Typed, Phases
<1>4. Accounted' /\ PoolDebited'
  <2>1. Floor(req)' = Floor(req)
    BY <1>2 DEF Floor, FloorDataGas, Rules
  <2>2. Priced'
    BY <1>1, <1>2, PricedStays
  <2> QED BY <1>1, <1>2, <2>1, <2>2 DEF Accounted, PoolDebited, Bought, Done
<1>5. Funded'
  <2>1. Overdrawn(kept)' = Overdrawn(kept) /\ ~Overdrawn(w)'
    BY <1>2 DEF Overdrawn
  <2> QED BY <1>1, <1>2, <2>1, SMTT(30) DEF Funded
<1>6. Conserved' /\ UsedGasBounds'
  BY <1>1, <1>2 DEF Conserved, EtherConserved, UsedGasBounds, Bought, Done
<1> QED BY <1>3, <1>4, <1>5, <1>6, SMTT(30) DEF IInv

\* What a run leaves is at most what it was given.
LEMMA LeftBounded ==
  ASSUME Typed, NEW left \in Left
  PROVE  left \in 0 .. gas
BY TransitionAssumption DEF Left, Typed

\* A run fails in a world with the balances it found.
LEMMA FailsKeeps ==
  ASSUME IInv, phase \in {"nonce", "auths"}, NEW s \in World, s.balance = w.balance,
         NEW left \in 0 .. gas, Fails(s, left)
  PROVE  IInv'
<1>1. w' = s /\ EVMReturns(left, TRUE) /\ ~Overdrawn(w)
  BY Zenon DEF Fails, IInv, Funded
<1>2. ~Overdrawn(w') /\ Sum(w'.balance) = Sum(w.balance)
  BY <1>1 DEF Overdrawn
<1> QED BY <1>1, <1>2, EVMKeeps, Zenon

\* A run succeeds in account a: the value was found covered, and one wei is passed on.
LEMMA SucceedsKeeps ==
  ASSUME IInv, phase \in {"nonce", "auths"}, NEW s \in World, s.balance = w.balance,
         NEW a \in Addr, NEW b \in Addr, NEW left \in 0 .. gas, NEW refund \in Refunds,
         Succeeds(s, a, b, left, refund)
  PROVE  IInv'
<1> DEFINE paid == Move(s.balance, req.from, a, req.value)
           sent == IF paid[a] > 0 THEN 1 ELSE 0
           done == Move(paid, a, b, sent)
           total == (s.refund + refund) % UintMod
<1>1. /\ req.from \in Addr /\ req.value \in Nat /\ s.balance \in [Addr -> Int]
      /\ req.value = 0 \/ req.value <= s.balance[req.from]
      /\ ~Overdrawn(w)
  BY RequestTyped, SMTT(30) DEF IInv, Accounted, Priced, Funded, World
<1>2. /\ paid \in [Addr -> Int] /\ Sum(paid) = Sum(s.balance)
      /\ \A x \in Addr : s.balance[x] >= 0 => paid[x] >= 0
  <2> DEFINE f == s.balance  c == req.from  v == req.value
  <2>1. f \in [Addr -> Int] /\ c \in Addr /\ v \in Nat /\ (v = 0 \/ v <= f[c])
    BY <1>1, SMTT(30)
  <2> HIDE DEF f, c, v
  <2>2. /\ Move(f, c, a, v) \in [Addr -> Int] /\ Sum(Move(f, c, a, v)) = Sum(f)
        /\ \A x \in Addr : f[x] >= 0 => Move(f, c, a, v)[x] >= 0
    BY <2>1, MoveKeeps
  <2> QED BY <2>2 DEF f, c, v
<1> HIDE DEF paid
<1>3. sent \in Nat /\ (sent = 0 \/ sent <= paid[a])
  <2>1. paid[a] \in Int
    BY <1>2
  <2> QED BY <2>1
<1> HIDE DEF sent
<1>4. /\ done \in [Addr -> Int] /\ Sum(done) = Sum(paid)
      /\ \A x \in Addr : paid[x] >= 0 => done[x] >= 0
  BY <1>2, <1>3, MoveKeeps, ZenonT(60)
<1>5. total \in 0 .. MaxUint64
  <2>1. s.refund + refund \in Int
    BY TransitionAssumption DEF World
  <2> QED BY <2>1, Words
<1>6. w' = [s EXCEPT !.balance = done, !.refund = total] /\ EVMReturns(left, FALSE)
  BY Zenon DEF Succeeds, done, total, sent, paid
<1> HIDE DEF done, total
<1>7. w' \in World /\ w'.balance = done
  BY <1>4, <1>5, <1>6, Zenon DEF World
<1>8. ~Overdrawn(w')
  <2>1. \A x \in Addr : w.balance[x] \in Int /\ done[x] \in Int
    BY <1>1, <1>4
  <2>2. \A x \in Addr \ {Coinbase} : ~(w.balance[x] < 0)
    BY <1>1, SMTT(30) DEF Overdrawn
  <2>3. \A x \in Addr : w.balance[x] >= 0 => done[x] >= 0
    BY <1>2, <1>4, SMTT(30)
  <2>4. \A x \in Addr \ {Coinbase} : ~(done[x] < 0)
    BY <2>1, <2>2, <2>3, SMTT(30)
  <2> QED BY <1>7, <2>4 DEF Overdrawn
<1>9. Sum(w'.balance) = Sum(w.balance)
  BY <1>2, <1>4, <1>7
<1> QED BY <1>6, <1>7, <1>8, <1>9, EVMKeeps, ZenonT(60)

\* A call.
LEMMA CallKeeps ==
  ASSUME IInv, Call
  PROVE  IInv'
<1>1. Typed /\ Priced /\ phase = "auths" /\ w \in World /\ 0 \in 0 .. gas
  BY DEF IInv, Typed, Accounted, Call
<1>2. PICK left \in Left :
        \/ \E b \in Addr, refund \in Refunds : Succeeds(w, req.to, b, left, refund)
        \/ Fails(w, left)
        \/ Fails(w, 0)
  BY DEF Call
<1>3. left \in 0 .. gas
  BY <1>1, LeftBounded
<1>4. CASE \E b \in Addr, refund \in Refunds : Succeeds(w, req.to, b, left, refund)
  <2>1. PICK b \in Addr, refund \in Refunds : Succeeds(w, req.to, b, left, refund)
    BY <1>4
  <2>2. req.to \in Addr
    <3>1. req.to # Nil
      BY <1>1 DEF IInv, Accounted
    <3> QED BY <1>1, <3>1, RequestTyped DEF Priced
  <2> QED BY <1>1, <1>3, <2>1, <2>2, SucceedsKeeps
<1>5. CASE Fails(w, left) \/ Fails(w, 0)
  BY <1>1, <1>3, <1>5, FailsKeeps
<1> QED BY <1>2, <1>4, <1>5

\* A creation: the sender's nonce is taken, and the account gets code, before the run.
LEMMA CreateKeeps ==
  ASSUME IInv, Create
  PROVE  IInv'
<1>1. /\ Typed /\ Priced /\ phase = "nonce" /\ w \in World /\ 0 \in 0 .. gas
      /\ req.from \in Addr
  BY RequestTyped DEF IInv, Typed, Accounted, Priced, Create
<1> DEFINE s == [w EXCEPT !.nonce[req.from] = (@ + 1) % UintMod]
           t(a) == [s EXCEPT !.nonce[a] = IF Rules.eip158 THEN 1 ELSE @, !.code[a] = Contract]
<1>2. s \in World /\ s.balance = w.balance
  <2>1. (w.nonce[req.from] + 1) % UintMod \in 0 .. MaxUint64
    <3>1. w.nonce[req.from] + 1 \in Int
      BY <1>1 DEF World
    <3> QED BY <3>1, Words
  <2> QED BY <1>1, <2>1 DEF World
<1>3. PICK a \in NewAddrs, left \in Left :
        \/ \E b \in Addr, refund \in Refunds : Succeeds(t(a), a, b, left, refund)
        \/ Fails(s, left)
        \/ Fails(s, 0)
  BY Zenon DEF Create
<1>4. left \in 0 .. gas /\ a \in Addr
  BY <1>1, LeftBounded, TransitionAssumption
<1> HIDE DEF s
<1>5. CASE \E b \in Addr, refund \in Refunds : Succeeds(t(a), a, b, left, refund)
  <2>1. PICK b \in Addr, refund \in Refunds : Succeeds(t(a), a, b, left, refund)
    BY <1>5
  <2>2. t(a) \in World /\ t(a).balance = w.balance
    <3> DEFINE n == IF Rules.eip158 THEN 1 ELSE s.nonce[a]
    <3>1. n \in 0 .. MaxUint64
      BY <1>2, <1>4, Words DEF World
    <3>2. Contract \in Codes
      BY DEF Codes
    <3>3. t(a) = [s EXCEPT !.nonce[a] = n, !.code[a] = Contract]
      OBVIOUS
    <3> DEFINE u == [s EXCEPT !.nonce[a] = n]
    <3> HIDE DEF n
    <3>4. u \in World /\ u.balance = w.balance
      BY <1>2, <1>4, <3>1 DEF World
    <3>5. t(a) = [u EXCEPT !.code[a] = Contract]
      BY <3>3
    <3> HIDE DEF u, t
    <3> QED BY <1>4, <3>2, <3>4, <3>5, SMTT(30) DEF World
  <2> HIDE DEF t
  <2> QED BY <1>1, <1>4, <2>1, <2>2, SucceedsKeeps
<1>6. CASE Fails(s, left) \/ Fails(s, 0)
  BY <1>1, <1>2, <1>4, <1>6, FailsKeeps
<1> QED BY <1>3, <1>5, <1>6, SMTT(30)
-----------------------------------------------------------------------------
(* The end of a message.                                                    *)

\* A quotient, multiplied back, is at most what was divided.
LEMMA Quotient ==
  ASSUME NEW n \in Nat, NEW q \in {2, 5}, NEW r \in Nat, r <= n \div q
  PROVE  q * r <= n /\ r <= n
<1>1. CASE q = 2
  BY <1>1
<1>2. CASE q = 5
  BY <1>2
<1> QED BY <1>1, <1>2

\* What the sender gets back: at least the gas left less nothing, at most all, and the gas
\* used is what was consumed, less a quotient of it, or the floor.
LEMMA ReturnedBounds ==
  ASSUME IInv, phase = "returned"
  PROVE  /\ Returned \in 0 .. initial
         /\ initial - Returned >= Floor(req)
         /\ RefundQuotient \in {2, 5}
         /\ RefundQuotient * (consumed - (initial - Returned)) <= consumed
         /\ initial - Returned > consumed => initial - Returned = Floor(req)
<1>1. /\ Typed /\ Priced /\ Floor(req) <= initial /\ consumed = initial - gas
  BY DEF IInv, Accounted
<1>2. /\ gas \in Nat /\ initial \in Nat /\ gas <= initial /\ w.refund \in Nat
  BY <1>1, Words DEF Typed, World
<1>3. Floor(req) \in Nat
  BY <1>1, PricesTyped DEF Typed, Priced
<1>4. GasUsed = consumed /\ consumed \in Nat
  BY <1>1, <1>2, GasUsedIs
<1>5. RefundQuotient \in {2, 5}
  BY DEF RefundQuotient
<1> DEFINE q == RefundQuotient
           r == CalcRefund
           fl == Floor(req)
<1>6. r \in Nat /\ r <= consumed \div q
  <2>1. r = Least(consumed \div q, w.refund)
    BY <1>4 DEF CalcRefund
  <2>2. consumed \div q \in Nat
    <3>1. q = 2 \/ q = 5
      BY <1>5
    <3> HIDE DEF q
    <3> QED BY <1>4, <3>1
  <2> HIDE DEF q, r
  <2> QED BY <1>2, <2>1, <2>2 DEF Least
<1>7. q * r <= consumed /\ r <= consumed
  BY <1>4, <1>5, <1>6, Quotient
<1>8. Returned = IF initial - (gas + r) < fl THEN initial - fl ELSE gas + r
  BY DEF Returned
<1>9. fl \in Nat /\ fl <= initial
  BY <1>1, <1>3
<1> HIDE DEF q, r, fl
<1>10. CASE initial - (gas + r) < fl
  <2>1. Returned = initial - fl
    BY <1>8, <1>10
  <2>2. consumed - fl <= r
    BY <1>1, <1>2, <1>6, <1>9, <1>10
  <2>3. q * (consumed - fl) <= consumed
    <3>1. CASE q = 2
      BY <1>4, <1>6, <1>7, <1>9, <2>2, <3>1, SMTT(30)
    <3>2. CASE q = 5
      BY <1>4, <1>6, <1>7, <1>9, <2>2, <3>2
    <3> QED BY <1>5, <3>1, <3>2 DEF q
  <2>4. initial - Returned = fl
    BY <1>2, <1>9, <2>1
  <2> QED BY <1>2, <1>5, <1>9, <2>1, <2>3, <2>4, SMTT(30) DEF q, fl
<1>11. CASE ~(initial - (gas + r) < fl)
  <2>1. Returned = gas + r
    BY <1>8, <1>11
  <2>2. consumed - (initial - Returned) = r /\ initial - Returned = consumed - r
    BY <1>1, <1>2, <1>6, <2>1
  <2>3. initial - Returned >= fl /\ Returned \in 0 .. initial
    BY <1>1, <1>2, <1>4, <1>6, <1>7, <1>9, <1>11, <2>1, SMTT(30)
  <2>4. ~(initial - Returned > consumed)
    BY <1>4, <1>6, <2>2
  <2> QED BY <1>5, <1>7, <2>2, <2>3, <2>4 DEF q, fl
<1> QED BY <1>10, <1>11

\* What is returned and what is paid for share the price as the gas is shared.
LEMMA PriceShared ==
  ASSUME NEW n \in Nat, NEW k \in 0 .. n, NEW tip \in Int, NEW burnt \in Nat, NEW price \in Nat,
         price = tip + burnt
  PROVE  /\ k * price \in Nat /\ (n - k) * tip \in Int /\ (n - k) * burnt \in Int
         /\ n * price \in Int
         /\ k * price + (n - k) * tip + (n - k) * burnt = n * price
<1>1. n - k \in Nat /\ k \in Nat
  OBVIOUS
<1>2. k * price \in Nat /\ (n - k) * tip \in Int /\ (n - k) * burnt \in Int /\ n * price \in Int
  BY <1>1
<1>3. (n - k) * price = n * price - k * price
  BY <1>1
<1>4. (n - k) * price = (n - k) * tip + (n - k) * burnt
  <2> DEFINE m == n - k
  <2>1. m \in Nat
    BY <1>1
  <2> HIDE DEF m
  <2>2. m * price = m * tip + m * burnt
    BY <2>1
  <2> QED BY <2>2 DEF m
<1> QED BY <1>2, <1>3, <1>4

\* Refund, floor, sender, pool and coinbase: the pool gets back what was not used, and of
\* what the sender paid for it only the base fee is gone.
LEMMA SettleKeeps ==
  ASSUME IInv, Settle
  PROVE  IInv'
<1> DEFINE left == Returned
           price == msg.gasPrice
           tip == EffectiveTip
           back == w.balance[req.from] + left * price
           repaid == [w.balance EXCEPT ![req.from] = back]
           earned == repaid[Coinbase] + (initial - left) * tip
           bal == [repaid EXCEPT ![Coinbase] = earned]
<1>1. /\ Typed /\ Accounted /\ Funded /\ Conserved /\ Priced /\ phase = "returned"
      /\ initial = msg.gas /\ pool + initial = size /\ consumed = initial - gas
  BY DEF IInv, Accounted, Settle, Bought
<1>2. /\ left \in 0 .. initial /\ initial - left >= Floor(req)
      /\ RefundQuotient \in {2, 5}
      /\ RefundQuotient * (consumed - (initial - left)) <= consumed
      /\ initial - left > consumed => initial - left = Floor(req)
  BY <1>1, ReturnedBounds
<1>3. /\ gas' = left /\ pool' = pool + left /\ phase' = "settled"
      /\ w' = [w EXCEPT !.balance = bal]
      /\ UNCHANGED <<chain, kept, req, msg, size, initial, consumed, failed, auths, msgs>>
  BY DEF Settle
<1>4. /\ price \in Nat /\ tip \in Int /\ Burnt \in Nat /\ price = tip + Burnt
      /\ initial \in Nat /\ req.from \in Addr /\ Coinbase \in Addr
      /\ w \in World /\ w.balance \in [Addr -> Int]
  <2>1. req.from \in Addr /\ Coinbase \in Addr
    <3>1. req \in Requests
      BY <1>1 DEF Priced
    <3> QED BY <3>1, RequestTyped, TransitionAssumption, Zenon
  <2>2. w \in World /\ w.balance \in [Addr -> Int] /\ initial \in Nat
    <3>1. w \in World /\ initial \in 0 .. MaxUint64
      BY <1>1 DEF Typed
    <3>2. w.balance \in [Addr -> Int]
      BY <3>1 DEF World
    <3> QED BY <3>1, <3>2
  <2>3. price \in Nat /\ tip \in Int /\ Burnt \in Nat /\ price = tip + Burnt
    BY <1>1, SMTT(30) DEF Priced, Messages
  <2> QED BY <2>1, <2>2, <2>3
<1> HIDE DEF left, price, tip
<1>5. /\ left * price \in Nat /\ (initial - left) * tip \in Int
      /\ (initial - left) * Burnt \in Int /\ initial * price \in Int
      /\ left * price + (initial - left) * tip + (initial - left) * Burnt = initial * price
  BY <1>2, <1>4, PriceShared
<1>6. /\ w.balance[req.from] \in Int /\ back \in Int /\ back >= w.balance[req.from]
  <2>1. w.balance[req.from] \in Int
    BY <1>4, SMTT(30)
  <2> QED BY <1>5, <2>1
<1>7. /\ repaid \in [Addr -> Int]
      /\ \A a \in Addr : repaid[a] = IF a = req.from THEN back ELSE w.balance[a]
      /\ Sum(repaid) = Sum(w.balance) - w.balance[req.from] + back /\ Sum(w.balance) \in Int
  <2> HIDE DEF back
  <2> QED BY <1>4, <1>6, BalanceSum, SMTT(30)
<1>8. earned \in Int /\ repaid[Coinbase] \in Int
  <2>1. repaid[Coinbase] \in Int
    BY <1>4, <1>7
  <2> HIDE DEF repaid
  <2> QED BY <1>5, <2>1, SMTT(30)
<1>9. /\ bal \in [Addr -> Int]
      /\ \A a \in Addr \ {Coinbase} : bal[a] = repaid[a]
      /\ Sum(bal) = Sum(repaid) - repaid[Coinbase] + earned
  <2> HIDE DEF repaid, earned
  <2> QED BY <1>4, <1>7, <1>8, BalanceSum, ZenonT(60)
<1>10. Sum(bal) = Sum(w.balance) + left * price + (initial - left) * tip
  <2>1. Sum(repaid) = Sum(w.balance) + left * price
    <3> DEFINE x == left * price
    <3>1. x \in Int /\ back = w.balance[req.from] + x
      BY <1>5
    <3> HIDE DEF x, back, repaid
    <3> QED BY <1>6, <1>7, <3>1, SMTT(30) DEF x
  <2> DEFINE y == (initial - left) * tip
  <2>2. y \in Int /\ earned = repaid[Coinbase] + y
    BY <1>5
  <2>3. Sum(bal) = Sum(repaid) + y
    <3>1. Sum(repaid) \in Int
      <4> DEFINE x == left * price
      <4>1. x \in Int /\ Sum(repaid) = Sum(w.balance) + x
        BY <1>5, <2>1
      <4> HIDE DEF x, repaid
      <4> QED BY <1>7, <4>1, SMTT(30)
    <3> HIDE DEF y, earned, repaid, bal
    <3> QED BY <1>8, <1>9, <2>2, <3>1, SMTT(30)
  <2> HIDE DEF repaid, bal
  <2> QED BY <2>1, <2>3, SMTT(30)
<1>11. w' \in World /\ w'.balance = bal
  <2> HIDE DEF bal
  <2> QED BY <1>3, <1>4, <1>9 DEF World
<1>12. Typed'
  <2>1. MaxUint64 \in Nat
    BY Words
  <2>2. /\ pool \in 0 .. MaxUint64 /\ size \in 0 .. MaxUint64 /\ initial \in 0 .. MaxUint64
    BY <1>1 DEF Typed
  <2>3. gas' \in 0 .. MaxUint64 /\ pool' \in 0 .. MaxUint64 /\ gas' <= initial
    BY <1>1, <1>2, <1>3, <2>1, <2>2
  <2> QED BY <1>1, <1>3, <1>11, <2>3 DEF Typed, Phases
<1>13. GasUsed' = initial - left
  <2>1. GasUsed' = (initial' - gas') % UintMod
    BY DEF GasUsed
  <2>2. initial - left \in 0 .. MaxUint64
    <3>1. initial \in 0 .. MaxUint64 /\ MaxUint64 \in Nat
      BY <1>1, Words DEF Typed
    <3> QED BY <1>2, <3>1
  <2> QED BY <1>3, <2>1, <2>2, Words
<1>14. /\ Floor(req)' = Floor(req) /\ RefundQuotient' = RefundQuotient /\ Burnt' = Burnt
       /\ (IF PaysBaseFee THEN BaseFee ELSE 0)' = Burnt
  BY <1>3 DEF Floor, FloorDataGas, RefundQuotient, Burnt, PaysBaseFee, BaseFee, Rules
<1>15. ~Bought' /\ Done' /\ Bought
  BY <1>1, <1>3 DEF Bought, Done
<1>16. Accounted'
  BY <1>1, <1>3, <1>15, PricedStays DEF Accounted
<1>17. PoolDebited'
  <2>1. pool \in Int /\ initial \in Int /\ left \in Int
    BY <1>1, <1>2 DEF Typed
  <2>2. pool' + GasUsed' = size'
    BY <1>1, <1>3, <1>13, <2>1
  <2> QED BY <1>15, <2>2, SMTT(30) DEF PoolDebited
<1>18. UsedGasBounds'
  BY <1>1, <1>2, <1>3, <1>4, <1>13, <1>14 DEF UsedGasBounds
<1>19. Funded'
  <2>1. \A a \in Addr \ {Coinbase} : ~(w.balance[a] < 0)
    BY <1>1, SMTT(30) DEF Funded, Overdrawn
  <2>2. \A a \in Addr \ {Coinbase} : ~(bal[a] < 0)
    <3> SUFFICES ASSUME NEW a \in Addr \ {Coinbase} PROVE ~(bal[a] < 0)
      OBVIOUS
    <3>1. bal[a] = IF a = req.from THEN back ELSE w.balance[a]
      BY <1>7, <1>9, Zenon
    <3> HIDE DEF bal, back
    <3> QED BY <1>4, <1>6, <2>1, <3>1, SMTT(30)
  <2> HIDE DEF bal
  <2> QED BY <1>1, <1>3, <1>11, <2>2, SMTT(30) DEF Funded, Overdrawn
<1>20. Conserved'
  <2>1. Sum(w.balance) + initial * price = Sum(kept.balance)
    BY <1>1, <1>15 DEF Conserved, EtherConserved, price
  <2>2. Sum(w'.balance) + GasUsed' * Burnt = Sum(kept.balance)
    <3> DEFINE x == left * price y == (initial - left) * tip z == (initial - left) * Burnt
               t == initial * price
    <3>1. /\ x \in Int /\ y \in Int /\ z \in Int /\ t \in Int /\ x + y + z = t
      BY <1>5, SMTT(30)
    <3>2. Sum(w'.balance) = Sum(w.balance) + x + y /\ GasUsed' * Burnt = z
      BY <1>10, <1>11, <1>13, SMTT(30)
    <3>3. Sum(w.balance) + t = Sum(kept.balance) /\ Sum(w.balance) \in Int
      BY <1>7, <2>1
    <3> HIDE DEF x, y, z, t
    <3> QED BY <3>1, <3>2, <3>3
  <2>3. phase' \notin {"idle", "check"}
    BY <1>3
  <2>4. EtherConserved'
    BY <1>3, <1>14, <1>15, <2>2, Zenon DEF EtherConserved
  <2> QED BY <2>3, <2>4 DEF Conserved
<1> QED BY <1>12, <1>16, <1>17, <1>18, <1>19, <1>20, SMTT(30) DEF IInv

\* The next message finds the state that was kept, whichever that is.
LEMMA ResetKeeps ==
  ASSUME IInv, Reset, kept' \in World, ~Overdrawn(kept')
  PROVE  IInv'
<1>1. Typed
  BY DEF IInv
<1>2. /\ w' = kept' /\ size' = 0 /\ pool' = 0 /\ gas' = 0 /\ initial' = 0 /\ consumed' = 0
      /\ failed' = FALSE /\ auths' = << >> /\ phase' = "idle" /\ chain' = chain /\ msgs' = msgs
  BY DEF Reset
<1>3. Typed'
  <2>1. 0 \in 0 .. MaxUint64 /\ 0 <= 0 /\ << >> \in Seq(Authorization) /\ "idle" \in Phases
    BY Words DEF Phases
  <2> QED BY <1>1, <1>2, <2>1, Zenon DEF Typed
<1>4. Accounted' /\ PoolDebited' /\ UsedGasBounds'
  BY <1>2 DEF Accounted, PoolDebited, UsedGasBounds, Bought, Done
<1>5. Funded'
  <2>1. ~Overdrawn(kept)' /\ ~Overdrawn(w)'
    BY <1>2 DEF Overdrawn
  <2> QED BY <1>2, <2>1 DEF Funded
<1>6. Conserved'
  BY <1>2 DEF Conserved, EtherConserved, Bought, Done
<1> QED BY <1>3, <1>4, <1>5, <1>6 DEF IInv

\* Finalise clears the refund of the state that is kept.
LEMMA AdoptKeeps ==
  ASSUME IInv, Adopt
  PROVE  IInv'
<1>1. w \in World /\ ~Overdrawn(w)
  BY DEF IInv, Typed, Funded
<1>2. kept' = [w EXCEPT !.refund = 0] /\ 0 \in 0 .. MaxUint64
  BY Words DEF Adopt
<1>3. kept' \in World /\ kept'.balance = w.balance
  BY <1>1, <1>2 DEF World
<1>4. ~Overdrawn(kept')
  BY <1>1, <1>3 DEF Overdrawn
<1> QED BY <1>3, <1>4, ResetKeeps, SMTT(30) DEF Adopt

\* A result without its state, an error, and a call cancelled too late.
LEMMA DiscardKeeps ==
  ASSUME IInv, Discard \/ Drop
  PROVE  IInv'
<1>1. kept' = kept /\ Reset
  BY SMTT(30) DEF Discard, Drop
<1>2. kept' \in World /\ ~Overdrawn(kept')
  BY <1>1 DEF IInv, Typed, Funded
<1> QED BY <1>1, <1>2, ResetKeeps

\* A call cancelled after it ran is settled all the same.
LEMMA AbortKeeps ==
  ASSUME IInv, Abort
  PROVE  IInv'
<1>1. /\ Typed /\ Accounted /\ PoolDebited /\ UsedGasBounds /\ Funded /\ Conserved
      /\ phase = "settled" /\ phase' = "aborted"
      /\ UNCHANGED <<chain, kept, w, req, msg, size, pool, gas, initial, consumed, failed,
                     auths, msgs>>
  BY DEF IInv, Abort
<1>2. Done /\ Done' /\ ~Bought'
  BY <1>1, SMTT(30) DEF Done, Bought
<1>3. Typed'
  BY <1>1 DEF Typed, Phases, Errors
<1>4. Accounted'
  BY <1>1, <1>2, PricedStays, SMTT(30) DEF Accounted
<1>5. GasUsed' = GasUsed /\ Floor(req)' = Floor(req) /\ RefundQuotient' = RefundQuotient
  BY <1>1 DEF GasUsed, Floor, FloorDataGas, RefundQuotient, Rules
<1>6. PoolDebited' /\ UsedGasBounds'
  BY <1>1, <1>2, <1>5, SMTT(30) DEF PoolDebited, UsedGasBounds
<1>7. Funded'
  BY <1>1 DEF Funded, Overdrawn
<1>8. Conserved'
  <2>1. (IF PaysBaseFee THEN BaseFee ELSE 0)' = IF PaysBaseFee THEN BaseFee ELSE 0
    BY <1>1 DEF PaysBaseFee, BaseFee, Rules
  <2>2. EtherConserved'
    BY <1>1, <1>2, <1>5, <2>1, Zenon DEF EtherConserved, Conserved
  <2> QED BY <1>1, <2>2 DEF Conserved
<1> QED BY <1>3, <1>4, <1>6, <1>7, <1>8, SMTT(30) DEF IInv

\* A step that changes nothing.
LEMMA StutterKeeps ==
  ASSUME IInv, UNCHANGED vars
  PROVE  IInv'
<1>1. /\ Typed /\ Accounted /\ PoolDebited /\ UsedGasBounds /\ Funded /\ Conserved
  BY DEF IInv
<1>2. UNCHANGED <<chain, kept, w, req, msg, size, pool, gas, initial, consumed, failed, auths, phase,
                  msgs>>
  BY DEF vars
<1>3. /\ GasUsed' = GasUsed /\ Floor(req)' = Floor(req) /\ RefundQuotient' = RefundQuotient
      /\ (IF PaysBaseFee THEN BaseFee ELSE 0)' = IF PaysBaseFee THEN BaseFee ELSE 0
  BY <1>2 DEF GasUsed, Floor, FloorDataGas, RefundQuotient, PaysBaseFee, BaseFee, Rules
<1>4. (Bought <=> Bought') /\ (Done <=> Done')
  BY <1>2 DEF Bought, Done
<1>5. Typed'
  BY <1>1, <1>2 DEF Typed
<1>6. Accounted'
  BY <1>1, <1>2, <1>3, <1>4, PricedStays, SMTT(30) DEF Accounted
<1>7. PoolDebited' /\ UsedGasBounds'
  BY <1>1, <1>2, <1>3, <1>4 DEF PoolDebited, UsedGasBounds
<1>8. Funded'
  BY <1>1, <1>2, Zenon DEF Funded, Overdrawn
<1>9. Conserved'
  BY <1>1, <1>2, <1>3, <1>4, Zenon DEF Conserved, EtherConserved
<1> QED BY <1>5, <1>6, <1>7, <1>8, <1>9 DEF IInv

\* The invariant is inductive.
THEOREM TransitionInvariant == Spec => []IInv
<1>1. Init => IInv
  BY InitEstablishes
<1>2. IInv /\ [Next]_vars => IInv'
  <2> SUFFICES ASSUME IInv, [Next]_vars PROVE IInv'
    OBVIOUS
  <2>1. CASE \E r \in Requests, full \in BOOLEAN : Start(r, full)
    BY <2>1, StartKeeps
  <2>2. CASE PreCheck \/ PayIntrinsic \/ TakeNonce \/ ApplyAuthorization
    BY <2>2, PreCheckKeeps, PayIntrinsicKeeps, TakeNonceKeeps, ApplyAuthorizationKeeps
  <2>3. CASE Call \/ Create \/ Settle
    BY <2>3, CallKeeps, CreateKeeps, SettleKeeps
  <2>4. CASE Adopt \/ Discard \/ Abort \/ Drop
    BY <2>4, AdoptKeeps, DiscardKeeps, AbortKeeps
  <2>5. CASE UNCHANGED vars
    BY <2>5, StutterKeeps
  <2> QED BY <2>1, <2>2, <2>3, <2>4, <2>5 DEF Next
<1> QED BY <1>1, <1>2, PTL DEF Spec

\* Gas is accounted for, whatever the accounts, rules, requests and EVM runs: nothing
\* wraps, the pool ends short by the gas reported, and that lies between floor and limit.
THEOREM GasIsAccounted == Spec => []GasAccounted
<1>1. IInv => GasAccounted
  <2> SUFFICES ASSUME IInv PROVE TypeOK
    BY DEF IInv, GasAccounted
  <2> QED BY DEF IInv, Typed, TypeOK
<1> QED BY <1>1, TransitionInvariant, PTL

\* No ether is made, and none is lost but the base fee of the gas used.
THEOREM EtherIsConserved == Spec => []EtherConserved
<1>1. IInv => EtherConserved
  BY SMTT(30) DEF IInv, Conserved
<1> QED BY <1>1, TransitionInvariant, PTL

\* Nobody but the coinbase is ever overdrawn.
THEOREM NobodyOverdrawn == Spec => []Solvent
<1>1. IInv => Solvent
  <2> SUFFICES ASSUME IInv, NEW a \in Addr \ {Coinbase} PROVE w.balance[a] >= 0
    BY DEF Solvent
  <2>1. w.balance[a] \in Int
    BY DEF IInv, Typed, World
  <2> QED BY <2>1, SMTT(30) DEF IInv, Funded, Overdrawn
<1> QED BY <1>1, TransitionInvariant, PTL
=============================================================================

------------------------------ MODULE GasTable ------------------------------
(***************************************************************************)
(* What an instruction pays besides its constant gas, and how much memory  *)
(* it asks for: vm/memory_table.go, vm/gas_table.go, vm/operations_acl.go, *)
(* vm/gas.go, vm/common.go.  SSTORE's own functions are SStoreGas.         *)
(*                                                                         *)
(* a[i] is stack.Back(i).  c is what a gas function can see: the words a,  *)
(* the frame's gas, its memory mem = [len, lastGasCost], the memorySize    *)
(* asked for, the chain rules, and the view w of the state: the address in *)
(* question exists, is empty, is cold, is delegated to a target that is    *)
(* cold, the frame's account has a balance, and the price of an SSTORE.    *)
(***************************************************************************)
EXTENDS JumpTable

CONSTANTS
  UintMod,     \* stands for 2^64
  MaxMemory    \* stands for 0x1FFFFFFFE0, the largest memory that can be priced

ASSUME GasTableAssumption ==
  /\ UintMod \in Nat \ {0} /\ MaxMemory \in Nat /\ StackLimit \in Nat
  /\ MaxMemory % 32 = 0
  /\ (MaxMemory \div 32) * (MaxMemory \div 32) < UintMod
  /\ MemoryGas * (MaxMemory \div 32)
       + ((MaxMemory \div 32) * (MaxMemory \div 32)) \div QuadCoeffDiv < UintMod

IsUint64(w) == w < UintMod
Uint64(w) == w % UintMod

\* A number and whether it is one: the (uint64, bool) and (uint64, error) results.
Ok(n) == [ok |-> TRUE, n |-> n]
Failed == [ok |-> FALSE, n |-> 0]

SafeMul(x, y) == IF x * y < UintMod THEN Ok(x * y) ELSE Failed
SafeAdd(x, y) == IF x + y < UintMod THEN Ok(x + y) ELSE Failed

toWordSize(size) ==
  IF size > UintMod - 1 - 31 THEN (UintMod - 1) \div 32 + 1 ELSE (size + 31) \div 32

calcMemSize64WithUint(off, length64) ==
  IF length64 = 0 THEN Ok(0)
  ELSE IF ~IsUint64(off) THEN Failed
  ELSE SafeAdd(off, length64)

calcMemSize64(off, l) == IF IsUint64(l) THEN calcMemSize64WithUint(off, l) ELSE Failed

Larger(x, y) == IF x.ok /\ y.ok THEN (IF x.n > y.n THEN x ELSE y) ELSE Failed

memorySizeOneRegion(fn, a) ==
  CASE fn \in {"memoryKeccak256", "memoryReturn", "memoryRevert", "memoryLog"} ->
         calcMemSize64(a[0], a[1])
    [] fn \in {"memoryCallDataCopy", "memoryReturnDataCopy", "memoryCodeCopy"} ->
         calcMemSize64(a[0], a[2])
    [] fn = "memoryExtCodeCopy" -> calcMemSize64(a[1], a[3])
    [] fn \in {"memoryCreate", "memoryCreate2"} -> calcMemSize64(a[1], a[2])
    [] fn \in {"memoryMLoad", "memoryMStore"} -> calcMemSize64WithUint(a[0], 32)
    [] fn = "memoryMStore8" -> calcMemSize64WithUint(a[0], 1)
    [] fn = "memoryMcopy" ->
         calcMemSize64(IF a[1] > a[0] THEN a[1] ELSE a[0], a[2])

memorySizeCall(fn, a) ==
  CASE fn = "memoryCall" -> Larger(calcMemSize64(a[5], a[6]), calcMemSize64(a[3], a[4]))
    [] fn \in {"memoryDelegateCall", "memoryStaticCall"} ->
         Larger(calcMemSize64(a[4], a[5]), calcMemSize64(a[2], a[3]))

memorySize(fn, a) ==
  IF fn \in {"memoryCall", "memoryDelegateCall", "memoryStaticCall"}
    THEN memorySizeCall(fn, a) ELSE memorySizeOneRegion(fn, a)

-----------------------------------------------------------------------------
(* The price of memory.                                                     *)

TotalFee(words) ==
  (((words * MemoryGas) % UintMod) + ((words * words) % UintMod) \div QuadCoeffDiv) % UintMod

\* Mutant: the charge for one expansion forgets what earlier ones paid.
memoryGasCostForgets(mem, newMemSize) ==
  IF newMemSize = 0 THEN [ok |-> TRUE, gas |-> 0, last |-> mem.lastGasCost]
  ELSE IF newMemSize > MaxMemory THEN [ok |-> FALSE, gas |-> 0, last |-> mem.lastGasCost]
  ELSE LET words == toWordSize(newMemSize)
           fee == TotalFee(words)
       IN IF words * 32 > mem.len
            THEN [ok |-> TRUE, gas |-> (fee - mem.lastGasCost) % UintMod, last |-> mem.lastGasCost]
            ELSE [ok |-> TRUE, gas |-> 0, last |-> mem.lastGasCost]

memoryGasCost(mem, newMemSize) ==
  IF newMemSize = 0 THEN [ok |-> TRUE, gas |-> 0, last |-> mem.lastGasCost]
  ELSE IF newMemSize > MaxMemory THEN [ok |-> FALSE, gas |-> 0, last |-> mem.lastGasCost]
  ELSE LET words == toWordSize(newMemSize)
           fee == TotalFee(words)
       IN IF words * 32 > mem.len
            THEN [ok |-> TRUE, gas |-> (fee - mem.lastGasCost) % UintMod, last |-> fee]
            ELSE [ok |-> TRUE, gas |-> 0, last |-> mem.lastGasCost]

\* The result of a gas function: the gas or an error, mem.lastGasCost, evm.callGasTemp.
Fee(gas, last, temp) == [ok |-> TRUE, gas |-> gas, last |-> last, temp |-> temp]
FreeOf(mem) == Fee(0, mem.lastGasCost, 0)
NoCharge == [ok |-> FALSE, gas |-> 0, last |-> 0, temp |-> 0]

PerWord(w, price) == IF IsUint64(w) THEN SafeMul(toWordSize(w), price) ELSE Failed

MemoryAnd(c, extra) ==
  LET m == memoryGasCost(c.mem, c.memorySize) IN
  IF m.ok /\ extra.ok /\ SafeAdd(m.gas, extra.n).ok
    THEN Fee(m.gas + extra.n, m.last, 0) ELSE NoCharge

pureMemoryGascost(c) == MemoryAnd(c, Ok(0))

memoryCopierGas(c, stackpos) == MemoryAnd(c, PerWord(c.a[stackpos], CopyGas))

gasKeccak256(c) == MemoryAnd(c, PerWord(c.a[1], Keccak256WordGas))

gasCreate2(c) == MemoryAnd(c, PerWord(c.a[2], Keccak256WordGas))

makeGasLog(c, n) ==
  LET data == IF IsUint64(c.a[1]) THEN SafeMul(c.a[1], LogDataGas) ELSE Failed
  IN MemoryAnd(c, IF data.ok THEN SafeAdd(LogGas + n * LogTopicGas, data.n) ELSE Failed)

InitCode(c, price) ==
  IF IsUint64(c.a[2]) /\ c.a[2] <= MaxInitCodeSize THEN Ok(price * ((c.a[2] + 31) \div 32))
  ELSE Failed

gasCreateEip3860(c) == MemoryAnd(c, InitCode(c, InitCodeWordGas))
gasCreate2Eip3860(c) == MemoryAnd(c, InitCode(c, InitCodeWordGas + Keccak256WordGas))

\* The length of the exponent in bytes, of a word that does not fit in a uint64 at most.
ExpByteLen(w) == CASE w = 0 -> 0 [] w > 0 /\ IsUint64(w) -> 1 [] ~IsUint64(w) -> 32

gasExpFrontier(c) == Fee(ExpByteLen(c.a[1]) * ExpByteFrontier + ExpGas, c.mem.lastGasCost, 0)
gasExpEIP158(c) == Fee(ExpByteLen(c.a[1]) * ExpByteEIP158 + ExpGas, c.mem.lastGasCost, 0)

-----------------------------------------------------------------------------
(* Calls: what the caller keeps of its gas and what it hands on.            *)

IsEIP150(rules) == AtLeast(rules.fork, "tangerineWhistle")
IsEIP158(rules) == AtLeast(rules.fork, "spuriousDragon")

\* The subtraction may wrap: base has not been paid yet.
callGas(isEip150, availableGas, base, callCost) ==
  LET left == (availableGas - base) % UintMod
      gas == left - left \div 64
  IN IF isEip150 /\ (~IsUint64(callCost) \/ gas < callCost) THEN Ok(gas)
     ELSE IF IsUint64(callCost) THEN Ok(callCost) ELSE Failed

\* Memory, the surcharge, and the gas of the callee.
CallBase(c, surcharge) ==
  LET m == memoryGasCost(c.mem, c.memorySize)
      base == SafeAdd(surcharge, m.gas)
      temp == callGas(IsEIP150(c.rules), c.gas, base.n, c.a[0])
  IN IF m.ok /\ base.ok /\ temp.ok /\ SafeAdd(base.n, temp.n).ok
       THEN Fee(base.n + temp.n, m.last, temp.n) ELSE NoCharge

gasCall(c) ==
  LET transfersValue == c.a[2] # 0
      creates == IF IsEIP158(c.rules) THEN transfersValue /\ c.w.empty ELSE ~c.w.exists
  IN CallBase(c, (IF creates THEN CallNewAccountGas ELSE 0)
                 + (IF transfersValue THEN CallValueTransferGas ELSE 0))

gasCallCode(c) == CallBase(c, IF c.a[2] # 0 THEN CallValueTransferGas ELSE 0)
gasDelegateCall(c) == CallBase(c, 0)
gasStaticCall(c) == CallBase(c, 0)

OldCalculator(fn, c) ==
  CASE fn = "CALL" -> gasCall(c) [] fn = "CALLCODE" -> gasCallCode(c)
    [] fn = "DELEGATECALL" -> gasDelegateCall(c) [] fn = "STATICCALL" -> gasStaticCall(c)

ColdCost == ColdAccountAccessCostEIP2929 - WarmStorageReadCostEIP2929

\* The cold charge leaves the frame's gas while the old calculator runs, and comes back.
makeCallVariantGasCallEIP2929(fn, c) ==
  LET cold == IF c.w.cold THEN ColdCost ELSE 0
      old == OldCalculator(fn, [c EXCEPT !.gas = @ - cold])
  IN IF cold > c.gas \/ ~old.ok THEN NoCharge
     ELSE Fee((old.gas + cold) % UintMod, old.last, old.temp)

makeCallVariantGasCallEIP7702(fn, c) ==
  LET cold == IF c.w.cold THEN ColdCost ELSE 0
      resolve == IF ~c.w.delegated THEN 0
                 ELSE IF c.w.targetCold THEN ColdAccountAccessCostEIP2929
                 ELSE WarmStorageReadCostEIP2929
      total == cold + resolve
      old == OldCalculator(fn, [c EXCEPT !.gas = @ - total])
  IN IF total > c.gas \/ ~old.ok \/ ~SafeAdd(old.gas, total).ok THEN NoCharge
     ELSE Fee(old.gas + total, old.last, old.temp)

-----------------------------------------------------------------------------
(* Access lists and the state.                                              *)

gasSLoadEIP2929(c) ==
  Fee(IF c.w.cold THEN ColdSloadCostEIP2929 ELSE WarmStorageReadCostEIP2929,
         c.mem.lastGasCost, 0)

gasExtCodeCopyEIP2929(c) ==
  LET gas == memoryCopierGas(c, 3)
  IN IF ~gas.ok \/ ~c.w.cold THEN gas
     ELSE IF SafeAdd(gas.gas, ColdCost).ok THEN [gas EXCEPT !.gas = @ + ColdCost] ELSE NoCharge

gasEip2929AccountCheck(c) == Fee(IF c.w.cold THEN ColdCost ELSE 0, c.mem.lastGasCost, 0)

gasSelfdestruct(c) ==
  LET creates == IF IsEIP158(c.rules) THEN c.w.empty /\ c.w.balance ELSE ~c.w.exists
  IN Fee(IF ~IsEIP150(c.rules) THEN 0
            ELSE SelfdestructGasEIP150 + (IF creates THEN CreateBySelfdestructGas ELSE 0),
            c.mem.lastGasCost, 0)

makeSelfdestructGasFn(c) ==
  Fee((IF c.w.cold THEN ColdAccountAccessCostEIP2929 ELSE 0)
         + (IF c.w.empty /\ c.w.balance THEN CreateBySelfdestructGas ELSE 0),
         c.mem.lastGasCost, 0)

\* SSTORE's prices are SStoreGas's; the sentry of EIP-2200 and the cold slot are kept.
gasSStoreOf(fn, c) ==
  IF fn # "gasSStore" /\ c.gas <= 2300 THEN NoCharge
  ELSE Fee(c.w.sstore + (IF fn \in {"gasSStoreEIP2929", "gasSStoreEIP3529"} /\ c.w.cold
                              THEN ColdSloadCostEIP2929 ELSE 0),
              c.mem.lastGasCost, 0)

dynamicGas(fn, name, c) ==
  CASE fn \in {"gasReturn", "gasRevert", "gasMLoad", "gasMStore8", "gasMStore", "gasCreate"} ->
         pureMemoryGascost(c)
    [] fn \in {"gasCallDataCopy", "gasCodeCopy", "gasMcopy", "gasReturnDataCopy"} ->
         memoryCopierGas(c, 2)
    [] fn = "gasExtCodeCopy" -> memoryCopierGas(c, 3)
    [] fn = "gasExtCodeCopyEIP2929" -> gasExtCodeCopyEIP2929(c)
    [] fn = "gasKeccak256" -> gasKeccak256(c)
    [] fn = "makeGasLog" -> makeGasLog(c, (CHOOSE i \in 1..5 : LogNames[i] = name) - 1)
    [] fn = "gasExpFrontier" -> gasExpFrontier(c)
    [] fn = "gasExpEIP158" -> gasExpEIP158(c)
    [] fn = "gasCreate2" -> gasCreate2(c)
    [] fn = "gasCreateEip3860" -> gasCreateEip3860(c)
    [] fn = "gasCreate2Eip3860" -> gasCreate2Eip3860(c)
    [] fn \in {"gasCall", "gasCallCode", "gasDelegateCall", "gasStaticCall"} ->
         OldCalculator(name, c)
    [] fn \in {"gasCallEIP2929", "gasCallCodeEIP2929", "gasDelegateCallEIP2929",
               "gasStaticCallEIP2929"} -> makeCallVariantGasCallEIP2929(name, c)
    [] fn \in {"gasCallEIP7702", "gasCallCodeEIP7702", "gasDelegateCallEIP7702",
               "gasStaticCallEIP7702"} -> makeCallVariantGasCallEIP7702(name, c)
    [] fn = "gasSLoadEIP2929" -> gasSLoadEIP2929(c)
    [] fn = "gasEip2929AccountCheck" -> gasEip2929AccountCheck(c)
    [] fn = "gasSelfdestruct" -> gasSelfdestruct(c)
    [] fn \in {"gasSelfdestructEIP2929", "gasSelfdestructEIP3529"} -> makeSelfdestructGasFn(c)
    [] fn \in {"gasSStore", "gasSStoreEIP2200", "gasSStoreEIP2929", "gasSStoreEIP3529"} ->
         gasSStoreOf(fn, c)

=============================================================================

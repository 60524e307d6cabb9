----------------------------- MODULE JumpTable -----------------------------
(***************************************************************************)
(* The instruction sets of vm/jump_table.go and vm/eips.go.  A table maps  *)
(* the name of an opcode to its operation; a name it lacks is a slot       *)
(* filled with opUndefined.  Functions are named: execute by the opcode    *)
(* whose op function it is, dynamicGas and memorySize as in the source.    *)
(***************************************************************************)
EXTENDS ProtocolParams, Sequences, SequencesExt, TLC

CONSTANT StackLimit   \* params.StackLimit

-----------------------------------------------------------------------------
(* The opcodes of vm/opcodes.go: a name stands for the constant, OpCode    *)
(* gives the byte.  An iota block is a first byte and its names in order.  *)

Iota(first, names) ==
  [n \in ToSet(names) |-> first + (CHOOSE i \in 1..Len(names) : names[i] = n) - 1]

PushNames ==
  <<"PUSH1", "PUSH2", "PUSH3", "PUSH4", "PUSH5", "PUSH6", "PUSH7", "PUSH8", "PUSH9",
    "PUSH10", "PUSH11", "PUSH12", "PUSH13", "PUSH14", "PUSH15", "PUSH16", "PUSH17",
    "PUSH18", "PUSH19", "PUSH20", "PUSH21", "PUSH22", "PUSH23", "PUSH24", "PUSH25",
    "PUSH26", "PUSH27", "PUSH28", "PUSH29", "PUSH30", "PUSH31", "PUSH32">>

DupNames ==
  <<"DUP1", "DUP2", "DUP3", "DUP4", "DUP5", "DUP6", "DUP7", "DUP8", "DUP9", "DUP10",
    "DUP11", "DUP12", "DUP13", "DUP14", "DUP15", "DUP16">>

SwapNames ==
  <<"SWAP1", "SWAP2", "SWAP3", "SWAP4", "SWAP5", "SWAP6", "SWAP7", "SWAP8", "SWAP9",
    "SWAP10", "SWAP11", "SWAP12", "SWAP13", "SWAP14", "SWAP15", "SWAP16">>

LogNames == <<"LOG0", "LOG1", "LOG2", "LOG3", "LOG4">>

ComputeOps ==
  Iota(0, <<"STOP", "ADD", "MUL", "SUB", "DIV", "SDIV", "MOD", "SMOD", "ADDMOD", "MULMOD",
            "EXP", "SIGNEXTEND">>)
  @@ Iota(16, <<"LT", "GT", "SLT", "SGT", "EQ", "ISZERO", "AND", "OR", "XOR", "NOT", "BYTE",
                "SHL", "SHR", "SAR", "CLZ">>)
  @@ Iota(32, <<"KECCAK256">>)

ContextOps ==
  Iota(48, <<"ADDRESS", "BALANCE", "ORIGIN", "CALLER", "CALLVALUE", "CALLDATALOAD",
             "CALLDATASIZE", "CALLDATACOPY", "CODESIZE", "CODECOPY", "GASPRICE",
             "EXTCODESIZE", "EXTCODECOPY", "RETURNDATASIZE", "RETURNDATACOPY",
             "EXTCODEHASH">>)
  @@ Iota(64, <<"BLOCKHASH", "COINBASE", "TIMESTAMP", "NUMBER", "DIFFICULTY", "GASLIMIT",
                "CHAINID", "SELFBALANCE", "BASEFEE", "BLOBHASH", "BLOBBASEFEE">>)
  @@ Iota(68, <<"RANDOM">>)

MachineOps ==
  Iota(80, <<"POP", "MLOAD", "MSTORE", "MSTORE8", "SLOAD", "SSTORE", "JUMP", "JUMPI", "PC",
             "MSIZE", "GAS", "JUMPDEST", "TLOAD", "TSTORE", "MCOPY", "PUSH0">>)
  @@ Iota(96, PushNames \o DupNames \o SwapNames)

CallOps ==
  Iota(160, LogNames)
  @@ Iota(176, <<"PUSH", "DUP", "SWAP">>)
  @@ Iota(240, <<"CREATE", "CALL", "CALLCODE", "RETURN", "DELEGATECALL", "CREATE2">>)
  @@ Iota(250, <<"STATICCALL">>) @@ Iota(253, <<"REVERT">>) @@ Iota(255, <<"SELFDESTRUCT">>)

OpCode == ComputeOps @@ ContextOps @@ MachineOps @@ CallOps

IsPush(name) == name \in ToSet(PushNames)

\* DIFFICULTY and RANDOM are one byte, printed by its first name.
opCodeToString ==
  [b \in {OpCode[n] : n \in DOMAIN OpCode} |->
     CHOOSE n \in DOMAIN OpCode \ {"RANDOM"} : OpCode[n] = b]

stringToOp == [n \in DOMAIN OpCode \ {"RANDOM", "PUSH", "DUP", "SWAP"} |-> OpCode[n]]

\* A name that is not in the map is the zero OpCode, STOP.
StringToOp(str) == IF str \in DOMAIN stringToOp THEN stringToOp[str] ELSE 0

-----------------------------------------------------------------------------
(* The tables.                                                             *)

minStack(pops, push) == pops

maxStack(pop, push) == StackLimit + pop - push
minSwapStack(n) == minStack(n, n)
maxSwapStack(n) == maxStack(n, n)
minDupStack(n) == minStack(n, n + 1)
maxDupStack(n) == maxStack(n, n + 1)

operation(execute, constantGas, dynamicGas, min, max, memorySize) ==
  [execute |-> execute, constantGas |-> constantGas, dynamicGas |-> dynamicGas,
   minStack |-> min, maxStack |-> max, memorySize |-> memorySize]

Ops(names, gas, pops, push) ==
  [n \in names |-> operation(n, gas, "nil", minStack(pops, push), maxStack(pops, push), "nil")]

DynOp(name, gas, dynamicGas, pops, push, memorySize) ==
  name :> operation(name, gas, dynamicGas, minStack(pops, push), maxStack(pops, push), memorySize)

Undefined == operation("Undefined", 0, "nil", 0, maxStack(0, 0), "nil")

-----------------------------------------------------------------------------
(* Frontier, in the order of the source.                                    *)

frontierArithmetic ==
  Ops({"STOP"}, 0, 0, 0)
  @@ Ops({"ADD", "SUB", "LT", "GT", "SLT", "SGT", "EQ", "AND", "XOR", "OR", "BYTE"},
         GasFastestStep, 2, 1)
  @@ Ops({"MUL", "DIV", "SDIV", "MOD", "SMOD", "SIGNEXTEND"}, GasFastStep, 2, 1)
  @@ Ops({"ADDMOD", "MULMOD"}, GasMidStep, 3, 1)
  @@ Ops({"ISZERO", "NOT"}, GasFastestStep, 1, 1)
  @@ DynOp("EXP", 0, "gasExpFrontier", 2, 1, "nil")
  @@ DynOp("KECCAK256", Keccak256Gas, "gasKeccak256", 2, 1, "memoryKeccak256")

frontierContext ==
  Ops({"ADDRESS", "ORIGIN", "CALLER", "CALLVALUE", "CALLDATASIZE", "CODESIZE", "GASPRICE",
       "COINBASE", "TIMESTAMP", "NUMBER", "DIFFICULTY", "GASLIMIT"}, GasQuickStep, 0, 1)
  @@ Ops({"CALLDATALOAD"}, GasFastestStep, 1, 1)
  @@ Ops({"BALANCE"}, BalanceGasFrontier, 1, 1)
  @@ Ops({"EXTCODESIZE"}, ExtcodeSizeGasFrontier, 1, 1)
  @@ Ops({"BLOCKHASH"}, GasExtStep, 1, 1)
  @@ DynOp("CALLDATACOPY", GasFastestStep, "gasCallDataCopy", 3, 0, "memoryCallDataCopy")
  @@ DynOp("CODECOPY", GasFastestStep, "gasCodeCopy", 3, 0, "memoryCodeCopy")
  @@ DynOp("EXTCODECOPY", ExtcodeCopyBaseFrontier, "gasExtCodeCopy", 4, 0, "memoryExtCodeCopy")

frontierMachine ==
  Ops({"POP"}, GasQuickStep, 1, 0)
  @@ DynOp("MLOAD", GasFastestStep, "gasMLoad", 1, 1, "memoryMLoad")
  @@ DynOp("MSTORE", GasFastestStep, "gasMStore", 2, 0, "memoryMStore")
  @@ DynOp("MSTORE8", GasFastestStep, "gasMStore8", 2, 0, "memoryMStore8")
  @@ Ops({"SLOAD"}, SloadGasFrontier, 1, 1)
  @@ DynOp("SSTORE", 0, "gasSStore", 2, 0, "nil")
  @@ Ops({"JUMP"}, GasMidStep, 1, 0)
  @@ Ops({"JUMPI"}, GasSlowStep, 2, 0)
  @@ Ops({"PC", "MSIZE", "GAS"}, GasQuickStep, 0, 1)
  @@ Ops({"JUMPDEST"}, JumpdestGas, 0, 0)

frontierPush == Ops(ToSet(SubSeq(PushNames, 1, 25)), GasFastestStep, 0, 1)
frontierPushWide == Ops(ToSet(SubSeq(PushNames, 26, 32)), GasFastestStep, 0, 1)

frontierDup ==
  [n \in ToSet(DupNames) |->
     LET i == CHOOSE i \in 1..16 : DupNames[i] = n
     IN operation(n, GasFastestStep, "nil", minDupStack(i), maxDupStack(i), "nil")]

\* Mutant: SWAPn is declared to need n words, though it reaches the one below them.
SwapTooShallow ==
  [n \in ToSet(SwapNames) |->
     LET i == CHOOSE i \in 1..16 : SwapNames[i] = n
     IN operation(n, GasFastestStep, "nil", minSwapStack(i), maxSwapStack(i), "nil")]

frontierSwap ==
  [n \in ToSet(SwapNames) |->
     LET i == CHOOSE i \in 1..16 : SwapNames[i] = n
     IN operation(n, GasFastestStep, "nil", minSwapStack(i + 1), maxSwapStack(i + 1), "nil")]

frontierClosures ==
  [n \in ToSet(LogNames) |->
     LET i == CHOOSE i \in 1..5 : LogNames[i] = n
     IN operation(n, 0, "makeGasLog", minStack(i + 1, 0), maxStack(i + 1, 0), "memoryLog")]
  @@ DynOp("CREATE", CreateGas, "gasCreate", 3, 1, "memoryCreate")
  @@ DynOp("CALL", CallGasFrontier, "gasCall", 7, 1, "memoryCall")
  @@ DynOp("CALLCODE", CallGasFrontier, "gasCallCode", 7, 1, "memoryCall")
  @@ DynOp("RETURN", 0, "gasReturn", 2, 0, "memoryReturn")
  @@ DynOp("SELFDESTRUCT", 0, "gasSelfdestruct", 1, 0, "nil")

newFrontierInstructionSet ==
  frontierArithmetic @@ frontierContext @@ frontierMachine @@ frontierPush
  @@ frontierPushWide @@ frontierDup @@ frontierSwap @@ frontierClosures

-----------------------------------------------------------------------------
(* The changes the EIPs make: vm/eips.go.                                   *)

enable1884(jt) ==
  Ops({"SELFBALANCE"}, GasFastStep, 0, 1)
  @@ [jt EXCEPT !.SLOAD.constantGas = SloadGasEIP1884,
                !.BALANCE.constantGas = BalanceGasEIP1884,
                !.EXTCODEHASH.constantGas = ExtcodeHashGasEIP1884]

enable1344(jt) == Ops({"CHAINID"}, GasQuickStep, 0, 1) @@ jt

enable2200(jt) ==
  [jt EXCEPT !.SLOAD.constantGas = SloadGasEIP2200, !.SSTORE.dynamicGas = "gasSStoreEIP2200"]

enable2929(jt) ==
  LET warm == WarmStorageReadCostEIP2929 IN
  [jt EXCEPT
     !.SSTORE.dynamicGas = "gasSStoreEIP2929",
     !.SLOAD.constantGas = 0,           !.SLOAD.dynamicGas = "gasSLoadEIP2929",
     !.EXTCODECOPY.constantGas = warm,  !.EXTCODECOPY.dynamicGas = "gasExtCodeCopyEIP2929",
     !.EXTCODESIZE.constantGas = warm,  !.EXTCODESIZE.dynamicGas = "gasEip2929AccountCheck",
     !.EXTCODEHASH.constantGas = warm,  !.EXTCODEHASH.dynamicGas = "gasEip2929AccountCheck",
     !.BALANCE.constantGas = warm,      !.BALANCE.dynamicGas = "gasEip2929AccountCheck",
     !.CALL.constantGas = warm,         !.CALL.dynamicGas = "gasCallEIP2929",
     !.CALLCODE.constantGas = warm,     !.CALLCODE.dynamicGas = "gasCallCodeEIP2929",
     !.STATICCALL.constantGas = warm,   !.STATICCALL.dynamicGas = "gasStaticCallEIP2929",
     !.DELEGATECALL.constantGas = warm, !.DELEGATECALL.dynamicGas = "gasDelegateCallEIP2929",
     !.SELFDESTRUCT.constantGas = SelfdestructGasEIP150,
     !.SELFDESTRUCT.dynamicGas = "gasSelfdestructEIP2929"]

enable3529(jt) ==
  [jt EXCEPT !.SSTORE.dynamicGas = "gasSStoreEIP3529",
             !.SELFDESTRUCT.dynamicGas = "gasSelfdestructEIP3529"]

enable3198(jt) == Ops({"BASEFEE"}, GasQuickStep, 0, 1) @@ jt

enable3860(jt) ==
  [jt EXCEPT !.CREATE.dynamicGas = "gasCreateEip3860", !.CREATE2.dynamicGas = "gasCreate2Eip3860"]

enable3855(jt) == Ops({"PUSH0"}, GasQuickStep, 0, 1) @@ jt

enable4844(jt) == Ops({"BLOBHASH"}, GasFastestStep, 1, 1) @@ jt

enable7939(jt) == Ops({"CLZ"}, GasFastestStep, 1, 1) @@ jt

enable7516(jt) == Ops({"BLOBBASEFEE"}, GasQuickStep, 0, 1) @@ jt

enable1153(jt) ==
  Ops({"TLOAD"}, WarmStorageReadCostEIP2929, 1, 1)
  @@ Ops({"TSTORE"}, WarmStorageReadCostEIP2929, 2, 0) @@ jt

enable5656(jt) == DynOp("MCOPY", GasFastestStep, "gasMcopy", 3, 0, "memoryMcopy") @@ jt

enable6780(jt) ==
  [jt EXCEPT !.SELFDESTRUCT = operation("SELFDESTRUCT6780", SelfdestructGasEIP150,
                "gasSelfdestructEIP3529", minStack(1, 0), maxStack(1, 0), "nil")]

enable7702(jt) ==
  [jt EXCEPT !.CALL.dynamicGas = "gasCallEIP7702",
             !.CALLCODE.dynamicGas = "gasCallCodeEIP7702",
             !.STATICCALL.dynamicGas = "gasStaticCallEIP7702",
             !.DELEGATECALL.dynamicGas = "gasDelegateCallEIP7702"]

-----------------------------------------------------------------------------
(* One table per fork, each built on the one before.                        *)

newHomesteadInstructionSet ==
  DynOp("DELEGATECALL", CallGasFrontier, "gasDelegateCall", 6, 1, "memoryDelegateCall")
  @@ newFrontierInstructionSet

newTangerineWhistleInstructionSet ==
  [newHomesteadInstructionSet EXCEPT
     !.BALANCE.constantGas = BalanceGasEIP150,
     !.EXTCODESIZE.constantGas = ExtcodeSizeGasEIP150,
     !.SLOAD.constantGas = SloadGasEIP150,
     !.EXTCODECOPY.constantGas = ExtcodeCopyBaseEIP150,
     !.CALL.constantGas = CallGasEIP150,
     !.CALLCODE.constantGas = CallGasEIP150,
     !.DELEGATECALL.constantGas = CallGasEIP150]

newSpuriousDragonInstructionSet ==
  [newTangerineWhistleInstructionSet EXCEPT !.EXP.dynamicGas = "gasExpEIP158"]

newByzantiumInstructionSet ==
  DynOp("STATICCALL", CallGasEIP150, "gasStaticCall", 6, 1, "memoryStaticCall")
  @@ Ops({"RETURNDATASIZE"}, GasQuickStep, 0, 1)
  @@ DynOp("RETURNDATACOPY", GasFastestStep, "gasReturnDataCopy", 3, 0, "memoryReturnDataCopy")
  @@ DynOp("REVERT", 0, "gasRevert", 2, 0, "memoryRevert")
  @@ newSpuriousDragonInstructionSet

newConstantinopleInstructionSet ==
  Ops({"SHL", "SHR", "SAR"}, GasFastestStep, 2, 1)
  @@ Ops({"EXTCODEHASH"}, ExtcodeHashGasConstantinople, 1, 1)
  @@ DynOp("CREATE2", Create2Gas, "gasCreate2", 4, 1, "memoryCreate2")
  @@ newByzantiumInstructionSet

newIstanbulInstructionSet == enable2200(enable1884(enable1344(newConstantinopleInstructionSet)))

newBerlinInstructionSet == enable2929(newIstanbulInstructionSet)

newLondonInstructionSet == enable3198(enable3529(newBerlinInstructionSet))

\* RANDOM is the byte of DIFFICULTY.
newMergeInstructionSet ==
  [newLondonInstructionSet EXCEPT !.DIFFICULTY = Ops({"RANDOM"}, GasQuickStep, 0, 1)["RANDOM"]]

newShanghaiInstructionSet == enable3855(enable3860(newMergeInstructionSet))

newCancunInstructionSet ==
  enable6780(enable5656(enable1153(enable7516(enable4844(newShanghaiInstructionSet)))))

newPragueInstructionSet == enable7702(newCancunInstructionSet)

newOsakaInstructionSet == enable7939(newPragueInstructionSet)

Fork == <<"frontier", "homestead", "tangerineWhistle", "spuriousDragon", "byzantium",
          "constantinople", "istanbul", "berlin", "london", "merge", "shanghai", "cancun",
          "prague", "osaka">>

InstructionSet ==
  [frontier |-> newFrontierInstructionSet, homestead |-> newHomesteadInstructionSet,
   tangerineWhistle |-> newTangerineWhistleInstructionSet,
   spuriousDragon |-> newSpuriousDragonInstructionSet,
   byzantium |-> newByzantiumInstructionSet, constantinople |-> newConstantinopleInstructionSet,
   istanbul |-> newIstanbulInstructionSet, berlin |-> newBerlinInstructionSet,
   london |-> newLondonInstructionSet, merge |-> newMergeInstructionSet,
   shanghai |-> newShanghaiInstructionSet, cancun |-> newCancunInstructionSet,
   prague |-> newPragueInstructionSet, osaka |-> newOsakaInstructionSet]

AtLeast(fork, f) ==
  (CHOOSE i \in DOMAIN Fork : Fork[i] = fork) >= (CHOOSE i \in DOMAIN Fork : Fork[i] = f)

\* The panic of validate when the program starts.
validate(jt) == \A n \in DOMAIN jt : jt[n].memorySize # "nil" => jt[n].dynamicGas # "nil"

=============================================================================

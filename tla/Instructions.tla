---------------------------- MODULE Instructions ----------------------------
(***************************************************************************)
(* What the op functions of vm/instructions.go and vm/eips.go do to the    *)
(* frame, without the words they compute: how far down the stack they      *)
(* reach and how its height changes (vm/stack.go), the memory they read or *)
(* write (vm/memory.go), whether they write the state, how they end.       *)
(***************************************************************************)
EXTENDS GasTable

\* pops words, then rewrites the word on top in place (peek), then pushes.
Fx(pops, peek, pushes) ==
  [reach |-> pops + peek, delta |-> pushes - pops, writes |-> FALSE, ends |-> "no"]

Unary == Fx(0, 1, 0)
Binary == Fx(1, 1, 0)
Read == Fx(0, 0, 1)

Fxs(names, fx) == [n \in names |-> fx]

opComputation ==
  Fxs({"ADD", "SUB", "MUL", "DIV", "SDIV", "MOD", "SMOD", "EXP", "SIGNEXTEND",
       "LT", "GT", "SLT", "SGT", "EQ", "AND", "OR", "XOR", "BYTE"}, Binary)
  @@ Fxs({"NOT", "ISZERO"}, Unary)

opModular ==
  Fxs({"ADDMOD", "MULMOD"}, Fx(2, 1, 0)) @@ Fxs({"SHL", "SHR", "SAR", "KECCAK256"}, Binary)

opEnvironment ==
  Fxs({"ADDRESS", "ORIGIN", "CALLER", "CALLVALUE", "CALLDATASIZE", "RETURNDATASIZE",
       "CODESIZE"}, Read)
  @@ Fxs({"BALANCE", "CALLDATALOAD", "EXTCODESIZE"}, Unary)
  @@ Fxs({"CALLDATACOPY", "RETURNDATACOPY", "CODECOPY"}, Fx(3, 0, 0))
  @@ Fxs({"EXTCODECOPY"}, Fx(4, 0, 0))

opBlock ==
  Fxs({"EXTCODEHASH", "BLOCKHASH"}, Unary)
  @@ Fxs({"GASPRICE", "COINBASE", "TIMESTAMP", "NUMBER", "DIFFICULTY", "RANDOM", "GASLIMIT"},
         Read)

Writing(fx) == [fx EXCEPT !.writes = TRUE]
Ending(fx, how) == [fx EXCEPT !.ends = how]

opStorage ==
  Fxs({"POP", "JUMP"}, Fx(1, 0, 0))
  @@ Fxs({"MLOAD", "SLOAD"}, Unary)
  @@ Fxs({"MSTORE", "MSTORE8", "JUMPI"}, Fx(2, 0, 0))
  @@ Fxs({"SSTORE"}, Writing(Fx(2, 0, 0)))
  @@ Fxs({"JUMPDEST"}, Fx(0, 0, 0))
  @@ Fxs({"PC", "MSIZE", "GAS"}, Read)

opCreates == Fxs({"CREATE"}, Writing(Fx(3, 0, 1))) @@ Fxs({"CREATE2"}, Writing(Fx(4, 0, 1)))

opCalls ==
  Fxs({"CALL", "CALLCODE"}, Fx(7, 0, 1)) @@ Fxs({"DELEGATECALL", "STATICCALL"}, Fx(6, 0, 1))

opEnds ==
  Fxs({"RETURN"}, Ending(Fx(2, 0, 0), "stop")) @@ Fxs({"REVERT"}, Ending(Fx(2, 0, 0), "revert"))
  @@ Fxs({"STOP"}, Ending(Fx(0, 0, 0), "stop")) @@ Fxs({"Undefined"}, Ending(Fx(0, 0, 0), "invalid"))
  @@ Fxs({"SELFDESTRUCT"}, Writing(Ending(Fx(1, 0, 0), "stop")))

makeLog == [n \in ToSet(LogNames) |->
              Writing(Fx(2 + (CHOOSE i \in 1..5 : LogNames[i] = n) - 1, 0, 0))]

makePush == Fxs(ToSet(PushNames) \cup {"PUSH0"}, Read)

\* dup(n) reads the nth word and pushes it; swap(n + 1) exchanges the top and the one n below.
makeDup == [n \in ToSet(DupNames) |->
              [Read EXCEPT !.reach = CHOOSE i \in 1..16 : DupNames[i] = n]]
makeSwap == [n \in ToSet(SwapNames) |->
              [Fx(0, 0, 0) EXCEPT !.reach = 1 + CHOOSE i \in 1..16 : SwapNames[i] = n]]

\* The op functions of vm/eips.go.
opEips ==
  Fxs({"SELFBALANCE", "CHAINID", "BASEFEE", "BLOBBASEFEE"}, Read)
  @@ Fxs({"BLOBHASH", "TLOAD", "CLZ"}, Unary)
  @@ Fxs({"TSTORE"}, Writing(Fx(2, 0, 0))) @@ Fxs({"MCOPY"}, Fx(3, 0, 0))
  @@ Fxs({"SELFDESTRUCT6780"}, Writing(Ending(Fx(1, 0, 0), "stop")))

Execute ==
  opComputation @@ opModular @@ opEnvironment @@ opBlock @@ opStorage @@ opCreates @@ opCalls
  @@ opEnds @@ makeLog @@ makePush @@ makeDup @@ makeSwap @@ opEips

\* What CALL does to the state besides running the callee: it moves the value.
Writes(op, value) == Execute[op].writes \/ (op = "CALL" /\ value)

\* Mutant: TSTORE lacks the check SSTORE has.
ProtectedNoTstore(op, value) ==
  \/ op \in {"SSTORE", "CREATE", "CREATE2", "SELFDESTRUCT", "SELFDESTRUCT6780"}
  \/ op \in ToSet(LogNames)
  \/ op = "CALL" /\ value

\* The op functions that return ErrWriteProtection in a read-only frame.
Protected(op, value) ==
  \/ op \in {"SSTORE", "TSTORE", "CREATE", "CREATE2", "SELFDESTRUCT", "SELFDESTRUCT6780"}
  \/ op \in ToSet(LogNames)
  \/ op = "CALL" /\ value

\* Memory as the op functions index it: offset and length, cut down to uint64.
Region(off, len) == {r \in {<<Uint64(off), Uint64(len)>>} : r[2] > 0}

opTouchesMemory(op, a) ==
  CASE op \in {"KECCAK256", "RETURN", "REVERT"} \cup ToSet(LogNames) -> Region(a[0], a[1])
    [] op \in {"CALLDATACOPY", "RETURNDATACOPY", "CODECOPY"} -> Region(a[0], a[2])
    [] op = "EXTCODECOPY" -> Region(a[1], a[3])
    [] op \in {"MLOAD", "MSTORE"} -> Region(a[0], 32)
    [] op = "MSTORE8" -> Region(a[0], 1)
    [] op = "MCOPY" -> Region(a[0], a[2]) \cup Region(a[1], a[2])
    [] op \in {"CREATE", "CREATE2"} -> Region(a[1], a[2])
    [] op \in {"CALL", "CALLCODE"} -> Region(a[3], a[4]) \cup Region(a[5], a[6])
    [] op \in {"DELEGATECALL", "STATICCALL"} -> Region(a[2], a[3]) \cup Region(a[4], a[5])
    [] OTHER -> {}

InMemory(region, len) == region[1] + region[2] <= len

=============================================================================

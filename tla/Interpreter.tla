---------------------------- MODULE Interpreter ----------------------------
(***************************************************************************)
(* The loop of EVMInterpreter.Run, vm/interpreter.go, over one frame.  An  *)
(* iteration is two steps: Charge checks the stack, takes the gas and      *)
(* grows the memory, Execute runs the op function.  The stack is its       *)
(* height: which words an instruction finds, what gas is left and what it  *)
(* sees of the state are choices, so one frame stands for any code.        *)
(***************************************************************************)
EXTENDS Instructions

CONSTANTS
  Rules,          \* [fork, merge, disabled]: the chain rules to run under
  Operands(_),    \* the words that may be on top of a stack, as many as an instruction needs
  Gas,            \* the gas a frame may have left
  View(_),        \* what a gas function may see of the state
  None

VARIABLES
  rules,
  sp,             \* stack.len()
  mem,            \* Memory: the length of store, lastGasCost
  readOnly,
  cur,            \* the instruction charged for and about to run, or None
  err,            \* "nil" while the loop runs, then how it ended
  wrote           \* history: this frame was read-only and changed the state

vars == <<rules, sp, mem, readOnly, cur, err, wrote>>

\* The table Run indexes.  NewEVMInterpreter puts DIFFICULTY back where there was no merge.
\* INVALID is every byte the table leaves undefined.
NewEVMInterpreter(r) ==
  LET jt == InstructionSet[r.fork]
      random == IF AtLeast(r.fork, "shanghai") /\ ~r.merge
                  THEN [jt EXCEPT !.DIFFICULTY = newFrontierInstructionSet.DIFFICULTY] ELSE jt
  IN [n \in DOMAIN random \cup {"INVALID"} |->
        IF n \in r.disabled \cup {"INVALID"} THEN Undefined ELSE random[n]]

\* One table per rules: TLC works it out once.
Table == [r \in Rules |-> NewEVMInterpreter(r)]

Init ==
  /\ rules \in Rules
  /\ sp = 0 /\ mem = [len |-> 0, lastGasCost |-> 0]
  /\ readOnly \in BOOLEAN
  /\ cur = None /\ wrote = FALSE
  /\ err = IF \A f \in DOMAIN InstructionSet : validate(InstructionSet[f]) THEN "nil" ELSE "panic"

End(e) == err' = e /\ cur' = None /\ UNCHANGED <<rules, sp, mem, readOnly, wrote>>

Op(name) == Table[rules][name]

\* Resize, with the size already rounded up to words.
Resize(m, size, last) ==
  [len |-> IF m.len < size THEN size ELSE m.len, lastGasCost |-> last]

\* The memory size asked for, in whole words, or the overflow that ends the frame.
Requested(op, a) ==
  IF op.memorySize = "nil" THEN Ok(0)
  ELSE LET size == memorySize(op.memorySize, a)
       IN IF size.ok THEN SafeMul(toWordSize(size.n), 32) ELSE Failed

\* The whole of an iteration up to the op function, for an instruction the stack allows.
Charge(name) ==
  /\ err = "nil" /\ cur = None
  /\ \E op \in {Op(name)} :
       /\ op.minStack <= sp /\ sp <= op.maxStack
       /\ \E gas \in Gas, a \in IF op.dynamicGas = "nil" THEN {<<>>} ELSE Operands(op.minStack),
             w \in IF op.dynamicGas = "nil" THEN {None} ELSE View(op.dynamicGas) :
          \E size \in {Requested(op, a)}, left \in {gas - op.constantGas} :
          \E paid \in {IF op.dynamicGas = "nil" THEN FreeOf(mem)
                       ELSE dynamicGas(op.dynamicGas, name,
                              [a |-> a, gas |-> left, mem |-> mem, rules |-> rules,
                               memorySize |-> size.n, w |-> w])} :
            IF left < 0 THEN End("ErrOutOfGas")
            ELSE IF ~size.ok THEN End("ErrGasUintOverflow")
            ELSE IF ~paid.ok \/ left < paid.gas THEN End("ErrOutOfGas")
            ELSE /\ mem' = Resize(mem, size.n, paid.last)
                 /\ cur' = [name |-> name, execute |-> op.execute,
                            touches |-> opTouchesMemory(op.execute, a),
                            value |-> op.execute = "CALL" /\ a[2] # 0,
                            gas |-> gas, cost |-> op.constantGas + paid.gas,
                            child |-> paid.temp]
                 /\ UNCHANGED <<rules, sp, readOnly, err, wrote>>

StackError(name) ==
  /\ err = "nil" /\ cur = None
  /\ \E op \in {Op(name)} :
       \/ sp < op.minStack /\ End("ErrStackUnderflow")
       \/ sp >= op.minStack /\ sp > op.maxStack /\ End("ErrStackOverflow")

\* Indexing the stack or the memory out of range is a Go panic.
OutOfRange ==
  \/ Execute[cur.execute].reach > sp
  \/ \E r \in cur.touches : ~InMemory(r, mem.len)

\* The errors an op function may meet: a bad jump, short return data.
MayFail(op) ==
  CASE op \in {"JUMP", "JUMPI"} -> {"ErrInvalidJump"}
    [] op = "RETURNDATACOPY" -> {"ErrReturnDataOutOfBounds"}
    [] OTHER -> {}

\* operation.execute, and what the loop makes of its error.
Run ==
  LET fx == Execute[cur.execute] IN
  /\ err = "nil" /\ cur # None
  /\ IF OutOfRange THEN End("panic")
     ELSE IF readOnly /\ Protected(cur.execute, cur.value) THEN End("ErrWriteProtection")
     ELSE \/ \E e \in MayFail(cur.execute) : End(e)
          \/ /\ sp' = sp + fx.delta
             /\ wrote' = (wrote \/ (readOnly /\ Writes(cur.execute, cur.value)))
             /\ err' = IF fx.ends = "no" THEN "nil" ELSE fx.ends
             /\ cur' = None
             /\ UNCHANGED <<rules, mem, readOnly>>

\* Cancel sets evm.abort, which only the jumps look at.
Abort ==
  /\ err = "nil" /\ cur # None
  /\ cur.execute \in {"JUMP", "JUMPI"}
  /\ End("stop")

\* Any byte of the code: an opcode of the table, or one it does not define.
Bytes == DOMAIN Table[rules]

Next == (\E name \in Bytes : StackError(name) \/ Charge(name)) \/ Run \/ Abort

Spec == Init /\ [][Next]_vars

-----------------------------------------------------------------------------
(* Properties.                                                              *)

Errors == {"ErrStackUnderflow", "ErrStackOverflow", "ErrOutOfGas", "ErrGasUintOverflow",
           "ErrWriteProtection", "ErrInvalidJump", "ErrReturnDataOutOfBounds",
           "stop", "revert", "invalid", "panic"}

\* The types of the variables.
TypeOK ==
  /\ rules \in Rules /\ readOnly \in BOOLEAN /\ wrote \in BOOLEAN
  /\ sp \in 0..StackLimit
  /\ mem.len \in 0..MaxMemory /\ mem.lastGasCost \in 0..(UintMod - 1)
  /\ err \in Errors \cup {"nil"}
  /\ err # "nil" => cur = None

\* No op function pops an empty stack or leaves the memory: the limits in the tables and
\* the memory-size functions, written apart from the op functions, cover all they do.
NoPanic == err # "panic"

\* mem.lastGasCost is the whole price of the memory there is, so that what a frame has
\* paid for memory depends on how much it has and not on how it grew.
MemoryPriced ==
  err = "nil" =>
    /\ mem.len % 32 = 0
    /\ LET words == mem.len \div 32
       IN mem.lastGasCost = MemoryGas * words + (words * words) \div QuadCoeffDiv

\* A frame run read-only never changes the state, whatever its code.
ReadOnlyKeepsState == ~wrote

\* An instruction is paid for out of the gas there is, and one that lets the loop go on
\* costs something: a frame with finite gas cannot run for ever.
PaidInFull ==
  cur # None =>
    /\ cur.cost <= cur.gas
    /\ Execute[cur.execute].ends = "no" => cur.cost > 0

\* From EIP-150 on the caller keeps at least a 64th of what it had left after paying for
\* the call itself, though the share is worked out before that payment is taken.
CallerKeepsShare ==
  cur # None /\ cur.name \in {"CALL", "CALLCODE", "DELEGATECALL", "STATICCALL"}
             /\ IsEIP150(rules) =>
    cur.gas - cur.cost >= (cur.gas - cur.cost + cur.child) \div 64

\* The name a tracer prints for an executed opcode is parsed back to the same byte.
NameParses == cur # None /\ cur.name # "INVALID" =>
                opCodeToString[StringToOp(cur.name)] = cur.name

\* An instruction does what its tables announce: it neither panics nor is printed as another.
StepsSound == TypeOK /\ NoPanic /\ NameParses

\* Gas is taken for what is used: the memory there is, every instruction that lets the loop
\* go on, and a call only up to the share that stays with the caller.
GasExact == MemoryPriced /\ PaidInFull /\ CallerKeepsShare

=============================================================================

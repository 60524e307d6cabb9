------------------------------ MODULE SStoreGas ------------------------------
(***************************************************************************)
(* What SSTORE costs and refunds, under each of the five rule sets the     *)
(* jump tables select: vm/gas_table.go, vm/operations_acl.go.  The dynamic *)
(* gas function moves the refund counter and warms the slot first; only    *)
(* then does the interpreter take the gas and run opSstore, or fail the    *)
(* frame, whose snapshot brings slots, counter and access list back (that  *)
(* a revert does so is StateDB's refinement).  One contract's storage.     *)
(***************************************************************************)
EXTENDS Integers, Sequences, FiniteSets, Functions

CONSTANTS
  Slot, Val,   \* storage; 0 is the zero hash
  Forks,       \* the rule sets to run under
  Diffs,       \* words a stateDiff override may put in a slot
  Listed,      \* sets of slots a transaction's access list may name
  UintMod,     \* stands for 2^64
  None,
  MaxWrites,   \* bound: SSTOREs that stand, per message
  MaxDepth,    \* bound: open frames
  MaxMsgs      \* bound: messages run on one StateDB

ASSUME SStoreAssumption ==
  /\ IsFiniteSet(Slot)
  /\ 0 \in Val /\ Val \subseteq Nat
  /\ Forks \subseteq {"legacy", "eip1283", "eip2200", "eip2929", "eip3529"}
  /\ Diffs \subseteq Val
  /\ Listed \subseteq SUBSET Slot
  /\ UintMod \in Nat \ {0}
  /\ None \notin Slot \X Val
  /\ MaxWrites \in Nat /\ MaxDepth \in Nat /\ MaxMsgs \in Nat

SelfdestructRefundGas == 24000
ColdSloadCostEIP2929 == 2100

\* The constants of params/protocol_params.go each gas function returns and refunds.
Schedule(f) ==
  CASE f = "legacy"  -> [set |-> 20000, reset |-> 5000, dirty |-> 5000,
                         clear |-> 15000, unset |-> 0, restore |-> 0]
    [] f = "eip1283" -> [set |-> 20000, reset |-> 5000, dirty |-> 200,
                         clear |-> 15000, unset |-> 19800, restore |-> 4800]
    [] f = "eip2200" -> [set |-> 20000, reset |-> 5000, dirty |-> 800,
                         clear |-> 15000, unset |-> 20000 - 800, restore |-> 5000 - 800]
    [] f = "eip2929" -> [set |-> 20000, reset |-> 5000 - 2100, dirty |-> 100,
                         clear |-> 15000, unset |-> 20000 - 100, restore |-> 5000 - 2100 - 100]
    [] f = "eip3529" -> [set |-> 20000, reset |-> 5000 - 2100, dirty |-> 100,
                         clear |-> 5000 - 2100 + 1900, unset |-> 20000 - 100,
                         restore |-> 5000 - 2100 - 100]

-----------------------------------------------------------------------------
(* The gas functions: original is the committed word, current the one now   *)
(* stored, value the one to be stored.                                      *)

LegacyCost(f, current, value) ==
  IF current = 0 /\ value # 0 THEN Schedule(f).set ELSE Schedule(f).reset

LegacyRefund(f, current, value) ==
  IF current # 0 /\ value = 0 THEN Schedule(f).clear ELSE 0

NetCost(f, original, current, value) ==
  CASE current = value -> Schedule(f).dirty
    [] current # value /\ original = current ->
         IF original = 0 THEN Schedule(f).set ELSE Schedule(f).reset
    [] current # value /\ original # current -> Schedule(f).dirty

\* Mutant: the refund is kept when the slot gets its committed word back.
ClearRefundKept(f, original, current, value) ==
  CASE original = 0 \/ current = value -> 0
    [] original # 0 /\ current # value /\ current = 0 ->
         IF value = original THEN 0 ELSE -Schedule(f).clear
    [] original # 0 /\ current # value /\ current # 0 ->
         IF value = 0 THEN Schedule(f).clear ELSE 0

\* Mutant: the test that the committed word is not zero is missing.
ClearRefundUnguarded(f, original, current, value) ==
  CASE current = value -> 0
    [] current # value /\ current = 0 -> -Schedule(f).clear
    [] current # value /\ current # 0 -> IF value = 0 THEN Schedule(f).clear ELSE 0

\* The refund for clearing a slot, taken back when a cleared slot is written again.
ClearRefund(f, original, current, value) ==
  CASE original = 0 \/ current = value -> 0
    [] original # 0 /\ current # value /\ current = 0 -> -Schedule(f).clear
    [] original # 0 /\ current # value /\ current # 0 ->
         IF value = 0 THEN Schedule(f).clear ELSE 0

\* The refund for a dirty slot that gets its committed word back.
RestoreRefund(f, original, current, value) ==
  CASE original = current \/ original # value -> 0
    [] original # current /\ original = value ->
         IF original = 0 THEN Schedule(f).unset ELSE Schedule(f).restore

Cost(f, original, current, value) ==
  IF f = "legacy" THEN LegacyCost(f, current, value)
                  ELSE NetCost(f, original, current, value)

\* What the counter moves by: the legacy rules and the net-metered ones.
Refund(f, original, current, value) ==
  IF f = "legacy" THEN LegacyRefund(f, current, value)
  ELSE ClearRefund(f, original, current, value) + RestoreRefund(f, original, current, value)

Surcharge(f, s, warm) ==
  IF f \in {"eip2929", "eip3529"} /\ s \notin warm THEN ColdSloadCostEIP2929 ELSE 0

-----------------------------------------------------------------------------
VARIABLES
  fork,     \* the rule set in force
  phase,    \* "apply": overrides may be applied; "run": frames are open; "done"
  original, \* the committed word of each slot (GetCommittedState)
  w,        \* what a frame's snapshot saves: slots, counter, warm slots, gas charged
  frames,   \* the worlds the open frames found, innermost last
  pending,  \* the slot and word of an SSTORE whose gas function has run, or None
  msgs      \* messages finished, capped by MaxMsgs

vars == <<fork, phase, original, w, frames, pending, msgs>>

\* cur: the stored words; gas, writes, colds: gas charged to SSTOREs, how many, how many cold.
World(cur, warm) ==
  [cur |-> cur, warm |-> warm, refund |-> 0, destroyed |-> FALSE,
   gas |-> 0, writes |-> 0, colds |-> 0]

Worlds ==
  [cur : [Slot -> Val], warm : SUBSET Slot, refund : 0 .. UintMod - 1, destroyed : BOOLEAN,
   gas : Nat, writes : Nat, colds : Nat]

Init ==
  /\ fork \in Forks
  /\ phase = "apply"
  /\ original \in [Slot -> Val]
  /\ w = World(original, {})
  /\ frames = << >>
  /\ pending = None
  /\ msgs = 0

\* StateOverride.Apply with a stateDiff: the slot changes, its committed word does not.
ApplyDiff(s, x) ==
  /\ phase = "apply"
  /\ w' = [w EXCEPT !.cur[s] = x]
  /\ UNCHANGED <<fork, phase, original, frames, pending, msgs>>

\* PrepareAccessList, and the snapshot of the message's outermost frame.
Begin(l) ==
  /\ phase = "apply"
  /\ msgs < MaxMsgs
  /\ phase' = "run"
  /\ w' = [w EXCEPT !.warm = IF fork \in {"eip2929", "eip3529"} THEN l ELSE {}]
  /\ frames' = <<w'>>
  /\ UNCHANGED <<fork, original, pending, msgs>>

Executing == phase = "run" /\ pending = None

Enter ==
  /\ Executing
  /\ Len(frames) < MaxDepth
  /\ frames' = Append(frames, w)
  /\ UNCHANGED <<fork, phase, original, w, pending, msgs>>

\* gasSLoadEIP2929 warms the slot.
SLoad(s) ==
  /\ Executing
  /\ fork \in {"eip2929", "eip3529"}
  /\ w' = [w EXCEPT !.warm = @ \cup {s}]
  /\ UNCHANGED <<fork, phase, original, frames, pending, msgs>>

\* Refunds are paid for with gas, which is a uint64: the counter does not overflow.
RefundFits(n) == w.refund + n < UintMod

\* The dynamic gas function of SSTORE: counter, access list and price, but not the slot.
GasSStore(s, x) ==
  LET n    == Refund(fork, original[s], w.cur[s], x)
      cold == Surcharge(fork, s, w.warm)
  IN  /\ Executing
      /\ w.writes < MaxWrites
      /\ RefundFits(n)
      /\ w' = [w EXCEPT !.refund = (@ + n) % UintMod,
                        !.warm = IF cold = 0 THEN @ ELSE @ \cup {s},
                        !.gas = @ + Cost(fork, original[s], w.cur[s], x) + cold,
                        !.writes = @ + 1,
                        !.colds = IF cold = 0 THEN @ ELSE @ + 1]
      /\ pending' = <<s, x>>
      /\ UNCHANGED <<fork, phase, original, frames, msgs>>

\* The gas sufficed: opSstore.
SStore ==
  /\ pending # None
  /\ w' = [w EXCEPT !.cur[pending[1]] = pending[2]]
  /\ pending' = None
  /\ UNCHANGED <<fork, phase, original, frames, msgs>>

\* gasSelfdestruct and its EIP-2929 form refund once per destroyed contract.
SelfDestruct ==
  /\ Executing
  /\ fork # "eip3529"
  /\ ~w.destroyed
  /\ RefundFits(SelfdestructRefundGas)
  /\ w' = [w EXCEPT !.refund = @ + SelfdestructRefundGas, !.destroyed = TRUE]
  /\ UNCHANGED <<fork, phase, original, frames, pending, msgs>>

Leave ==
  /\ frames' = SubSeq(frames, 1, Len(frames) - 1)
  /\ phase' = IF Len(frames) = 1 THEN "done" ELSE "run"
  /\ pending' = None
  /\ UNCHANGED <<fork, original, msgs>>

\* The innermost frame ends well.
Return == Executing /\ UNCHANGED w /\ Leave

\* It fails, in particular when the gas function's price cannot be paid or its sentry trips.
Fail ==
  /\ phase = "run"
  /\ w' = frames[Len(frames)]
  /\ Leave

Finalise ==
  /\ phase = "done"
  /\ phase' = "apply"
  /\ original' = w.cur
  /\ w' = World(w.cur, {})
  /\ msgs' = msgs + 1
  /\ UNCHANGED <<fork, frames, pending>>

Next ==
  \/ \E s \in Slot, x \in Diffs : ApplyDiff(s, x)
  \/ \E l \in Listed : Begin(l)
  \/ Enter
  \/ \E s \in Slot : SLoad(s)
  \/ \E s \in Slot, x \in Val : GasSStore(s, x)
  \/ SStore
  \/ SelfDestruct
  \/ Return
  \/ Fail
  \/ Finalise

Spec == Init /\ [][Next]_vars

-----------------------------------------------------------------------------
(* Properties.                                                              *)

\* Every component keeps its type; frames are open exactly while a message runs.
TypeOK ==
  /\ fork \in Forks
  /\ phase \in {"apply", "run", "done"}
  /\ original \in [Slot -> Val]
  /\ w \in Worlds
  /\ frames \in Seq(Worlds)
  /\ (phase = "run") = (frames # << >>)
  /\ pending \in (Slot \X Val) \cup {None}
  /\ pending # None => phase = "run"
  /\ msgs \in 0 .. MaxMsgs /\ (phase # "apply" => msgs < MaxMsgs)

\* The words stored once a pending SSTORE has gone through.
Stored == IF pending = None THEN w.cur ELSE [w.cur EXCEPT ![pending[1]] = pending[2]]

\* gasSStore: "We can prove that refund counter will never go below 0".  Whatever frames
\* wrote, failed and returned before, the refund a further SSTORE would take back was granted
\* and still stands, so SubRefund never wraps the uint64.
RefundNeverNegative ==
  Executing =>
    \A s \in Slot, x \in Val :
      fork # "legacy" => w.refund + ClearRefund(fork, original[s], w.cur[s], x) >= 0

\* What a slot's write away from its committed word costs beyond the price of a dirty write.
Base(f, o, c) ==
  CASE o = c -> 0
    [] o # c /\ o = 0 -> Schedule(f).set - Schedule(f).dirty
    [] o # c /\ o # 0 /\ c # 0 -> Schedule(f).reset - Schedule(f).dirty
    [] o # c /\ o # 0 /\ c = 0 -> Schedule(f).reset - Schedule(f).dirty - Schedule(f).clear

\* Net metering: the gas charged less the refunds granted depends only on how many writes
\* there were, how many were cold, and on each slot's first and last word, never on the words in
\* between or on the frames they were written in.
NetMetering ==
  fork # "legacy" =>
    w.gas - w.refund + (IF w.destroyed THEN SelfdestructRefundGas ELSE 0)
      = w.writes * Schedule(fork).dirty + w.colds * ColdSloadCostEIP2929
        + FoldFunction(+, 0, [s \in Slot |-> Base(fork, original[s], Stored[s])])

=============================================================================

------------------------------- MODULE Calls -------------------------------
(***************************************************************************)
(* The calls of the RPC service that execute code: EVMManager.View, DoCall,*)
(* DoEstimateGas, EstimateGasList, setDefaults and AccessList (vm/manager, *)
(* api/eth, api/ethercattle, api/transaction_args), with the access list   *)
(* tracer.  A request runs beside the storage, which goes on taking        *)
(* blocks, and beside the goroutine that cancels the EVM when the context  *)
(* is done.                                                                *)
(*                                                                         *)
(* A program is the sequence of the instructions it executes.  The ones    *)
(* that matter here read a slot or an account, call and return, look at    *)
(* the gas left, or jump, where the interpreter looks at the abort flag.   *)
(* A frame may use all the gas there is, and running out of it ends the    *)
(* whole run; no account is delegated to another.                          *)
(***************************************************************************)
EXTENDS Integers, Sequences, FiniteSets, FiniteSetsExt, SequencesExt

CONSTANTS
  Blocks,      \* records: id, number, limit (the header's GasLimit)
  Branch,      \* for each block, the blocks of the chain it ends
  First,       \* the head at start
  Requests,    \* what clients may ask, and the gas limit option of the server asked
  Balance,     \* the sender's balance in every block
  BaseFee,     \* the header's
  From, Precompiles,
  UintMod,     \* stands for 2^64
  Nil

TxGas == 21000
AccessListAddressGas == 2400
AccessListStorageKeyGas == 1900
ColdAccount == 2600
ColdSload == 2100
Warm == 100

\* gasLimitOpts.RPCGasLimit
RPCGasLimit(opts, limit) ==
  CASE opts.type = "raw" -> opts.scalar
    [] opts.type = "block" ->
         LET scaled == (opts.scalar * limit) % UintMod
         IN IF scaled < 30000000 THEN 30000000 ELSE scaled
    [] OTHER -> (2 * limit) % UintMod
-----------------------------------------------------------------------------
(* Access lists.  <<a>> is the account a, <<a, s>> its slot s.              *)

Addresses(list) == {e[1] : e \in list}
ListGas(list) ==
  Cardinality(Addresses(list)) * AccessListAddressGas
  + Cardinality({e \in list : Len(e) = 2}) * AccessListStorageKeyGas

addAddress(list, a) == list \cup {<<a>>}
addSlot(list, a, s) == addAddress(list, a) \cup {<<a, s>>}

Excluded(args) == {From, args.to} \cup Precompiles

\* An address that needs no entry keeps one for its slots.
NewAccessListTracer(acl, args) ==
  LET slots == {e \in acl : Len(e) = 2}
  IN  {<<a>> : a \in (Addresses(acl) \ Excluded(args)) \cup Addresses(slots)} \cup slots

\* Mutant: the slots of the account called are left out with the account.
CaptureStateSkipsSlots(list, args, self, op) ==
  CASE op.op = "sload" ->
         IF self \in Excluded(args) THEN list ELSE addSlot(list, self, op.at)
    [] op.op \in {"balance", "call"} ->
         IF op.at \in Excluded(args) THEN list ELSE addAddress(list, op.at)
    [] OTHER -> list

\* AccessListTracer.CaptureState
CaptureState(list, args, self, op) ==
  CASE op.op = "sload" -> addSlot(list, self, op.at)
    [] op.op \in {"balance", "call"} ->
         IF op.at \in Excluded(args) THEN list ELSE addAddress(list, op.at)
    [] OTHER -> list

\* PrepareAccessList
PrepareAccessList(args, list) ==
  {<<a>> : a \in Excluded(args) \cup Addresses(list)} \cup list
-----------------------------------------------------------------------------
(* A message, from ToMessage to the result of ApplyMessage.                 *)

\* args: to, prog, gas, gasPrice, maxFee, value, list; the tip cap is never given
Value(args) == IF args.value = Nil THEN 0 ELSE args.value
Mixed(args) == args.gasPrice # Nil /\ args.maxFee # Nil
FeeCap(args) ==
  CASE args.gasPrice # Nil -> args.gasPrice
    [] args.gasPrice = Nil /\ args.maxFee # Nil -> args.maxFee
    [] OTHER -> 0
Price(args) ==
  IF args.gasPrice = Nil /\ BaseFee < FeeCap(args) THEN BaseFee ELSE FeeCap(args)
Intrinsic(list) == TxGas + ListGas(list)

\* The gas of the message: the default, and the cap.
MessageGas(gas, cap) ==
  LET wanted == IF gas # Nil THEN gas ELSE IF cap = 0 THEN (UintMod - 1) \div 2 ELSE cap
  IN  IF cap # 0 /\ cap < wanted THEN cap ELSE wanted

\* The first check of TransitionDb that fails, or "running".
Checked(args, gas, list, feeCap, w) ==
  CASE feeCap # 0 /\ feeCap < BaseFee -> "fees"
    [] (feeCap = 0 \/ feeCap >= BaseFee) /\ w.balance < gas * feeCap -> "funds"
    [] OTHER ->
         IF gas < Intrinsic(list) THEN "intrinsic"
         ELSE IF Value(args) > 0 /\ w.balance - gas * Price(args) < Value(args) THEN "transfer"
         ELSE "running"

\* An EVM about to run a message on the state w: all is the state's alcalc flag,
\* trace the tracer's list.
Machine(args, gas, list, feeCap, w, all, trace) ==
  [args |-> args, limit |-> gas, work |-> w, all |-> all, trace |-> trace,
   status |-> Checked(args, gas, list, feeCap, w),
   pc |-> 1, gas |-> gas - Intrinsic(list), self |-> args.to, frames |-> <<>>,
   warm |-> PrepareAccessList(args, list), colds |-> {}, stopped |-> FALSE]

Idle == [status |-> "idle"]

\* What the instruction touches: one entry of an access list.
Entry(mc, op) == IF op.op = "sload" THEN <<mc.self, op.at>> ELSE <<op.at>>
IsWarm(mc, op) == mc.all \/ Entry(mc, op) \in mc.warm

Cost(mc, op) ==
  CASE op.op = "sload" -> IF IsWarm(mc, op) THEN Warm ELSE ColdSload
    [] op.op \in {"balance", "call"} -> IF IsWarm(mc, op) THEN Warm ELSE ColdAccount
    [] op.op = "burn" -> op.at
    [] OTHER -> 0

\* What the instruction does once it is paid for.  A frame that reverts takes back the
\* entries it warmed.
Effect(mc, op) ==
  CASE op.op \in {"sload", "balance"} -> mc
    [] op.op = "call" ->
         [mc EXCEPT !.frames = Append(@, [self |-> mc.self, warm |-> mc.warm]), !.self = op.at]
    [] op.op = "return" -> [mc EXCEPT !.frames = Front(@), !.self = Last(mc.frames).self]
    [] op.op = "fail" ->
         [mc EXCEPT !.frames = Front(@), !.self = Last(mc.frames).self,
                    !.warm = Last(mc.frames).warm]
    [] op.op = "needs" -> IF mc.gas < op.at THEN [mc EXCEPT !.status = "revert"] ELSE mc
    [] op.op = "atmost" -> IF mc.gas > op.at THEN [mc EXCEPT !.status = "revert"] ELSE mc
    [] op.op = "revert" -> [mc EXCEPT !.status = "revert"]
    [] OTHER -> mc

Touches(op) == op.op \in {"sload", "balance", "call"}

\* One instruction: traced, paid for, executed.
Execute(mc, op) ==
  LET traced == [mc EXCEPT !.trace = CaptureState(@, mc.args, mc.self, op),
                           !.pc = @ + 1,
                           !.colds = IF Touches(op) /\ ~IsWarm(mc, op)
                                     THEN @ \cup {Entry(mc, op)} ELSE @,
                           !.warm = IF Touches(op) /\ ~mc.all
                                    THEN @ \cup {Entry(mc, op)} ELSE @]
  IN  IF mc.gas < Cost(mc, op) THEN [traced EXCEPT !.gas = 0, !.status = "oog"]
      ELSE Effect([traced EXCEPT !.gas = @ - Cost(mc, op)], op)

\* The state a finished run leaves: its gas is paid, and a success has its effects.
Settled(mc) ==
  LET paid == mc.work.balance - (mc.limit - mc.gas) * Price(mc.args)
  IN  [mc EXCEPT !.work =
         IF mc.status = "ok"
         THEN [balance |-> paid - Value(mc.args),
               log |-> Append(@.log, [prog |-> mc.args.prog, gas |-> mc.limit])]
         ELSE [@ EXCEPT !.balance = paid]]

\* Up to the next jump, or to the end.
Run(mc, jumps) ==
  LET prog == mc.args.prog
      stops == {j \in mc.pc .. Len(prog) : jumps /\ prog[j].op = "jump"}
      last == IF stops = {} THEN Len(prog) ELSE Min(stops) - 1
      step(c, op) == IF c.status = "running" THEN Execute(c, op) ELSE c
      \* (a set, so that TLC evaluates every step once)
      ran == FoldLeft(LAMBDA cs, op : {step(c, op) : c \in cs}, {mc}, SubSeq(prog, mc.pc, last))
      after == CHOOSE c \in ran : TRUE
      ended == IF after.status = "running" /\ stops = {} THEN [after EXCEPT !.status = "ok"]
               ELSE after
  IN  IF ended.status \in {"ok", "revert", "oog"} THEN Settled(ended) ELSE ended

\* Stopped at a jump: the frame ends as if by STOP, and its caller goes on.
Stop(mc) ==
  LET prog == mc.args.prog
      depth(j) == Cardinality({k \in mc.pc .. j : prog[k].op = "call"})
                  - Cardinality({k \in mc.pc .. j : prog[k].op \in {"return", "fail"}})
      ends == {j \in mc.pc .. Len(prog) : depth(j) = -1}
  IN  IF mc.frames = <<>> THEN [mc EXCEPT !.status = "ok", !.stopped = TRUE]
      ELSE [mc EXCEPT !.pc = Min(ends) + 1, !.stopped = TRUE,
                      !.frames = Front(@), !.self = Last(mc.frames).self]

\* opJump, opJumpi
Jump(mc, abort) ==
  Run(IF abort THEN Stop(mc) ELSE [mc EXCEPT !.pc = @ + 1], TRUE)

Failed(mc) == mc.status \in {"revert", "oog"}

\* ApplyMessage without anybody cancelling it.
Whole(args, gas, w) == Run(Machine(args, gas, args.list, FeeCap(args), w, FALSE, {}), FALSE)
-----------------------------------------------------------------------------
VARIABLES
  head,     \* the block the storage calls latest
  known,    \* the blocks it can still open
  req,      \* the request
  pc,       \* where its goroutine is
  meta,     \* the hash in the call's metadata
  hash,     \* View's memo of the hash
  opened,   \* the block whose state the callback got
  header,   \* the block whose header it got
  args,     \* the message's arguments
  world,    \* the state it starts from
  idx,      \* which message of a list it is
  gasCap,   \* what is left of the gas cap
  lo, hi, cap, \* the binary search
  data,     \* stateData: the state of the last run that did not fail
  evm,      \* the machine of the running message
  goal,     \* what the message is run for
  abort,    \* the machine's abort flag
  done,     \* the context is done
  results,  \* history: the estimates made, with the states before and after
  answer    \* Nil, or what the client gets

storage == <<head, known>>
view == <<meta, hash, opened, header>>
item == <<args, world, idx, gasCap>>
search == <<lo, hi, cap, data>>
run == <<evm, goal, abort>>
vars == <<storage, view, item, search, run, req, pc, done, results, answer>>

NoBlock == [id |-> "none", number |-> -1, limit |-> 0]

Init ==
  /\ head = First /\ known = Branch[First]
  /\ req \in Requests
  /\ pc = "view"
  /\ meta = Nil /\ hash = Nil /\ opened = Nil /\ header = Nil
  /\ args = Nil /\ world = [balance |-> Balance, log |-> <<>>] /\ idx = 1 /\ gasCap = 0
  /\ lo = 0 /\ hi = 0 /\ cap = 0 /\ data = Nil
  /\ evm = Idle /\ goal = Nil /\ abort = FALSE /\ done = FALSE
  /\ results = <<>> /\ answer = Nil

Given == req.items[idx]

Answer(a) ==
  /\ answer' = a
  /\ pc' = "end"
Error(e) == Answer([error |-> e])
-----------------------------------------------------------------------------
(* EVMManager.View, beside the storage.                                     *)

\* The consumer moves the head along its branch or to another one; a block too far
\* behind cannot be opened any more.
NewBlock ==
  /\ pc \in {"view", "open", "header"}
  /\ \E b \in Blocks :
       /\ b.number = head.number + 1 \/ (b.number = head.number /\ b # head)
       /\ head' = b
       /\ known' = {k \in known \cup Branch[b] : k.number + 2 > b.number}
  /\ UNCHANGED <<view, item, search, run, req, pc, done, results, answer>>

Resolved ==
  CASE req.at.by = "hash" -> req.at.block
    [] req.at.by = "number" ->
         IF \E b \in Branch[head] : b.number = req.at.number
         THEN CHOOSE b \in Branch[head] : b.number = req.at.number
         ELSE NoBlock
    [] req.at.by = "latest" -> head

getHash == IF hash # Nil THEN hash ELSE Resolved

SetMetadata ==
  /\ pc = "view"
  /\ meta' = getHash /\ hash' = getHash
  /\ pc' = "open"
  /\ UNCHANGED <<storage, opened, header, item, search, run, req, done, results, answer>>

\* Storage.View: the callback runs in a transaction on one block, or not at all.
Open ==
  /\ pc = "open"
  /\ IF getHash \in known
     THEN opened' = getHash /\ pc' = "header" /\ UNCHANGED answer
     ELSE Error("view") /\ UNCHANGED opened
  /\ UNCHANGED <<storage, meta, hash, header, item, search, run, req, done, results>>

\* The rest of the callback's arguments.
Callback ==
  /\ pc = "header"
  /\ header' = getHash
  /\ IF req.kind = "read" THEN Answer([block |-> header']) ELSE pc' = "item" /\ UNCHANGED answer
  /\ gasCap' = (IF req.kind = "accesslist" THEN getHash.limit ELSE RPCGasLimit(req.opts, getHash.limit))
  /\ UNCHANGED <<storage, meta, hash, opened, args, world, idx, search, run, req, done, results>>
-----------------------------------------------------------------------------
(* DoCall.                                                                  *)

\* Messages run with a goroutine that waits for the context.
Cancellable == goal \in {"call", "try", "last"}

DoCall(a, gas, for) ==
  /\ evm' = Run(Machine(a, MessageGas(gas, gasCap), a.list, FeeCap(a), world, FALSE, {}), TRUE)
  /\ goal' = for /\ abort' = FALSE
  /\ pc' = "run"

\* The client goes away, or the timeout passes.
Expire ==
  /\ pc = "run" /\ Cancellable /\ ~done
  /\ done' = TRUE
  /\ UNCHANGED <<storage, view, item, search, run, req, pc, results, answer>>

Cancel ==
  /\ pc = "run" /\ Cancellable /\ done /\ ~abort
  /\ abort' = TRUE
  /\ UNCHANGED <<storage, view, item, search, evm, goal, req, pc, done, results, answer>>

TakeJump ==
  /\ pc = "run" /\ evm.status = "running"
  /\ evm' = Jump(evm, abort)
  /\ UNCHANGED <<storage, view, item, search, goal, abort, req, pc, done, results, answer>>

\* What DoCall returns: a consensus error, then the abort, then the result.
Refused == {"fees", "funds", "intrinsic", "transfer"}

\* Mutant: a run that did not fail is taken as it is.
ReturnedUnchecked ==
  IF evm.status \in Refused THEN evm.status
  ELSE IF abort /\ evm.status # "ok" THEN "aborted" ELSE "result"

Returned ==
  IF evm.status \in Refused THEN evm.status
  ELSE IF abort THEN "aborted" ELSE "result"

Ended(for) == pc = "run" /\ goal = for /\ evm.status # "running"

StartCall ==
  /\ pc = "item" /\ req.kind = "call"
  /\ args' = Given
  /\ CASE req.overrides = "both" -> Error("overrides") /\ UNCHANGED run
       [] req.overrides # "both" /\ Mixed(Given) -> Error("mixed") /\ UNCHANGED run
       [] OTHER -> DoCall(Given, Given.gas, "call") /\ UNCHANGED answer
  /\ UNCHANGED <<storage, view, world, idx, gasCap, search, req, done, results>>

EndCall ==
  /\ Ended("call")
  /\ IF Returned = "result"
     THEN Answer([status |-> evm.status, world |-> evm.work, gas |-> evm.limit])
     ELSE Error(Returned)
  /\ UNCHANGED <<storage, view, item, search, run, req, done, results>>
-----------------------------------------------------------------------------
(* DoEstimateGas.                                                           *)

Approx == req.kind = "accesslist" \/ (req.kind = "list" /\ req.fast)

\* The gas the sender can pay for beside the value.
Allowance(a) == (world.balance - Value(a)) \div FeeCap(a)

\* The highest gas limit of the search.
Ceiling(a) ==
  LET asked == IF a.gas # Nil /\ a.gas >= TxGas THEN a.gas ELSE header.limit
      paid  == IF FeeCap(a) # 0 /\ asked > Allowance(a) THEN Allowance(a) ELSE asked
  IN  IF gasCap # 0 /\ paid > gasCap THEN gasCap ELSE paid

\* Mutant: the search starts at the gas of a transfer.
LowestOff == TxGas

Lowest == TxGas - 1

\* The search for the arguments a: the checks before it, and its bounds.
BeginSearch(a) ==
  CASE Mixed(a) -> Error("mixed") /\ UNCHANGED search
    [] ~Mixed(a) /\ FeeCap(a) # 0 /\ a.value # Nil /\ Value(a) >= world.balance ->
         Error("transfer") /\ UNCHANGED search
    [] OTHER ->
         /\ lo' = Lowest /\ hi' = Ceiling(a) /\ cap' = hi' /\ data' = Nil
         /\ pc' = "search" /\ UNCHANGED answer

StartEstimate ==
  /\ pc = "item" /\ req.kind \in {"estimate", "list"}
  /\ args' = Given
  /\ BeginSearch(Given)
  /\ UNCHANGED <<storage, view, world, idx, gasCap, run, req, done, results>>

\* Mutant: the loop goes on until the two ends meet.
SearchingOn == lo < hi

Searching == lo + 1 < hi

\* The next round of the loop.
Try ==
  /\ pc = "search" /\ Searching
  /\ DoCall(args, (hi + lo) \div 2, "try")
  /\ UNCHANGED <<storage, view, item, search, req, done, results, answer>>

\* stateData: the state of a run that did not fail.
Keeps == IF Returned = "result" /\ ~Failed(evm) THEN evm.work ELSE data

Narrowed(failed) ==
  [lo |-> IF failed THEN evm.limit ELSE lo, hi |-> IF failed THEN hi ELSE evm.limit]

EndTry ==
  /\ Ended("try")
  /\ data' = Keeps
  /\ IF Returned \in {"result", "intrinsic"}
     THEN LET next == Narrowed(Returned = "intrinsic" \/ Failed(evm))
          IN  /\ lo' = next.lo /\ hi' = next.hi
              /\ pc' = (IF Approx /\ hi' - lo' < hi' \div 100 THEN "found" ELSE "search")
              /\ UNCHANGED answer
     ELSE Error(Returned) /\ UNCHANGED <<lo, hi>>
  /\ UNCHANGED <<storage, view, item, cap, run, req, done, results>>

CapLeft(gas) == (gasCap - gas) % UintMod

\* What the caller does with the estimate: EstimateGas, EstimateGasList, setDefaults.
Found(gas, after) ==
  /\ results' = Append(results, [args |-> args, gas |-> gas, before |-> world, after |-> after])
  /\ CASE req.kind = "list" ->
            /\ gasCap' = CapLeft(gas)
            /\ world' = after
            /\ IF idx = Len(req.items) THEN Answer([gas |-> gas]) /\ UNCHANGED idx
               ELSE idx' = idx + 1 /\ pc' = "item" /\ UNCHANGED answer
            /\ UNCHANGED args
       [] req.kind = "estimate" -> Answer([gas |-> gas]) /\ UNCHANGED item
       [] req.kind = "accesslist" ->
            /\ args' = [args EXCEPT !.gas = gas]
            /\ pc' = "pass1"
            /\ UNCHANGED <<world, idx, gasCap, answer>>

\* The loop is over; its highest gas limit has not been tried yet.
Searched ==
  /\ pc = "found" \/ (pc = "search" /\ ~Searching)
  /\ IF hi = cap
     THEN DoCall(args, hi, "last") /\ UNCHANGED <<item, results, answer>>
     ELSE Found(hi, data) /\ UNCHANGED run
  /\ UNCHANGED <<storage, view, search, req, done>>

EndLast ==
  /\ Ended("last")
  /\ data' = Keeps
  /\ CASE Returned = "result" /\ ~Failed(evm) -> Found(hi, Keeps)
       [] Returned = "result" /\ Failed(evm) ->
            /\ Error(IF evm.status = "oog" THEN "allowance" ELSE "reverted")
            /\ UNCHANGED <<item, results>>
       [] Returned = "intrinsic" -> Error("allowance") /\ UNCHANGED <<item, results>>
       [] OTHER -> Error(Returned) /\ UNCHANGED <<item, results>>
  /\ UNCHANGED <<storage, view, lo, hi, cap, run, req, done>>
-----------------------------------------------------------------------------
(* AccessList.                                                              *)

\* setDefaults: a price, a value and the gas.  Copy does not keep the flag ALCalcCopy has set,
\* so that the estimate is made with an empty access list after all.
SetDefaults ==
  /\ pc = "item" /\ req.kind = "accesslist"
  /\ LET a == [Given EXCEPT !.gasPrice = IF @ = Nil THEN BaseFee ELSE @, !.value = Value(Given)]
     IN  /\ args' = a
         /\ IF a.gas = Nil THEN BeginSearch(a)
            ELSE pc' = "pass1" /\ UNCHANGED <<search, answer>>
  /\ UNCHANGED <<storage, view, world, idx, gasCap, run, req, done, results>>

\* A message of AccessList: no fee cap, no goroutine that would cancel it.
Traced(gas, trace, all) == Run(Machine(args, gas, trace, 0, world, all, trace), FALSE)

\* With every account and slot warm.
Pass1 ==
  /\ pc = "pass1"
  /\ evm' = Traced(args.gas, NewAccessListTracer(args.list, args), TRUE)
  /\ goal' = "pass1" /\ abort' = FALSE
  /\ IF evm'.status \in Refused THEN Error("failed to apply") ELSE pc' = "pass2" /\ UNCHANGED answer
  /\ UNCHANGED <<storage, view, item, search, req, done, results>>

Pass2Gas == args.gas + 2400

Pass2 ==
  /\ pc = "pass2"
  /\ evm' = Traced(Pass2Gas, NewAccessListTracer(evm.trace, args), FALSE)
  /\ goal' = (IF evm.status = "oog" THEN "pass2 cut" ELSE "pass2") /\ UNCHANGED abort
  /\ IF evm'.status \in Refused THEN Error("failed to apply")
     ELSE Answer([list |-> evm'.trace, gas |-> evm'.limit - evm'.gas, status |-> evm'.status])
  /\ UNCHANGED <<storage, view, item, search, req, done, results>>

Step ==
  \/ SetMetadata \/ Open \/ Callback
  \/ StartCall \/ TakeJump \/ EndCall
  \/ StartEstimate \/ Try \/ EndTry \/ Searched \/ EndLast
  \/ SetDefaults \/ Pass1 \/ Pass2

Next == Step \/ NewBlock \/ Expire \/ Cancel \/ (pc = "end" /\ UNCHANGED vars)

\* WF_vars(Step), the request's own goroutine runs on: Step is enabled until the answer
\* is there, and it is what changes pc and evm.
Progress == []<>(pc = "end") \/ []<><<pc' # pc \/ evm' # evm>>_vars

Spec == Init /\ [][Next]_vars /\ Progress
-----------------------------------------------------------------------------
(* Properties.                                                              *)

Monotone(prog) == \A i \in DOMAIN prog : prog[i].op # "atmost"
Oblivious(prog) == \A i \in DOMAIN prog : prog[i].op \notin {"needs", "atmost"}

\* Gas stays a uint64 through the search and the list, and the search never runs a
\* message whose gas is above the ceiling it found first (api/eth.go, DoEstimateGas).
TypeOK ==
  /\ gasCap \in 0 .. UintMod - 1 /\ {lo, hi, cap} \subseteq 0 .. UintMod - 1
  /\ hi <= cap
  /\ pc = "run" /\ goal \in {"try", "last"} => evm.limit <= cap
  /\ pc \in {"view", "open", "header", "item", "search", "run", "found", "pass1", "pass2", "end"}

\* The hash in the metadata, the header and the state a callback works with are of one
\* block, whatever blocks arrive while the view is being set up (vm/manager.go).
SameBlock == header # Nil => meta = opened /\ header = opened

\* A call that is answered with a result ran to its end: a run that the abort flag cut
\* short is reported as aborted, however late the flag was set (DoCall).
CallUncut ==
  req.kind = "call" /\ answer # Nil /\ "status" \in DOMAIN answer =>
    LET whole == Whole(args, answer.gas, world)
    IN  answer.status = whole.status /\ answer.world = whole.work

\* An answer is about one state and one whole run: the view's parts are of one block, and no
\* result is that of a run cut short.
AnswersWhole == TypeOK /\ SameBlock /\ CallUncut

\* An estimate is a gas limit the message succeeds with, on the state the previous
\* message of the list left, and the state handed on is the one that run leaves: not
\* that of another try, and not that of a run cut short (DoEstimateGas, EstimateGasList).
EstimateStands ==
  \A i \in DOMAIN results :
    LET r == results[i]
        whole == Whole(r.args, r.gas, r.before)
    IN  /\ whole.status = "ok" /\ r.after = whole.work
        /\ i > 1 => r.before = results[i - 1].after

\* A precise estimate of a message that no amount of gas makes fail again is the least
\* one it succeeds with; an approximate one is less than a hundredth too high.
EstimateTight ==
  \A i \in DOMAIN results :
    LET r == results[i]
        slack == IF Approx /\ r.gas \div 100 > 1 THEN r.gas \div 100 - 1 ELSE 1
    IN  Monotone(r.args.prog) /\ r.gas > TxGas =>
          Whole(r.args, r.gas - slack, r.before).status # "ok"

\* The search stays within what the sender can pay for: it is never given up because
\* the gas and the value of one of its tries cost too much.
FundsCovered ==
  pc = "run" /\ goal \in {"try", "last"} /\ FeeCap(args) # 0 =>
    evm.status \notin {"funds", "transfer"}

Spent(n) == FoldSeq(LAMBDA r, t : r.gas + t, 0, SubSeq(results, 1, n))

\* The messages of a list share the gas cap: together they get no more than it, as long
\* as none of them used it up to the last unit, which leaves the next one without any
\* cap (api/ethercattle.go).
CapShared ==
  LET limit == RPCGasLimit(req.opts, header.limit)
  IN  req.kind = "list" /\ header # Nil /\ limit # 0 =>
        \A n \in 1 .. Len(results) :
          (\A k \in 1 .. n - 1 : Spent(k) # limit) => Spent(n) <= limit

\* An estimate is right: the message succeeds with it and not with less, its search is paid
\* for by the sender, and those of a list stay within the cap they share.
EstimateSound == EstimateStands /\ EstimateTight /\ FundsCovered /\ CapShared

\* With the access list the first run of AccessList found, nothing the second run
\* touches is cold, if what the program does does not depend on its gas and the first
\* run had enough of it.
AllWarm ==
  goal = "pass2" /\ Oblivious(args.prog) => evm.colds = {}

\* The 2400 gas added to an estimate are enough for the run that pays for the list, if
\* the program reads storage of at most one account that needs no entry of its own.
SecondRunCompletes ==
  goal = "pass2" /\ req.items[1].gas = Nil /\ Oblivious(args.prog)
    /\ Cardinality({a \in Excluded(args) : <<a>> \in evm.trace}) <= 1
  => evm.status \notin {"oog", "intrinsic"}

\* The access list found by the first run suffices for the second: nothing is cold, and the
\* gas is enough.
ListSuffices == AllWarm /\ SecondRunCompletes

\* Every request is answered, whatever the program, the caps and the storage do.
Answered == <>(answer # Nil)
==============================================================================

---------------------------- MODULE StreamManager ----------------------------
(***************************************************************************)
(* streams/consumer.go, as the RPC server's main uses it: the manager      *)
(* takes chain updates from the stream consumer, writes their blocks to    *)
(* storage one by one, reports the height and tells main when it has       *)
(* caught up.  Two goroutines share the variable waiting.                  *)
(*                                                                         *)
(* External, by the way the code uses them: the consumer (cardinal-        *)
(* streams), which assembles announced blocks with their state batches and *)
(* offers a chain update for a complete longer chain; and the storage      *)
(* (cardinal-storage), which takes a block whose parent it holds.          *)
(***************************************************************************)
EXTENDS Feed

VARIABLES
  app,                \* main: "down", "starting", "serving", "exited", "refused" or "panicked"
  pos, seen, last, rollback,        \* the consumer: read position, assembled blocks,
                                    \* last emitted block, reorganisation to report
  loop, adding, latest, armed,      \* the loop's goroutine
  waiter, waiting, waitCh, exitAtCh,\* the other goroutine, and what the two share
  layers, tip,                      \* the storage: block -> the state batch applied, head
  height, missed                    \* the height reported; history: a block was not added

consumer == <<pos, seen, last, rollback>>
goroutines == <<loop, adding, latest, armed, waiter, waiting, waitCh, exitAtCh>>
storage == <<layers, tip>>
svars == <<app, consumer, goroutines, storage, height, missed>>

triggerBlock == flags.exitAt        \* --exit.at.block, 0 for none

Up == app \in {"starting", "serving"}
Selecting == Up /\ loop = "select"

-----------------------------------------------------------------------------
(* The consumer.                                                            *)

\* The position from which the blocks a reorganisation may need can be read again.
Resumption(b) ==
  LET near == {i \in DOMAIN feed : Number(feed[i].b) >= Number(b) - reorgThreshold}
  IN  IF near = {} THEN Len(feed) ELSE (CHOOSE i \in near : \A j \in near : i <= j) - 1

Assembled(m) ==
  CASE m.type = "block" ->
         [b \in DOMAIN seen \cup {m.b} |-> IF b \in DOMAIN seen THEN seen[b] ELSE None]
    [] m.type = "batch" ->
         [b \in DOMAIN seen |-> IF seen[b] = None /\ Number(b) = m.id THEN m.b ELSE seen[b]]
    [] OTHER -> seen

\* A complete chain that is longer than the one last emitted, and leaves it close enough.
Offers(b) ==
  LET c == Common[last, b] IN
  /\ Number(b) > Number(last) /\ ~Deep(last, b)
  /\ \A i \in DOMAIN Beyond(c, b) :
       Beyond(c, b)[i] \in DOMAIN seen /\ seen[Beyond(c, b)[i]] # None

\* The consumer reads on once the manager has taken what it has to offer.
Read ==
  /\ Up /\ rollback = None /\ (~ \E b \in Block : Offers(b)) /\ pos < Len(feed)
  /\ pos' = pos + 1
  /\ seen' = Assembled(feed[pos + 1])
  /\ rollback' = IF feed[pos + 1].type = "reorg" THEN feed[pos + 1].b ELSE None
  /\ UNCHANGED <<feed, app, last, goroutines, storage, height, missed>>

Quiescent == rollback = None /\ pos = Len(feed) /\ ~ \E b \in Block : Offers(b)

-----------------------------------------------------------------------------
(* The storage.                                                             *)

Holds(b) == b = Genesis \/ b \in DOMAIN layers

AddBlock(b) ==
  /\ layers' = [c \in DOMAIN layers \cup {b} |-> IF c = b THEN seen[b] ELSE layers[c]]
  /\ tip' = IF Number(b) > Number(tip) THEN b ELSE tip

\* Back to block number n of the current chain.
Rollback(n) ==
  LET to == IF n < Number(tip) THEN Highest({b \in Below[tip] : Number(b) <= n}) ELSE tip
  IN  /\ tip' = to
      /\ layers' = [b \in DOMAIN layers \cap Below[to] |-> layers[b]]

-----------------------------------------------------------------------------
(* main, NewStreamManager and Start.                                        *)

\* Start waits half a second for the consumer, then leaves the rest to two goroutines.  Both
\* have read waiting before the first delay runs out.
Start ==
  /\ waiting' \in BOOLEAN
  /\ waiter' = IF waiting' THEN "wait" ELSE "consumer"
  /\ loop' = "select" /\ armed' = waiting' /\ adding' = <<>> /\ latest' = None
  /\ waitCh' = FALSE /\ exitAtCh' = FALSE

NewStreamManager ==
  /\ app = "down"
  /\ IF triggerBlock > 0 /\ Number(tip) >= triggerBlock
     THEN app' = "refused" /\ UNCHANGED <<consumer, goroutines, missed>>
     ELSE /\ app' = "starting" /\ missed' = FALSE
          /\ pos' = Resumption(tip) /\ last' = tip
          /\ seen' = [b \in {} |-> None] /\ rollback' = None
          /\ Start
  /\ UNCHANGED <<feed, storage, height>>

\* main receives what the waiting goroutine sends: it exits if it was to exit at a block, or
\* else begins to serve.
Ready ==
  /\ app = "starting"
  /\ exitAtCh \/ (waiter = "wait" /\ waitCh)
  /\ waiter' = "done"
  /\ app' = IF triggerBlock > 0 THEN "exited" ELSE "serving"
  /\ UNCHANGED <<feed, consumer, loop, adding, latest, armed, waiting, waitCh,
                 exitAtCh, storage, height, missed>>

\* The process is gone, and what it kept in memory with it.
Die ==
  /\ Up /\ app' = "down"
  /\ pos' = 0 /\ last' = Genesis /\ seen' = [b \in {} |-> None] /\ rollback' = None
  /\ loop' = "select" /\ adding' = <<>> /\ latest' = None /\ armed' = FALSE
  /\ waiter' = "consumer" /\ waiting' = FALSE /\ waitCh' = FALSE /\ exitAtCh' = FALSE
  /\ UNCHANGED <<feed, storage, height, missed>>

-----------------------------------------------------------------------------
(* The goroutine that waits for the consumer ...                            *)

ConsumerReady ==
  /\ Up /\ waiter = "consumer" /\ pos = Len(feed)
  /\ waiter' = "wait" /\ waiting' = TRUE
  /\ UNCHANGED <<feed, app, consumer, loop, adding, latest, armed, waitCh,
                 exitAtCh, storage, height, missed>>

(* ... and the loop, which looks at waiting each time it comes round.       *)

Again(w) == loop' = "select" /\ armed' = w

\* Mutant: the first block of an update is reported.
UpdateReportsFirst(b) ==
  /\ Selecting /\ Offers(b)
  /\ loop' = "adding" /\ adding' = Beyond(Common[last, b], b)
  /\ last' = b /\ latest' = Head(adding') /\ armed' = FALSE
  /\ UNCHANGED <<feed, app, pos, seen, rollback, waiter, waiting, waitCh,
                 exitAtCh, storage, height, missed>>

Update(b) ==
  /\ Selecting /\ Offers(b)
  /\ loop' = "adding" /\ adding' = Beyond(Common[last, b], b)
  /\ last' = b /\ latest' = b /\ armed' = FALSE
  /\ UNCHANGED <<feed, app, pos, seen, rollback, waiter, waiting, waitCh,
                 exitAtCh, storage, height, missed>>

Reorg ==
  /\ Selecting /\ rollback # None
  /\ Rollback(Number(rollback))
  /\ last' = IF Number(rollback) < Number(last) THEN rollback ELSE last
  /\ seen' = RestrictDomain(seen, LAMBDA b : Number(b) <= Number(rollback))
  /\ rollback' = None /\ Again(waiting)
  /\ UNCHANGED <<feed, app, pos, adding, latest, waiter, waiting, waitCh,
                 exitAtCh, height, missed>>

\* Mutant: the delay ends without the ready signal.
DelayTellsNobody ==
  /\ Selecting /\ armed /\ Quiescent
  /\ waiting' = FALSE /\ Again(FALSE)
  /\ UNCHANGED <<feed, app, consumer, adding, latest, waiter, waitCh, exitAtCh, storage,
                 height, missed>>

\* Half a second without anything to do, once the consumer was ready.
Delay ==
  /\ Selecting /\ armed /\ Quiescent
  /\ waiting' = FALSE /\ waitCh' = TRUE /\ Again(FALSE)
  /\ UNCHANGED <<feed, app, consumer, adding, latest, waiter, exitAtCh, storage,
                 height, missed>>

\* validatePendingBatches: the block changes some account.
Valid(b) == b \notin flags.quiet

Stops(b) == triggerBlock > 0 /\ Number(b) = triggerBlock

\* The update is done: report the height, and stop for good at the trigger block.
Imported(reached) ==
  /\ height' = Number(reached) /\ latest' = None
  /\ exitAtCh' = Stops(reached)
  /\ IF Stops(reached) THEN loop' = "returned" /\ UNCHANGED armed ELSE Again(waiting)

\* One turn of the loop over the blocks of an update; ok is storage's answer.  An error is
\* logged and the next block is tried.
AddNext(ok) ==
  /\ Up /\ loop = "adding"
  /\ LET b == Head(adding) IN
     IF ~Valid(b)
     THEN app' = "panicked" /\ UNCHANGED <<goroutines, storage, height, missed>>
     ELSE /\ IF ok /\ Holds(Parent[b])
             THEN AddBlock(b) /\ UNCHANGED missed
             ELSE UNCHANGED storage /\ missed' = TRUE
          /\ adding' = IF Stops(b) THEN <<>> ELSE Tail(adding)
          /\ IF adding' = <<>> THEN Imported(IF Stops(b) THEN b ELSE latest)
             ELSE UNCHANGED <<height, latest, exitAtCh, loop, armed>>
          /\ UNCHANGED <<app, waiter, waiting, waitCh>>
  /\ UNCHANGED <<feed, consumer>>

SInit ==
  /\ app = "down" /\ pos = 0 /\ last = Genesis /\ rollback = None
  /\ seen = [b \in {} |-> None] /\ layers = [b \in {} |-> None] /\ tip = Genesis
  /\ loop = "select" /\ adding = <<>> /\ latest = None /\ armed = FALSE
  /\ waiter = "consumer" /\ waiting = FALSE /\ waitCh = FALSE /\ exitAtCh = FALSE
  /\ height = 0 /\ missed = FALSE

=============================================================================

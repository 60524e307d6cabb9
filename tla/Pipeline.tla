------------------------------ MODULE Pipeline ------------------------------
(***************************************************************************)
(* The producer plugin, the feed and the stream manager together, with     *)
(* nodes that die and come back, sends and writes that fail, and           *)
(* reorganisations shallower and deeper than clients handle by themselves. *)
(***************************************************************************)
EXTENDS Producer, StreamManager

CONSTANT Settings   \* the flags, and what may happen with them

producer == <<head, todo, startBlock, pendingReorgs, reproducing, lost>>
vars == <<flags, pvars, svars>>

Init ==
  /\ flags \in Settings
  /\ PInit /\ SInit /\ faults = flags.faults

Producing == (ProducerStep \/ \E b \in Block : Import(b)) /\ UNCHANGED <<svars, flags>>

Consuming ==
  /\ \/ NewStreamManager \/ Read \/ ConsumerReady \/ Reorg \/ Delay \/ AddNext(TRUE) \/ Ready
     \/ \E b \in Block : Update(b)
  /\ UNCHANGED <<producer, faults, flags>>

Failing ==
  /\ UNCHANGED flags
  /\ \/ (Crash \/ \E r \in flags.requests : ReproduceBlocks(r[1], r[2])) /\ UNCHANGED svars
     \/ Fault /\ (AddNext(FALSE) \/ Die) /\ UNCHANGED producer

Next == Producing \/ Consuming \/ Failing

Spec == Init /\ [][Next]_vars
FairSpec == Spec /\ WF_vars(Producing) /\ WF_vars(Consuming)

-----------------------------------------------------------------------------
TypeOK ==
  /\ head \in Block /\ tip \in Block /\ last \in Block
  /\ startBlock \in Nat /\ faults \in 0 .. flags.faults
  /\ pos \in 0 .. Len(feed)
  /\ \A b \in DOMAIN layers : layers[b] \in Block
  /\ waiting \in BOOLEAN /\ armed \in BOOLEAN

\* After a fault, the feed knows a chain that parts from the node's deeper than clients handle:
\* a node that restarted does not know it left that chain and announces no reorganisation.
Strayed == faults < flags.faults /\ \E b \in Announced : Deep(b, head)

\* A producer that dies between the two sends of a block, and starts again a little behind the
\* feed, leaves no block of the node's chain without its state: unless a send itself failed,
\* every block is announced and followed by its batch.
NoGap ==
  todo = <<>> /\ lost = {} /\ ~Strayed => \A i \in DOMAIN Chain[head] : Complete(Chain[head][i])

\* Every announced reorganisation is ended by the time the node goes on.
ReorgsEnded == todo = <<>> => DOMAIN pendingReorgs = {}

\* What the producer leaves in the feed can be followed: no block lacks its state, and no
\* reorganisation is left open.
FeedSound == TypeOK /\ NoGap /\ ReorgsEnded

\* With --exit.at.block no block above it is ever written, however often the server restarts.
NothingPastTrigger == triggerBlock > 0 => Number(tip) <= triggerBlock

\* The height reported after an update is that of storage's head, whether the update extended
\* the chain or replaced some of it, unless storage refused a block; and storage never goes
\* beyond the trigger block.
StoredAsReported ==
  [][/\ loop = "adding" /\ loop' # "adding" /\ app' = app => missed' \/ height' = Number(tip)'
     /\ NothingPastTrigger']_vars

Stopped ==
  \/ app \in {"exited", "refused"} \/ loop = "returned"
  \/ app = "panicked" /\ flags.quiet \cap Announced # {}

\* In the end storage holds the node's head, whatever was imported, undone, repeated or
\* interrupted on the way.
CatchesUp == <>[](tip = head \/ Stopped \/ lost # {} \/ missed \/ Strayed)

\* Once the loop has come round with the consumer ready, main is told.  (Before it does it may
\* wait for one more update or reorganisation, however long that takes to come.)
ReadySignalled == (app = "starting" /\ waiter = "wait" /\ armed) ~> app # "starting"

=============================================================================

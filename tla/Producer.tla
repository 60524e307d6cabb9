------------------------------ MODULE Producer ------------------------------
(***************************************************************************)
(* plugins/producer/main.go: the plugin that turns the blocks a geth node  *)
(* imports into messages.  The node calls the plugin's hooks one after the *)
(* other; todo holds the calls still to come for the block, or the         *)
(* reorganisation, it is importing.  BlockUpdates is two sends, and the    *)
(* node may die between them.  A reproduction request runs on a thread of  *)
(* the RPC server, beside the import.                                      *)
(***************************************************************************)
EXTENDS Feed

CONSTANTS
  Rewind,             \* how far behind the feed a restarted producer begins (128)
  startBlockOverride

VARIABLES
  head,               \* the node's head block
  todo,               \* hook calls to come
  startBlock,
  pendingReorgs,      \* block -> the function that ends its reorganisation, or nil
  reproducing,        \* the request in progress
  faults,             \* failures and reproduction requests still to come
  lost                \* history: the blocks whose SendBatch or Reorg failed

pvars == <<feed, head, todo, startBlock, pendingReorgs, reproducing, faults, lost>>

Hook(op, b, old) == [op |-> op, b |-> b, old |-> old]
Updates(bs) == [i \in DOMAIN bs |-> Hook("update", bs[i], 0)]
Calls(op) == todo # <<>> /\ Head(todo).op = op
Return == todo' = Tail(todo)

Send(m) == feed' = Append(feed, m)
Fault == faults > 0 /\ faults' = faults - 1

-----------------------------------------------------------------------------
\* The node imports a block on top of its head, or one that makes another chain the longer.
Import(b) ==
  /\ todo = <<>> /\ Number(b) > Number(head)
  /\ LET c == Common[head, b] IN
       /\ c = head => Number(b) = Number(head) + 1
       /\ todo' = IF c = head THEN Updates(Beyond(c, b))
                  ELSE <<Hook("pre", c, Number(head) - Number(c))>>
                         \o Updates(Beyond(c, b)) \o <<Hook("post", c, 0)>>
  /\ head' = b
  /\ UNCHANGED <<feed, startBlock, pendingReorgs, reproducing, faults, lost>>

\* Mutant: the threshold is off by one.
AnnouncesLater(old) == old > reorgThreshold + 1

Announces(old) == old > reorgThreshold

\* Only a reorganisation deeper than clients handle is announced.  When the announcement
\* fails the error is logged and the entry of the map is nil.
BUPreReorg ==
  /\ Calls("pre") /\ Return
  /\ LET c == Head(todo).b IN
       IF Announces(Head(todo).old)
       THEN \/ /\ Send(ReorgMsg("reorg", c)) /\ UNCHANGED <<faults, lost>>
               /\ pendingReorgs' = [x \in DOMAIN pendingReorgs \cup {c} |-> "done"]
            \/ /\ Fault /\ lost' = lost \cup {c} /\ UNCHANGED feed
               /\ pendingReorgs' = [x \in DOMAIN pendingReorgs \cup {c} |-> "nil"]
       ELSE UNCHANGED <<feed, pendingReorgs, faults, lost>>
  /\ UNCHANGED <<head, startBlock, reproducing>>

\* BlockUpdates up to producer.AddBlock; a block below startBlock is skipped.
BlockUpdates ==
  /\ Calls("update")
  /\ LET b == Head(todo).b IN
       IF Number(b) < startBlock
       THEN Return /\ UNCHANGED feed
       ELSE Send(BlockMsg(b)) /\ todo' = <<Hook("batch", b, 0)>> \o Tail(todo)
  /\ UNCHANGED <<head, startBlock, pendingReorgs, reproducing, faults, lost>>

\* getUpdates names a block's state batch by the block's number.
BatchId(b) == Number(b)

\* producer.SendBatch; an error is logged and the batch is never sent again.
SendBatch ==
  /\ Calls("batch") /\ Return
  /\ LET b == Head(todo).b IN
       \/ Send(BatchMsg(BatchId(b), b)) /\ UNCHANGED <<faults, lost>>
       \/ Fault /\ lost' = lost \cup {b} /\ UNCHANGED feed
  /\ UNCHANGED <<head, startBlock, pendingReorgs, reproducing>>

\* Calling the nil function of a failed announcement is a panic: see PanicInPostReorg.
BUPostReorg ==
  /\ Calls("post") /\ Return
  /\ LET c == Head(todo).b IN
       IF c \in DOMAIN pendingReorgs
       THEN /\ pendingReorgs[c] = "done" /\ Send(ReorgMsg("reorgDone", c))
            /\ pendingReorgs' = RestrictDomain(pendingReorgs, LAMBDA x : x # c)
       ELSE UNCHANGED <<feed, pendingReorgs>>
  /\ UNCHANGED <<head, startBlock, reproducing, faults, lost>>

-----------------------------------------------------------------------------
\* cardinal_reproduceBlocks: startBlock is zero until the request is done.
ReproduceBlocks(from, to) ==
  /\ reproducing = None /\ Fault
  /\ reproducing' = [next |-> from, to |-> to, old |-> startBlock, sent |-> None]
  /\ startBlock' = 0
  /\ UNCHANGED <<feed, head, todo, pendingReorgs, lost>>

\* Its loop calls BlockUpdates itself: the two sends of the next block, then the following one.
ReproduceNext ==
  /\ reproducing # None
  /\ LET r == reproducing IN
       IF r.sent # None
       THEN /\ \/ Send(BatchMsg(BatchId(r.sent), r.sent)) /\ UNCHANGED <<faults, lost>>
               \/ Fault /\ lost' = lost \cup {r.sent} /\ UNCHANGED feed
            /\ reproducing' = [r EXCEPT !.sent = None, !.next = @ + 1]
            /\ UNCHANGED startBlock
       ELSE IF r.next <= r.to /\ r.next \in DOMAIN Chain[head]
       THEN LET b == Chain[head][r.next] IN
            /\ Send(BlockMsg(b)) /\ reproducing' = [r EXCEPT !.sent = b]
            /\ UNCHANGED <<startBlock, faults, lost>>
       ELSE /\ reproducing' = None /\ UNCHANGED <<feed, faults, lost>>
            /\ startBlock' = IF r.next <= r.to THEN startBlock ELSE r.old
  /\ UNCHANGED <<head, todo, pendingReorgs>>

-----------------------------------------------------------------------------
BlocksIn(msgs) == {i \in DOMAIN msgs : msgs[i].type = "block"}

\* External: the number of the last block announced.
LatestBlockFromFeed ==
  IF BlocksIn(feed) = {} THEN 0
  ELSE Number(feed[CHOOSE i \in BlocksIn(feed) : \A j \in BlocksIn(feed) : j <= i].b)

\* Mutant: production resumes after the latest block of the feed.
InitializeNodeAtLatest ==
  IF startBlockOverride > 0 THEN startBlockOverride ELSE LatestBlockFromFeed + 1

\* The first block a starting producer emits.
InitializeNode ==
  IF startBlockOverride > 0 THEN startBlockOverride
  ELSE IF LatestBlockFromFeed > Rewind THEN LatestBlockFromFeed - Rewind ELSE 0

\* A block the node was still importing is not on its disk.
Survives(b) ==
  \A i \in DOMAIN todo : todo[i].op \in {"update", "batch"} => todo[i].b \notin Below[b]

\* The node dies, uncleanly, and comes back at some earlier head.
Restart ==
  /\ head' \in {b \in Below[head] : Survives(b)}
  /\ todo' = <<>> /\ reproducing' = None
  /\ pendingReorgs' = [x \in {} |-> "done"]
  /\ startBlock' = InitializeNode
  /\ UNCHANGED <<feed, lost>>

Crash == Fault /\ Restart

PanicInPostReorg ==
  /\ Calls("post") /\ Head(todo).b \in DOMAIN pendingReorgs
  /\ pendingReorgs[Head(todo).b] = "nil"
  /\ Restart /\ UNCHANGED faults

PInit ==
  /\ feed = <<>> /\ head = Genesis /\ todo = <<>> /\ reproducing = None /\ lost = {}
  /\ pendingReorgs = [x \in {} |-> "done"]
  /\ startBlock = startBlockOverride

ProducerStep == BUPreReorg \/ BlockUpdates \/ SendBatch \/ BUPostReorg \/ PanicInPostReorg
                  \/ ReproduceNext

=============================================================================

------------------------------- MODULE TxRelay -------------------------------
(***************************************************************************)
(* The way of a transaction from SendRawTransaction (api/eth.go) through   *)
(* the Kafka topic (txemitter/kafka.go) and the relay (cmd/tx-relay) to    *)
(* the node.  Both ends keep an LRU cache, entered before the work is      *)
(* done.  Clients send concurrently; the partitions of the topic are       *)
(* consumed concurrently; the producer and the POSTs may fail before or    *)
(* after they took effect, the relay may lose its session or be restarted. *)
(***************************************************************************)
EXTENDS Transactions, FiniteSets, FiniteSetsExt

CONSTANTS
  Txs, Data,   \* names of signed transactions, and the transactions
  Clients,     \* concurrent requests
  Parts,       \* partitions of the topic
  SentSize,    \* capacity of the service's cache
  RelaySize,   \* capacity of the relay's cache
  Fork, Chain, BaseFee, Intrinsic, GasLimit, MaxTxGas, Balance, \* the chain and its latest state
  Foreign,     \* a message of the topic that does not decode
  MaxSends,    \* bound: requests
  MaxFaults,   \* bound: failed emits and posts, lost sessions and restarts
  MaxMined     \* bound: transactions of a sender in blocks

\* A name stands for a transaction, for both its encodings and for its hash.
ASSUME Canonical ==
  /\ \A t \in Txs : /\ UnmarshalBinary(MarshalBinary(Data[t])) = Data[t]
                    /\ DecodeRLP(EncodeRLP(Data[t])) = Data[t]
  /\ \A t, u \in Txs : Hash(Data[t]) = Hash(Data[u]) => t = u

\* What is no transaction has no name of one; lru.New takes no size of zero.
ASSUME RelayAssumption ==
  /\ Nil \notin Txs /\ Foreign \notin Txs
  /\ SentSize \in Nat \ {0} /\ RelaySize \in Nat \ {0}
  /\ IsFiniteSet(Clients)

From == [t \in Txs |-> AsMessage(MakeSigner(Fork, Chain), Data[t], BaseFee).from]
Price == [t \in Txs |-> Cost(Data[t])]
Senders == {From[t] : t \in Txs} \ {Err}

VARIABLES
  nonce,       \* the senders' nonces in the latest state
  sent,        \* the service's cache, oldest first
  client,      \* for each client: what it does, and for which transaction
  topic,       \* for each partition, its messages
  next,        \* for each partition, the offset the session reads next
  marked, committed, \* for each partition, offsets marked and committed
  post,        \* for each partition, the transaction being posted or Nil
  cache,       \* the relay's cache
  known,       \* transactions the node has accepted
  answers,     \* history: transactions answered with each answer
  lost,        \* history: failed or repeated writes, failed posts, evictions
  posts,       \* history: how often each transaction was posted
  sends, faults

service == <<nonce, sent, client, answers, sends>>
relay == <<next, marked, committed, post, cache, known, posts>>
vars == <<nonce, sent, client, topic, next, marked, committed, post, cache, known, answers, lost,
          posts, sends, faults>>

Idle == [at |-> "idle", tx |-> Nil]
Kinds == {"emit", "post", "sent", "cache", "restart"}

Init ==
  /\ nonce = [a \in Senders |-> 0] /\ sent = <<>> /\ client = [c \in Clients |-> Idle]
  /\ topic \in {[p \in Parts |-> m] : m \in {<<>>, <<Foreign>>}}
  /\ next = [p \in Parts |-> 0] /\ marked = next /\ committed = next
  /\ post = [p \in Parts |-> Nil] /\ cache = <<>> /\ known = {}
  /\ answers = [a \in {"ok", "known", "error"} |-> {}]
  /\ lost = [k \in Kinds |-> [t \in Txs |-> 0]]
  /\ posts = [t \in Txs |-> 0]
  /\ sends = 0 /\ faults = 0

Fault == faults < MaxFaults /\ faults' = faults + 1
Count(k, t) == [lost EXCEPT ![k][t] = @ + 1]
-----------------------------------------------------------------------------
(* lru.Cache                                                                *)

Contains(lru, t) == \E i \in 1 .. Len(lru) : lru[i] = t
Evicted(lru, size) == IF Len(lru) = size THEN {Head(lru)} ELSE {}
Add(lru, size, t) == Append(IF Len(lru) = size THEN Tail(lru) ELSE lru, t)
Evict(kind, lru, size) ==
  [lost EXCEPT ![kind] = [t \in Txs |-> @[t] + IF t \in Evicted(lru, size) THEN 1 ELSE 0]]
-----------------------------------------------------------------------------
(* SendRawTransaction                                                       *)

Reply(c, a) ==
  /\ answers' = [answers EXCEPT ![a] = @ \cup {client[c].tx}]
  /\ client' = [client EXCEPT ![c] = Idle]

\* Mutant: the hash is looked up and not entered.
ReceivesOnlyLooks(c, t) ==
  /\ client[c].at = "idle" /\ sends < MaxSends
  /\ sends' = sends + 1
  /\ IF Contains(sent, t)
     THEN answers' = [answers EXCEPT !["known"] = @ \cup {t}] /\ UNCHANGED client
     ELSE client' = [client EXCEPT ![c] = [at |-> "check", tx |-> t]] /\ UNCHANGED answers
  /\ UNCHANGED <<nonce, sent, topic, relay, lost, faults>>

\* A request is decoded, and its hash looked up and entered in one step.
SendRawTransaction(c, t) ==
  /\ client[c].at = "idle" /\ sends < MaxSends
  /\ sends' = sends + 1
  /\ IF Contains(sent, t)
     THEN answers' = [answers EXCEPT !["known"] = @ \cup {t}] /\ UNCHANGED <<client, sent, lost>>
     ELSE /\ sent' = Add(sent, SentSize, t)
          /\ lost' = Evict("sent", sent, SentSize)
          /\ client' = [client EXCEPT ![c] = [at |-> "check", tx |-> t]]
          /\ UNCHANGED answers
  /\ UNCHANGED <<nonce, topic, relay, faults>>

\* The checks before and inside the view of the latest state.
Acceptable(t) ==
  LET tx == Data[t]
  IN /\ tx.type = SetCodeTxType => tx.auths > 0 /\ tx.to # Nil
     /\ From[t] # Err
     /\ nonce[From[t]] <= tx.nonce
     /\ tx.gas <= GasLimit /\ tx.gas <= MaxTxGas
     /\ tx.value >= 0 /\ Price[t] <= Balance
     /\ tx.gas >= Intrinsic

\* A request may also find its context done.
Check(c) ==
  /\ client[c].at = "check"
  /\ \/ /\ Acceptable(client[c].tx)
        /\ client' = [client EXCEPT ![c].at = "emit"]
        /\ UNCHANGED answers
     \/ Reply(c, "error")
  /\ UNCHANGED <<nonce, sent, topic, relay, lost, sends, faults>>

Write(p, t) == topic' = [topic EXCEPT ![p] = Append(@, t)]

\* Emit: the message has no key and goes to any partition.
Emit(c) ==
  /\ client[c].at = "emit"
  /\ \E p \in Parts : Write(p, client[c].tx)
  /\ Reply(c, "ok")
  /\ UNCHANGED <<nonce, sent, relay, lost, sends, faults>>

\* The producer gives up; the message may have been stored all the same.
EmitFails(c) ==
  /\ client[c].at = "emit" /\ Fault
  /\ \/ UNCHANGED <<topic, lost>>
     \/ /\ \E p \in Parts : Write(p, client[c].tx)
        /\ lost' = Count("emit", client[c].tx)
  /\ Reply(c, "error")
  /\ UNCHANGED <<nonce, sent, relay, sends>>

\* The producer's retry stores a message twice.
EmitRepeats(c) ==
  /\ client[c].at = "emit" /\ Fault
  /\ \E p \in Parts : Write(p, client[c].tx)
  /\ lost' = Count("emit", client[c].tx)
  /\ UNCHANGED <<service, relay>>

\* A block takes the next transaction of a sender.
Mine ==
  \E t \in known :
    /\ nonce[From[t]] = Data[t].nonce /\ nonce[From[t]] < MaxMined
    /\ nonce' = [nonce EXCEPT ![From[t]] = @ + 1]
    /\ UNCHANGED <<sent, client, topic, relay, answers, lost, sends, faults>>
-----------------------------------------------------------------------------
(* ConsumeClaim, a goroutine for each partition                             *)

Mark(p, offset) == marked' = [marked EXCEPT ![p] = Max({@, offset})]

\* The next message: undecodable ones and repeats are skipped, a repeat is marked.
Receive(p) ==
  LET t == topic[p][next[p] + 1]
  IN /\ post[p] = Nil /\ next[p] < Len(topic[p])
     /\ next' = [next EXCEPT ![p] = @ + 1]
     /\ \/ t = Foreign /\ UNCHANGED <<cache, marked, post, posts, lost>>
        \/ /\ t # Foreign /\ Contains(cache, t)
           /\ Mark(p, next[p] + 1)
           /\ UNCHANGED <<cache, post, posts, lost>>
        \/ /\ t # Foreign /\ ~Contains(cache, t)
           /\ cache' = Add(cache, RelaySize, t)
           /\ lost' = Evict("cache", cache, RelaySize)
           /\ post' = [post EXCEPT ![p] = t]
           /\ posts' = [posts EXCEPT ![t] = @ + 1]
           /\ UNCHANGED marked
     /\ UNCHANGED <<service, topic, committed, known, faults>>

\* The node takes the transaction and says so.
Posted(p) ==
  /\ post[p] # Nil
  /\ known' = known \cup {post[p]}
  /\ Mark(p, next[p])
  /\ post' = [post EXCEPT ![p] = Nil]
  /\ UNCHANGED <<service, topic, next, committed, cache, posts, lost, faults>>

\* No connection, a refusal, or an answer that gets lost: the message is not marked.
PostFails(p) ==
  /\ post[p] # Nil /\ Fault
  /\ known' \in {known, known \cup {post[p]}}
  /\ lost' = Count("post", post[p])
  /\ post' = [post EXCEPT ![p] = Nil]
  /\ UNCHANGED <<service, topic, next, marked, committed, cache, posts>>

\* Mutant: what is read is committed.
CommitRead(p) ==
  /\ committed[p] # next[p]
  /\ committed' = [committed EXCEPT ![p] = next[p]]
  /\ UNCHANGED <<service, topic, next, marked, post, cache, known, posts, lost, faults>>

\* The consumer group commits what is marked, from time to time.
Commit(p) ==
  /\ committed[p] # marked[p]
  /\ committed' = [committed EXCEPT ![p] = marked[p]]
  /\ UNCHANGED <<service, topic, next, marked, post, cache, known, posts, lost, faults>>

\* Mutant: the reading begins at the end where nothing is committed.
ResumeNewest(offsets) == [p \in Parts |-> IF offsets[p] = 0 THEN Len(topic[p]) ELSE offsets[p]]
\* Where a session begins: OffsetOldest where nothing is committed.
Resume(offsets) == offsets

\* Consume returns once every claim has ended, and is called again by main.
SessionEnds ==
  /\ \A p \in Parts : post[p] = Nil
  /\ Fault
  /\ committed' = marked
  /\ next' = Resume(marked)
  /\ UNCHANGED <<service, topic, marked, post, cache, known, posts, lost>>

\* The process is killed, perhaps in a POST that the node has seen, and started again.
Restart ==
  /\ Fault
  /\ \E seen \in SUBSET ({post[p] : p \in Parts} \ {Nil}) : known' = known \cup seen
  /\ next' = Resume(committed) /\ marked' = committed
  /\ post' = [p \in Parts |-> Nil] /\ cache' = <<>>
  /\ lost' = [lost EXCEPT !["restart"] = [t \in Txs |-> @[t] + 1]]
  /\ UNCHANGED <<service, topic, committed, posts>>
-----------------------------------------------------------------------------
ServiceStep(c) ==
  (\E t \in Txs : SendRawTransaction(c, t)) \/ Check(c) \/ Emit(c) \/ EmitFails(c) \/ EmitRepeats(c)
RelayStep(p) == Receive(p) \/ Posted(p) \/ PostFails(p)

Next ==
  \/ \E c \in Clients : ServiceStep(c)
  \/ \E p \in Parts : RelayStep(p) \/ Commit(p)
  \/ Mine \/ SessionEnds \/ Restart

\* The goroutine of a claim keeps running; failures and restarts are finitely many.
Spec == Init /\ [][Next]_vars /\ \A p \in Parts : WF_vars(RelayStep(p))
-----------------------------------------------------------------------------
Copies(t) == {m \in UNION {{p} \X DOMAIN topic[p] : p \in Parts} : topic[m[1]][m[2]] = t}
Queued(t) == \E p \in Parts : Contains(topic[p], t)
InHand(t) == \E c \in Clients : client[c].at \in {"check", "emit"} /\ client[c].tx = t

\* A transaction SendRawTransaction answered without an error is in the topic, and one
\* it called "already known" is there too unless it is still being handled for another
\* client, or was refused before: the hash stays cached then.
AnswersTrue ==
  /\ \A t \in answers["ok"] : Queued(t)
  /\ \A t \in answers["known"] : Queued(t) \/ InHand(t) \/ t \in answers["error"]

\* However many clients send a transaction at once, the service's cache lets it into the
\* topic once, and once more for each time the producer stored it without saying so and
\* each time its hash was evicted.
EmittedOnce == \A t \in Txs : Cardinality(Copies(t)) <= 1 + lost["emit"][t] + lost["sent"][t]

\* However many copies the partitions hold and however often a session begins again, the
\* relay posts a transaction once, and once more after an eviction or a restart.
PostedOnce == \A t \in Txs : posts[t] <= 1 + lost["cache"][t] + lost["restart"][t]

\* A transaction of the topic that the node has not seen, and none of whose POSTs failed,
\* has a copy that is not committed: a restart cannot lose it.
NoneForgotten ==
  \A t \in Txs :
    Queued(t) /\ t \notin known /\ lost["post"][t] = 0 =>
      \E m \in Copies(t) : m[2] > committed[m[1]]

\* Nothing is written to the topic or posted to the node more often than faults explain.
RelayedOnce == EmittedOnce /\ PostedOnce

\* Nothing is lost on the way: what a client was told was sent is in the topic, and what the
\* node does not know has a copy there that is not committed.
NothingLost == AnswersTrue /\ NoneForgotten

\* Every transaction of the topic is known to the node in the end, unless a POST of it
\* failed: the relay neither retries that one nor holds it back.
Delivered == \A t \in Txs : Queued(t) ~> (t \in known \/ lost["post"][t] > 0)
==============================================================================

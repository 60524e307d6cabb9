---------------------------- MODULE TxRelayProofs ----------------------------
(***************************************************************************)
(* Proofs about TxRelay: for any transactions, clients, partitions and     *)
(* cache sizes, nothing is relayed more often than the counted faults      *)
(* explain, and nothing that was sent is lost.                             *)
(***************************************************************************)
EXTENDS TxRelay, FiniteSetTheorems, TLAPS

-----------------------------------------------------------------------------
(* The inductive invariant.                                                 *)

Typed ==
  /\ sent \in Seq(Txs) /\ cache \in Seq(Txs)
  /\ client \in [Clients -> [at : {"idle", "check", "emit"}, tx : Txs \cup {Nil}]]
  /\ \A c \in Clients : client[c].at # "idle" => client[c].tx \in Txs
  /\ topic \in [Parts -> Seq(Txs \cup {Foreign})]
  /\ next \in [Parts -> Nat] /\ marked \in [Parts -> Nat] /\ committed \in [Parts -> Nat]
  /\ post \in [Parts -> Txs \cup {Nil}]
  /\ known \in SUBSET Txs
  /\ answers \in [{"ok", "known", "error"} -> SUBSET Txs]
  /\ lost \in [Kinds -> [Txs -> Nat]]
  /\ posts \in [Txs -> Nat]

\* Offsets are in order, and the message being posted is the last one read and not marked.
Offsets ==
  \A p \in Parts :
    /\ committed[p] <= marked[p] /\ marked[p] <= next[p] /\ next[p] <= Len(topic[p])
    /\ post[p] # Nil => next[p] >= 1 /\ topic[p][next[p]] = post[p] /\ marked[p] < next[p]

Settled(t) == t \in known \/ lost["post"][t] > 0
Posting(t) == \E p \in Parts : post[p] = t
Unread(t) == \E p \in Parts : \E k \in 1 .. Len(topic[p]) : k > next[p] /\ topic[p][k] = t

\* What the relay's cache holds was posted, or is being posted.
CacheBacked == \A t \in Txs : Contains(cache, t) => Settled(t) \/ Posting(t)

\* What was read is posted, being posted, or will be read again.
ReadAccounted ==
  \A t \in Txs : \A p \in Parts : \A k \in 1 .. next[p] :
    topic[p][k] = t => Settled(t) \/ Posting(t) \/ Unread(t)

\* Whether a cache holds a transaction, and whether it loses it to a new one, as numbers.
Held(lru, t) == IF Contains(lru, t) THEN 1 ELSE 0
Gone(lru, size, t) == IF t \in Evicted(lru, size) THEN 1 ELSE 0

\* PostedOnce, without the one post the cache still remembers.
PostsExplained ==
  \A t \in Txs :
    posts[t] <= lost["cache"][t] + lost["restart"][t] + Held(cache, t)

RelayInv == Typed /\ Offsets /\ CacheBacked /\ ReadAccounted /\ PostsExplained

Handled(t) == Queued(t) \/ InHand(t) \/ t \in answers["error"]

\* What the service's cache holds is in the topic, in a client's hands or was refused.
SentBacked ==
  /\ \A t \in Txs : Contains(sent, t) => Handled(t)
  /\ \A t \in answers["known"] : Handled(t)
  /\ \A t \in answers["ok"] : Queued(t)

Handling(t) == {c \in Clients : client[c].at # "idle" /\ client[c].tx = t}

\* EmittedOnce, without the one copy the cache still remembers, and with the copies to come.
CopiesExplained ==
  \A t \in Txs :
    /\ IsFiniteSet(Copies(t))
    /\ Cardinality(Copies(t)) + Cardinality(Handling(t))
         <= lost["emit"][t] + lost["sent"][t] + Held(sent, t)

ServiceInv == Typed /\ SentBacked /\ CopiesExplained

\* The copies x written and the y in hand are explained by the e, s and h that are counted.
Covered(x, y, e, s, h) ==
  /\ x \in Nat /\ y \in Nat /\ e \in Nat /\ s \in Nat /\ h \in Nat
  /\ x + y <= e + s + h

\* One more in hand, as one more is held and whatever is held no longer is counted.
LEMMA CoveredSend ==
  ASSUME NEW x, NEW y, NEW e, NEW s, NEW h, Covered(x, y, e, s, h),
         NEW d \in Nat, NEW g \in Nat, NEW k \in Nat, k + g >= h + d
  PROVE  x + (y + d) <= e + (s + g) + k
BY DEF Covered

\* One less in hand, with at most one copy more.
LEMMA CoveredReply ==
  ASSUME NEW x, NEW y, NEW e, NEW s, NEW h, Covered(x, y, e, s, h)
  PROVE  /\ \A z \in {x, x + 1} : z + (y - 1) <= e + s + h /\ z + (y - 1) <= (e + 1) + s + h
         /\ x + y <= e + s + h /\ x + y <= (e + 1) + s + h
BY DEF Covered

\* One copy more, and one more counted.
LEMMA CoveredEmit ==
  ASSUME NEW x, NEW y, NEW e, NEW s, NEW h, Covered(x, y, e, s, h)
  PROVE  (x + 1) + y <= (e + 1) + s + h /\ x + y <= e + s + h
BY DEF Covered

-----------------------------------------------------------------------------
(* The caches and the counters.                                             *)

\* Append puts one element behind a sequence.
LEMMA Appending ==
  ASSUME NEW S, NEW s \in Seq(S), NEW e \in S
  PROVE  /\ Append(s, e) \in Seq(S) /\ Len(s) \in Nat /\ Len(Append(s, e)) = Len(s) + 1
         /\ \A i \in 1 .. Len(s) : Append(s, e)[i] = s[i]
         /\ Append(s, e)[Len(s) + 1] = e
OBVIOUS

\* A new entry goes in; what goes out is counted as evicted.
LEMMA AddFacts ==
  ASSUME NEW lru \in Seq(Txs), NEW size \in Nat \ {0}, NEW t \in Txs
  PROVE  /\ Add(lru, size, t) \in Seq(Txs)
         /\ Contains(Add(lru, size, t), t)
         /\ \A u \in Txs : /\ Contains(Add(lru, size, t), u) => u = t \/ Contains(lru, u)
                           /\ Contains(lru, u) /\ ~Contains(Add(lru, size, t), u)
                                => u \in Evicted(lru, size)
                           /\ u \in Evicted(lru, size) => Contains(lru, u)
<1> DEFINE rest == IF Len(lru) = size THEN Tail(lru) ELSE lru
           new  == Append(rest, t)
<1>1. Len(lru) = size => lru # << >>
  OBVIOUS
<1>2. /\ rest \in Seq(Txs)
      /\ \A i \in 1 .. Len(rest) : \E j \in 1 .. Len(lru) : rest[i] = lru[j]
      /\ \A j \in 1 .. Len(lru) :
           (\E i \in 1 .. Len(rest) : rest[i] = lru[j]) \/ lru[j] \in Evicted(lru, size)
      /\ \A u \in Evicted(lru, size) : \E j \in 1 .. Len(lru) : u = lru[j]
  <2>1. CASE Len(lru) = size
    <3>1. /\ Tail(lru) \in Seq(Txs) /\ Len(Tail(lru)) = Len(lru) - 1 /\ Head(lru) = lru[1]
          /\ \A i \in 1 .. Len(Tail(lru)) : Tail(lru)[i] = lru[i + 1]
      BY <1>1, <2>1
    <3>2. /\ rest \in Seq(Txs) /\ Len(rest) = Len(lru) - 1 /\ Len(lru) \in Nat \ {0}
          /\ \A i \in 1 .. Len(rest) : rest[i] = lru[i + 1]
          /\ Evicted(lru, size) = {lru[1]}
      BY <2>1, <3>1 DEF Evicted
    <3> HIDE DEF rest
    <3>3. ASSUME NEW i \in 1 .. Len(rest) PROVE \E j \in 1 .. Len(lru) : rest[i] = lru[j]
      <4>1. i + 1 \in 1 .. Len(lru) /\ rest[i] = lru[i + 1]
        BY <3>2
      <4> QED
        BY <4>1, Zenon
    <3>4. ASSUME NEW j \in 1 .. Len(lru)
          PROVE (\E i \in 1 .. Len(rest) : rest[i] = lru[j]) \/ lru[j] \in Evicted(lru, size)
      <4>1. CASE j = 1
        BY <3>2, <4>1, Zenon
      <4>2. CASE j # 1
        <5>1. j - 1 \in 1 .. Len(rest) /\ j - 1 + 1 = j
          BY <3>2, <4>2
        <5>2. rest[j - 1] = lru[j]
          BY <3>2, <5>1, Zenon
        <5> QED
          BY <5>1, <5>2, Zenon
      <4> QED
        BY <4>1, <4>2, Zenon
    <3>5. 1 \in 1 .. Len(lru)
      BY <3>2
    <3> QED
      BY <3>2, <3>3, <3>4, <3>5, Zenon
  <2>2. CASE Len(lru) # size
    BY <2>2 DEF Evicted
  <2> QED
    BY <2>1, <2>2, Zenon
<1> HIDE DEF rest
<1>3. /\ new \in Seq(Txs) /\ Len(new) = Len(rest) + 1 /\ new[Len(rest) + 1] = t
      /\ \A i \in 1 .. Len(rest) : new[i] = rest[i]
      /\ Len(rest) \in Nat
  BY <1>2, Appending
<1> HIDE DEF new
<1>4. \A i \in 1 .. Len(new) : i \in 1 .. Len(rest) \/ i = Len(rest) + 1
  BY <1>3
<1>5. \A i \in 1 .. Len(rest) : i \in 1 .. Len(new)
  BY <1>3
<1>6. Contains(new, t)
  BY <1>3 DEF Contains
<1>7. ASSUME NEW u \in Txs
      PROVE  /\ Contains(new, u) => u = t \/ Contains(lru, u)
             /\ Contains(lru, u) /\ ~Contains(new, u) => u \in Evicted(lru, size)
             /\ u \in Evicted(lru, size) => Contains(lru, u)
  <2>1. ASSUME Contains(new, u) PROVE u = t \/ Contains(lru, u)
    <3>1. PICK i \in 1 .. Len(new) : new[i] = u
      BY <2>1, Zenon DEF Contains
    <3> QED
      BY <1>2, <1>3, <1>4, <3>1, Zenon DEF Contains
  <2>2. ASSUME Contains(lru, u) PROVE Contains(new, u) \/ u \in Evicted(lru, size)
    <3>1. PICK j \in 1 .. Len(lru) : lru[j] = u
      BY <2>2, Zenon DEF Contains
    <3> QED
      BY <1>2, <1>3, <1>5, <3>1, Zenon DEF Contains
  <2>3. u \in Evicted(lru, size) => Contains(lru, u)
    BY <1>2, Zenon DEF Contains
  <2> QED
    BY <2>1, <2>2, <2>3, Zenon
<1>8. Add(lru, size, t) = new
  BY DEF Add, new, rest
<1> QED
  BY <1>3, <1>6, <1>7, <1>8

\* What a new entry changes, in numbers.
LEMMA AddCounts ==
  ASSUME NEW lru \in Seq(Txs), NEW size \in Nat \ {0}, NEW t \in Txs, ~Contains(lru, t),
         NEW u \in Txs
  PROVE  /\ Held(lru, u) \in Nat /\ Held(Add(lru, size, t), u) \in Nat
         /\ Gone(lru, size, u) \in Nat
         /\ Held(Add(lru, size, t), u) + Gone(lru, size, u)
              >= Held(lru, u) + (IF u = t THEN 1 ELSE 0)
<1>1. /\ Contains(Add(lru, size, t), t)
      /\ Contains(lru, u) /\ ~Contains(Add(lru, size, t), u) => u \in Evicted(lru, size)
  BY AddFacts, Zenon
<1> QED
  BY <1>1 DEF Held, Gone

\* One more fault of a kind.
LEMMA CountFacts ==
  ASSUME lost \in [Kinds -> [Txs -> Nat]], NEW k \in Kinds, NEW t \in Txs
  PROVE  /\ Count(k, t) \in [Kinds -> [Txs -> Nat]]
         /\ Count(k, t)[k][t] = lost[k][t] + 1
         /\ \A u \in Txs : u # t => Count(k, t)[k][u] = lost[k][u]
         /\ \A j \in Kinds : j # k => Count(k, t)[j] = lost[j]
  BY DEF Count

\* Evictions are counted.
LEMMA EvictFacts ==
  ASSUME lost \in [Kinds -> [Txs -> Nat]], NEW k \in Kinds, NEW lru, NEW size
  PROVE  /\ Evict(k, lru, size) \in [Kinds -> [Txs -> Nat]]
         /\ \A u \in Txs : Evict(k, lru, size)[k][u] = lost[k][u] + Gone(lru, size, u)
         /\ \A j \in Kinds : j # k => Evict(k, lru, size)[j] = lost[j]
  BY DEF Evict, Gone

\* The kinds are five.
LEMMA KindFacts ==
  /\ "emit" \in Kinds /\ "post" \in Kinds /\ "sent" \in Kinds /\ "cache" \in Kinds
  /\ "restart" \in Kinds
  /\ "emit" # "post" /\ "emit" # "sent" /\ "emit" # "cache" /\ "emit" # "restart"
  /\ "post" # "sent" /\ "post" # "cache" /\ "post" # "restart"
  /\ "sent" # "cache" /\ "sent" # "restart" /\ "cache" # "restart"
  BY DEF Kinds

\* A stored write that was not acknowledged.
LEMMA CountEmit ==
  ASSUME Typed, NEW t \in Txs, lost' = Count("emit", t)
  PROVE  /\ lost' \in [Kinds -> [Txs -> Nat]] /\ lost'["emit"][t] = lost["emit"][t] + 1
         /\ \A u \in Txs : u # t => lost'["emit"][u] = lost["emit"][u]
         /\ lost'["post"] = lost["post"] /\ lost'["sent"] = lost["sent"]
         /\ lost'["cache"] = lost["cache"] /\ lost'["restart"] = lost["restart"]
<1>1. lost \in [Kinds -> [Txs -> Nat]]
  BY DEF Typed
<1>2. "emit" \in Kinds
  BY KindFacts, Zenon
<1>3. /\ lost' \in [Kinds -> [Txs -> Nat]]
      /\ lost'["emit"][t] = lost["emit"][t] + 1
      /\ \A u \in Txs : u # t => lost'["emit"][u] = lost["emit"][u]
      /\ \A j \in Kinds : j # "emit" => lost'[j] = lost[j]
  BY <1>1, <1>2, CountFacts, Zenon
<1> QED
  BY <1>3, KindFacts

\* A POST that failed.
LEMMA CountPost ==
  ASSUME Typed, NEW t \in Txs, lost' = Count("post", t)
  PROVE  /\ lost' \in [Kinds -> [Txs -> Nat]] /\ lost'["post"][t] = lost["post"][t] + 1
         /\ \A u \in Txs : u # t => lost'["post"][u] = lost["post"][u]
         /\ lost'["emit"] = lost["emit"] /\ lost'["sent"] = lost["sent"]
         /\ lost'["cache"] = lost["cache"] /\ lost'["restart"] = lost["restart"]
<1>1. lost \in [Kinds -> [Txs -> Nat]]
  BY DEF Typed
<1>2. "post" \in Kinds
  BY KindFacts, Zenon
<1>3. /\ lost' \in [Kinds -> [Txs -> Nat]]
      /\ lost'["post"][t] = lost["post"][t] + 1
      /\ \A u \in Txs : u # t => lost'["post"][u] = lost["post"][u]
      /\ \A j \in Kinds : j # "post" => lost'[j] = lost[j]
  BY <1>1, <1>2, CountFacts, Zenon
<1> QED
  BY <1>3, KindFacts

\* A new entry in the service's cache.
LEMMA EvictSent ==
  ASSUME Typed, lost' = Evict("sent", sent, SentSize)
  PROVE  /\ lost' \in [Kinds -> [Txs -> Nat]]
         /\ \A u \in Txs : lost'["sent"][u] = lost["sent"][u] + Gone(sent, SentSize, u)
         /\ lost'["emit"] = lost["emit"] /\ lost'["post"] = lost["post"]
         /\ lost'["cache"] = lost["cache"] /\ lost'["restart"] = lost["restart"]
<1>1. lost \in [Kinds -> [Txs -> Nat]]
  BY DEF Typed
<1>2. "sent" \in Kinds
  BY KindFacts, Zenon
<1> DEFINE e == Evict("sent", sent, SentSize)
<1>3. /\ e \in [Kinds -> [Txs -> Nat]]
      /\ \A u \in Txs : e["sent"][u] = lost["sent"][u] + Gone(sent, SentSize, u)
      /\ \A j \in Kinds : j # "sent" => e[j] = lost[j]
  BY <1>1, <1>2, EvictFacts
<1> HIDE DEF e
<1>4. lost' = e
  BY DEF e
<1> QED
  BY <1>3, <1>4, KindFacts

\* A new entry in the relay's cache.
LEMMA EvictCache ==
  ASSUME Typed, lost' = Evict("cache", cache, RelaySize)
  PROVE  /\ lost' \in [Kinds -> [Txs -> Nat]]
         /\ \A u \in Txs : lost'["cache"][u] = lost["cache"][u] + Gone(cache, RelaySize, u)
         /\ lost'["emit"] = lost["emit"] /\ lost'["post"] = lost["post"]
         /\ lost'["sent"] = lost["sent"] /\ lost'["restart"] = lost["restart"]
<1>1. lost \in [Kinds -> [Txs -> Nat]]
  BY DEF Typed
<1>2. "cache" \in Kinds
  BY KindFacts, Zenon
<1> DEFINE e == Evict("cache", cache, RelaySize)
<1>3. /\ e \in [Kinds -> [Txs -> Nat]]
      /\ \A u \in Txs : e["cache"][u] = lost["cache"][u] + Gone(cache, RelaySize, u)
      /\ \A j \in Kinds : j # "cache" => e[j] = lost[j]
  BY <1>1, <1>2, EvictFacts
<1> HIDE DEF e
<1>4. lost' = e
  BY DEF e
<1> QED
  BY <1>3, <1>4, KindFacts

\* The counts of one transaction are natural numbers.
LEMMA LostNat ==
  ASSUME Typed, NEW u \in Txs
  PROVE  /\ lost["emit"][u] \in Nat /\ lost["post"][u] \in Nat /\ lost["sent"][u] \in Nat
         /\ lost["cache"][u] \in Nat /\ lost["restart"][u] \in Nat /\ posts[u] \in Nat
         /\ Held(cache, u) \in {0, 1} /\ Held(sent, u) \in {0, 1}
<1>1. \A k \in Kinds : lost[k][u] \in Nat
  BY DEF Typed
<1>2. Held(cache, u) \in {0, 1} /\ Held(sent, u) \in {0, 1} /\ posts[u] \in Nat
  BY DEF Held, Typed
<1> QED
  BY <1>1, <1>2, KindFacts, Zenon

\* The larger of two offsets.
LEMMA MaxFacts ==
  ASSUME NEW a \in Nat, NEW b \in Nat
  PROVE  Max({a, b}) = IF a >= b THEN a ELSE b
<1> DEFINE m == IF a >= b THEN a ELSE b
<1>1. m \in {a, b} /\ \A y \in {a, b} : m >= y
  OBVIOUS
<1>2. \A x \in {a, b} : (\A y \in {a, b} : x >= y) => x = m
  OBVIOUS
<1> HIDE DEF m
<1>3. Max({a, b}) = m
  BY <1>1, <1>2 DEF Max
<1> QED
  BY <1>3 DEF m

\* A message goes behind the others of its partition.
LEMMA WriteFacts ==
  ASSUME topic \in [Parts -> Seq(Txs \cup {Foreign})], NEW p \in Parts, NEW t \in Txs, Write(p, t)
  PROVE  /\ topic' \in [Parts -> Seq(Txs \cup {Foreign})]
         /\ \A q \in Parts : /\ Len(topic[q]) \in Nat /\ Len(topic'[q]) \in Nat
                             /\ Len(topic'[q]) >= Len(topic[q])
                             /\ \A k \in 1 .. Len(topic[q]) : topic'[q][k] = topic[q][k]
                             /\ q # p => topic'[q] = topic[q]
         /\ Len(topic'[p]) = Len(topic[p]) + 1 /\ topic'[p][Len(topic[p]) + 1] = t
         /\ Queued(t)'
<1>1. topic'[p] = Append(topic[p], t) /\ \A q \in Parts : q # p => topic'[q] = topic[q]
  BY DEF Write
<1>2. topic[p] \in Seq(Txs \cup {Foreign}) /\ t \in Txs \cup {Foreign}
  OBVIOUS
<1>3. /\ Append(topic[p], t) \in Seq(Txs \cup {Foreign})
      /\ Len(Append(topic[p], t)) = Len(topic[p]) + 1
      /\ \A i \in 1 .. Len(topic[p]) : Append(topic[p], t)[i] = topic[p][i]
      /\ Append(topic[p], t)[Len(topic[p]) + 1] = t
  BY <1>2, Appending
<1>4. topic' \in [Parts -> Seq(Txs \cup {Foreign})]
  BY <1>3 DEF Write
<1>5. \A q \in Parts : Len(topic[q]) \in Nat /\ Len(topic'[q]) \in Nat
  BY <1>4
<1>6. Queued(t)'
  <2>1. Len(topic[p]) + 1 \in 1 .. Len(topic'[p])
    BY <1>1, <1>3, <1>5
  <2> QED
    BY <1>1, <1>3, <2>1 DEF Queued, Contains
<1>7. \A q \in Parts : /\ Len(topic'[q]) >= Len(topic[q])
                      /\ \A k \in 1 .. Len(topic[q]) : topic'[q][k] = topic[q][k]
  <2> SUFFICES ASSUME NEW q \in Parts
               PROVE  /\ Len(topic'[q]) >= Len(topic[q])
                      /\ \A k \in 1 .. Len(topic[q]) : topic'[q][k] = topic[q][k]
    BY Zenon
  <2>1. CASE q # p
    BY <1>1, <1>5, <2>1
  <2>2. CASE q = p
    <3>1. Len(topic'[p]) = Len(topic[p]) + 1
      BY <1>1, <1>3, Zenon
    <3>2. \A k \in 1 .. Len(topic[p]) : topic'[p][k] = topic[p][k]
      BY <1>1, <1>3, Zenon
    <3>3. Len(topic[p]) \in Nat
      BY <1>5, Zenon
    <3>4. Len(topic[p]) + 1 >= Len(topic[p])
      BY <3>3
    <3> QED
      BY <2>2, <3>1, <3>2, <3>4, Zenon
  <2> QED
    BY <2>1, <2>2, Zenon
<1> QED
  BY <1>1, <1>3, <1>4, <1>5, <1>6, <1>7, Zenon

-----------------------------------------------------------------------------
(* Types.                                                                   *)

\* The initial values have their types.
LEMMA InitTyped ==
  Init => Typed
<1> SUFFICES ASSUME Init PROVE Typed
  OBVIOUS
<1>1. topic \in [Parts -> Seq(Txs \cup {Foreign})]
  <2>1. PICK m \in {<<>>, <<Foreign>>} : topic = [p \in Parts |-> m]
    BY DEF Init
  <2>2. << >> \in Seq(Txs \cup {Foreign}) /\ << Foreign >> \in Seq(Txs \cup {Foreign})
    OBVIOUS
  <2>3. m \in Seq(Txs \cup {Foreign})
    BY <2>2, Zenon
  <2> QED
    BY <2>1, <2>3
<1>2. /\ sent \in Seq(Txs) /\ cache \in Seq(Txs)
      /\ client \in [Clients -> [at : {"idle", "check", "emit"}, tx : Txs \cup {Nil}]]
      /\ \A c \in Clients : client[c].at # "idle" => client[c].tx \in Txs
  BY DEF Init, Idle
<1>3. /\ next \in [Parts -> Nat] /\ marked \in [Parts -> Nat] /\ committed \in [Parts -> Nat]
      /\ post \in [Parts -> Txs \cup {Nil}] /\ known \in SUBSET Txs
  BY DEF Init
<1>4. /\ answers \in [{"ok", "known", "error"} -> SUBSET Txs]
      /\ lost \in [Kinds -> [Txs -> Nat]] /\ posts \in [Txs -> Nat]
  BY DEF Init
<1> QED
  BY <1>1, <1>2, <1>3, <1>4 DEF Typed

\* A client whose request ends is idle again, and its transaction has one more answer.
LEMMA ReplyFacts ==
  ASSUME Typed, NEW c \in Clients, client[c].tx \in Txs, NEW a \in {"ok", "known", "error"},
         Reply(c, a)
  PROVE  /\ client' \in [Clients -> [at : {"idle", "check", "emit"}, tx : Txs \cup {Nil}]]
         /\ \A d \in Clients : client'[d].at # "idle" => client'[d].tx \in Txs
         /\ client'[c].at = "idle" /\ \A d \in Clients : d # c => client'[d] = client[d]
         /\ answers' \in [{"ok", "known", "error"} -> SUBSET Txs]
         /\ answers'[a] = answers[a] \cup {client[c].tx}
         /\ \A b \in {"ok", "known", "error"} : b # a => answers'[b] = answers[b]
  BY DEF Typed, Reply, Idle

\* The steps of the service keep the types.
LEMMA ServiceTyped ==
  ASSUME Typed, NEW c \in Clients, ServiceStep(c)
  PROVE  Typed'
<1>1. ASSUME NEW t \in Txs, SendRawTransaction(c, t) PROVE Typed'
  <2>1. CASE Contains(sent, t)
    <3>1. /\ answers' = [answers EXCEPT !["known"] = @ \cup {t}]
          /\ UNCHANGED <<client, sent, lost, topic, next, marked, committed, post, cache, known,
                         posts>>
      BY <1>1, <2>1 DEF SendRawTransaction, relay
    <3>2. answers' \in [{"ok", "known", "error"} -> SUBSET Txs]
      BY <3>1 DEF Typed
    <3> QED
      BY <3>1, <3>2 DEF Typed
  <2>2. CASE ~Contains(sent, t)
    <3>1. /\ sent' = Add(sent, SentSize, t) /\ lost' = Evict("sent", sent, SentSize)
          /\ client' = [client EXCEPT ![c] = [at |-> "check", tx |-> t]]
          /\ UNCHANGED <<answers, topic, next, marked, committed, post, cache, known, posts>>
      BY <1>1, <2>2 DEF SendRawTransaction, relay
    <3>2. sent' \in Seq(Txs)
      BY <3>1, AddFacts, RelayAssumption DEF Typed
    <3>3. lost' \in [Kinds -> [Txs -> Nat]]
      BY <3>1, EvictSent, Zenon
    <3>4. /\ client' \in [Clients -> [at : {"idle", "check", "emit"}, tx : Txs \cup {Nil}]]
          /\ \A d \in Clients : client'[d].at # "idle" => client'[d].tx \in Txs
      BY <3>1 DEF Typed
    <3> QED
      BY <3>1, <3>2, <3>3, <3>4 DEF Typed
  <2> QED
    BY <2>1, <2>2
<1>2. CASE Check(c)
  <2>1. /\ client[c].at = "check" /\ client[c].tx \in Txs
        /\ UNCHANGED <<sent, lost, topic, next, marked, committed, post, cache, known, posts>>
    BY <1>2 DEF Check, relay, Typed
  <2>2. CASE client' = [client EXCEPT ![c].at = "emit"] /\ UNCHANGED answers
    <3>0. client[c] \in [at : {"idle", "check", "emit"}, tx : Txs \cup {Nil}]
      BY DEF Typed
    <3>a. PICK m : m = [client[c] EXCEPT !.at = "emit"]
      BY Zenon
    <3>b. /\ m \in [at : {"idle", "check", "emit"}, tx : Txs \cup {Nil}]
          /\ m.tx = client[c].tx
      BY <3>0, <3>a
    <3>c. client' = [client EXCEPT ![c] = m]
      BY <2>2, <3>a
    <3>1. /\ client' \in [Clients -> [at : {"idle", "check", "emit"}, tx : Txs \cup {Nil}]]
          /\ \A d \in Clients : client'[d].at # "idle" => client'[d].tx \in Txs
      BY <2>1, <3>b, <3>c DEF Typed
    <3> QED
      BY <2>1, <2>2, <3>1 DEF Typed
  <2>3. CASE Reply(c, "error")
    BY <2>1, <2>3, ReplyFacts, Zenon DEF Typed
  <2> QED
    BY <1>2, <2>2, <2>3 DEF Check
<1>3. CASE Emit(c)
  <2>1. /\ client[c].tx \in Txs /\ Reply(c, "ok")
        /\ UNCHANGED <<sent, lost, next, marked, committed, post, cache, known, posts>>
    BY <1>3 DEF Emit, relay, Typed
  <2>2. topic' \in [Parts -> Seq(Txs \cup {Foreign})]
    BY <1>3, <2>1, WriteFacts, Zenon DEF Emit, Typed
  <2> QED
    BY <2>1, <2>2, ReplyFacts, Zenon DEF Typed
<1>4. CASE EmitFails(c)
  <2>1. /\ client[c].tx \in Txs /\ Reply(c, "error")
        /\ UNCHANGED <<sent, next, marked, committed, post, cache, known, posts>>
    BY <1>4 DEF EmitFails, relay, Typed
  <2>2. topic' \in [Parts -> Seq(Txs \cup {Foreign})]
    BY <1>4, <2>1, WriteFacts, Zenon DEF EmitFails, Typed
  <2>3. lost' \in [Kinds -> [Txs -> Nat]]
    <3>1. lost' = lost \/ lost' = Count("emit", client[c].tx)
      BY <1>4 DEF EmitFails
    <3>2. lost \in [Kinds -> [Txs -> Nat]]
      BY DEF Typed
    <3> QED
      BY <2>1, <3>1, <3>2, CountEmit, Zenon
  <2> QED
    BY <2>1, <2>2, <2>3, ReplyFacts, Zenon DEF Typed
<1>5. CASE EmitRepeats(c)
  <2>1. /\ client[c].tx \in Txs /\ lost' = Count("emit", client[c].tx)
        /\ UNCHANGED <<sent, client, answers, next, marked, committed, post, cache, known, posts>>
    BY <1>5 DEF EmitRepeats, service, relay, Typed
  <2>2. topic' \in [Parts -> Seq(Txs \cup {Foreign})]
    BY <1>5, <2>1, WriteFacts, Zenon DEF EmitRepeats, Typed
  <2>3. lost' \in [Kinds -> [Txs -> Nat]]
    BY <2>1, CountEmit, Zenon
  <2> QED
    BY <2>1, <2>2, <2>3 DEF Typed
<1> QED
  BY <1>1, <1>2, <1>3, <1>4, <1>5 DEF ServiceStep

\* A message that is skipped, and one that is posted.
Skips(p, n, t) ==
  /\ t = Foreign \/ Contains(cache, t)
  /\ marked' = marked \/ marked' = [marked EXCEPT ![p] = n]
  /\ cache' = cache /\ post' = post /\ posts' = posts /\ lost' = lost
Takes(p, t) ==
  /\ t \in Txs /\ ~Contains(cache, t)
  /\ cache' = Add(cache, RelaySize, t)
  /\ lost' = Evict("cache", cache, RelaySize)
  /\ post' = [post EXCEPT ![p] = t]
  /\ posts' = [posts EXCEPT ![t] = posts[t] + 1]
  /\ marked' = marked

\* Reading on: the message and what is done about it.
LEMMA ReceiveFacts ==
  ASSUME Typed, Offsets, NEW p \in Parts, Receive(p), NEW n, n = next[p] + 1,
         NEW t, t = topic[p][n]
  PROVE  /\ post[p] = Nil /\ n \in 1 .. Len(topic[p]) /\ t \in Txs \cup {Foreign}
         /\ next' = [next EXCEPT ![p] = n]
         /\ sent' = sent /\ client' = client /\ answers' = answers /\ topic' = topic
         /\ committed' = committed /\ known' = known
         /\ Skips(p, n, t) \/ Takes(p, t)
<1>1. /\ post[p] = Nil /\ next[p] < Len(topic[p])
      /\ next' = [next EXCEPT ![p] = n]
      /\ sent' = sent /\ client' = client /\ answers' = answers /\ topic' = topic
      /\ committed' = committed /\ known' = known
      /\ \/ /\ t = Foreign
            /\ marked' = marked
            /\ cache' = cache /\ post' = post /\ posts' = posts /\ lost' = lost
         \/ /\ t # Foreign /\ Contains(cache, t)
            /\ Mark(p, n)
            /\ cache' = cache /\ post' = post /\ posts' = posts /\ lost' = lost
         \/ /\ t # Foreign /\ ~Contains(cache, t)
            /\ cache' = Add(cache, RelaySize, t)
            /\ lost' = Evict("cache", cache, RelaySize)
            /\ post' = [post EXCEPT ![p] = t]
            /\ posts' = [posts EXCEPT ![t] = posts[t] + 1]
            /\ marked' = marked
  BY Zenon DEF Receive, service
<1>2. /\ next[p] \in Nat /\ marked[p] \in Nat /\ marked[p] <= next[p]
      /\ topic[p] \in Seq(Txs \cup {Foreign})
  BY DEF Typed, Offsets
<1>3. n \in 1 .. Len(topic[p])
  BY <1>1, <1>2
<1>4. t \in Txs \cup {Foreign}
  BY <1>2, <1>3
<1>5. Mark(p, n) => marked' = [marked EXCEPT ![p] = n]
  <2>1. n \in Nat /\ ~(marked[p] >= n)
    BY <1>2
  <2>2. Max({marked[p], n}) = n
    BY <1>2, <2>1, MaxFacts, Zenon
  <2> QED
    BY <2>2, Zenon DEF Mark
<1>6. Skips(p, n, t) \/ Takes(p, t)
  BY <1>1, <1>4, <1>5, Zenon DEF Skips, Takes
<1> QED
  BY <1>1, <1>3, <1>4, <1>6, Zenon

\* A POST that succeeds marks the message.
LEMMA PostedFacts ==
  ASSUME Typed, Offsets, NEW p \in Parts, Posted(p)
  PROVE  /\ post[p] \in Txs /\ known' = known \cup {post[p]}
         /\ marked' = [marked EXCEPT ![p] = next[p]] /\ post' = [post EXCEPT ![p] = Nil]
         /\ UNCHANGED <<sent, client, answers, topic, next, committed, cache, posts, lost>>
<1>1. /\ post[p] \in Txs /\ next[p] \in Nat /\ marked[p] \in Nat /\ marked[p] < next[p]
  BY DEF Posted, Typed, Offsets
<1>2. Max({marked[p], next[p]}) = next[p]
  BY <1>1, MaxFacts
<1> QED
  BY <1>1, <1>2, Zenon DEF Posted, Mark, service

\* The steps of the relay keep the types.
LEMMA RelayTyped ==
  ASSUME Typed, Offsets, NEW p \in Parts, RelayStep(p) \/ Commit(p)
  PROVE  Typed'
<1>1. CASE Receive(p)
  <2>0. PICK n, t : n = next[p] + 1 /\ t = topic[p][n]
    BY Zenon
  <2>1. /\ n \in 1 .. Len(topic[p]) /\ next' = [next EXCEPT ![p] = n]
        /\ sent' = sent /\ client' = client /\ answers' = answers /\ topic' = topic
        /\ committed' = committed /\ known' = known
    BY <1>1, <2>0, ReceiveFacts, Zenon
  <2>2. n \in Nat
    BY <2>1
  <2>3. next' \in [Parts -> Nat]
    BY <2>1, <2>2 DEF Typed
  <2>4. /\ cache' \in Seq(Txs) /\ lost' \in [Kinds -> [Txs -> Nat]]
        /\ post' \in [Parts -> Txs \cup {Nil}] /\ posts' \in [Txs -> Nat]
        /\ marked' \in [Parts -> Nat]
    <3>1. CASE Skips(p, n, t)
      BY <2>2, <3>1 DEF Typed, Skips
    <3>2. CASE Takes(p, t)
      <4>0. /\ t \in Txs /\ cache' = Add(cache, RelaySize, t)
            /\ lost' = Evict("cache", cache, RelaySize)
            /\ post' = [post EXCEPT ![p] = t]
            /\ posts' = [posts EXCEPT ![t] = posts[t] + 1]
            /\ marked' = marked
        BY <3>2, Zenon DEF Takes
      <4>1. cache \in Seq(Txs)
        BY DEF Typed
      <4>2. cache' \in Seq(Txs)
        BY <4>0, <4>1, AddFacts, RelayAssumption, Zenon
      <4>3. lost' \in [Kinds -> [Txs -> Nat]]
        BY <4>0, EvictCache, Zenon
      <4>4. post' \in [Parts -> Txs \cup {Nil}] /\ posts' \in [Txs -> Nat]
        BY <4>0 DEF Typed
      <4> QED
        BY <4>0, <4>2, <4>3, <4>4, Zenon DEF Typed
    <3>3. Skips(p, n, t) \/ Takes(p, t)
      BY <1>1, <2>0, ReceiveFacts, Zenon
    <3> QED
      BY <3>1, <3>2, <3>3, Zenon
  <2> QED
    BY <2>1, <2>3, <2>4, Zenon DEF Typed
<1>2. CASE Posted(p)
  <2>1. /\ known' \in SUBSET Txs /\ marked' \in [Parts -> Nat]
        /\ post' \in [Parts -> Txs \cup {Nil}]
    BY <1>2, PostedFacts, Zenon DEF Typed
  <2> QED
    BY <1>2, <2>1, PostedFacts, Zenon DEF Typed
<1>3. CASE PostFails(p)
  <2>1. /\ post[p] \in Txs /\ lost' = Count("post", post[p])
        /\ known' \in {known, known \cup {post[p]}} /\ post' = [post EXCEPT ![p] = Nil]
        /\ UNCHANGED <<sent, client, answers, topic, next, marked, committed, cache, posts>>
    BY <1>3 DEF PostFails, service, Typed
  <2>2. lost' \in [Kinds -> [Txs -> Nat]]
    BY <2>1, CountPost, Zenon
  <2>3. known' \in SUBSET Txs /\ post' \in [Parts -> Txs \cup {Nil}]
    BY <2>1 DEF Typed
  <2> QED
    BY <2>1, <2>2, <2>3, Zenon DEF Typed
<1>4. CASE Commit(p)
  BY <1>4 DEF Commit, service, Typed
<1> QED
  BY <1>1, <1>2, <1>3, <1>4 DEF RelayStep

\* The relay stops and starts again.
LEMMA BreakTyped ==
  ASSUME Typed, SessionEnds \/ Restart
  PROVE  Typed'
<1>1. CASE SessionEnds
  BY <1>1 DEF SessionEnds, Resume, service, Typed
<1>2. CASE Restart
  <2>1. /\ next' = committed /\ marked' = committed /\ post' = [p \in Parts |-> Nil]
        /\ cache' = <<>>
        /\ lost' = [lost EXCEPT !["restart"] = [t \in Txs |-> lost["restart"][t] + 1]]
        /\ UNCHANGED <<sent, client, answers, topic, committed, posts>>
    BY <1>2 DEF Restart, Resume, service
  <2>2. known' \in SUBSET Txs
    BY <1>2 DEF Restart, Typed
  <2>3. lost' \in [Kinds -> [Txs -> Nat]]
    BY <2>1 DEF Typed, Kinds
  <2> QED
    BY <2>1, <2>2, <2>3 DEF Typed
<1> QED
  BY <1>1, <1>2

\* Every step keeps the types.
LEMMA NextTyped ==
  ASSUME Typed, Offsets, [Next]_vars
  PROVE  Typed'
<1>1. CASE Mine
  BY <1>1 DEF Mine, relay, Typed
<1>2. CASE UNCHANGED vars
  BY <1>2 DEF vars, Typed
<1> QED
  BY <1>1, <1>2, ServiceTyped, RelayTyped, BreakTyped DEF Next

-----------------------------------------------------------------------------
(* The relay.                                                               *)

TopicGrows ==
  \A q \in Parts : /\ Len(topic'[q]) \in Nat /\ Len(topic'[q]) >= Len(topic[q])
                   /\ \A k \in 1 .. Len(topic[q]) : topic'[q][k] = topic[q][k]

\* What a service's step does to the topic and the history.
LEMMA ServiceFacts ==
  ASSUME Typed, NEW c \in Clients, ServiceStep(c)
  PROVE  /\ TopicGrows /\ UNCHANGED <<next, marked, committed, post, cache, known, posts>>
         /\ \A k \in {"post", "cache", "restart"} : lost'[k] = lost[k]
<1>1. topic' = topic => TopicGrows
  BY DEF TopicGrows, Typed
<1>2. ASSUME NEW p \in Parts, NEW t \in Txs, Write(p, t) PROVE TopicGrows
  <2>1. topic \in [Parts -> Seq(Txs \cup {Foreign})]
    BY DEF Typed
  <2> QED
    BY <1>2, <2>1, WriteFacts DEF TopicGrows
<1>3. \A k \in {"post", "cache", "restart"} : k \in Kinds /\ k # "emit" /\ k # "sent"
  BY DEF Kinds
<1>4. ASSUME NEW t \in Txs, SendRawTransaction(c, t)
      PROVE  \A k \in {"post", "cache", "restart"} : lost'[k] = lost[k]
  <2>1. lost' = lost \/ lost' = Evict("sent", sent, SentSize)
    BY <1>4 DEF SendRawTransaction
  <2> QED
    BY <1>3, <2>1, EvictSent, Zenon
<1>5. ASSUME lost' = Count("emit", client[c].tx), client[c].tx \in Txs
      PROVE  \A k \in {"post", "cache", "restart"} : lost'[k] = lost[k]
  BY <1>3, <1>5, CountEmit, Zenon
<1>6. ASSUME NEW t \in Txs, SendRawTransaction(c, t)
      PROVE  topic' = topic /\ UNCHANGED <<next, marked, committed, post, cache, known, posts>>
  BY <1>6 DEF SendRawTransaction, relay
<1>7. CASE Check(c)
  BY <1>1, <1>7 DEF Check, relay
<1>8. client[c].at = "emit" => client[c].tx \in Txs
  BY DEF Typed
<1>9. CASE Emit(c)
  BY <1>2, <1>8, <1>9, Zenon DEF Emit, relay
<1>10. CASE EmitFails(c)
  BY <1>1, <1>2, <1>5, <1>8, <1>10, Zenon DEF EmitFails, relay
<1>11. CASE EmitRepeats(c)
  BY <1>2, <1>5, <1>8, <1>11, Zenon DEF EmitRepeats, relay
<1> QED
  BY <1>1, <1>4, <1>6, <1>7, <1>9, <1>10, <1>11 DEF ServiceStep

\* Whatever the service does, the relay's part of the invariant stays.
LEMMA ServiceKeepsRelay ==
  ASSUME RelayInv, TopicGrows, UNCHANGED <<next, marked, committed, post, cache, known, posts>>,
         \A k \in {"post", "cache", "restart"} : lost'[k] = lost[k]
  PROVE  (Offsets /\ CacheBacked /\ ReadAccounted /\ PostsExplained)'
<1>1. \A p \in Parts : /\ Len(topic[p]) \in Nat /\ next[p] \in Nat /\ next[p] <= Len(topic[p])
                       /\ committed[p] <= marked[p] /\ marked[p] <= next[p]
                       /\ Len(topic'[p]) \in Nat /\ Len(topic'[p]) >= Len(topic[p])
  BY DEF RelayInv, Typed, Offsets, TopicGrows
<1>2. Offsets'
  <2> SUFFICES ASSUME NEW p \in Parts
               PROVE  /\ committed[p] <= marked[p] /\ marked[p] <= next[p]
                      /\ next[p] <= Len(topic'[p])
                      /\ post[p] # Nil => /\ next[p] >= 1 /\ topic'[p][next[p]] = post[p]
                                          /\ marked[p] < next[p]
    BY DEF Offsets
  <2>1. next[p] <= Len(topic'[p])
    BY <1>1
  <2>2. next[p] >= 1 => topic'[p][next[p]] = topic[p][next[p]]
    BY <1>1 DEF TopicGrows
  <2> QED
    BY <1>1, <2>1, <2>2 DEF RelayInv, Offsets
<1>3. \A t : Settled(t)' <=> Settled(t)
  BY DEF Settled
<1>4. \A t : Posting(t)' <=> Posting(t)
  BY DEF Posting
<1>5. ASSUME NEW t, Unread(t) PROVE Unread(t)'
  <2>0. PICK p \in Parts : \E k \in 1 .. Len(topic[p]) : k > next[p] /\ topic[p][k] = t
    BY <1>5 DEF Unread
  <2>1. PICK k \in 1 .. Len(topic[p]) : k > next[p] /\ topic[p][k] = t
    BY <2>0
  <2>2. k \in 1 .. Len(topic'[p]) /\ topic'[p][k] = t
    BY <1>1, <2>1 DEF TopicGrows
  <2> QED
    BY <2>1, <2>2 DEF Unread
<1>6. CacheBacked'
  BY <1>3, <1>4 DEF CacheBacked, RelayInv
<1>7. ReadAccounted'
  <2> SUFFICES ASSUME NEW t \in Txs, NEW p \in Parts, NEW k \in 1 .. next[p], topic'[p][k] = t
               PROVE  Settled(t)' \/ Posting(t)' \/ Unread(t)'
    BY DEF ReadAccounted
  <2>1. topic'[p][k] = topic[p][k]
    BY <1>1 DEF TopicGrows
  <2>2. Settled(t) \/ Posting(t) \/ Unread(t)
    BY <2>1 DEF RelayInv, ReadAccounted
  <2> QED
    BY <1>3, <1>4, <1>5, <2>2
<1>8. PostsExplained'
  BY DEF PostsExplained, RelayInv
<1> QED
  BY <1>2, <1>6, <1>7, <1>8, Zenon

\* Reading a message keeps it.
LEMMA ReceiveKeepsRelay ==
  ASSUME RelayInv, NEW p \in Parts, Receive(p)
  PROVE  (Offsets /\ CacheBacked /\ ReadAccounted /\ PostsExplained)'
<1>0. PICK n, t : n = next[p] + 1 /\ t = topic[p][n]
  BY Zenon
<1>1. Typed /\ Offsets /\ CacheBacked /\ ReadAccounted /\ PostsExplained
  BY DEF RelayInv
<1>2. /\ post[p] = Nil /\ n \in 1 .. Len(topic[p]) /\ t \in Txs \cup {Foreign}
      /\ next' = [next EXCEPT ![p] = n]
      /\ topic' = topic /\ committed' = committed /\ known' = known
  BY <1>0, <1>1, ReceiveFacts, Zenon
<1>3. /\ next'[p] = n /\ \A q \in Parts : q # p => next'[q] = next[q]
      /\ \A q \in Parts : /\ next[q] \in Nat /\ marked[q] \in Nat /\ committed[q] \in Nat
                          /\ Len(topic[q]) \in Nat
  BY <1>1, <1>2 DEF Typed
<1>4. Skips(p, n, t) \/ Takes(p, t)
  BY <1>0, <1>1, ReceiveFacts, Zenon
<1>a. cache \in Seq(Txs)
  BY <1>1 DEF Typed
<1>b. ASSUME Takes(p, t)
      PROVE  /\ t \in Txs /\ Contains(cache', t)
             /\ \A u \in Txs : Contains(cache', u) => u = t \/ Contains(cache, u)
             /\ post'[p] = t /\ \A q \in Parts : q # p => post'[q] = post[q]
             /\ marked' = marked
  <2>1. /\ t \in Txs /\ cache' = Add(cache, RelaySize, t) /\ post' = [post EXCEPT ![p] = t]
        /\ marked' = marked
    BY <1>b, Zenon DEF Takes
  <2>2. /\ Contains(cache', t)
        /\ \A u \in Txs : Contains(cache', u) => u = t \/ Contains(cache, u)
    BY <1>a, <2>1, AddFacts, RelayAssumption, Zenon
  <2>3. post \in [Parts -> Txs \cup {Nil}]
    BY <1>1 DEF Typed
  <2> QED
    BY <2>1, <2>2, <2>3
<1>c. ASSUME Skips(p, n, t)
      PROVE  /\ t = Foreign \/ Contains(cache, t)
             /\ marked'[p] = marked[p] \/ marked'[p] = n
             /\ \A q \in Parts : q # p => marked'[q] = marked[q]
             /\ cache' = cache /\ post' = post /\ posts' = posts /\ lost' = lost
  <2>1. /\ t = Foreign \/ Contains(cache, t)
        /\ marked' = marked \/ marked' = [marked EXCEPT ![p] = n]
        /\ cache' = cache /\ post' = post /\ posts' = posts /\ lost' = lost
    BY <1>c, Zenon DEF Skips
  <2>2. marked \in [Parts -> Nat]
    BY <1>1 DEF Typed
  <2>3. /\ marked'[p] = marked[p] \/ marked'[p] = n
        /\ \A q \in Parts : q # p => marked'[q] = marked[q]
    BY <2>1, <2>2
  <2> QED
    BY <2>1, <2>3, Zenon
<1>5. lost'["post"] = lost["post"] /\ lost'["restart"] = lost["restart"]
  <2>1. CASE Skips(p, n, t)
    BY <1>c, <2>1, Zenon
  <2>2. CASE Takes(p, t)
    <3>1. lost' = Evict("cache", cache, RelaySize)
      BY <2>2, Zenon DEF Takes
    <3> QED
      BY <1>1, <3>1, EvictCache, Zenon
  <2> QED
    BY <1>4, <2>1, <2>2, Zenon
<1>6. \A u : Settled(u)' <=> Settled(u)
  BY <1>2, <1>5 DEF Settled
<1>7. \A u : u # Nil /\ Posting(u) => Posting(u)'
  <2> SUFFICES ASSUME NEW u, u # Nil, Posting(u) PROVE Posting(u)'
    OBVIOUS
  <2>1. PICK q \in Parts : post[q] = u
    BY DEF Posting
  <2>2. q # p
    BY <1>2, <2>1, Zenon
  <2>3. post'[q] = u
    BY <1>4, <1>b, <1>c, <2>1, <2>2, Zenon
  <2> QED
    BY <2>3 DEF Posting
<1>8. CacheBacked'
  <2> SUFFICES ASSUME NEW u \in Txs, Contains(cache', u) PROVE Settled(u)' \/ Posting(u)'
    BY DEF CacheBacked
  <2>1. CASE Contains(cache, u)
    <3>1. u # Nil
      BY RelayAssumption, Zenon
    <3> QED
      BY <1>1, <1>6, <1>7, <2>1, <3>1, Zenon DEF CacheBacked
  <2>2. CASE ~Contains(cache, u)
    <3>1. post'[p] = u
      BY <1>4, <1>b, <1>c, <2>2, Zenon
    <3> QED
      BY <3>1, Zenon DEF Posting
  <2> QED
    BY <2>1, <2>2, Zenon
<1>9. t # Foreign => Contains(cache', t)
  BY <1>4, <1>b, <1>c, Zenon
<1>10. ASSUME NEW u \in Txs, u = t PROVE Settled(u)' \/ Posting(u)'
  <2>1. Contains(cache', u)
    BY <1>9, <1>10, RelayAssumption, Zenon
  <2> QED
    BY <1>8, <2>1 DEF CacheBacked
<1>11. ReadAccounted'
  <2> SUFFICES ASSUME NEW u \in Txs, NEW q \in Parts, NEW k \in 1 .. next'[q], topic[q][k] = u
               PROVE  Settled(u)' \/ Posting(u)' \/ Unread(u)'
    BY <1>2 DEF ReadAccounted
  <2>1. CASE u = t
    BY <1>10, <2>1
  <2>2. CASE u # t
    <3>1. k \in 1 .. next[q]
      <4>1. q = p => k # n
        BY <1>0, <2>2, Zenon
      <4> QED
        BY <1>0, <1>3, <4>1
    <3>2. Settled(u) \/ Posting(u) \/ Unread(u)
      BY <1>1, <3>1 DEF ReadAccounted
    <3>3. ASSUME Unread(u) PROVE Unread(u)'
      <4>1. PICK r \in Parts : \E j \in 1 .. Len(topic[r]) : j > next[r] /\ topic[r][j] = u
        BY <3>3 DEF Unread
      <4>2. PICK j \in 1 .. Len(topic[r]) : j > next[r] /\ topic[r][j] = u
        BY <4>1
      <4>3. j > next'[r]
        <5>1. r = p => j # n
          BY <1>0, <2>2, <4>2, Zenon
        <5> QED
          BY <1>0, <1>3, <4>2, <5>1
      <4> QED
        BY <1>2, <4>2, <4>3 DEF Unread
    <3> QED
      BY <1>6, <1>7, <3>2, <3>3, RelayAssumption, Zenon
  <2> QED
    BY <2>1, <2>2
<1>12. Offsets'
  <2> SUFFICES ASSUME NEW q \in Parts
               PROVE  /\ committed[q] <= marked'[q] /\ marked'[q] <= next'[q]
                      /\ next'[q] <= Len(topic[q])
                      /\ post'[q] # Nil => /\ next'[q] >= 1 /\ topic[q][next'[q]] = post'[q]
                                           /\ marked'[q] < next'[q]
    BY <1>2 DEF Offsets
  <2>1. /\ committed[q] <= marked[q] /\ marked[q] <= next[q] /\ next[q] <= Len(topic[q])
        /\ post[q] # Nil => next[q] >= 1 /\ topic[q][next[q]] = post[q] /\ marked[q] < next[q]
    BY <1>1 DEF Offsets
  <2>2. CASE q # p
    <3>1. marked'[q] = marked[q] /\ post'[q] = post[q] /\ next'[q] = next[q]
      BY <1>3, <1>4, <1>b, <1>c, <2>2, Zenon
    <3> QED
      BY <2>1, <3>1, Zenon
  <2>3. CASE q = p
    <3>1. /\ marked'[p] = marked[p] \/ marked'[p] = n
          /\ post'[p] = Nil \/ (post'[p] = t /\ marked'[p] = marked[p])
      BY <1>2, <1>4, <1>b, <1>c, Zenon
    <3>2. /\ committed[p] <= marked[p] /\ marked[p] <= next[p] /\ n = next[p] + 1
          /\ n \in 1 .. Len(topic[p]) /\ next[p] \in Nat /\ marked[p] \in Nat
          /\ committed[p] \in Nat /\ Len(topic[p]) \in Nat /\ topic[p][n] = t
      BY <1>0, <1>2, <1>3, <2>1, <2>3, Zenon
    <3>3. /\ committed[p] <= marked'[p] /\ marked'[p] <= n /\ n <= Len(topic[p]) /\ n >= 1
          /\ marked'[p] = marked[p] => marked'[p] < n
      BY <3>1, <3>2
    <3> QED
      BY <1>3, <2>3, <3>1, <3>2, <3>3, Zenon
  <2> QED
    BY <2>2, <2>3, Zenon
<1>13. PostsExplained'
  <2> SUFFICES ASSUME NEW u \in Txs
               PROVE  posts'[u] <= lost'["cache"][u] + lost'["restart"][u] + Held(cache', u)
    BY DEF PostsExplained
  <2>1. posts[u] <= lost["cache"][u] + lost["restart"][u] + Held(cache, u)
    BY <1>1, Zenon DEF PostsExplained
  <2>2. CASE Skips(p, n, t)
    BY <1>c, <2>1, <2>2, Zenon
  <2>3. CASE Takes(p, t)
    <3>1. /\ t \in Txs /\ ~Contains(cache, t) /\ cache' = Add(cache, RelaySize, t)
          /\ lost' = Evict("cache", cache, RelaySize)
          /\ posts' = [posts EXCEPT ![t] = posts[t] + 1]
      BY <2>3, Zenon DEF Takes
    <3>2. /\ lost'["cache"][u] = lost["cache"][u] + Gone(cache, RelaySize, u)
          /\ lost'["restart"][u] = lost["restart"][u]
      BY <1>1, <3>1, EvictCache, Zenon
    <3>3. /\ Held(cache, u) \in Nat /\ Held(cache', u) \in Nat
          /\ Gone(cache, RelaySize, u) \in Nat
          /\ Held(cache', u) + Gone(cache, RelaySize, u)
               >= Held(cache, u) + (IF u = t THEN 1 ELSE 0)
      BY <1>a, <3>1, AddCounts, RelayAssumption, Zenon
    <3>4. posts'[u] = posts[u] + (IF u = t THEN 1 ELSE 0)
      <4>1. posts \in [Txs -> Nat]
        BY <1>1 DEF Typed
      <4> QED
        BY <3>1, <4>1
    <3>5. lost["cache"][u] \in Nat /\ lost["restart"][u] \in Nat /\ posts[u] \in Nat
      BY <1>1, LostNat, Zenon
    <3> QED
      BY <2>1, <3>2, <3>3, <3>4, <3>5
  <2> QED
    BY <1>4, <2>2, <2>3, Zenon
<1> QED
  BY <1>8, <1>11, <1>12, <1>13

\* The end of a POST, well or not, settles its transaction.
LEMMA PostKeepsRelay ==
  ASSUME RelayInv, NEW p \in Parts, Posted(p) \/ PostFails(p)
  PROVE  (Offsets /\ CacheBacked /\ ReadAccounted /\ PostsExplained)'
<1>1. /\ Typed /\ Offsets /\ CacheBacked /\ ReadAccounted /\ PostsExplained
  BY DEF RelayInv
<1>2. /\ post[p] \in Txs /\ post' = [post EXCEPT ![p] = Nil]
      /\ marked' = marked \/ marked' = [marked EXCEPT ![p] = next[p]]
      /\ known \in SUBSET known' /\ UNCHANGED <<topic, next, committed, cache, posts>>
      /\ post[p] \in known' \/ lost' = Count("post", post[p])
      /\ lost' = lost \/ lost' = Count("post", post[p])
  <2>1. CASE Posted(p)
    BY <1>1, <2>1, PostedFacts
  <2>2. CASE PostFails(p)
    BY <1>1, <2>2 DEF PostFails, service, Typed
  <2> QED
    BY <2>1, <2>2
<1>3. /\ lost'["cache"] = lost["cache"] /\ lost'["restart"] = lost["restart"]
      /\ \A u \in Txs : lost["post"][u] > 0 => lost'["post"][u] > 0
      /\ post[p] \in known' \/ lost'["post"][post[p]] > 0
  <2>1. \A u \in Txs : lost["post"][u] \in Nat
    BY <1>1 DEF Typed, Kinds
  <2>2. lost' = Count("post", post[p]) =>
          /\ lost'["cache"] = lost["cache"] /\ lost'["restart"] = lost["restart"]
          /\ lost'["post"][post[p]] = lost["post"][post[p]] + 1
          /\ \A u \in Txs : u # post[p] => lost'["post"][u] = lost["post"][u]
    BY <1>1, <1>2, CountPost, Zenon
  <2>3. \A x \in Nat : x + 1 > 0
    OBVIOUS
  <2>4. CASE lost' = lost
    BY <1>2, <2>1, <2>2, <2>3, <2>4, Zenon
  <2>5. CASE lost' = Count("post", post[p])
    BY <1>2, <2>1, <2>2, <2>3, <2>5, Zenon
  <2> QED
    BY <1>2, <2>4, <2>5, Zenon
<1>4. \A u : u = post[p] => Settled(u)'
  BY <1>3, Zenon DEF Settled
<1>5. \A u \in Txs : Settled(u) => Settled(u)'
  BY <1>2, <1>3, Zenon DEF Settled
<1>6. \A u \in Txs : Posting(u) => Posting(u)' \/ Settled(u)'
  <2> SUFFICES ASSUME NEW u \in Txs, Posting(u) PROVE Posting(u)' \/ Settled(u)'
    OBVIOUS
  <2>1. PICK q \in Parts : post[q] = u
    BY DEF Posting
  <2>2. q # p => post'[q] = u
    BY <1>1, <1>2, <2>1 DEF Typed
  <2> QED
    BY <1>4, <2>1, <2>2 DEF Posting
<1>7. \A u : Unread(u)' <=> Unread(u)
  BY <1>2, Zenon DEF Unread
<1>8. CacheBacked'
  BY <1>1, <1>2, <1>5, <1>6, Zenon DEF CacheBacked
<1>9. ReadAccounted'
  <2> SUFFICES ASSUME NEW u \in Txs, NEW q \in Parts, NEW k \in 1 .. next[q], topic[q][k] = u
               PROVE  Settled(u)' \/ Posting(u)' \/ Unread(u)'
    BY <1>2 DEF ReadAccounted
  <2>1. Settled(u) \/ Posting(u) \/ Unread(u)
    BY <1>1 DEF ReadAccounted
  <2> QED
    BY <1>5, <1>6, <1>7, <2>1, Zenon
<1>10. Offsets'
  <2> SUFFICES ASSUME NEW q \in Parts
               PROVE  /\ committed[q] <= marked'[q] /\ marked'[q] <= next[q]
                      /\ next[q] <= Len(topic[q])
                      /\ post'[q] # Nil => /\ next[q] >= 1 /\ topic[q][next[q]] = post'[q]
                                           /\ marked'[q] < next[q]
    BY <1>2 DEF Offsets
  <2>1. /\ committed[q] <= marked[q] /\ marked[q] <= next[q] /\ next[q] <= Len(topic[q])
        /\ post[q] # Nil => next[q] >= 1 /\ topic[q][next[q]] = post[q] /\ marked[q] < next[q]
        /\ committed[q] \in Nat /\ marked[q] \in Nat /\ next[q] \in Nat
    BY <1>1 DEF Offsets, Typed
  <2>2. /\ q # p => post'[q] = post[q] /\ marked'[q] = marked[q]
        /\ q = p => post'[q] = Nil /\ marked'[q] \in {marked[q], next[q]}
    BY <1>1, <1>2, Zenon DEF Typed
  <2> QED
    BY <2>1, <2>2
<1>11. PostsExplained'
  BY <1>1, <1>2, <1>3 DEF PostsExplained
<1> QED
  BY <1>8, <1>9, <1>10, <1>11

\* A commit forgets no more than what is marked.
LEMMA CommitKeepsRelay ==
  ASSUME RelayInv, NEW p \in Parts, Commit(p)
  PROVE  (Offsets /\ CacheBacked /\ ReadAccounted /\ PostsExplained)'
<1>1. /\ committed' = [committed EXCEPT ![p] = marked[p]]
      /\ UNCHANGED <<topic, next, marked, post, cache, known, posts, lost>>
  BY DEF Commit
<1>2. Offsets'
  <2> SUFFICES ASSUME NEW q \in Parts
               PROVE  /\ committed'[q] <= marked[q] /\ marked[q] <= next[q]
                      /\ next[q] <= Len(topic[q])
                      /\ post[q] # Nil => /\ next[q] >= 1 /\ topic[q][next[q]] = post[q]
                                          /\ marked[q] < next[q]
    BY <1>1 DEF Offsets
  <2>1. committed'[q] = committed[q] \/ committed'[q] = marked[q]
    BY <1>1 DEF RelayInv, Typed
  <2>2. marked[q] <= marked[q]
    BY DEF RelayInv, Typed
  <2>3. /\ committed[q] <= marked[q] /\ marked[q] <= next[q] /\ next[q] <= Len(topic[q])
        /\ post[q] # Nil => next[q] >= 1 /\ topic[q][next[q]] = post[q] /\ marked[q] < next[q]
    BY DEF RelayInv, Offsets
  <2>4. committed'[q] <= marked[q]
    BY <2>1, <2>2, <2>3, Zenon
  <2> QED
    BY <2>3, <2>4, Zenon
<1>3. (CacheBacked /\ ReadAccounted /\ PostsExplained)'
  BY <1>1 DEF RelayInv, CacheBacked, ReadAccounted, PostsExplained, Settled, Posting, Unread
<1> QED
  BY <1>2, <1>3

\* A session that ends, or a relay that is killed, has every unposted message read again.
LEMMA BreakKeepsRelay ==
  ASSUME RelayInv, SessionEnds \/ Restart
  PROVE  (Offsets /\ CacheBacked /\ ReadAccounted /\ PostsExplained)'
<1>1. /\ Typed /\ Offsets /\ CacheBacked /\ ReadAccounted /\ PostsExplained
  BY DEF RelayInv
<1>2. /\ next' = marked' /\ committed' = marked' /\ marked' \in {marked, committed}
      /\ post' = [p \in Parts |-> Nil] /\ known \in SUBSET known' /\ UNCHANGED <<topic, posts>>
      /\ lost'["post"] = lost["post"]
  <2>1. CASE SessionEnds
    <3>1. post = [p \in Parts |-> Nil]
      BY <1>1, <2>1 DEF SessionEnds, Typed
    <3> QED
      BY <2>1, <3>1 DEF SessionEnds, Resume
  <2>2. CASE Restart
    BY <1>1, <2>2 DEF Restart, Resume, Typed, Kinds
  <2> QED
    BY <2>1, <2>2, Zenon
<1>3. \A q \in Parts :
        /\ next[q] \in Nat /\ marked[q] \in Nat /\ committed[q] \in Nat /\ Len(topic[q]) \in Nat
        /\ next'[q] \in Nat /\ next'[q] <= marked[q] /\ marked[q] <= next[q]
        /\ next[q] <= Len(topic[q])
        /\ post[q] # Nil => next[q] >= 1 /\ topic[q][next[q]] = post[q] /\ marked[q] < next[q]
  <2> SUFFICES ASSUME NEW q \in Parts
               PROVE  /\ next[q] \in Nat /\ marked[q] \in Nat /\ committed[q] \in Nat
                      /\ Len(topic[q]) \in Nat
                      /\ next'[q] \in Nat /\ next'[q] <= marked[q] /\ marked[q] <= next[q]
                      /\ next[q] <= Len(topic[q])
                      /\ post[q] # Nil => /\ next[q] >= 1 /\ topic[q][next[q]] = post[q]
                                          /\ marked[q] < next[q]
    BY Zenon
  <2>1. next'[q] = marked[q] \/ next'[q] = committed[q]
    BY <1>2, Zenon
  <2>2. /\ next[q] \in Nat /\ marked[q] \in Nat /\ committed[q] \in Nat
        /\ Len(topic[q]) \in Nat
    BY <1>1 DEF Typed
  <2>3. /\ committed[q] <= marked[q] /\ marked[q] <= next[q] /\ next[q] <= Len(topic[q])
        /\ post[q] # Nil => next[q] >= 1 /\ topic[q][next[q]] = post[q] /\ marked[q] < next[q]
    BY <1>1, Zenon DEF Offsets
  <2>4. next'[q] \in Nat /\ next'[q] <= marked[q]
    BY <2>1, <2>2, <2>3
  <2> QED
    BY <2>2, <2>3, <2>4, Zenon
<1>4. Offsets'
  <2> SUFFICES ASSUME NEW q \in Parts
               PROVE  /\ committed'[q] <= marked'[q] /\ marked'[q] <= next'[q]
                      /\ next'[q] <= Len(topic[q]) /\ post'[q] = Nil
    BY <1>2 DEF Offsets
  <2> QED
    BY <1>2, <1>3
<1>5. \A u \in Txs : Settled(u) => Settled(u)'
  BY <1>2 DEF Settled
<1>6. ASSUME NEW u \in Txs, Posting(u) PROVE Unread(u)'
  <2>1. PICK q \in Parts : post[q] = u
    BY <1>6 DEF Posting
  <2>2. post[q] # Nil
    BY <2>1, RelayAssumption
  <2>3. next[q] \in 1 .. Len(topic[q]) /\ next[q] > next'[q] /\ topic[q][next[q]] = u
    BY <1>3, <2>1, <2>2
  <2> QED
    BY <1>2, <2>3 DEF Unread
<1>7. ASSUME NEW u, Unread(u) PROVE Unread(u)'
  <2>0. PICK q \in Parts : \E k \in 1 .. Len(topic[q]) : k > next[q] /\ topic[q][k] = u
    BY <1>7 DEF Unread
  <2>1. PICK k \in 1 .. Len(topic[q]) : k > next[q] /\ topic[q][k] = u
    BY <2>0
  <2>2. k > next'[q]
    BY <1>3, <2>1
  <2> QED
    BY <1>2, <2>1, <2>2 DEF Unread
<1>8. ReadAccounted'
  <2> SUFFICES ASSUME NEW u \in Txs, NEW q \in Parts, NEW k \in 1 .. next'[q], topic[q][k] = u
               PROVE  Settled(u)' \/ Posting(u)' \/ Unread(u)'
    BY <1>2 DEF ReadAccounted
  <2>1. k \in 1 .. next[q]
    BY <1>3
  <2>2. Settled(u) \/ Posting(u) \/ Unread(u)
    BY <1>1, <2>1 DEF ReadAccounted
  <2> QED
    BY <1>5, <1>6, <1>7, <2>2
<1>9. CacheBacked'
  <2>1. CASE SessionEnds
    <3>1. \A q \in Parts : post[q] = Nil
      BY <2>1 DEF SessionEnds
    <3>2. \A u \in Txs : ~Posting(u)
      BY <3>1, RelayAssumption DEF Posting
    <3>3. cache' = cache
      BY <2>1 DEF SessionEnds
    <3> QED
      BY <1>1, <1>5, <3>2, <3>3 DEF CacheBacked
  <2>2. CASE Restart
    BY <2>2 DEF Restart, CacheBacked, Contains
  <2> QED
    BY <2>1, <2>2
<1>10. PostsExplained'
  <2>1. CASE SessionEnds
    BY <1>1, <2>1 DEF SessionEnds, PostsExplained
  <2>2. CASE Restart
    <3> SUFFICES ASSUME NEW u \in Txs
                 PROVE  posts[u] <= lost'["cache"][u] + lost'["restart"][u] + Held(cache', u)
      BY <1>2 DEF PostsExplained
    <3>1. /\ lost'["cache"] = lost["cache"]
          /\ lost'["restart"] = [v \in Txs |-> lost["restart"][v] + 1]
      BY <1>1, <2>2 DEF Restart, Typed, Kinds
    <3>2. lost'["cache"][u] = lost["cache"][u] /\ lost'["restart"][u] = lost["restart"][u] + 1
      BY <3>1
    <3>3. posts[u] <= lost["cache"][u] + lost["restart"][u] + Held(cache, u)
      BY <1>1, Zenon DEF PostsExplained
    <3>4. /\ lost["cache"][u] \in Nat /\ lost["restart"][u] \in Nat /\ posts[u] \in Nat
          /\ Held(cache, u) \in {0, 1}
      BY <1>1, LostNat, Zenon
    <3>5. Held(cache', u) \in {0, 1}
      BY DEF Held
    <3> QED
      BY <3>2, <3>3, <3>4, <3>5
  <2> QED
    BY <2>1, <2>2
<1> QED
  BY <1>4, <1>8, <1>9, <1>10

\* Every step keeps the relay's invariant.
LEMMA NextKeepsRelay ==
  ASSUME RelayInv, [Next]_vars
  PROVE  RelayInv'
<1>1. Typed'
  BY NextTyped DEF RelayInv
<1>2. ASSUME NEW c \in Clients, ServiceStep(c)
      PROVE  (Offsets /\ CacheBacked /\ ReadAccounted /\ PostsExplained)'
  BY <1>2, ServiceFacts, ServiceKeepsRelay, Zenon DEF RelayInv
<1>3. ASSUME /\ topic' = topic /\ next' = next /\ marked' = marked /\ committed' = committed
             /\ post' = post /\ cache' = cache /\ known' = known /\ posts' = posts
             /\ lost' = lost
      PROVE  (Offsets /\ CacheBacked /\ ReadAccounted /\ PostsExplained)'
  <2>1. TopicGrows
    BY <1>3 DEF TopicGrows, RelayInv, Typed
  <2>2. UNCHANGED <<next, marked, committed, post, cache, known, posts>>
    BY <1>3
  <2>3. \A k \in {"post", "cache", "restart"} : lost'[k] = lost[k]
    BY <1>3
  <2> QED
    BY <2>1, <2>2, <2>3, ServiceKeepsRelay, Zenon
<1>4. ASSUME Mine
      PROVE  (Offsets /\ CacheBacked /\ ReadAccounted /\ PostsExplained)'
  <2>1. /\ topic' = topic /\ next' = next /\ marked' = marked /\ committed' = committed
        /\ post' = post /\ cache' = cache /\ known' = known /\ posts' = posts /\ lost' = lost
    BY <1>4 DEF Mine, relay
  <2> QED
    BY <1>3, <2>1, Zenon
<1>5. ASSUME UNCHANGED vars
      PROVE  (Offsets /\ CacheBacked /\ ReadAccounted /\ PostsExplained)'
  <2>1. /\ topic' = topic /\ next' = next /\ marked' = marked /\ committed' = committed
        /\ post' = post /\ cache' = cache /\ known' = known /\ posts' = posts /\ lost' = lost
    BY <1>5 DEF vars
  <2> QED
    BY <1>3, <2>1, Zenon
<1>6. ASSUME NEW p \in Parts, RelayStep(p) \/ Commit(p)
      PROVE  (Offsets /\ CacheBacked /\ ReadAccounted /\ PostsExplained)'
  BY <1>6, ReceiveKeepsRelay, PostKeepsRelay, CommitKeepsRelay DEF RelayStep
<1>7. (Offsets /\ CacheBacked /\ ReadAccounted /\ PostsExplained)'
  <2>1. CASE \E c \in Clients : ServiceStep(c)
    BY <1>2, <2>1, Zenon
  <2>2. CASE \E p \in Parts : RelayStep(p) \/ Commit(p)
    BY <1>6, <2>2, Zenon
  <2>3. CASE SessionEnds \/ Restart
    BY <2>3, BreakKeepsRelay, Zenon
  <2> QED
    BY <1>4, <1>5, <2>1, <2>2, <2>3, Zenon DEF Next
<1> QED
  BY <1>1, <1>7 DEF RelayInv

\* The relay's invariant holds initially.
LEMMA InitRelay ==
  Init => RelayInv
<1> SUFFICES ASSUME Init PROVE RelayInv
  OBVIOUS
<1>1. Typed
  BY InitTyped, Zenon
<1>2. Offsets
  BY <1>1 DEF Init, Offsets, Typed
<1>3. ReadAccounted
  <2>1. \A p \in Parts : 1 .. next[p] = {}
    BY DEF Init
  <2> QED
    BY <2>1, Zenon DEF ReadAccounted
<1>4. CacheBacked
  BY DEF Init, CacheBacked, Contains
<1>5. PostsExplained
  <2> SUFFICES ASSUME NEW u \in Txs
               PROVE  posts[u] <= lost["cache"][u] + lost["restart"][u] + Held(cache, u)
    BY DEF PostsExplained
  <2>1. posts[u] = 0
    BY DEF Init
  <2> QED
    BY <1>1, <2>1, LostNat
<1> QED
  BY <1>1, <1>2, <1>3, <1>4, <1>5 DEF RelayInv

-----------------------------------------------------------------------------
(* The service.                                                             *)

\* A transaction in a client's hands.
LEMMA HandlingFacts ==
  ASSUME Typed, NEW t
  PROVE  /\ IsFiniteSet(Handling(t)) /\ Cardinality(Handling(t)) \in Nat
         /\ \A c \in Handling(t) : Cardinality(Handling(t) \ {c}) = Cardinality(Handling(t)) - 1
         /\ InHand(t) <=> Handling(t) # {}
<1>1. IsFiniteSet(Handling(t))
  <2>1. Handling(t) \in SUBSET Clients
    BY DEF Handling
  <2> QED
    BY <2>1, FS_Subset, RelayAssumption
<1>2. InHand(t) <=> Handling(t) # {}
  BY DEF Handling, InHand, Typed
<1> QED
  BY <1>1, <1>2, FS_CardinalityType, FS_RemoveElement

\* A write adds one copy of its transaction and none of another.
LEMMA CopiesStep ==
  ASSUME Typed, NEW p \in Parts, NEW t \in Txs, Write(p, t), IsFiniteSet(Copies(t))
  PROVE  /\ IsFiniteSet(Copies(t))' /\ Cardinality(Copies(t))' = Cardinality(Copies(t)) + 1
         /\ \A u \in Txs : u # t => Copies(u)' = Copies(u)
<1> DEFINE m == <<p, Len(topic[p]) + 1>>
<1>0. topic \in [Parts -> Seq(Txs \cup {Foreign})]
  BY DEF Typed
<1>1. /\ topic' \in [Parts -> Seq(Txs \cup {Foreign})]
      /\ \A q \in Parts : /\ Len(topic[q]) \in Nat /\ Len(topic'[q]) \in Nat
                          /\ \A k \in 1 .. Len(topic[q]) : topic'[q][k] = topic[q][k]
                          /\ q # p => topic'[q] = topic[q]
      /\ Len(topic'[p]) = Len(topic[p]) + 1 /\ topic'[p][Len(topic[p]) + 1] = t
  BY <1>0, WriteFacts
<1>2. \A q \in Parts : /\ DOMAIN topic[q] = 1 .. Len(topic[q])
                      /\ DOMAIN topic'[q] = 1 .. Len(topic'[q])
  BY <1>0, <1>1
<1>3. ASSUME NEW u, NEW q, NEW k
      PROVE  /\ <<q, k>> \in Copies(u)
                 <=> q \in Parts /\ k \in 1 .. Len(topic[q]) /\ topic[q][k] = u
             /\ <<q, k>> \in Copies(u)'
                 <=> q \in Parts /\ k \in 1 .. Len(topic'[q]) /\ topic'[q][k] = u
  BY <1>2 DEF Copies
<1>4. ASSUME NEW u PROVE /\ \A x \in Copies(u) : x = <<x[1], x[2]>>
                         /\ \A x \in Copies(u)' : x = <<x[1], x[2]>>
  BY DEF Copies
<1>5. ASSUME NEW q \in Parts, NEW k
      PROVE  k \in 1 .. Len(topic'[q]) <=> k \in 1 .. Len(topic[q]) \/ <<q, k>> = m
  BY <1>1, <1>5
<1>6. ASSUME NEW u \in Txs, u # t PROVE Copies(u)' = Copies(u)
  <2>1. ASSUME NEW q, NEW k PROVE <<q, k>> \in Copies(u)' <=> <<q, k>> \in Copies(u)
    BY <1>1, <1>3, <1>5, <1>6
  <2> QED
    BY <1>4, <2>1
<1>7. Copies(t)' = Copies(t) \cup {m} /\ m \notin Copies(t)
  <2>1. ASSUME NEW q, NEW k PROVE <<q, k>> \in Copies(t)' <=> <<q, k>> \in Copies(t) \/ <<q, k>> = m
    BY <1>1, <1>3, <1>5
  <2>2. m \notin Copies(t)
    BY <1>1, <1>3
  <2> QED
    BY <1>4, <2>1, <2>2
<1>8. /\ IsFiniteSet(Copies(t) \cup {m})
      /\ Cardinality(Copies(t) \cup {m}) = Cardinality(Copies(t)) + 1
  BY <1>7, FS_AddElement, Zenon
<1> HIDE DEF m
<1> QED
  BY <1>6, <1>7, <1>8

\* What is in the topic stays there.
LEMMA QueuedStays ==
  ASSUME Typed, TopicGrows, NEW t, Queued(t)
  PROVE  Queued(t)'
<1>0. PICK p \in Parts : \E k \in 1 .. Len(topic[p]) : topic[p][k] = t
  BY DEF Queued, Contains
<1>1. PICK k \in 1 .. Len(topic[p]) : topic[p][k] = t
  BY <1>0, Zenon
<1>2. Len(topic[p]) \in Nat /\ Len(topic'[p]) \in Nat /\ Len(topic'[p]) >= Len(topic[p])
  BY DEF Typed, TopicGrows
<1>3. k \in 1 .. Len(topic'[p]) /\ topic'[p][k] = t
  BY <1>1, <1>2 DEF TopicGrows
<1> QED
  BY <1>3 DEF Queued, Contains

\* The counts of one transaction are natural numbers.
LEMMA CountsTyped ==
  ASSUME Typed, CopiesExplained, NEW t \in Txs
  PROVE  /\ lost["emit"][t] \in Nat /\ lost["sent"][t] \in Nat
         /\ IsFiniteSet(Copies(t)) /\ Cardinality(Copies(t)) \in Nat
         /\ Cardinality(Handling(t)) \in Nat
         /\ Cardinality(Copies(t)) + Cardinality(Handling(t))
              <= lost["emit"][t] + lost["sent"][t] + Held(sent, t)
         /\ Covered(Cardinality(Copies(t)), Cardinality(Handling(t)), lost["emit"][t],
                    lost["sent"][t], Held(sent, t))
<1>1. IsFiniteSet(Copies(t))
  BY Zenon DEF CopiesExplained
<1>2. /\ lost["emit"][t] \in Nat /\ lost["sent"][t] \in Nat /\ Cardinality(Copies(t)) \in Nat
      /\ Cardinality(Handling(t)) \in Nat
      /\ Cardinality(Copies(t)) + Cardinality(Handling(t))
           <= lost["emit"][t] + lost["sent"][t] + Held(sent, t)
  BY <1>1, HandlingFacts, LostNat, FS_CardinalityType, Zenon DEF CopiesExplained
<1>3. Held(sent, t) \in Nat
  BY DEF Held
<1> QED
  BY <1>1, <1>2, <1>3, Zenon DEF Covered

\* A new request: its transaction is in hand, and the cache has its hash.
LEMMA SendKeepsService ==
  ASSUME ServiceInv, NEW c \in Clients, NEW t \in Txs, SendRawTransaction(c, t)
  PROVE  (SentBacked /\ CopiesExplained)'
<1>0. Typed /\ SentBacked /\ CopiesExplained
  BY DEF ServiceInv
<1>1. client[c].at = "idle" /\ topic' = topic
  BY DEF SendRawTransaction
<1>2. \A u : (Queued(u)' <=> Queued(u)) /\ Copies(u)' = Copies(u)
  BY <1>1 DEF Queued, Copies
<1>3. CASE Contains(sent, t)
  <2>1. answers' = [answers EXCEPT !["known"] = @ \cup {t}] /\ UNCHANGED <<client, sent, lost>>
    BY <1>3 DEF SendRawTransaction
  <2>2. /\ answers'["known"] = answers["known"] \cup {t} /\ answers'["error"] = answers["error"]
        /\ answers'["ok"] = answers["ok"]
    BY <1>0, <2>1, Zenon DEF Typed
  <2>3. \A u : Handled(u)' <=> Handled(u)
    BY <1>2, <2>1, <2>2 DEF Handled, InHand
  <2>4. SentBacked'
    BY <1>0, <1>2, <1>3, <2>1, <2>2, <2>3 DEF SentBacked
  <2>5. CopiesExplained'
    BY <1>0, <1>2, <2>1, Zenon DEF CopiesExplained, Handling
  <2> QED
    BY <2>4, <2>5
<1>4. CASE ~Contains(sent, t)
  <2>1. /\ sent' = Add(sent, SentSize, t) /\ lost' = Evict("sent", sent, SentSize)
        /\ client' = [client EXCEPT ![c] = [at |-> "check", tx |-> t]] /\ UNCHANGED answers
    BY <1>4 DEF SendRawTransaction
  <2>2. /\ client'[c].at = "check" /\ client'[c].tx = t
        /\ \A d \in Clients : d # c => client'[d] = client[d]
    BY <1>0, <2>1, Zenon DEF Typed
  <2>3. InHand(t)' /\ \A u : InHand(u) => InHand(u)'
    BY <1>1, <2>2 DEF InHand
  <2>4. \A u : Handled(u) => Handled(u)'
    BY <1>2, <2>1, <2>3, Zenon DEF Handled
  <2>5. /\ Contains(sent', t)
        /\ \A u \in Txs : /\ Contains(sent', u) => u = t \/ Contains(sent, u)
                          /\ Contains(sent, u) /\ ~Contains(sent', u)
                               => u \in Evicted(sent, SentSize)
                          /\ u \in Evicted(sent, SentSize) => Contains(sent, u)
    BY <1>0, <2>1, AddFacts, RelayAssumption, Zenon DEF Typed
  <2>6. SentBacked'
    <3>1. Handled(t)'
      BY <2>3, Zenon DEF Handled
    <3> QED
      BY <1>0, <1>2, <2>1, <2>4, <2>5, <3>1, Zenon DEF SentBacked
  <2>7. CopiesExplained'
    <3> SUFFICES ASSUME NEW u \in Txs
                 PROVE  /\ IsFiniteSet(Copies(u))'
                        /\ Cardinality(Copies(u))' + Cardinality(Handling(u))'
                             <= lost'["emit"][u] + lost'["sent"][u]
                                  + Held(sent', u)
      BY Zenon DEF CopiesExplained
    <3>1. /\ lost'["sent"][u] = lost["sent"][u] + Gone(sent, SentSize, u)
          /\ lost'["emit"][u] = lost["emit"][u]
      BY <1>0, <2>1, EvictSent, Zenon
    <3>2. /\ IsFiniteSet(Copies(u)) /\ Cardinality(Handling(u)) \in Nat
          /\ Covered(Cardinality(Copies(u)), Cardinality(Handling(u)), lost["emit"][u],
                     lost["sent"][u], Held(sent, u))
      BY <1>0, CountsTyped, Zenon
    <3>3. u # t => Handling(u)' = Handling(u)
      BY <1>1, <2>2, Zenon DEF Handling
    <3>4. u = t => Cardinality(Handling(u))' = Cardinality(Handling(u)) + 1
      <4>1. Handling(t)' = Handling(t) \cup {c} /\ c \notin Handling(t)
        BY <1>1, <2>2, Zenon DEF Handling
      <4>2. IsFiniteSet(Handling(t))
        BY <1>0, HandlingFacts
      <4> QED
        BY <4>1, <4>2, FS_AddElement
    <3>5. Copies(u)' = Copies(u)
      BY <1>2
    <3>6. /\ Held(sent, u) \in Nat /\ Held(sent', u) \in Nat /\ Gone(sent, SentSize, u) \in Nat
          /\ Held(sent', u) + Gone(sent, SentSize, u) >= Held(sent, u) + (IF u = t THEN 1 ELSE 0)
      <4>1. sent \in Seq(Txs)
        BY <1>0 DEF Typed
      <4> QED
        BY <1>4, <2>1, <4>1, AddCounts, RelayAssumption, Zenon
    <3>7. Cardinality(Handling(u))' = Cardinality(Handling(u)) + (IF u = t THEN 1 ELSE 0)
      <4>1. CASE u = t
        BY <3>4, <4>1
      <4>2. CASE u # t
        BY <3>2, <3>3, <4>2
      <4> QED
        BY <4>1, <4>2
    <3>8. Cardinality(Copies(u))' = Cardinality(Copies(u)) /\ IsFiniteSet(Copies(u))'
      BY <3>2, <3>5, Zenon
    <3>9. (IF u = t THEN 1 ELSE 0) \in Nat
      OBVIOUS
    <3>10. Cardinality(Copies(u)) + (Cardinality(Handling(u)) + (IF u = t THEN 1 ELSE 0))
             <= lost["emit"][u] + (lost["sent"][u] + Gone(sent, SentSize, u)) + Held(sent', u)
      BY <3>2, <3>6, <3>9, CoveredSend, Zenon
    <3> QED
      BY <3>1, <3>7, <3>8, <3>10, Zenon
  <2> QED
    BY <2>6, <2>7
<1> QED
  BY <1>3, <1>4

\* A request that ends was refused, or its transaction is in the topic.
LEMMA ReplyKeepsService ==
  ASSUME ServiceInv, NEW c \in Clients, client[c].at # "idle", NEW t, client[c].tx = t,
         NEW a \in {"ok", "error"}, Reply(c, a), sent' = sent,
         \/ a = "error" /\ UNCHANGED <<topic, lost>>
         \/ /\ \E p \in Parts : Write(p, t)
            /\ lost' = lost \/ lost' = Count("emit", t)
  PROVE  (SentBacked /\ CopiesExplained)'
<1> DEFINE n == Cardinality(Copies(t))
<1>0. Typed /\ SentBacked /\ CopiesExplained /\ t \in Txs
  BY DEF ServiceInv, Typed
<1>1. /\ client'[c].at = "idle" /\ \A d \in Clients : d # c => client'[d] = client[d]
      /\ answers'[a] = answers[a] \cup {t}
      /\ \A b \in {"ok", "known", "error"} : b # a => answers'[b] = answers[b]
  BY <1>0, ReplyFacts, Zenon
<1>2. /\ IsFiniteSet(Copies(t))' /\ Cardinality(Copies(t))' \in {n, n + 1}
      /\ \A u \in Txs : u # t => Copies(u)' = Copies(u)
      /\ a = "ok" => Queued(t)'
      /\ \A u \in Txs : Queued(u) => Queued(u)'
  <2>1. IsFiniteSet(Copies(t)) /\ n \in Nat
    BY <1>0, CountsTyped, Zenon
  <2>2. CASE UNCHANGED <<topic, lost>> /\ a = "error"
    <3>1. topic' = topic
      BY <2>2, Zenon
    <3>2. \A u : Copies(u)' = Copies(u) /\ (Queued(u)' <=> Queued(u))
      BY <3>1, Zenon DEF Copies, Queued
    <3>3. a # "ok"
      BY <2>2
    <3> QED
      BY <2>1, <3>2, <3>3, Zenon
  <2>3. ASSUME NEW p \in Parts, Write(p, t)
        PROVE  /\ IsFiniteSet(Copies(t))' /\ Cardinality(Copies(t))' = n + 1
               /\ \A u \in Txs : u # t => Copies(u)' = Copies(u)
               /\ Queued(t)'
               /\ \A u \in Txs : Queued(u) => Queued(u)'
    <3>1. topic \in [Parts -> Seq(Txs \cup {Foreign})]
      BY <1>0, Zenon DEF Typed
    <3>2. Queued(t)' /\ TopicGrows
      BY <1>0, <2>3, <3>1, WriteFacts, Zenon DEF TopicGrows
    <3>3. \A u \in Txs : Queued(u) => Queued(u)'
      BY <1>0, <3>2, QueuedStays
    <3> QED
      BY <1>0, <2>1, <2>3, <3>2, <3>3, CopiesStep, Zenon
  <2>4. (UNCHANGED <<topic, lost>> /\ a = "error") \/ (\E p \in Parts : Write(p, t))
    BY Zenon
  <2> HIDE DEF n
  <2> QED
    BY <2>2, <2>3, <2>4, Zenon
<1>3. \A u \in Txs : Handled(u) => Handled(u)'
  <2> SUFFICES ASSUME NEW u \in Txs, Handled(u) PROVE Handled(u)'
    BY Zenon
  <2>1. CASE Queued(u) \/ u \in answers["error"]
    BY <1>1, <1>2, <2>1, Zenon DEF Handled
  <2>2. CASE InHand(u)
    <3>1. PICK d \in Clients : client[d].at \in {"check", "emit"} /\ client[d].tx = u
      BY <2>2 DEF InHand
    <3>2. CASE d # c
      BY <1>1, <3>1, <3>2, Zenon DEF InHand, Handled
    <3>3. CASE d = c
      <4>1. u = t
        BY <3>1, <3>3, Zenon
      <4>2. a = "ok" \/ u \in answers'["error"]
        BY <1>1, <4>1, Zenon
      <4> QED
        BY <1>2, <4>1, <4>2, Zenon DEF Handled
    <3> QED
      BY <3>2, <3>3, Zenon
  <2> QED
    BY <2>1, <2>2, Zenon DEF Handled
<1>4. SentBacked'
  <2>1. \A u \in Txs : Contains(sent', u) => Handled(u)'
    BY <1>0, <1>3, Zenon DEF SentBacked
  <2>2. /\ answers["ok"] \in SUBSET Txs /\ answers["known"] \in SUBSET Txs
        /\ answers'["known"] = answers["known"]
        /\ answers'["ok"] = answers["ok"] \/ (a = "ok" /\ answers'["ok"] = answers["ok"] \cup {t})
    BY <1>0, <1>1, Zenon DEF Typed
  <2>3. \A u \in answers'["ok"] : Queued(u)'
    BY <1>0, <1>2, <2>2, Zenon DEF SentBacked
  <2>4. \A u \in answers'["known"] : Handled(u)'
    BY <1>0, <1>3, <2>2, Zenon DEF SentBacked
  <2> QED
    BY <2>1, <2>3, <2>4, Zenon DEF SentBacked
<1>5. CopiesExplained'
  <2> SUFFICES ASSUME NEW u \in Txs
               PROVE  /\ IsFiniteSet(Copies(u))'
                      /\ Cardinality(Copies(u))' + Cardinality(Handling(u))'
                           <= lost'["emit"][u] + lost'["sent"][u]
                                + Held(sent, u)
    BY Zenon DEF CopiesExplained
  <2>1. /\ IsFiniteSet(Copies(u))
        /\ Covered(Cardinality(Copies(u)), Cardinality(Handling(u)), lost["emit"][u],
                   lost["sent"][u], Held(sent, u))
    BY <1>0, CountsTyped, Zenon
  <2>2. /\ lost'["sent"][u] = lost["sent"][u]
        /\ lost'["emit"][u] = lost["emit"][u] \/ lost'["emit"][u] = lost["emit"][u] + 1
    <3>1. lost' = lost \/ lost' = Count("emit", t)
      BY Zenon
    <3> QED
      BY <1>0, <2>1, <3>1, CountEmit, Zenon
  <2>3. u # t => Handling(u)' = Handling(u)
    BY <1>1 DEF Handling
  <2>4. u = t => Cardinality(Handling(u))' = Cardinality(Handling(u)) - 1
    <3>1. Handling(t)' = Handling(t) \ {c} /\ c \in Handling(t)
      BY <1>1, Zenon DEF Handling
    <3> QED
      BY <1>0, <3>1, HandlingFacts, Zenon
  <2>5. CASE u = t
    <3>1. /\ Cardinality(Copies(u))' \in {Cardinality(Copies(u)), Cardinality(Copies(u)) + 1}
          /\ IsFiniteSet(Copies(u))'
      BY <1>2, <2>5, Zenon DEF n
    <3>2. Cardinality(Handling(u))' = Cardinality(Handling(u)) - 1
      BY <2>4, <2>5, Zenon
    <3>3. /\ Cardinality(Copies(u))' + (Cardinality(Handling(u)) - 1)
               <= lost["emit"][u] + lost["sent"][u] + Held(sent, u)
          /\ Cardinality(Copies(u))' + (Cardinality(Handling(u)) - 1)
               <= (lost["emit"][u] + 1) + lost["sent"][u] + Held(sent, u)
      BY <2>1, <3>1, CoveredReply, Zenon
    <3> QED
      BY <2>2, <3>1, <3>2, <3>3, Zenon
  <2>6. CASE u # t
    <3>1. Copies(u)' = Copies(u) /\ Handling(u)' = Handling(u)
      BY <1>2, <2>3, <2>6, Zenon
    <3>2. /\ Cardinality(Copies(u))' = Cardinality(Copies(u))
          /\ Cardinality(Handling(u))' = Cardinality(Handling(u)) /\ IsFiniteSet(Copies(u))'
      BY <2>1, <3>1, Zenon
    <3>3. /\ Cardinality(Copies(u)) + Cardinality(Handling(u))
               <= lost["emit"][u] + lost["sent"][u] + Held(sent, u)
          /\ Cardinality(Copies(u)) + Cardinality(Handling(u))
               <= (lost["emit"][u] + 1) + lost["sent"][u] + Held(sent, u)
      BY <2>1, CoveredReply, Zenon
    <3> QED
      BY <2>2, <3>2, <3>3, Zenon
  <2> QED
    BY <2>5, <2>6, Zenon
<1> QED
  BY <1>4, <1>5, Zenon

\* Every step of the service keeps its invariant.
LEMMA ServiceKeepsService ==
  ASSUME ServiceInv, NEW c \in Clients, ServiceStep(c)
  PROVE  (SentBacked /\ CopiesExplained)'
<1>0. Typed /\ SentBacked /\ CopiesExplained
  BY DEF ServiceInv
<1>1. ASSUME NEW t \in Txs, SendRawTransaction(c, t) PROVE (SentBacked /\ CopiesExplained)'
  BY <1>1, SendKeepsService
<1>2. CASE Check(c)
  <2>1. client[c].at = "check" /\ UNCHANGED <<topic, lost, sent>>
    BY <1>2, Zenon DEF Check
  <2>2. CASE Reply(c, "error")
    BY <2>1, <2>2, ReplyKeepsService
  <2>3. CASE client' = [client EXCEPT ![c].at = "emit"] /\ UNCHANGED answers
    <3>1. /\ client'[c].at = "emit" /\ client'[c].tx = client[c].tx
          /\ \A d \in Clients : d # c => client'[d] = client[d]
      BY <1>0, <2>3 DEF Typed
    <3>2. \A u : (InHand(u)' <=> InHand(u)) /\ Handling(u)' = Handling(u)
      BY <2>1, <3>1, Zenon DEF InHand, Handling
    <3>3. \A u : (Queued(u)' <=> Queued(u)) /\ Copies(u)' = Copies(u)
      BY <2>1 DEF Queued, Copies
    <3>4. \A u : Handled(u)' <=> Handled(u)
      BY <2>3, <3>2, <3>3, Zenon DEF Handled
    <3> QED
      BY <1>0, <2>1, <2>3, <3>2, <3>3, <3>4 DEF SentBacked, CopiesExplained
  <2> QED
    BY <1>2, <2>2, <2>3 DEF Check
<1>3. CASE Emit(c)
  <2>1. /\ client[c].at # "idle" /\ Reply(c, "ok") /\ sent' = sent /\ lost' = lost
        /\ \E p \in Parts : Write(p, client[c].tx)
    BY <1>3, Zenon DEF Emit
  <2> QED
    BY <2>1, ReplyKeepsService, Zenon
<1>4. CASE EmitFails(c)
  <2>1. /\ client[c].at # "idle" /\ Reply(c, "error") /\ sent' = sent
        /\ \/ UNCHANGED <<topic, lost>>
           \/ /\ \E p \in Parts : Write(p, client[c].tx)
              /\ lost' = Count("emit", client[c].tx)
    BY <1>4 DEF EmitFails
  <2> QED
    BY <2>1, ReplyKeepsService, Zenon
<1>5. CASE EmitRepeats(c)
  <2>0. PICK t : t = client[c].tx
    OBVIOUS
  <2>1. /\ t \in Txs /\ lost' = Count("emit", t) /\ UNCHANGED <<sent, client, answers>>
    BY <1>0, <1>5, <2>0, Zenon DEF EmitRepeats, service, Typed
  <2>2. PICK p \in Parts : Write(p, t)
    BY <1>5, <2>0 DEF EmitRepeats
  <2>3. TopicGrows
    <3>1. topic \in [Parts -> Seq(Txs \cup {Foreign})]
      BY <1>0 DEF Typed
    <3> QED
      BY <2>1, <2>2, <3>1, WriteFacts DEF TopicGrows
  <2>4. \A u \in Txs : Queued(u) => Queued(u)'
    BY <1>0, <2>3, QueuedStays, Zenon
  <2>5. \A u \in Txs : Handled(u) => Handled(u)'
    BY <2>1, <2>4 DEF Handled, InHand
  <2>6. SentBacked'
    <3>1. answers["ok"] \in SUBSET Txs /\ answers["known"] \in SUBSET Txs
      BY <1>0 DEF Typed
    <3> QED
      BY <1>0, <2>1, <2>4, <2>5, <3>1, Zenon DEF SentBacked
  <2>7. CopiesExplained'
    <3> SUFFICES ASSUME NEW u \in Txs
                 PROVE  /\ IsFiniteSet(Copies(u))'
                        /\ Cardinality(Copies(u))' + Cardinality(Handling(u))'
                             <= lost'["emit"][u] + lost'["sent"][u]
                                  + Held(sent, u)
      BY <2>1, Zenon DEF CopiesExplained
    <3>1. /\ IsFiniteSet(Copies(u))
          /\ Covered(Cardinality(Copies(u)), Cardinality(Handling(u)), lost["emit"][u],
                     lost["sent"][u], Held(sent, u))
      BY <1>0, CountsTyped, Zenon
    <3>2. /\ lost'["sent"][u] = lost["sent"][u]
          /\ u = t => lost'["emit"][u] = lost["emit"][u] + 1
          /\ u # t => lost'["emit"][u] = lost["emit"][u]
      BY <1>0, <2>1, CountEmit, Zenon
    <3>3. Handling(u)' = Handling(u)
      BY <2>1 DEF Handling
    <3>4. /\ u # t => Copies(u)' = Copies(u)
          /\ u = t => /\ IsFiniteSet(Copies(u))'
                      /\ Cardinality(Copies(u))' = Cardinality(Copies(u)) + 1
      <4>1. IsFiniteSet(Copies(t))
        BY <1>0, <2>1, Zenon DEF CopiesExplained
      <4>2. /\ IsFiniteSet(Copies(t))' /\ Cardinality(Copies(t))' = Cardinality(Copies(t)) + 1
            /\ \A v \in Txs : v # t => Copies(v)' = Copies(v)
        BY <1>0, <2>1, <2>2, <4>1, CopiesStep, Zenon
      <4> QED
        BY <4>2, Zenon
    <3>5. /\ Cardinality(Handling(u))' = Cardinality(Handling(u))
          /\ IsFiniteSet(Copies(u))'
          /\ u # t => Cardinality(Copies(u))' = Cardinality(Copies(u))
      BY <3>1, <3>3, <3>4, Zenon
    <3>6. /\ (Cardinality(Copies(u)) + 1) + Cardinality(Handling(u))
               <= (lost["emit"][u] + 1) + lost["sent"][u] + Held(sent, u)
          /\ Cardinality(Copies(u)) + Cardinality(Handling(u))
               <= lost["emit"][u] + lost["sent"][u] + Held(sent, u)
      BY <3>1, CoveredEmit, Zenon
    <3> QED
      BY <3>2, <3>4, <3>5, <3>6, Zenon
  <2> QED
    BY <2>6, <2>7
<1> QED
  BY <1>1, <1>2, <1>3, <1>4, <1>5 DEF ServiceStep

\* A step that is not the service's leaves what its invariant speaks of alone.
LEMMA OtherKeepsService ==
  ASSUME ServiceInv, UNCHANGED <<sent, client, answers, topic>>,
         lost'["emit"] = lost["emit"], lost'["sent"] = lost["sent"]
  PROVE  (SentBacked /\ CopiesExplained)'
<1>1. \A t : /\ Queued(t)' <=> Queued(t)
             /\ InHand(t)' <=> InHand(t)
             /\ Copies(t)' = Copies(t)
             /\ Handling(t)' = Handling(t)
  BY Zenon DEF Queued, Copies, InHand, Handling
<1>2. \A t : Handled(t)' <=> Handled(t)
  BY <1>1 DEF Handled
<1> QED
  BY <1>1, <1>2, Zenon DEF ServiceInv, SentBacked, CopiesExplained

\* Every step keeps the service's invariant.
LEMMA NextKeepsService ==
  ASSUME ServiceInv, Offsets, [Next]_vars
  PROVE  ServiceInv'
<1>0. Typed /\ Typed'
  BY NextTyped DEF ServiceInv
<1>1. ASSUME Mine PROVE (SentBacked /\ CopiesExplained)'
  <2>1. UNCHANGED <<sent, client, answers, topic>> /\ lost' = lost
    BY <1>1 DEF Mine
  <2> QED
    BY <2>1, OtherKeepsService, Zenon
<1>2. ASSUME UNCHANGED vars PROVE (SentBacked /\ CopiesExplained)'
  <2>1. UNCHANGED <<sent, client, answers, topic>> /\ lost' = lost
    BY <1>2 DEF vars
  <2> QED
    BY <2>1, OtherKeepsService, Zenon
<1>3. ASSUME NEW p \in Parts, Receive(p) PROVE (SentBacked /\ CopiesExplained)'
  <2>1. /\ UNCHANGED <<sent, client, answers, topic>>
        /\ lost' = lost \/ lost' = Evict("cache", cache, RelaySize)
    BY <1>3, Zenon DEF Receive, service
  <2>2. lost'["emit"] = lost["emit"] /\ lost'["sent"] = lost["sent"]
    BY <1>0, <2>1, EvictCache, Zenon
  <2> QED
    BY <2>1, <2>2, OtherKeepsService, Zenon
<1>4. ASSUME NEW p \in Parts, Posted(p) \/ Commit(p) PROVE (SentBacked /\ CopiesExplained)'
  BY <1>4, OtherKeepsService, Zenon DEF Posted, Commit, service
<1>5. ASSUME NEW p \in Parts, PostFails(p) PROVE (SentBacked /\ CopiesExplained)'
  <2>1. /\ UNCHANGED <<sent, client, answers, topic>>
        /\ lost' = Count("post", post[p]) /\ post[p] \in Txs
    BY <1>0, <1>5 DEF PostFails, service, Typed
  <2>2. lost'["emit"] = lost["emit"] /\ lost'["sent"] = lost["sent"]
    BY <1>0, <2>1, CountPost, Zenon
  <2> QED
    BY <2>1, <2>2, OtherKeepsService, Zenon
<1>6. ASSUME SessionEnds PROVE (SentBacked /\ CopiesExplained)'
  <2>1. UNCHANGED <<sent, client, answers, topic>> /\ lost' = lost
    BY <1>6 DEF SessionEnds, service
  <2> QED
    BY <2>1, OtherKeepsService, Zenon
<1>7. ASSUME Restart PROVE (SentBacked /\ CopiesExplained)'
  <2>1. lost'["emit"] = lost["emit"] /\ lost'["sent"] = lost["sent"]
    BY <1>0, <1>7 DEF Restart, Typed, Kinds
  <2>2. UNCHANGED <<sent, client, answers, topic>>
    BY <1>7, Zenon DEF Restart, service
  <2> QED
    BY <2>1, <2>2, OtherKeepsService, Zenon
<1>8. (SentBacked /\ CopiesExplained)'
  <2>1. ASSUME NEW c \in Clients, ServiceStep(c) PROVE (SentBacked /\ CopiesExplained)'
    BY <2>1, ServiceKeepsService, Zenon
  <2>2. ASSUME NEW p \in Parts, RelayStep(p) \/ Commit(p) PROVE (SentBacked /\ CopiesExplained)'
    BY <1>3, <1>4, <1>5, <2>2, Zenon DEF RelayStep
  <2> QED
    BY <1>1, <1>2, <1>6, <1>7, <2>1, <2>2, Zenon DEF Next
<1> QED
  BY <1>0, <1>8 DEF ServiceInv

\* The service's invariant holds initially.
LEMMA InitService ==
  Init => ServiceInv
<1> SUFFICES ASSUME Init PROVE ServiceInv
  OBVIOUS
<1>1. Typed
  BY InitTyped
<1>2. SentBacked
  <2>1. sent = << >> /\ answers = [a \in {"ok", "known", "error"} |-> {}]
    BY Zenon DEF Init
  <2>2. answers["known"] = {} /\ answers["ok"] = {}
    BY <2>1
  <2>3. \A t : ~Contains(<< >>, t)
    BY DEF Contains
  <2> QED
    BY <2>1, <2>2, <2>3, Zenon DEF SentBacked
<1>3. CopiesExplained
  <2> SUFFICES ASSUME NEW t \in Txs
               PROVE  /\ IsFiniteSet(Copies(t))
                      /\ Cardinality(Copies(t)) + Cardinality(Handling(t))
                           <= lost["emit"][t] + lost["sent"][t]
                                + Held(sent, t)
    BY Zenon DEF CopiesExplained
  <2>1. Copies(t) = {}
    <3>1. PICK m \in {<<>>, <<Foreign>>} : topic = [p \in Parts |-> m]
      BY DEF Init
    <3>2. \A p \in Parts : \A k \in DOMAIN topic[p] : topic[p][k] = Foreign
      BY <3>1
    <3>3. t # Foreign
      BY RelayAssumption, Zenon
    <3> QED
      BY <3>2, <3>3 DEF Copies
  <2>2. Handling(t) = {}
    BY DEF Init, Handling, Idle
  <2>3. lost["emit"][t] = 0 /\ lost["sent"][t] = 0 /\ ~Contains(sent, t)
    BY DEF Init, Kinds, Contains
  <2>4. Held(sent, t) = 0
    BY <2>3 DEF Held
  <2>5. IsFiniteSet(Copies(t)) /\ Cardinality(Copies(t)) = 0 /\ Cardinality(Handling(t)) = 0
    BY <2>1, <2>2, FS_EmptySet, Zenon
  <2>6. 0 + 0 <= 0 + 0 + 0
    OBVIOUS
  <2> QED
    BY <2>3, <2>4, <2>5, <2>6, Zenon
<1> QED
  BY <1>1, <1>2, <1>3 DEF ServiceInv

-----------------------------------------------------------------------------
(* The theorems.                                                            *)

\* Both invariants hold throughout.
LEMMA InvariantsHold ==
  Spec => [](RelayInv /\ ServiceInv)
<1>1. RelayInv /\ ServiceInv /\ [Next]_vars => RelayInv' /\ ServiceInv'
  BY NextKeepsRelay, NextKeepsService DEF RelayInv
<1> QED
  BY <1>1, InitRelay, InitService, PTL DEF Spec

\* However requests, partitions, failures and restarts interleave, and however small the two
\* caches are, a transaction is written to the topic once, and once more for each stored write
\* that was not acknowledged and each eviction, and posted to the node once, and once more
\* for each eviction and each restart.
THEOREM RelayIsSparing ==
  Spec => []RelayedOnce
<1>1. RelayInv /\ ServiceInv => RelayedOnce
  <2> SUFFICES ASSUME RelayInv, ServiceInv, NEW t \in Txs
               PROVE  /\ Cardinality(Copies(t)) <= 1 + lost["emit"][t] + lost["sent"][t]
                      /\ posts[t] <= 1 + lost["cache"][t] + lost["restart"][t]
    BY Zenon DEF RelayedOnce, EmittedOnce, PostedOnce
  <2>1. Cardinality(Copies(t)) <= 1 + lost["emit"][t] + lost["sent"][t]
    <3>1. Typed /\ CopiesExplained
      BY DEF ServiceInv
    <3>2. /\ lost["emit"][t] \in Nat /\ lost["sent"][t] \in Nat
          /\ Cardinality(Copies(t)) \in Nat /\ Cardinality(Handling(t)) \in Nat
          /\ Cardinality(Copies(t)) + Cardinality(Handling(t))
               <= lost["emit"][t] + lost["sent"][t] + Held(sent, t)
      BY <3>1, CountsTyped, Zenon
    <3>3. Held(sent, t) \in {0, 1}
      BY <3>1, LostNat, Zenon
    <3> QED
      BY <3>2, <3>3
  <2>2. posts[t] <= 1 + lost["cache"][t] + lost["restart"][t]
    <3>1. posts[t] <= lost["cache"][t] + lost["restart"][t] + Held(cache, t)
      BY Zenon DEF RelayInv, PostsExplained
    <3>2. /\ lost["cache"][t] \in Nat /\ lost["restart"][t] \in Nat /\ posts[t] \in Nat
          /\ Held(cache, t) \in {0, 1}
      BY LostNat, Zenon DEF RelayInv
    <3> QED
      BY <3>1, <3>2
  <2> QED
    BY <2>1, <2>2, Zenon
<1> QED
  BY <1>1, InvariantsHold, PTL

\* However they interleave, what a client was told was sent is in the topic, and what is in
\* the topic and neither known to the node nor refused by it has a copy that is not committed.
THEOREM RelayIsSafe ==
  Spec => []NothingLost
<1>1. RelayInv /\ ServiceInv => NothingLost
  <2> SUFFICES ASSUME RelayInv, ServiceInv PROVE NothingLost
    OBVIOUS
  <2>1. AnswersTrue
    BY Zenon DEF ServiceInv, SentBacked, AnswersTrue, Handled
  <2>2. ASSUME NEW t \in Txs, Queued(t), ~Settled(t)
        PROVE  \E m \in Copies(t) : m[2] > committed[m[1]]
    <3>1. \A p \in Parts : /\ next[p] \in Nat /\ Len(topic[p]) \in Nat /\ committed[p] \in Nat
                           /\ marked[p] \in Nat /\ committed[p] <= marked[p]
                           /\ marked[p] <= next[p] /\ next[p] <= Len(topic[p])
                           /\ DOMAIN topic[p] = 1 .. Len(topic[p])
                           /\ post[p] # Nil => /\ next[p] >= 1 /\ topic[p][next[p]] = post[p]
                                               /\ marked[p] < next[p]
      BY DEF RelayInv, Typed, Offsets
    <3>2. ASSUME NEW p \in Parts, NEW k \in 1 .. Len(topic[p]), topic[p][k] = t, k > committed[p]
          PROVE  \E m \in Copies(t) : m[2] > committed[m[1]]
      <4>1. <<p, k>> \in Copies(t)
        BY <3>1, <3>2 DEF Copies
      <4>2. <<p, k>>[2] > committed[<<p, k>>[1]]
        BY <3>2
      <4> QED
        BY <4>1, <4>2, Zenon
    <3>0. PICK p \in Parts : \E k \in 1 .. Len(topic[p]) : topic[p][k] = t
      BY <2>2 DEF Queued, Contains
    <3>3. PICK k \in 1 .. Len(topic[p]) : topic[p][k] = t
      BY <3>0, Zenon
    <3>4. CASE k > next[p]
      BY <3>1, <3>2, <3>3, <3>4
    <3>5. CASE k \in 1 .. next[p]
      <4>1. Posting(t) \/ Unread(t)
        BY <2>2, <3>3, <3>5, RelayAssumption, Zenon DEF RelayInv, ReadAccounted
      <4>2. CASE Posting(t)
        <5>1. PICK q \in Parts : post[q] = t
          BY <4>2 DEF Posting
        <5>2. post[q] # Nil
          BY <5>1, RelayAssumption, Zenon
        <5>3. next[q] \in 1 .. Len(topic[q]) /\ topic[q][next[q]] = t /\ next[q] > committed[q]
          BY <3>1, <5>1, <5>2
        <5> QED
          BY <3>2, <5>3
      <4>3. CASE Unread(t)
        <5>0. PICK q \in Parts : \E j \in 1 .. Len(topic[q]) : j > next[q] /\ topic[q][j] = t
          BY <4>3 DEF Unread
        <5>1. PICK j \in 1 .. Len(topic[q]) : j > next[q] /\ topic[q][j] = t
          BY <5>0, Zenon
        <5>2. j > committed[q]
          BY <3>1, <5>1
        <5> QED
          BY <3>2, <5>1, <5>2
      <4> QED
        BY <4>1, <4>2, <4>3
    <3> QED
      BY <3>1, <3>3, <3>4, <3>5
  <2>3. \A t \in Txs : lost["post"][t] \in Nat
    BY DEF RelayInv, Typed, Kinds
  <2>4. NoneForgotten
    BY <2>2, <2>3 DEF NoneForgotten, Settled
  <2> QED
    BY <2>1, <2>4 DEF NothingLost
<1> QED
  BY <1>1, InvariantsHold, PTL

=============================================================================

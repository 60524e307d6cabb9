------------------------------ MODULE TxSigning ------------------------------
(***************************************************************************)
(* Transaction objects in memory: what NewTx and WithSignature copy and    *)
(* share, the cached hash and sender, and goroutines that ask for them.    *)
(*                                                                         *)
(* The chain id of a typed transaction is a pointer: `cells` holds the     *)
(* numbers, an object's `chain` the cell it points to.                     *)
(***************************************************************************)
EXTENDS Transactions, FiniteSets

CONSTANTS
  Inners,       \* unsigned transaction data given to NewTx
  Signers, Keys,
  Readers,      \* goroutines that ask for senders
  MaxObjects,   \* bound: transaction objects
  MaxAsked      \* bound: answers given

VARIABLES
  objects,      \* transactions: inner, chain, cached hash and sender, key and signer (history)
  cells,
  asking,       \* for each reader: the call that missed the cache, or Nil
  answered      \* history: the answers to Sender

signing == <<objects, cells, asking, answered>>

\* What an object holds now.
Content(o) == [o.inner EXCEPT !.chain = cells[o.chain]]
Object(inner, cell, key, signer) ==
  [inner |-> inner, chain |-> cell, hash |-> Nil, from |-> Nil, key |-> key, signer |-> signer]

\* Only the copy of a set-code transaction keeps the pointer to the chain id.
copy(cell, t) == IF t.type = SetCodeTxType THEN cell ELSE Len(cells) + 1

\* NewTx copies what it is given: the caller's chain id is in the first cell.
SignInit ==
  /\ \E inner \in Inners :
       /\ cells = <<inner.chain, inner.chain>>
       /\ objects = <<Object(inner, IF inner.type = SetCodeTxType THEN 1 ELSE 2, Nil, Nil)>>
  /\ asking = [g \in Readers |-> Nil]
  /\ answered = {}

\* The chain id of a typed transaction is set where the pointer leads.
setSignatureValues(cell, t, chain) ==
  LET held == IF cell > Len(cells) THEN Append(cells, t.chain) ELSE cells
  IN IF t.type = LegacyTxType THEN held ELSE [held EXCEPT ![cell] = chain]

\* SignTx, and WithSignature on a copy.
SignTx(i, s, key) ==
  LET t == Content(objects[i])
      sig == Signed(key, SigHash(s, t))
      v == SignatureValues(s, t, sig)
      cell == copy(objects[i].chain, t)
  IN /\ Len(objects) < MaxObjects
     /\ v # Err
     /\ cells' = setSignatureValues(cell, t, s.chain)
     /\ objects' = Append(objects, Object([t EXCEPT !.v = v, !.r = sig.r, !.s = sig.s], cell, key, s))
     /\ UNCHANGED <<asking, answered>>

\* Hash stores what it computes.
AskHash(i) ==
  /\ objects[i].hash = Nil
  /\ objects' = [objects EXCEPT ![i].hash = Hash(Content(objects[i]))]
  /\ UNCHANGED <<cells, asking, answered>>

Calls == Cardinality({g \in Readers : asking[g] # Nil})
Answer(i, s, from) == answered' = answered \cup {[tx |-> i, signer |-> s, from |-> from]}

\* Sender: the cached answer if it is of an equal signer, else one that is computed ...
Ask(g, i, s) ==
  LET cached == objects[i].from
  IN /\ asking[g] = Nil /\ Cardinality(answered) + Calls < MaxAsked
     /\ IF cached # Nil /\ Equal(cached.signer, s)
        THEN Answer(i, s, cached.from) /\ UNCHANGED asking
        ELSE /\ asking' = [asking EXCEPT ![g] = [tx |-> i, signer |-> s,
                                                 from |-> Recover(s, Content(objects[i]))]]
             /\ UNCHANGED answered
     /\ UNCHANGED <<objects, cells>>

\* ... and stored if it is no error.
Store(g) ==
  LET a == asking[g]
  IN /\ a # Nil
     /\ objects' = IF a.from = Err THEN objects
                   ELSE [objects EXCEPT ![a.tx].from = [signer |-> a.signer, from |-> a.from]]
     /\ Answer(a.tx, a.signer, a.from)
     /\ asking' = [asking EXCEPT ![g] = Nil]
     /\ UNCHANGED cells

SigningStep ==
  \/ \E i \in DOMAIN objects :
       \/ AskHash(i)
       \/ \E s \in Signers : (\E key \in Keys : SignTx(i, s, key)) \/ \E g \in Readers : Ask(g, i, s)
  \/ \E g \in Readers : Store(g)
-----------------------------------------------------------------------------
Objects == {objects[i] : i \in DOMAIN objects}

\* A cached hash and a cached sender are those of what the transaction holds now: signing a
\* copy does not reach the original, not even through the chain id that copies of a set-code
\* transaction share, and no order of stores leaves an answer of another signer.
CachesFresh ==
  \A o \in Objects :
    /\ o.hash # Nil => o.hash = Hash(Content(o))
    /\ o.from # Nil => o.from.from = Recover(o.from.signer, Content(o))

\* Whatever signer is asked for, Sender answers what that signer itself derives.
AnswersOwn == \A a \in answered : a.from = Recover(a.signer, Content(objects[a.tx]))

\* A signed transaction is recognised as the key's by the signer it was signed with, and
\* after any encoding.  Excepted is an EIP-155 signature for chain 0, which is written as
\* an unprotected one and hashed as a protected one.
Recovered ==
  \A o \in Objects :
    o.key # Nil /\ (o.inner.type = LegacyTxType => o.signer.chain # 0) =>
      /\ Recover(o.signer, Content(o)) = o.key
      /\ UnmarshalBinary(MarshalBinary(Content(o))) = Content(o)
      /\ DecodeRLP(EncodeRLP(Content(o))) = Content(o)

Altered(t) ==
  {[t EXCEPT ![f] = @ + 1] : f \in Range(Fields(t.type)) \ {"to"}}
    \cup {[t EXCEPT !.to = IF @ = Nil THEN 1 ELSE @ + 1]}
    \cup {[t EXCEPT !.type = u] : u \in TxTypes \ {t.type}}
Flipped(t) ==
  [t EXCEPT !.s = 2, !.v = IF t.type = LegacyTxType /\ t.v % 2 = 0 THEN @ - 1 ELSE @ + 1]

\* Nothing but the transaction that was signed is taken for the key's: not with a field or
\* its type changed, not with the other half of the signature by a signer since Homestead,
\* and, if its signature names a chain, not by a signer of another chain.
OnlyTheSigned ==
  \A o \in Objects :
    o.key # Nil =>
      LET t == Content(o)
      IN \A s \in Signers :
           /\ \A u \in Altered(t) : Recover(s, u) # o.key
           /\ s.kind # Frontier => Recover(s, Flipped(t)) # o.key
           /\ Protected(t) /\ s.chain # o.signer.chain => Recover(s, t) # o.key

\* The price a message pays is the base fee and the tip the miner is told, and the price a
\* blob or set-code transaction computes for itself is the same.
PricesAgree ==
  \A o \in Objects : \A baseFee \in 0 .. 3 :
    LET t == Content(o)
    IN /\ MessagePrice(t, baseFee) = baseFee + EffectiveGasTip(t, baseFee)
       /\ t.type \in {BlobTxType, SetCodeTxType} =>
            effectiveGasPrice(t, baseFee) = MessagePrice(t, baseFee)
\* What is cached about a transaction stays true, for whoever asks.
CachesTrue == CachesFresh /\ AnswersOwn

\* A transaction is read alike wherever it is read: back from its encodings, by every signer
\* that takes it, and by all that work out its price; and one that differs is not taken for it.
ReadAlike == Recovered /\ OnlyTheSigned /\ PricesAgree

==============================================================================

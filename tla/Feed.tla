-------------------------------- MODULE Feed --------------------------------
(***************************************************************************)
(* What the block producer and the stream consumer share: the tree of      *)
(* blocks and the messages on the broker's topics, in the order they were  *)
(* accepted.  The transport is external (cardinal-streams): a message once *)
(* accepted stays, a state batch says which block it completes by an id    *)
(* only, and a consumer may read again from any earlier position.          *)
(***************************************************************************)
EXTENDS Integers, Sequences, FiniteSets, SequencesExt, Functions

CONSTANTS
  Chain,          \* block -> the blocks from the genesis block's child to it
  None

Block == DOMAIN Chain

ASSUME FeedAssumption ==
  /\ \A b \in Block : Chain[b] \in Seq(Block) /\ (Chain[b] = <<>> \/ Last(Chain[b]) = b)
  /\ \A b \in Block : Chain[b] # <<>> => \E p \in Block : Chain[p] = Front(Chain[b])
  /\ \E g \in Block : Chain[g] = <<>>

VARIABLES
  feed,           \* the messages accepted so far
  flags           \* what the operators of the two programs chose

reorgThreshold == flags.threshold \* how deep a reorganisation clients handle by themselves

Number(b) == Len(Chain[b])
Genesis == CHOOSE b \in Block : Chain[b] = <<>>
Parent == [b \in Block \ {Genesis} |-> CHOOSE p \in Block : Chain[p] = Front(Chain[b])]
Below == [b \in Block |-> {c \in Block : IsPrefix(Chain[c], Chain[b])}]

Highest(bs) == CHOOSE b \in bs : \A c \in bs : Number(c) <= Number(b)

\* The last block two chains share, and what one has beyond it.
Common == [a, b \in Block |-> Highest(Below[a] \cap Below[b])]
Beyond(c, b) == SubSeq(Chain[b], Number(c) + 1, Number(b))

\* The two chains part deeper than clients handle, seen from the first.
Deep(a, b) == Number(a) - Number(Common[a, b]) > reorgThreshold

BlockMsg(b) == [type |-> "block", b |-> b]
BatchMsg(id, b) == [type |-> "batch", id |-> id, b |-> b]
ReorgMsg(type, b) == [type |-> type, b |-> b]

\* Block b was announced and its own state batch followed.
Complete(b) ==
  \E i, j \in 1 .. Len(feed) : i < j /\ feed[i] = BlockMsg(b) /\ feed[j] = BatchMsg(Number(b), b)

Announced == {feed[i].b : i \in {j \in DOMAIN feed : feed[j].type = "block"}}

=============================================================================

------------------------------ MODULE RLPShared ------------------------------
(***************************************************************************)
(* What goroutines share in package rlp: the pool of output buffers        *)
(* (encBufferPool of rlp/encbuffer.go) and the cache of type information   *)
(* (theTC of rlp/typecache.go).                                            *)
(*                                                                         *)
(* The users of the pool are a reader made by EncodeToReader, a caller of  *)
(* EncodeToBytes, and an EncoderBuffer with a second one derived from it,  *)
(* as an EncodeRLP method makes it.  A cached type information is a        *)
(* pointer: what a goroutine got from the cache is filled by the one that  *)
(* generates it.                                                           *)
(***************************************************************************)
EXTENDS RLPTypes, FiniteSets

CONSTANTS Message,        \* a value per user of the pool, of interface type
          Chunks,         \* lengths of the slices given to encReader.Read
          Rounds,         \* how often each user of the pool encodes
          Types,          \* type keys of the cache
          Refs,           \* Refs[t]: the types whose information t's generator asks for
          Wanted          \* the types each goroutine looks up, in order

Users == DOMAIN Message
Goroutines == DOMAIN Wanted
Buffers == 1 .. Cardinality(Users) + 1
Iface == [k |-> "iface"]
Nothing == <<>>

VARIABLES
  pool,      \* buffers in encBufferPool
  bufs,      \* their contents
  held,      \* held[u]: the buffer user u works with, 0 for none
  at,        \* at[u]: how far u is
  rd,        \* the encReader of the reader
  out,       \* out[u]: the bytes u got
  rounds,    \* rounds[u]: encodings u has finished
  mu,        \* holder of typeCache.mu, 0 for none
  cur,       \* keys of the published map
  nextKeys,  \* keys of the map being made
  made,      \* keys whose typeinfo has been generated
  gen,       \* the types under generation, the innermost last
  looks,     \* looks[g]: lookups g has finished
  step,      \* step[g]: where g is in info and generate
  got        \* got[g]: keys g was given an information for
poolVars == <<pool, bufs, held, at, rd, out, rounds>>
cacheVars == <<mu, cur, nextKeys, made, gen, looks, step, got>>
sharedVars == <<poolVars, cacheVars>>

SharedInit ==
  /\ pool = {} /\ bufs = [b \in Buffers |-> reset]
  /\ held = [u \in Users |-> 0] /\ at = [u \in Users |-> "idle"]
  /\ rd = encReader /\ out = [u \in Users |-> <<>>] /\ rounds = [u \in Users |-> 0]
  /\ mu = 0 /\ cur = {} /\ nextKeys = {} /\ made = {} /\ gen = <<>>
  /\ looks = [g \in Goroutines |-> 0] /\ step = [g \in Goroutines |-> "info"]
  /\ got = [g \in Goroutines |-> {}]
-----------------------------------------------------------------------------
(* The pool *)
Held == {held[u] : u \in Users} \ {0}
\* Get takes any buffer of the pool or makes one that nobody has.
Available == pool \cup (IF \E b \in Buffers : b \notin pool \cup Held
                        THEN {CHOOSE b \in Buffers : b \notin pool \cup Held} ELSE {})
Encoded(u, buf) == write(Iface, NoTags, Message[u], buf)

EncodeToReader(b) ==
  /\ at["reader"] = "idle" /\ rounds["reader"] < Rounds
  /\ bufs' = [bufs EXCEPT ![b] = Encoded("reader", reset)]
  /\ held' = [held EXCEPT !["reader"] = b] /\ pool' = pool \ {b}
  /\ rd' = encReader /\ out' = [out EXCEPT !["reader"] = <<>>]
  /\ at' = [at EXCEPT !["reader"] = "reading"]
  /\ UNCHANGED <<rounds, cacheVars>>
\* At the first EOF the buffer goes back into the pool.
ReadSome(n) ==
  /\ at["reader"] = "reading"
  /\ \E r \in {Read(rd, bufs[held["reader"]], n)} :
        /\ rd' = r.r /\ out' = [out EXCEPT !["reader"] = @ \o r.out]
        /\ IF r.eof
           THEN /\ pool' = pool \cup {held["reader"]}
                /\ held' = [held EXCEPT !["reader"] = 0]
                /\ at' = [at EXCEPT !["reader"] = "done"]
           ELSE UNCHANGED <<pool, held, at>>
  /\ UNCHANGED <<bufs, rounds, cacheVars>>

\* EncodeToBytes: the buffer is taken, filled, copied out and put back
GetBuffer(b) ==
  /\ at["bytes"] = "idle" /\ rounds["bytes"] < Rounds
  /\ held' = [held EXCEPT !["bytes"] = b] /\ pool' = pool \ {b}
  /\ bufs' = [bufs EXCEPT ![b] = reset]
  /\ at' = [at EXCEPT !["bytes"] = "encode"]
  /\ UNCHANGED <<rd, out, rounds, cacheVars>>
FillBuffer ==
  /\ at["bytes"] = "encode"
  /\ bufs' = [bufs EXCEPT ![held["bytes"]] = Encoded("bytes", @)]
  /\ at' = [at EXCEPT !["bytes"] = "copy"]
  /\ UNCHANGED <<pool, held, rd, out, rounds, cacheVars>>
MakeBytes ==
  /\ at["bytes"] = "copy"
  /\ out' = [out EXCEPT !["bytes"] = copyTo(bufs[held["bytes"]])]
  /\ pool' = pool \cup {held["bytes"]} /\ held' = [held EXCEPT !["bytes"] = 0]
  /\ at' = [at EXCEPT !["bytes"] = "done"]
  /\ UNCHANGED <<bufs, rd, rounds, cacheVars>>

\* An EncoderBuffer of its own; Reset of one that is given to another derives it.
NewEncoderBuffer(b) ==
  /\ at["nested"] = "idle" /\ rounds["nested"] < Rounds
  /\ held' = [held EXCEPT !["nested"] = b] /\ pool' = pool \ {b}
  /\ bufs' = [bufs EXCEPT ![b] = reset]
  /\ at' = [at EXCEPT !["nested"] = "own"]
  /\ UNCHANGED <<rd, out, rounds, cacheVars>>
\* the outer list is opened and the value written through a derived buffer
WriteDerived ==
  /\ at["nested"] = "own"
  /\ bufs' = [bufs EXCEPT ![held["nested"]] = Encoded("nested", list(@))]
  /\ at' = [at EXCEPT !["nested"] = "derived"]
  /\ UNCHANGED <<pool, held, rd, out, rounds, cacheVars>>
\* Flush of the derived buffer: there is no dst, and the buffer is not its own
FlushDerived ==
  /\ at["nested"] = "derived"
  /\ at' = [at EXCEPT !["nested"] = "ending"]
  /\ UNCHANGED <<pool, bufs, held, rd, out, rounds, cacheVars>>
FlushOwn ==
  /\ at["nested"] = "ending"
  /\ \E buf \in {listEnd(bufs[held["nested"]], 1)} :
        /\ bufs' = [bufs EXCEPT ![held["nested"]] = buf]
        /\ out' = [out EXCEPT !["nested"] = FlattenSeq(writeTo(buf))]
  /\ pool' = pool \cup {held["nested"]} /\ held' = [held EXCEPT !["nested"] = 0]
  /\ at' = [at EXCEPT !["nested"] = "done"]
  /\ UNCHANGED <<rd, rounds, cacheVars>>
Again(u) ==
  /\ at[u] = "done"
  /\ at' = [at EXCEPT ![u] = "idle"] /\ rounds' = [rounds EXCEPT ![u] = @ + 1]
  /\ UNCHANGED <<pool, bufs, held, rd, out, cacheVars>>
PoolNext ==
  \/ \E b \in Available : EncodeToReader(b) \/ GetBuffer(b) \/ NewEncoderBuffer(b)
  \/ \E n \in Chunks : ReadSome(n)
  \/ FillBuffer \/ MakeBytes \/ WriteDerived \/ FlushDerived \/ FlushOwn
  \/ \E u \in Users : Again(u)
-----------------------------------------------------------------------------
(* The cache *)
Type(g) == Wanted[g][looks[g] + 1]
Goto(g, s) == step' = [step EXCEPT ![g] = s]
Return(g) == /\ got' = [got EXCEPT ![g] = @ \cup {Type(g)}]
             /\ looks' = [looks EXCEPT ![g] = @ + 1] /\ Goto(g, "info")

\* info: the published map is read without the lock
info(g) ==
  /\ step[g] = "info" /\ looks[g] < Len(Wanted[g])
  /\ IF Type(g) \in cur THEN Return(g) /\ UNCHANGED <<mu, cur, nextKeys, made, gen>>
     ELSE Goto(g, "lock") /\ UNCHANGED <<mu, cur, nextKeys, made, gen, looks, got>>
  /\ UNCHANGED poolVars
\* Mutant: the key is entered into the published map.
generatePublishes(g) ==
  /\ step[g] = "lock" /\ mu = 0
  /\ IF Type(g) \in cur
     THEN Return(g) /\ UNCHANGED <<mu, cur, nextKeys, made, gen>>
     ELSE /\ mu' = g /\ nextKeys' = cur \cup {Type(g)} /\ gen' = <<Type(g)>>
          /\ cur' = cur \cup {Type(g)}
          /\ Goto(g, "generate") /\ UNCHANGED <<made, looks, got>>
  /\ UNCHANGED poolVars
\* generate, up to the call of infoWhileGenerating: lock, look again, copy the map
generate(g) ==
  /\ step[g] = "lock" /\ mu = 0
  /\ IF Type(g) \in cur
     THEN Return(g) /\ UNCHANGED <<mu, cur, nextKeys, made, gen>>
     ELSE /\ mu' = g /\ nextKeys' = cur \cup {Type(g)} /\ gen' = <<Type(g)>>
          /\ Goto(g, "generate") /\ UNCHANGED <<cur, made, looks, got>>
  /\ UNCHANGED poolVars
\* the generator of the innermost type asks for a type that has no entry yet: a
\* dummy is entered and its generator runs
infoWhileGenerating(g, t) ==
  /\ step[g] = "generate" /\ gen # <<>> /\ t \in Refs[Last(gen)] \ nextKeys
  /\ nextKeys' = nextKeys \cup {t} /\ gen' = Append(gen, t)
  /\ UNCHANGED <<mu, cur, made, looks, step, got, poolVars>>
\* the decoder and the writer of the innermost type are made
typeinfoGenerate(g) ==
  /\ step[g] = "generate" /\ gen # <<>> /\ Refs[Last(gen)] \subseteq nextKeys
  /\ made' = made \cup {Last(gen)} /\ gen' = Front(gen)
  /\ UNCHANGED <<mu, cur, nextKeys, looks, step, got, poolVars>>
\* the map is published and the lock released
publish(g) ==
  /\ step[g] = "generate" /\ gen = <<>>
  /\ cur' = nextKeys /\ nextKeys' = {} /\ mu' = 0
  /\ Return(g) /\ UNCHANGED <<made, gen, poolVars>>
CacheNext ==
  \E g \in Goroutines :
     \/ info(g) \/ generate(g) \/ typeinfoGenerate(g) \/ publish(g)
     \/ \E t \in Types : infoWhileGenerating(g, t)
==============================================================================

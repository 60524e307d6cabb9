------------------------------- MODULE StateDB -------------------------------
(***************************************************************************)
(* The journaled state of state/statedb.go and state/state_object.go: the  *)
(* account objects, transient storage, refund counter and access list that *)
(* one EVM execution works on, the journal of undo closures every write    *)
(* appends to, and the snapshots (journal lengths) the call frames hold.   *)
(*                                                                         *)
(* Data kept: an object's fields.  `Nil` is Go's nil pointer or a missing  *)
(* map key.  A code hash is the code itself (keccak is injective) or       *)
(* ZeroHash.  Loading code or a storage slot from the database caches a    *)
(* value the immutable view would return again, so those caches are left   *)
(* out; whether the account was loaded is kept in `loaded`, because some   *)
(* getters ask for it without loading it.                                  *)
(***************************************************************************)
EXTENDS AccessList

CONSTANTS
  Val,        \* storage words; 0 is the zero hash
  Code,       \* contract codes
  EmptyCode,  \* the empty code, whose hash is emptyCode
  ZeroHash,   \* types.Hash{}
  Nil,
  DB,         \* the database view: what the storage transaction answers
  UintMod,    \* stands for 2^64
  Touched,    \* addresses whose accounts are operated on; the access list may hold others
  Amounts, Nonces, Codes, Balances, Words, Refunds, Storages,  \* inputs of the operations
  MaxJournal, \* bound: journal entries written before the last operation
  MaxSnaps,   \* bound: nested call frames
  MaxTx       \* bound: transactions run on one StateDB

Accounts ==
  [exists : BOOLEAN, balance : Nat, nonce : Nat, code : Code, storage : [Slot -> Val]]

ASSUME ConstantsAssumption ==
  /\ 0 \in Val /\ Val \subseteq Nat
  /\ EmptyCode \in Code /\ ZeroHash \notin Code
  /\ Nil \notin Int /\ Nil \notin Code
  /\ DB \in [Addr -> Accounts]
  /\ UintMod \in Nat \ {0}
  /\ Touched \subseteq Addr
  /\ Amounts \subseteq Nat \ {0} /\ Nonces \subseteq Nat
  /\ Codes \subseteq Code /\ Words \subseteq Val
  /\ Balances \subseteq Nat /\ Refunds \subseteq Nat
  /\ Storages \subseteq [Slot -> Val \cup {Nil}]
  /\ MaxJournal \in Nat /\ MaxSnaps \in Nat /\ MaxTx \in Nat

(***************************************************************************)
(* Storage maps are keyed by 32-byte words: the keccak of a slot, or the   *)
(* slot itself where the code does not hash it.                            *)
(***************************************************************************)
Key == {"raw", "keccak"} \X Slot
RawKey(s) == <<"raw", s>>
Keccak(s) == <<"keccak", s>>
Storage == [Key -> Val \cup {Nil}]
NoStorage == [k \in Key |-> Nil]

Objects ==
  [delta : Int \cup {Nil}, code : Code \cup {Nil}, dirty : Storage, clean : Storage,
   created : BOOLEAN, suicided : BOOLEAN, deleted : BOOLEAN,
   nonce : Nat \cup {Nil}, fakeBalance : Nat \cup {Nil}]

NewObject ==
  [delta |-> Nil, code |-> Nil, dirty |-> NoStorage, clean |-> NoStorage,
   created |-> FALSE, suicided |-> FALSE, deleted |-> FALSE,
   nonce |-> Nil, fakeBalance |-> Nil]

Worlds ==
  [objs : [Addr -> Objects], transient : [Addr -> [Slot -> Val]],
   refund : 0 .. UintMod - 1, al : AccessLists]

NewWorld ==
  [objs |-> [a \in Addr |-> NewObject], transient |-> [a \in Addr |-> [s \in Slot |-> 0]],
   refund |-> 0, al |-> NewAccessList]

VARIABLES
  w,        \* the fields of stateDB an operation may change, journal aside
  loaded,   \* addresses whose database account has been loaded
  journal,  \* the undo entries
  snaps,    \* the snapshots the open call frames hold, innermost last
  target,   \* journal length RevertToSnapshot is running back to, or Nil
  base,     \* history: journal length when the transaction began
  hist,     \* history: hist[n + 1] is w when the journal had n entries
  txs       \* transactions finished, capped by MaxTx

vars == <<w, loaded, journal, snaps, target, base, hist, txs>>

-----------------------------------------------------------------------------
(* The getters, as functions of a world and of the accounts loaded so far.  *)

\* loadAccount's answer: there is an account record to read.
LoadAccount(v, a) == ~v.objs[a].deleted /\ (v.objs[a].created \/ DB[a].exists)

\* The addresses whose account pointer is set after loadAccount(a).
Loading(v, ld, a) ==
  IF LoadAccount(v, a) /\ ~v.objs[a].created THEN ld \cup {a} ELSE ld

HasAccount(v, ld, a) == v.objs[a].created \/ a \in ld

ObjectBalance(v, ld, a) ==
  LET o == v.objs[a]
      stored == CASE o.fakeBalance # Nil -> o.fakeBalance
                  [] o.fakeBalance = Nil /\ ~o.created /\ a \in ld -> DB[a].balance
                  [] OTHER -> 0
  IN  stored + (IF o.delta = Nil THEN 0 ELSE o.delta)

GetBalance(v, ld, a) ==
  IF LoadAccount(v, a) THEN ObjectBalance(v, Loading(v, ld, a), a) ELSE 0

GetNonce(v, a) ==
  CASE v.objs[a].nonce # Nil -> v.objs[a].nonce
    [] v.objs[a].nonce = Nil /\ LoadAccount(v, a) /\ ~v.objs[a].created -> DB[a].nonce
    [] OTHER -> 0

GetCode(v, a) ==
  CASE v.objs[a].deleted -> EmptyCode
    [] ~v.objs[a].deleted /\ v.objs[a].code # Nil -> v.objs[a].code
    [] ~v.objs[a].deleted /\ v.objs[a].code = Nil ->
         IF LoadAccount(v, a) /\ ~v.objs[a].created THEN DB[a].code ELSE EmptyCode

\* The account's hash wins over code set later; a created account has none.
GetCodeHash(v, ld, a) ==
  CASE v.objs[a].created -> ZeroHash
    [] ~v.objs[a].created /\ a \in ld -> DB[a].code
    [] ~HasAccount(v, ld, a) -> GetCode(v, a)

GetCommittedState(v, a, s) ==
  IF v.objs[a].clean[Keccak(s)] # Nil THEN v.objs[a].clean[Keccak(s)]
                                      ELSE DB[a].storage[s]

GetState(v, a, s) ==
  IF v.objs[a].dirty[Keccak(s)] # Nil THEN v.objs[a].dirty[Keccak(s)]
                                      ELSE GetCommittedState(v, a, s)

\* Mutant: emptiness is decided on an account that was never loaded.
ObjectEmptyUnloaded(v, ld, a) ==
  /\ GetNonce(v, a) = 0
  /\ ObjectBalance(v, ld, a) = 0
  /\ GetCodeHash(v, ld, a) = EmptyCode

\* empty() reads the nonce first, which loads the account only if none was set.
ObjectEmpty(v, ld, a) ==
  LET after == IF v.objs[a].nonce = Nil THEN Loading(v, ld, a) ELSE ld
  IN  /\ GetNonce(v, a) = 0
      /\ ObjectBalance(v, after, a) = 0
      /\ GetCodeHash(v, after, a) = EmptyCode

Exist(v, ld, a) == ~v.objs[a].deleted /\ ~ObjectEmpty(v, ld, a)

Empty(v, ld, a) == v.objs[a].deleted \/ v.objs[a].suicided \/ ObjectEmpty(v, ld, a)

\* opExtCodeHash's result: Empty runs first and may load the account.
ExtCodeHash(v, ld, a) ==
  LET after == IF v.objs[a].nonce = Nil THEN Loading(v, ld, a) ELSE ld
  IN  IF Empty(v, ld, a) THEN ZeroHash ELSE GetCodeHash(v, after, a)

-----------------------------------------------------------------------------
(* The journal.  An entry is what its closure captured; Undo runs it.       *)

Entry(op, a, s, old) == [op |-> op, addr |-> a, slot |-> s, old |-> old]

\* Mutant: the delta is subtracted again even where there was none before.
UndoBalanceKeepsDelta(e, v) ==
  [v EXCEPT !.objs[e.addr].delta = @ - e.old.amount]

\* The closures of add/subBalance drop a delta they made and else subtract again.
UndoBalance(e, v) ==
  [v EXCEPT !.objs[e.addr].delta = IF e.old.fresh THEN Nil ELSE @ - e.old.amount]

Undo(e, v) ==
  CASE e.op = "create"    -> [v EXCEPT !.objs[e.addr] = e.old]
    [] e.op = "balance"   -> UndoBalance(e, v)
    [] e.op = "nonce"     -> [v EXCEPT !.objs[e.addr].nonce = e.old]
    [] e.op = "code"      -> [v EXCEPT !.objs[e.addr].code = e.old]
    [] e.op = "fake"      -> [v EXCEPT !.objs[e.addr].fakeBalance = e.old]
    [] e.op = "storage"   -> [v EXCEPT !.objs[e.addr].dirty = e.old]
    [] e.op = "state"     -> [v EXCEPT !.objs[e.addr].dirty[Keccak(e.slot)] = e.old]
    [] e.op = "suicide"   -> [v EXCEPT !.objs[e.addr].suicided = FALSE]
    [] e.op = "refund"    -> [v EXCEPT !.refund = e.old]
    [] e.op = "transient" -> [v EXCEPT !.transient[e.addr][e.slot] = e.old]
    [] e.op = "address"   -> [v EXCEPT !.al = DeleteAddress(@, e.addr)]
    [] e.op = "slot"      -> [v EXCEPT !.al = DeleteSlot(@, e.addr, e.slot)]

\* The closure runs without a nil dereference, an index out of range or DeleteSlot's panic.
CanUndo(e, v) ==
  /\ e.op = "balance" /\ ~e.old.fresh => v.objs[e.addr].delta # Nil
  /\ e.op = "slot" => CanDeleteSlot(v.al, e.addr)

-----------------------------------------------------------------------------
(* The operations.                                                          *)

Running == target = Nil
Room == Len(journal) < MaxJournal

\* The world becomes v and the journal grows by one entry.
Journaled(e, v) ==
  /\ w' = v
  /\ journal' = Append(journal, e)
  /\ hist' = Append(hist, v)
  /\ UNCHANGED <<snaps, target, base, txs>>

\* Any getter that loads the account: GetBalance, GetNonce, GetCode, Exist, Empty.
Read(a) ==
  /\ Running
  /\ loaded' = Loading(w, loaded, a)
  /\ UNCHANGED <<w, journal, snaps, target, base, hist, txs>>

\* Mutant: the new account starts with nothing.
CreateAccountBroke(a) ==
  /\ Running /\ Room
  /\ Journaled(Entry("create", a, Nil, w.objs[a]),
               [w EXCEPT !.objs[a] = [NewObject EXCEPT !.created = TRUE]])
  /\ UNCHANGED loaded

\* A fresh object replaces the old one and takes over the balance of a live account.
CreateAccount(a) ==
  LET prev  == w.objs[a]
      alive == ~prev.deleted /\ ~prev.suicided /\ LoadAccount(w, a)
      ld    == IF ~prev.deleted /\ ~prev.suicided THEN Loading(w, loaded, a) ELSE loaded
      obj   == [NewObject EXCEPT !.created = TRUE,
                                 !.delta = IF alive THEN ObjectBalance(w, ld, a) ELSE Nil]
  IN  /\ Running /\ Room
      /\ loaded' = ld
      /\ Journaled(Entry("create", a, Nil, prev), [w EXCEPT !.objs[a] = obj])

\* AddBalance for a positive n, SubBalance for a negative one; zero does nothing.
ChangeBalance(a, n) ==
  LET d == w.objs[a].delta
  IN  /\ Running /\ Room
      /\ n # 0
      /\ Journaled(Entry("balance", a, Nil, [fresh |-> d = Nil, amount |-> n]),
                   [w EXCEPT !.objs[a].delta = IF d = Nil THEN n ELSE d + n])
      /\ UNCHANGED loaded

AddBalance(a, n) == ChangeBalance(a, n)

SubBalance(a, n) == ChangeBalance(a, -n)

SetNonce(a, n) ==
  /\ Running /\ Room
  /\ Journaled(Entry("nonce", a, Nil, w.objs[a].nonce), [w EXCEPT !.objs[a].nonce = n])
  /\ UNCHANGED loaded

SetCode(a, c) ==
  /\ Running /\ Room
  /\ Journaled(Entry("code", a, Nil, w.objs[a].code), [w EXCEPT !.objs[a].code = c])
  /\ UNCHANGED loaded

SetBalance(a, n) ==
  /\ Running /\ Room
  /\ Journaled(Entry("fake", a, Nil, w.objs[a].fakeBalance), [w EXCEPT !.objs[a].fakeBalance = n])
  /\ UNCHANGED loaded

SetState(a, s, x) ==
  /\ Running /\ Room
  /\ Journaled(Entry("state", a, s, w.objs[a].dirty[Keccak(s)]),
               [w EXCEPT !.objs[a].dirty[Keccak(s)] = x])
  /\ UNCHANGED loaded

\* The override map becomes the dirty map as it is, its keys not hashed.
SetStorage(a, m) ==
  /\ Running /\ Room
  /\ Journaled(Entry("storage", a, Nil, w.objs[a].dirty),
               [w EXCEPT !.objs[a].dirty =
                  [k \in Key |-> IF k[1] = "raw" THEN m[k[2]] ELSE Nil]])
  /\ UNCHANGED loaded

Suicide(a) ==
  /\ Running /\ Room
  /\ ~w.objs[a].suicided /\ ~w.objs[a].deleted
  /\ Journaled(Entry("suicide", a, Nil, Nil), [w EXCEPT !.objs[a].suicided = TRUE])
  /\ UNCHANGED loaded

SelfDestruct6780(a) == w.objs[a].created /\ Suicide(a)

\* AddRefund and SubRefund on a uint64: the counter wraps.
ChangeRefund(n) ==
  /\ Running /\ Room
  /\ Journaled(Entry("refund", Nil, Nil, w.refund),
               [w EXCEPT !.refund = (w.refund + n) % UintMod])
  /\ UNCHANGED loaded

SetTransientState(a, s, x) ==
  /\ Running /\ Room
  /\ Journaled(Entry("transient", a, s, w.transient[a][s]),
               [w EXCEPT !.transient[a][s] = x])
  /\ UNCHANGED loaded

AddAddressToAccessList(a) ==
  /\ Running /\ Room
  /\ ~ContainsAddress(w.al, a)
  /\ Journaled(Entry("address", a, Nil, Nil), [w EXCEPT !.al = AddAddress(@, a)])
  /\ UNCHANGED loaded

\* Mutant: the slot is journaled before its new address.
AddSlotSwapped(a, s) ==
  LET slotEntry == Entry("slot", a, s, Nil)
      added     == [w EXCEPT !.al = AddSlot(@, a, s)]
  IN  /\ Running /\ Room
      /\ s \notin SlotsOf(w.al, a)
      /\ w' = added
      /\ IF ContainsAddress(w.al, a)
           THEN /\ journal' = Append(journal, slotEntry)
                /\ hist' = Append(hist, added)
           ELSE /\ journal' = journal \o <<slotEntry, Entry("address", a, Nil, Nil)>>
                /\ hist' = hist \o <<added, added>>
      /\ UNCHANGED <<loaded, snaps, target, base, txs>>

\* A new address is journaled before its slot, so that undoing takes the slot out first.
AddSlotToAccessList(a, s) ==
  LET slotEntry == Entry("slot", a, s, Nil)
      added     == [w EXCEPT !.al = AddSlot(@, a, s)]
      addrOnly  == [w EXCEPT !.al = AddAddress(@, a)]
  IN  /\ Running /\ Room
      /\ s \notin SlotsOf(w.al, a)
      /\ w' = added
      /\ IF ContainsAddress(w.al, a)
           THEN /\ journal' = Append(journal, slotEntry)
                /\ hist' = Append(hist, added)
           ELSE /\ journal' = journal \o <<Entry("address", a, Nil, Nil), slotEntry>>
                /\ hist' = hist \o <<addrOnly, added>>
      /\ UNCHANGED <<loaded, snaps, target, base, txs>>

-----------------------------------------------------------------------------
(* Snapshots, and the end of a transaction.                                 *)

\* A call frame opens: it keeps the journal length as its way back.
Snapshot ==
  /\ Running
  /\ Len(snaps) < MaxSnaps
  /\ snaps' = Append(snaps, Len(journal))
  /\ UNCHANGED <<w, loaded, journal, target, base, hist, txs>>

\* The innermost frame returns without reverting.
Return ==
  /\ Running
  /\ snaps # << >>
  /\ snaps' = SubSeq(snaps, 1, Len(snaps) - 1)
  /\ UNCHANGED <<w, loaded, journal, target, base, hist, txs>>

\* RevertToSnapshot(snaps[i]), its loop run by RevertEntry until RevertDone.
RevertToSnapshot(i) ==
  /\ Running
  /\ target' = snaps[i]
  /\ snaps' = SubSeq(snaps, 1, i - 1)
  /\ UNCHANGED <<w, loaded, journal, base, hist, txs>>

RevertEntry ==
  /\ ~Running
  /\ Len(journal) > target
  /\ w' = Undo(journal[Len(journal)], w)
  /\ journal' = SubSeq(journal, 1, Len(journal) - 1)
  /\ hist' = SubSeq(hist, 1, Len(hist) - 1)
  /\ UNCHANGED <<loaded, snaps, target, base, txs>>

\* Mutant: the loop stops one entry early.
RevertDoneEarly ==
  /\ ~Running
  /\ Len(journal) <= target + 1
  /\ target' = Nil
  /\ UNCHANGED <<w, loaded, journal, snaps, base, hist, txs>>

RevertDone ==
  /\ ~Running
  /\ Len(journal) <= target
  /\ target' = Nil
  /\ UNCHANGED <<w, loaded, journal, snaps, base, hist, txs>>

FinaliseObject(o) ==
  [o EXCEPT !.clean = [k \in Key |-> IF o.dirty[k] # Nil THEN o.dirty[k] ELSE o.clean[k]],
            !.deleted = o.deleted \/ o.suicided]

\* Finalise: the journal is left as it is, so older entries must never be undone.
Finalise ==
  LET v == [objs |-> [a \in Addr |-> FinaliseObject(w.objs[a])],
            transient |-> NewWorld.transient, refund |-> 0, al |-> NewAccessList]
  IN  /\ Running
      /\ snaps = << >>
      /\ txs < MaxTx
      /\ w' = v
      /\ hist' = [hist EXCEPT ![Len(hist)] = v]
      /\ base' = Len(journal)
      /\ txs' = txs + 1
      /\ UNCHANGED <<loaded, journal, snaps, target>>

-----------------------------------------------------------------------------
Init ==
  /\ w = NewWorld
  /\ loaded = {}
  /\ journal = << >>
  /\ snaps = << >>
  /\ target = Nil
  /\ base = 0
  /\ hist = <<NewWorld>>
  /\ txs = 0

AccountOp ==
  \E a \in Touched :
    \/ Read(a)
    \/ CreateAccount(a)
    \/ \E n \in Amounts : AddBalance(a, n) \/ SubBalance(a, n)
    \/ \E n \in Nonces : SetNonce(a, n)
    \/ \E c \in Codes : SetCode(a, c)
    \/ \E n \in Balances : SetBalance(a, n)
    \/ Suicide(a)
    \/ SelfDestruct6780(a)

StorageOp ==
  \E a \in Touched :
    \/ \E s \in Slot, x \in Words : SetState(a, s, x) \/ SetTransientState(a, s, x)
    \/ \E m \in Storages : SetStorage(a, m)

GasOp ==
  \/ \E n \in Refunds : ChangeRefund(n) \/ ChangeRefund(-n)
  \/ \E a \in Addr : AddAddressToAccessList(a) \/ \E s \in Slot : AddSlotToAccessList(a, s)

FrameOp ==
  \/ Snapshot
  \/ Return
  \/ \E i \in 1 .. Len(snaps) : RevertToSnapshot(i)
  \/ RevertEntry
  \/ RevertDone
  \/ Finalise

Next == AccountOp \/ StorageOp \/ GasOp \/ FrameOp

Spec == Init /\ [][Next]_vars

-----------------------------------------------------------------------------
(* Properties.                                                              *)

\* A sequence, whatever its elements.
IsList(s) == Len(s) \in Nat /\ s = [i \in 1 .. Len(s) |-> s[i]]

\* Every component keeps the type its Go declaration gives it, and the history has a world
\* for every journal length.
TypeOK ==
  /\ w \in Worlds
  /\ loaded \subseteq {a \in Addr : DB[a].exists}
  /\ IsList(journal)
  /\ hist \in Seq(Worlds)
  /\ Len(hist) = Len(journal) + 1
  /\ snaps \in Seq(Nat)
  /\ target \in Nat \cup {Nil}
  /\ base \in Nat /\ txs \in 0 .. MaxTx

IndexesOK(al) ==
  /\ \A a \in Addr : al.addresses[a] \in {Absent, NoSlots} \cup (0 .. Len(al.slots) - 1)
  /\ \A a, b \in Addr :
       al.addresses[a] = al.addresses[b] /\ al.addresses[a] >= 0 => a = b
  /\ \A i \in 1 .. Len(al.slots) : al.slots[i] # {}

\* DeleteSlot cuts the slice at an index and trusts the journal's order that nothing later is
\* lost: through any mix of additions and reverts, every address keeps an index of its own
\* inside the slice and no slot set stays behind empty.
AccessListWellFormed == IndexesOK(w.al)

\* Each journal entry of the running transaction, undone in the world its write left behind,
\* gives back exactly the world before that write, and runs without panicking there.
JournalUndoes ==
  \A i \in base + 1 .. Len(journal) :
    /\ CanUndo(journal[i], hist[i + 1])
    /\ Undo(journal[i], hist[i + 1]) = hist[i]

Nested(marks, low, high) ==
  /\ \A i \in 1 .. Len(marks) : low <= marks[i] /\ marks[i] <= high
  /\ \A i, j \in 1 .. Len(marks) : i <= j => marks[i] <= marks[j]

\* The snapshots the open frames hold nest, lie inside the journal (below the target, while a
\* revert runs) and never reach back before the last Finalise, whose predecessors' entries no
\* longer undo anything.
SnapshotsNest ==
  /\ base <= Len(journal)
  /\ Nested(snaps, base, Len(journal))
  /\ target # Nil => base <= target /\ target <= Len(journal) /\ Nested(snaps, base, target)

\* The entry a running revert is about to undo can be undone: no closure dereferences a nil
\* balance delta and DeleteSlot finds its address, in whatever order frames nested and returned.
RevertNeverPanics ==
  ~Running /\ Len(journal) > target => CanUndo(journal[Len(journal)], w)

\* Whether an account exists or is empty does not depend on which accounts happened to be
\* read, and so cached, before: Exist and Empty decide gas costs and account creation.
ExistenceIgnoresReads ==
  \A a \in Addr : /\ Exist(w, loaded, a) = Exist(w, {}, a)
                  /\ Empty(w, loaded, a) = Empty(w, {}, a)

\* An account contract creation runs over keeps the balance it showed, whether that came from
\* the database, an override or earlier transfers, unless it self-destructed.
CreationKeepsBalance ==
  [][\A a \in Touched :
       CreateAccount(a) /\ ~w.objs[a].suicided =>
         GetBalance(w', loaded', a) = GetBalance(w, loaded, a)]_vars

\* The journal is sound: the state has its types, every entry of the running transaction
\* undoes exactly its own write, and the open frames' snapshots nest inside it and never
\* reach behind the last Finalise.
JournalSound == TypeOK /\ JournalUndoes /\ SnapshotsNest

\* A revert never panics, neither on a balance delta that is gone nor in the access list,
\* whose indices stay distinct and inside its slice of slot sets.
RevertSafe == RevertNeverPanics /\ AccessListWellFormed

Store == INSTANCE SnapshotStore WITH
  Worlds    <- Worlds,
  cur       <- IF Running THEN w ELSE hist[target + 1],
  saved     <- [i \in 1 .. Len(snaps) |-> hist[snaps[i] + 1]],
  reverting <- ~Running

\* The journal implements a stack of saved worlds: RevertToSnapshot brings back all that the
\* frame found when it took its snapshot (balances, nonces, code, storage, transient storage,
\* refund, access list and self-destructs) and no write disturbs an outer frame's snapshot.
ImplementsSnapshotStore == Store!Spec

-----------------------------------------------------------------------------
(* What a comment says and the code does not do.                            *)

\* opExtCodeHash: for a contract account "state should return the relative code hash".
ExtCodeHashOfContract ==
  \A a \in Addr :
    ~w.objs[a].suicided /\ GetCode(w, a) # EmptyCode => ExtCodeHash(w, loaded, a) = GetCode(w, a)

=============================================================================

----------------------------- MODULE AccessList -----------------------------
(***************************************************************************)
(* The EIP-2929 access list of state/access_list.go.  The Go structure is  *)
(* a map from addresses to an index into a slice of slot sets; the index   *)
(* is -1 for an address without slots.  An address the map does not hold   *)
(* is `Absent` here, so that `addresses` is a total function.  Go indices  *)
(* start at 0 and sequences at 1: slots[idx] is `al.slots[idx + 1]`.       *)
(***************************************************************************)
EXTENDS Integers, Sequences

CONSTANTS Addr, Slot

Absent == -2
NoSlots == -1

AccessLists ==
  [addresses : [Addr -> Int], slots : Seq(SUBSET Slot)]

NewAccessList ==
  [addresses |-> [a \in Addr |-> Absent], slots |-> << >>]

ContainsAddress(al, a) == al.addresses[a] # Absent

SlotsOf(al, a) ==
  IF al.addresses[a] \in {Absent, NoSlots} THEN {} ELSE al.slots[al.addresses[a] + 1]

Contains(al, a, s) == <<ContainsAddress(al, a), s \in SlotsOf(al, a)>>

\* The list after AddAddress, which reports a change iff the address was absent.
AddAddress(al, a) ==
  IF ContainsAddress(al, a) THEN al ELSE [al EXCEPT !.addresses[a] = NoSlots]

\* The list after AddSlot: an address without slots gets the next index.
AddSlot(al, a, s) ==
  IF al.addresses[a] \in {Absent, NoSlots}
    THEN [addresses |-> [al.addresses EXCEPT ![a] = Len(al.slots)],
          slots     |-> Append(al.slots, {s})]
    ELSE [al EXCEPT !.slots[al.addresses[a] + 1] = @ \cup {s}]

\* DeleteSlot panics on an absent address and indexes the slice with what the map holds.
CanDeleteSlot(al, a) == al.addresses[a] \in 0 .. Len(al.slots) - 1

\* Emptying a slot set cuts the slice at the set's index, whatever follows it.
DeleteSlot(al, a, s) ==
  LET idx  == al.addresses[a]
      rest == al.slots[idx + 1] \ {s}
  IN  IF rest = {}
        THEN [addresses |-> [al.addresses EXCEPT ![a] = NoSlots],
              slots     |-> SubSeq(al.slots, 1, idx)]
        ELSE [al EXCEPT !.slots[idx + 1] = rest]

DeleteAddress(al, a) == [al EXCEPT !.addresses[a] = Absent]

=============================================================================

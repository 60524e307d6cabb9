--------------------------- MODULE SnapshotStore ---------------------------
(***************************************************************************)
(* What the StateDB interface promises its callers about snapshots: a      *)
(* stack of saved worlds.  Snapshot saves the current world, any write     *)
(* leaves the saved ones alone, and reverting to a snapshot brings back    *)
(* exactly the world it saved and forgets the later ones.  While a revert  *)
(* runs nothing else happens, and it returns with that very world.  How    *)
(* the worlds are remembered is left open: StateDB keeps a journal of undo *)
(* entries.                                                                *)
(***************************************************************************)
EXTENDS Naturals, Sequences

CONSTANT Worlds

VARIABLES cur, saved, reverting

vars == <<cur, saved, reverting>>

Init == cur \in Worlds /\ saved = << >> /\ reverting = FALSE

Write == ~reverting /\ cur' \in Worlds /\ UNCHANGED <<saved, reverting>>

Snapshot == ~reverting /\ saved' = Append(saved, cur) /\ UNCHANGED <<cur, reverting>>

\* The caller will never revert to its innermost snapshot again.
Discard ==
  /\ ~reverting
  /\ saved # << >>
  /\ saved' = SubSeq(saved, 1, Len(saved) - 1)
  /\ UNCHANGED <<cur, reverting>>

Revert(i) ==
  /\ ~reverting /\ reverting' = TRUE
  /\ cur' = saved[i]
  /\ saved' = SubSeq(saved, 1, i - 1)

Reverted == reverting /\ reverting' = FALSE /\ UNCHANGED <<cur, saved>>

Next ==
  Write \/ Snapshot \/ Discard \/ Reverted \/ \E i \in 1 .. Len(saved) : Revert(i)

Spec == Init /\ [][Next]_vars

=============================================================================

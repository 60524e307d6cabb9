----------------------------- MODULE MCStateDB -----------------------------
(***************************************************************************)
(* Instances of StateDB for TLC.  The database holds a contract and a      *)
(* funded account that never sent a transaction; `newcomer` is absent.     *)
(*                                                                         *)
(* A run has one or more alphabets, one chosen at the start: every         *)
(* operation; the life of two accounts over three transactions; the access *)
(* list and the refund counter under deeper journals and nested frames of  *)
(* one transaction.                                                        *)
(***************************************************************************)
EXTENDS StateDB

CONSTANTS contract, funded, newcomer, empty, codeA, codeB, Foci
VARIABLE focus

MCDB ==
  [a \in Addr |->
     [exists  |-> a # newcomer,
      balance |-> IF a = newcomer THEN 0 ELSE 3,
      nonce   |-> IF a = contract THEN 1 ELSE 0,
      code    |-> IF a = contract THEN codeA ELSE empty,
      storage |-> [s \in Slot |-> IF a = contract THEN 1 ELSE 0]]]

MCStorages == {[s \in Slot |-> 0]}

MCInit == Init /\ focus \in Foci

Everything == focus = "all" /\ Next

Lifecycle ==
  /\ focus = "accounts"
  /\ AccountOp \/ FrameOp \/ \E a \in Addr : AddAddressToAccessList(a)
  /\ Len(journal') <= 3 /\ Len(snaps') <= 1

Warming ==
  /\ focus = "accessList"
  /\ GasOp \/ FrameOp
  /\ txs' <= 1

MCNext == (Everything \/ Lifecycle \/ Warming) /\ UNCHANGED focus

MCSpec == MCInit /\ [][MCNext]_<<vars, focus>>
=============================================================================

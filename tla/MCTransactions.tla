--------------------------- MODULE MCTransactions ---------------------------
(***************************************************************************)
(* Signing and relaying for TLC, one or the other from the start.  Signed  *)
(* are transactions of all kinds, with the chain given and left out, by    *)
(* signers of two chains and of chain 0; relayed are a transfer and a      *)
(* set-code transaction.                                                   *)
(***************************************************************************)
EXTENDS TxRelay, TxSigning

VARIABLE focus

Transaction(type, chain) ==
  [f \in DOMAIN Blank |->
     CASE f = "type" -> type
       [] f = "chain" -> chain
       [] f = "to" -> IF type >= BlobTxType THEN 1 ELSE Nil
       [] f = "sidecar" /\ type = BlobTxType -> 1
       [] f = "gas" \/ (f = "fee" /\ type >= DynamicFeeTxType) -> 2
       [] f \in {"price", "tip", "blobs", "auths"} /\ f \in Range(Fields(type)) -> 1
       [] OTHER -> Blank[f]]
MCInners ==
  {Transaction(LegacyTxType, 0), Transaction(AccessListTxType, 0), Transaction(DynamicFeeTxType, 1),
   Transaction(BlobTxType, 0), Transaction(SetCodeTxType, 0), Transaction(SetCodeTxType, 1)}
MCSigners ==
  {Signer(kind, 1) : kind \in {Frontier, EIP155, London, Cancun, Prague}}
    \cup {Signer(Cancun, 2), Signer(EIP155, 0)}

SignedBy(s, t) ==
  LET sig == Signed(1, SigHash(s, t))
  IN [t EXCEPT !.v = SignatureValues(s, t, sig), !.r = sig.r, !.s = sig.s]
MCTxs == {DynamicFeeTxType, SetCodeTxType}
MCData == [type \in MCTxs |-> SignedBy(Signer(Prague, 1), Transaction(type, 1))]
MCFork == Prague

SigningIdle == objects = <<>> /\ cells = <<>> /\ asking = <<>> /\ answered = {}

MCInit ==
  /\ focus \in {"signing", "relaying"}
  /\ Init
  /\ IF focus = "signing" THEN SignInit /\ topic = [p \in Parts |-> <<>>] ELSE SigningIdle

MCNext ==
  \/ focus = "signing" /\ SigningStep /\ UNCHANGED <<vars, focus>>
  \/ focus = "relaying" /\ Next /\ UNCHANGED <<signing, focus>>

MCSpec == MCInit /\ [][MCNext]_<<vars, signing, focus>> /\ \A p \in Parts : WF_vars(RelayStep(p))
=============================================================================

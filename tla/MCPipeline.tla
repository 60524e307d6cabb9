----------------------------- MODULE MCPipeline -----------------------------
(***************************************************************************)
(* Two chains of two blocks; the second of one of them changes no account. *)
(***************************************************************************)
EXTENDS Pipeline, TLC

MCChain ==
  "g" :> <<>> @@ "a1" :> <<"a1">>
  @@ "b1" :> <<"b1">> @@ "b2" :> <<"b1", "b2">>

Setting(threshold, exitAt, faults0, quiet, requests) ==
  [threshold |-> threshold, exitAt |-> exitAt, faults |-> faults0, quiet |-> quiet,
   requests |-> requests]

\* Every reorganisation announced; none; and an exit block, with a block that changes no account.
\* The requests are for a block and for one above every head.
MCSettings ==
  {Setting(0, 0, 1, {}, {}), Setting(1, 0, 1, {}, {<<1, 1>>, <<3, 3>>}),
   Setting(1, 1, 1, {"a1"}, {})}

=============================================================================

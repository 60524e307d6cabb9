--------------------------- MODULE MCInterpreter ---------------------------
(* Interpreter with a 16-bit uint64, in which 255 words of memory can be priced. *)
EXTENDS Interpreter

\* The forks whose tables differ in more than the name of an SSTORE function.
Mainnet ==
  {[fork |-> f, merge |-> AtLeast(f, "merge"), disabled |-> {}] :
     f \in {"frontier", "tangerineWhistle", "constantinople", "berlin", "shanghai", "osaka"}}

\* Cancun without a merge and with opcodes disabled, as on the Bor chains.
Bor == [fork |-> "cancun", merge |-> FALSE, disabled |-> {"BLOBHASH", "BLOBBASEFEE"}]

MCRules == Mainnet \cup {Bor}

\* Zero, one, the top of the priced memory, the top of a uint64, and past it.
MCWords == {0, 1, 8159, 65535, 65537}

\* Offset and size of a call's input and output.
Regions == {<<0, 0, 0, 0>>, <<0, 1, 0, 1>>, <<65537, 0, 1, 33>>, <<0, 65537, 0, 0>>,
            <<1, 1, 65535, 1>>}

MCOperands(n) ==
  CASE n <= 2 -> [0..(n - 1) -> MCWords]
    [] n = 3 -> [0..2 -> {0, 8159, 65537}]
    [] n \in 4..5 -> {[i \in 0..(n - 1) |-> IF i <= 3 THEN r[i + 1] ELSE 0] : r \in Regions}
    [] n = 6 -> {[i \in 0..5 |-> (<<g, 0>> \o r)[i + 1]] : g \in {0, 65537}, r \in Regions}
    [] n = 7 -> {[i \in 0..6 |-> (<<g, 0, v>> \o r)[i + 1]] :
                   g \in {0, 65537}, v \in {0, 1}, r \in Regions}

Warm == [exists |-> TRUE, empty |-> FALSE, cold |-> FALSE, delegated |-> FALSE,
         targetCold |-> FALSE, balance |-> FALSE, sstore |-> 100]

\* Only these gas functions look at the state.
MCView(fn) ==
  IF fn \notin {"gasCall", "gasCallEIP2929", "gasCallEIP7702", "gasCallCodeEIP2929",
                "gasCallCodeEIP7702", "gasDelegateCallEIP2929", "gasDelegateCallEIP7702",
                "gasStaticCallEIP2929", "gasStaticCallEIP7702", "gasExtCodeCopyEIP2929",
                "gasEip2929AccountCheck", "gasSLoadEIP2929", "gasSelfdestruct",
                "gasSelfdestructEIP2929", "gasSelfdestructEIP3529", "gasSStore",
                "gasSStoreEIP2200", "gasSStoreEIP2929", "gasSStoreEIP3529"}
    THEN {Warm}
    ELSE {Warm,
          [Warm EXCEPT !.cold = TRUE, !.delegated = TRUE, !.targetCold = TRUE,
                       !.balance = TRUE, !.sstore = 20000],
          [Warm EXCEPT !.exists = FALSE, !.empty = TRUE, !.cold = TRUE, !.balance = TRUE,
                       !.sstore = 5000]}

=============================================================================

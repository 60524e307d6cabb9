------------------------------- MODULE MCEVM -------------------------------
(***************************************************************************)
(* A sender, a contract, an account that delegates to it, an address       *)
(* nothing lives at and a precompile; the rules of Frontier, Berlin and    *)
(* Prague.                                                                 *)
(***************************************************************************)
EXTENDS EVM, TLC

MCAddr == {"sender", "contract", "other", "fresh", "precompile"}

MCCodes == {"empty", "x", "y", "init", "toContract", "ef", "big", "zero"}
MCTarget == [c \in MCCodes |-> IF c = "toContract" THEN "contract" ELSE None]
MCSize == [c \in MCCodes |-> CASE c = "empty" -> 0 [] c = "big" -> 3 [] OTHER -> 1]

Account(balance, nonce, code) ==
  [balance |-> balance, nonce |-> nonce, code |-> code, made |-> FALSE, gone |-> FALSE,
   store |-> 0]

World(code, berlin) ==
  [acct |-> ("sender" :> Account(1, 1, "empty") @@ "contract" :> Account(1, 1, "x")
             @@ "other" :> Account(0, 1, code) @@ "fresh" :> Account(0, 0, "empty")
             @@ "precompile" :> Account(0, 0, "empty")),
   warm |-> IF berlin THEN {"sender", "contract", "other", "precompile"} ELSE {}]

Stored(hash) == "sender" :> "empty" @@ "contract" :> "x" @@ "other" :> hash

Rules(n) ==
  [homestead |-> n >= 1, eip150 |-> n >= 1, eip158 |-> n >= 1,
   byzantium |-> n >= 1, constantinople |-> n >= 1, berlin |-> n >= 2,
   london |-> n >= 3, eip6780 |-> n >= 3, prague |-> n >= 3]

Begins(n, gas, code, hash) ==
  [rules |-> Rules(n), gas |-> gas, stored |-> Stored(hash), world |-> World(code, n >= 2)]

\* Prague with the most gas: there frames keep a share and nest deepest.
MCStart == {Begins(0, 3, "toContract", "toContract"), Begins(2, 3, "toContract", "toContract"),
            Begins(3, 4, "toContract", "toContract")}
=============================================================================

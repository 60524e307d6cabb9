-------------------------- MODULE MCStateTransition --------------------------
(* Small instances of StateTransition: a sender, an authority, a coinbase and *)
(* the account a creation deploys to.                                         *)
EXTENDS StateTransition, TLC

CONSTANTS alice, bob, miner, fresh

MCAddr == {alice, bob, miner, fresh}

Prague == [homestead |-> TRUE, eip158 |-> TRUE, istanbul |-> TRUE, london |-> TRUE,
           shanghai |-> TRUE, prague |-> TRUE]
Frontier == [f \in DOMAIN Prague |-> FALSE]
MCChains == {[rules |-> Prague, baseFee |-> 1], [rules |-> Frontier, baseFee |-> Nil]}

\* bob may be empty, and the place of the creation taken.
MCWorlds ==
  {[balance |-> (alice :> 400000 @@ bob :> b @@ miner :> 5 @@ fresh :> 0),
    nonce |-> (alice :> 1 @@ bob :> 0 @@ miner :> 0 @@ fresh :> n),
    code |-> [a \in MCAddr |-> NoCode], refund |-> 0] : <<b, n>> \in {<<3, 0>>, <<0, 1>>}}

Auth(c, a, n, d) == [chain |-> c, authority |-> a, nonce |-> n, address |-> d]

\* Repeated, self-signed, revoking, foreign and unsigned authorizations.
AuthLists ==
  {<< >>, <<Auth("any", bob, 0, miner), Auth("this", bob, 0, fresh)>>,
   <<Auth("this", alice, 2, bob), Auth("any", bob, 1, Nil)>>,
   <<Auth("other", bob, 0, miner), Auth("any", Nil, 0, miner)>>}

Fees == {<<Nil, Nil, Nil>>, <<2, Nil, Nil>>, <<Nil, 3, 1>>, <<Nil, 2, 2>>, <<Nil, 1, 2>>,
         <<2, 2, Nil>>}

Request(f, t, g, fee, v, z, nz, al) ==
  [from |-> f, to |-> t, gas |-> g, gasPrice |-> fee[1], maxFee |-> fee[2],
   maxTip |-> fee[3], value |-> v, zeros |-> z, nonzeros |-> nz, listed |-> 1,
   keys |-> 1, auths |-> al]

MCRequests ==
  {Request(alice, bob, g, fee, 0, 0, 300, << >>) : g \in {31000, 100000}, fee \in Fees}
  \cup {Request(alice, bob, Nil, fee, 200000, 0, 0, << >>) : fee \in Fees}
  \cup {Request(alice, bob, Nil, <<Nil, Nil, Nil>>, 1, 0, 0, al) : al \in AuthLists}
  \cup {Request(alice, Nil, g, <<2, Nil, Nil>>, 1, z, 0, << >>) :
          g \in {57000, 100000}, z \in {64, 100}}
  \cup {Request(bob, alice, 31000, fee, 2, 0, 0, << >>) :
          fee \in {<<Nil, Nil, Nil>>, <<2, Nil, Nil>>}}
=============================================================================

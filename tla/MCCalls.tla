------------------------------- MODULE MCCalls -------------------------------
(* Instances of Calls.                                                        *)
EXTENDS Calls

CONSTANTS sender, target, other, third, ecrecover

Block(id, number, limit) == [id |-> id, number |-> number, limit |-> limit]
b0 == Block("b0", 0, 100000)
b1 == Block("b1", 1, 100000)
b1x == Block("b1x", 1, 50000)
b2 == Block("b2", 2, 100000)
MCBlocks == {b0, b1, b1x, b2}
MCBranch ==
  [b \in MCBlocks |-> CASE b = b0 -> {b0} [] b = b1 -> {b0, b1}
                        [] b = b1x -> {b0, b1x} [] b = b2 -> {b0, b1, b2}]
MCFirst == b0
MCPrecompiles == {ecrecover}
Opts(type, scalar) == [type |-> type, scalar |-> scalar]
Raw == Opts("raw", 60000)

Op(op, at) == [op |-> op, at |-> at]
Do(op) == Op(op, 0)

Transfer == <<>>
Burner == <<Op("burn", 4000), Do("jump"), Op("burn", 1)>>
\* needs more gas than it uses
Greedy == <<Op("needs", 9000), Op("burn", 10), Do("jump")>>
\* succeeds with little and with much gas only
Picky == <<Op("atmost", 8000), Op("burn", 500)>>
Reverts == <<Op("burn", 100), Do("jump"), Do("revert")>>
Hungry == <<Op("burn", 39000)>>
Endless == <<Op("burn", 1000000)>>
\* an inner frame that jumps, and one that is reverted
Nested == <<Op("call", other), Op("sload", 1), Do("jump"), Op("burn", 300), Do("return"),
            Op("burn", 200), Do("jump"), Op("burn", 200)>>
Reader == <<Op("sload", 1), Op("balance", other), Op("sload", 2), Op("sload", 1)>>
Caller == <<Op("call", other), Op("sload", 1), Op("call", third), Op("balance", sender),
            Do("fail"), Op("call", third), Do("return"), Do("return"), Op("sload", 1)>>
Undone == <<Op("call", other), Op("sload", 2), Op("balance", third), Do("fail"),
            Op("call", other), Op("sload", 2), Do("return"), Op("balance", third),
            Op("balance", ecrecover)>>
\* storage of the account called and of the sender
Both == <<Op("sload", 1), Op("call", sender), Op("sload", 1), Do("return")>>

Programs == {Transfer, Burner, Greedy, Picky, Reverts, Endless, Nested, Reader, Caller, Undone}

Args(prog, gas, gasPrice, maxFee, value, list) ==
  [to |-> target, prog |-> prog, gas |-> gas, gasPrice |-> gasPrice, maxFee |-> maxFee,
   value |-> value, list |-> list]
Plain(prog) == Args(prog, Nil, Nil, Nil, Nil, {})

Latest == [by |-> "latest"]
At == {Latest, [by |-> "number", number |-> 1], [by |-> "hash", block |-> b0],
       [by |-> "hash", block |-> b1x]}
Request(kind, at, items, fast, overrides) ==
  [kind |-> kind, at |-> at, items |-> items, fast |-> fast, overrides |-> overrides,
   opts |-> Raw]

Fees == {<<Nil, Nil>>, <<2, Nil>>, <<Nil, 2>>, <<1, Nil>>, <<Nil, 5>>}

MCRequests ==
  {Request("read", at, <<>>, FALSE, "none") : at \in At}
  \cup {Request("call", Latest, <<Args(p, g, Nil, Nil, Nil, {})>>, FALSE, o) :
          p \in {Burner, Nested, Reverts}, g \in {Nil, 24000, 90000}, o \in {"none", "both"}}
  \cup {Request("call", Latest, <<Args(Burner, 30000, f[1], f[2], 5, {})>>, FALSE, "none") :
          f \in Fees \cup {<<2, 2>>}}
  \cup {Request("estimate", Latest, <<Plain(p)>>, FALSE, "none") : p \in Programs}
  \cup {Request("estimate", Latest, <<Args(Burner, g, f[1], f[2], v, {<<other>>})>>, FALSE, "none") :
          g \in {Nil, 30000}, f \in Fees \cup {<<2, 2>>}, v \in {Nil, 11000, 65000}}
  \cup {Request("list", Latest, <<Plain(p), Plain(q), Plain(Transfer)>>, fast, "none") :
          p \in {Burner, Hungry, Greedy}, q \in {Transfer, Burner, Picky}, fast \in BOOLEAN}
  \cup {[Request("list", Latest, <<Plain(Burner), Plain(q)>>, FALSE, "none") EXCEPT !.opts = o] :
          q \in {Transfer, Endless},
          o \in {Opts("raw", 0), Opts("block", 10), Opts("block", 400), Opts("double", 0)}}
  \cup {[Request("call", Latest, <<Plain(Greedy)>>, FALSE, "none") EXCEPT !.opts = o] :
          o \in {Opts("raw", 0), Opts("block", 10), Opts("double", 0)}}
  \cup {Request("accesslist", Latest, <<Args(p, g, f, Nil, Nil, l)>>, FALSE, "none") :
          p \in {Reader, Caller, Undone, Both, Greedy, Burner}, g \in {Nil, 23000, 40000},
          f \in {Nil, 0}, l \in {{}, {<<other>>, <<other, 1>>}, {<<sender>>, <<target>>, <<target, 3>>}}}
==============================================================================

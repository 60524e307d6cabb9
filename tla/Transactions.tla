----------------------------- MODULE Transactions -----------------------------
(***************************************************************************)
(* The transactions of package types: the five kinds, their encodings,     *)
(* hashes and prices (transaction.go and a file for each kind), and the    *)
(* signers that read and write their signatures (transaction_signing.go).  *)
(*                                                                         *)
(* Hashing is injective: a hash is the value that is hashed.  A signature  *)
(* is the key with what it signed (r), the half of the order it is in (s)  *)
(* and its parity; the other half with the other parity is as good.        *)
(***************************************************************************)
EXTENDS Integers, Sequences, Functions

CONSTANTS Nil,
          Word     \* 2^64: the chain id in v is computed in a uint64

LegacyTxType == 0
AccessListTxType == 1
DynamicFeeTxType == 2
BlobTxType == 3
SetCodeTxType == 4
TxTypes == LegacyTxType .. SetCodeTxType

Err == -1          \* any error; addresses are natural numbers
Stranger == 0      \* what a signature over something else recovers
BlobGasPerBlob == 2

\* The fields of the structs in the order of their encoding.
Fee(type) == IF type <= AccessListTxType THEN <<"price">> ELSE <<"tip", "fee">>
Own(type) ==
  CASE type = LegacyTxType -> <<>>
    [] type \in {AccessListTxType, DynamicFeeTxType} -> <<"accessList">>
    [] type = BlobTxType -> <<"accessList", "blobFee", "blobs">>
    [] type = SetCodeTxType -> <<"accessList", "auths">>
Fields(type) ==
  (IF type = LegacyTxType THEN <<>> ELSE <<"chain">>) \o <<"nonce">> \o Fee(type)
    \o <<"gas", "to", "value", "data">> \o Own(type)
Layout(type) == Fields(type) \o <<"v", "r", "s">>

Blank ==
  [type |-> 0, chain |-> 0, nonce |-> 0, price |-> 0, tip |-> 0, fee |-> 0, gas |-> 0, to |-> Nil,
   value |-> 0, data |-> 0, accessList |-> 0, blobFee |-> 0, blobs |-> 0, auths |-> 0,
   sidecar |-> Nil, v |-> 0, r |-> <<>>, s |-> 0]
-----------------------------------------------------------------------------
(* Encodings.  A list of the fields' encodings, after the type byte of a      *)
(* typed transaction; inside another encoding that is a string.               *)

List(items) == [kind |-> "list", items |-> items]
Str(x) == [kind |-> "string", of |-> x]
Struct(t) == List([i \in DOMAIN Layout(t.type) |-> Str(t[Layout(t.type)[i]])])
Unstruct(type, list) ==
  LET at(f) == CHOOSE i \in DOMAIN Layout(type) : Layout(type)[i] = f
  IN IF Len(list.items) # Len(Layout(type)) THEN Err
     ELSE [f \in DOMAIN Blank |->
             CASE f = "type" -> type
               [] f \in Range(Layout(type)) -> list.items[at(f)].of
               [] OTHER -> Blank[f]]

encode(t) ==
  IF t.sidecar = Nil THEN Struct(t)
  ELSE List(<<Struct(t), List(<<Str(t.sidecar)>>), List(<<>>), List(<<>>)>>)

decode(type, list) ==
  IF type # BlobTxType \/ list.items[1].kind # "list" THEN Unstruct(type, list)
  ELSE [Unstruct(type, list.items[1]) EXCEPT !.sidecar = list.items[2].items[1].of]

encodeTyped(t) == [kind |-> "typed", type |-> t.type, payload |-> encode(t)]
decodeTyped(b) ==
  IF b.kind = "typed" /\ b.type \in TxTypes \ {LegacyTxType} THEN decode(b.type, b.payload)
  ELSE Err

MarshalBinary(t) == IF t.type = LegacyTxType THEN Struct(t) ELSE encodeTyped(t)
UnmarshalBinary(b) == IF b.kind = "list" THEN Unstruct(LegacyTxType, b) ELSE decodeTyped(b)
EncodeRLP(t) == IF t.type = LegacyTxType THEN Struct(t) ELSE Str(encodeTyped(t))
DecodeRLP(b) ==
  IF b.kind = "list" THEN Unstruct(LegacyTxType, b) ELSE decodeTyped(b.of)

Hash(t) == IF t.type = LegacyTxType THEN <<Struct(t)>> ELSE <<t.type, Struct(t)>>
-----------------------------------------------------------------------------
(* Prices                                                                     *)

Min2(a, b) == IF a <= b THEN a ELSE b
GasPrice(t) == IF t.type <= AccessListTxType THEN t.price ELSE t.fee
GasFeeCap(t) == GasPrice(t)
GasTipCap(t) == IF t.type <= AccessListTxType THEN t.price ELSE t.tip
BlobGas(t) == IF t.type = BlobTxType THEN BlobGasPerBlob * t.blobs ELSE 0
Cost(t) ==
  GasPrice(t) * t.gas + (IF t.type = BlobTxType THEN t.blobFee * BlobGas(t) ELSE 0) + t.value

EffectiveGasTip(t, baseFee) ==
  IF baseFee = Nil THEN GasTipCap(t) ELSE Min2(GasTipCap(t), GasFeeCap(t) - baseFee)
effectiveGasPrice(t, baseFee) ==
  IF baseFee = Nil THEN t.fee
  ELSE (IF t.fee - baseFee > t.tip THEN t.tip ELSE t.fee - baseFee) + baseFee
MessagePrice(t, baseFee) ==
  IF baseFee = Nil THEN GasPrice(t) ELSE Min2(GasTipCap(t) + baseFee, GasFeeCap(t))
-----------------------------------------------------------------------------
(* Signers: each embeds the one before it and adds a kind of transaction.     *)

Frontier == 0
Homestead == 1
EIP155 == 2
EIP2930 == 3
London == 4
Cancun == 5
Prague == 6
Signer(kind, chain) == [kind |-> kind, chain |-> IF kind < EIP155 THEN Nil ELSE chain]

Equal(s, s2) == s.kind = s2.kind /\ s.chain = s2.chain

MakeSigner(fork, chain) == Signer(Min2(fork, Cancun), chain)

Value(t, f) ==
  CASE f = "price" -> GasPrice(t) [] f = "tip" -> GasTipCap(t) [] f = "fee" -> GasFeeCap(t)
    [] OTHER -> t[f]
Body(t, fields) == [i \in DOMAIN fields |-> Value(t, fields[i])]
\* Mutant: the last field of the struct is not signed.
TypedHashShort(s, t) ==
  <<t.type, s.chain>> \o Body(t, SubSeq(Fields(t.type), 2, Len(Fields(t.type)) - 1))
TypedHash(s, t) == <<t.type, s.chain>> \o Body(t, Tail(Fields(t.type)))

\* Hash, the hash to be signed.
FrontierHash(t) == Body(t, Fields(LegacyTxType))
EIP155Hash(s, t) == FrontierHash(t) \o <<s.chain, 0, 0>>
EIP2930Hash(s, t) ==
  CASE t.type = LegacyTxType -> EIP155Hash(s, t)
    [] t.type = AccessListTxType -> TypedHash(s, t)
    [] OTHER -> <<>>
LondonHash(s, t) == IF t.type = DynamicFeeTxType THEN TypedHash(s, t) ELSE EIP2930Hash(s, t)
CancunHash(s, t) == IF t.type = BlobTxType THEN TypedHash(s, t) ELSE LondonHash(s, t)
PragueHash(s, t) == IF t.type = SetCodeTxType THEN TypedHash(s, t) ELSE CancunHash(s, t)
SigHash(s, t) ==
  CASE s.kind <= Homestead -> FrontierHash(t)
    [] s.kind = EIP155 -> EIP155Hash(s, t)
    [] s.kind = EIP2930 -> EIP2930Hash(s, t)
    [] s.kind = London -> LondonHash(s, t)
    [] s.kind = Cancun -> CancunHash(s, t)
    [] s.kind = Prague -> PragueHash(s, t)
-----------------------------------------------------------------------------
(* Signatures                                                                 *)

Signed(key, hash) == [r |-> <<key, hash>>, s |-> 1, parity |-> 0]
Ecrecover(hash, v, r, s) == IF r[2] = hash /\ (v = 0 <=> s = 1) THEN r[1] ELSE Stranger

ValidateSignatureValues(v, r, s, homestead) ==
  r # <<>> /\ s >= 1 /\ (homestead => s = 1) /\ v \in {0, 1}
Abs(x) == IF x < 0 THEN -x ELSE x
recoverPlain(hash, r, s, vb, homestead) ==
  LET v == (Abs(vb) - 27) % 256
  IN IF Abs(vb) >= 256 \/ ~ValidateSignatureValues(v, r, s, homestead) THEN Err
     ELSE Ecrecover(hash, v, r, s)

deriveChainId(v) ==
  CASE v \in {27, 28} -> 0
    [] v \notin {27, 28} /\ v < Word -> ((v - 35) % Word) \div 2
    [] OTHER -> (v - 35) \div 2
isProtectedV(v) == v \notin {27, 28, 1, 0}
Protected(t) == t.type = LegacyTxType => isProtectedV(t.v)
ChainId(t) == IF t.type = LegacyTxType THEN deriveChainId(t.v) ELSE t.chain

TypedSender(s, t, hash) ==
  IF t.chain # s.chain THEN Err ELSE recoverPlain(hash, t.r, t.s, t.v + 27, TRUE)

\* signer.Sender, without the cache.
FrontierSender(t) ==
  IF t.type # LegacyTxType THEN Err ELSE recoverPlain(FrontierHash(t), t.r, t.s, t.v, FALSE)
HomesteadSender(t) ==
  IF t.type # LegacyTxType THEN Err ELSE recoverPlain(FrontierHash(t), t.r, t.s, t.v, TRUE)
EIP155Sender(s, t) ==
  CASE t.type # LegacyTxType -> Err
    [] t.type = LegacyTxType /\ ~Protected(t) -> HomesteadSender(t)
    [] t.type = LegacyTxType /\ Protected(t) ->
         IF ChainId(t) # s.chain THEN Err
         ELSE recoverPlain(EIP155Hash(s, t), t.r, t.s, t.v - 2 * s.chain - 8, TRUE)
EIP2930Sender(s, t) ==
  CASE t.type = LegacyTxType -> EIP155Sender(s, t)
    [] t.type = AccessListTxType -> TypedSender(s, t, EIP2930Hash(s, t))
    [] OTHER -> Err
LondonSender(s, t) ==
  IF t.type = DynamicFeeTxType THEN TypedSender(s, t, LondonHash(s, t)) ELSE EIP2930Sender(s, t)
CancunSender(s, t) ==
  IF t.type = BlobTxType THEN TypedSender(s, t, CancunHash(s, t)) ELSE LondonSender(s, t)
PragueSender(s, t) ==
  IF t.type = SetCodeTxType THEN TypedSender(s, t, PragueHash(s, t)) ELSE CancunSender(s, t)
Recover(s, t) ==
  CASE s.kind = Frontier -> FrontierSender(t)
    [] s.kind = Homestead -> HomesteadSender(t)
    [] s.kind = EIP155 -> EIP155Sender(s, t)
    [] s.kind = EIP2930 -> EIP2930Sender(s, t)
    [] s.kind = London -> LondonSender(s, t)
    [] s.kind = Cancun -> CancunSender(s, t)
    [] s.kind = Prague -> PragueSender(s, t)

\* SignatureValues: the v that is written into the transaction, or an error.  A chain id of
\* zero is one that was not given; a set-code transaction must give it.
TypedValues(s, t, sig) == IF t.chain \in {0, s.chain} THEN sig.parity ELSE Err
FrontierValues(t, sig) == IF t.type # LegacyTxType THEN Err ELSE sig.parity + 27
EIP155Values(s, t, sig) ==
  CASE t.type # LegacyTxType -> Err
    [] t.type = LegacyTxType /\ s.chain = 0 -> sig.parity + 27
    [] OTHER -> sig.parity + 35 + 2 * s.chain
EIP2930Values(s, t, sig) ==
  CASE t.type = LegacyTxType -> EIP155Values(s, t, sig)
    [] t.type = AccessListTxType -> TypedValues(s, t, sig)
    [] OTHER -> Err
LondonValues(s, t, sig) ==
  IF t.type = DynamicFeeTxType THEN TypedValues(s, t, sig) ELSE EIP2930Values(s, t, sig)
CancunValues(s, t, sig) ==
  IF t.type = BlobTxType THEN TypedValues(s, t, sig) ELSE LondonValues(s, t, sig)
\* Mutant: what the comment in the function says of chain id zero.
PragueValuesZero(s, t, sig) ==
  IF t.type = SetCodeTxType THEN TypedValues(s, t, sig) ELSE CancunValues(s, t, sig)
PragueValues(s, t, sig) ==
  CASE t.type # SetCodeTxType -> CancunValues(s, t, sig)
    [] t.type = SetCodeTxType /\ t.chain = s.chain -> sig.parity
    [] OTHER -> Err
SignatureValues(s, t, sig) ==
  CASE s.kind <= Homestead -> FrontierValues(t, sig)
    [] s.kind = EIP155 -> EIP155Values(s, t, sig)
    [] s.kind = EIP2930 -> EIP2930Values(s, t, sig)
    [] s.kind = London -> LondonValues(s, t, sig)
    [] s.kind = Cancun -> CancunValues(s, t, sig)
    [] s.kind = Prague -> PragueValues(s, t, sig)

AsMessage(s, t, baseFee) ==
  [from |-> Recover(s, t), gasPrice |-> MessagePrice(t, baseFee), to |-> t.to, nonce |-> t.nonce]
==============================================================================

-------------------------------- MODULE MCBN256 --------------------------------
(***************************************************************************)
(* The curve of the family with u = 1: P = 103, Order = 97, and elements   *)
(* of two words of four bits.                                              *)
(***************************************************************************)
EXTENDS BN256
two(x, y) == [x |-> x, y |-> y]
MCcurveGen == <<2, 42>>
MCtwistGen == <<two(38, 87), two(75, 91)>>
MCtwistB == two(95, 64)
MCsixuPlus2NAF == <<0, 0, 0, -1, 1>>
MCxiToPMinus1Over6 == two(88, 48)
MCxiToPMinus1Over3 == two(2, 19)
MCxiToPMinus1Over2 == two(17, 15)
MCxiTo2PMinus2Over3 == two(76, 48)
MCp2 == <<7, 6>>
MCnp == <<9, 10>>
MCgT == <<13, 4, 19, 87, 12, 50, 15, 63, 9, 88, 95, 78>>
MCScalars == {0, 1, 2, 48, 96, 100}
MCWordValues == {0, 1, 2, 7, 15, 16, 17, 50, 51, 52, 85, 95, 96, 97, 101, 102}
MCElements == {<<3, 10, 17, 24, 31, 38, 45, 52, 59, 66, 73, 80>>,
                <<102, 102, 102, 102, 102, 1, 102, 102, 102, 102, 102, 102>>}
MCInputs1 == {<<x, y>> : x \in 0 .. P + 2, y \in {0, 1, 42, 61, 103, 145}}
MCInputs2 ==
  {<<0, 0, 0, 0>>, <<38, 87, 75, 91>>, <<38, 87, 28, 12>>,
   <<38, 87, 75, 92>>, <<0, 1, 8, 51>>, <<3, 71, 94, 45>>, <<38 + 103, 87, 75, 91>>, <<38, 87, 75, 91 + 103>>}

ASSUME Google!Literals
=============================================================================

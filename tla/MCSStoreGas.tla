---------------------------- MODULE MCSStoreGas ----------------------------
(***************************************************************************)
(* Instances of SStoreGas for TLC, with the real gas constants.            *)
(***************************************************************************)
EXTENDS SStoreGas

CONSTANTS s1, s2

AllForks == {"legacy", "eip1283", "eip2200", "eip2929", "eip3529"}
MCListed == {{}, {s1}}

=============================================================================

---------------------------- MODULE DatapathBits ----------------------------
(***************************************************************************)
(* The bitwise operators the runs give to Datapath.                        *)
(***************************************************************************)
EXTENDS Datapath, Bitwise

MCXor(a, b) == a ^^ b
MCOr(a, b)  == a | b
MCAnd(a, b) == a & b
=============================================================================

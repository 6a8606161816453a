---------------------------- MODULE MCFunctional ----------------------------
(***************************************************************************)
(* Functional on the programs of Binaries.  DatapathLaws is here to have   *)
(* its assumptions evaluated on the data path all runs use.                *)
(***************************************************************************)
EXTENDS Functional, Binaries, DatapathLaws
=============================================================================

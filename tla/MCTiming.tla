------------------------------ MODULE MCTiming ------------------------------
(***************************************************************************)
(* PipelineTiming on the programs of Binaries.                             *)
(***************************************************************************)
EXTENDS PipelineTiming, Binaries
=============================================================================

------------------------------- MODULE MCCache -------------------------------
(***************************************************************************)
(* Cache on a configuration whose number of sets is no power of two.       *)
(***************************************************************************)
EXTENDS Cache

\* the first bytes of memory, one after the other
MCFirstBytes == 0 .. 7
=============================================================================

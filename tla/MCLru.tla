-------------------------------- MODULE MCLru --------------------------------
(***************************************************************************)
(* Cache on a few blocks that compete for two sets of three ways, under    *)
(* the laws its refinement of Lru is proved from.                          *)
(***************************************************************************)
EXTENDS CacheLaws

\* five blocks of set 0 (one of them by two addresses) and one of set 1
MCAddress == {0, 1, 2, 4, 8, 12, 16}
=============================================================================

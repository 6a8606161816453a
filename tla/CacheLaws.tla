------------------------------ MODULE CacheLaws ------------------------------
(***************************************************************************)
(* What the refinement of Lru needs of a configuration: block size and     *)
(* number of sets are powers of two, so that the bit fields of an address  *)
(* are quotients and remainders.                                           *)
(***************************************************************************)
EXTENDS Cache

ASSUME PowersOfTwo ==
  /\ blockSize \in Nat \ {0} /\ blockSize = 2^blockOffsetBits
  /\ numberOfSets \in Nat \ {0} /\ numberOfSets = 2^setIndexBits

ASSUME TagIsQuotient == \A a \in Address : tag(a) = L!Block(a) \div numberOfSets
=============================================================================

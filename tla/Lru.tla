--------------------------------- MODULE Lru ---------------------------------
(***************************************************************************)
(* What project2.txt:258-267 asks of a cache: set-associative, true LRU,   *)
(* allocating on a miss, and counting hits and misses.  A set is the       *)
(* blocks it holds and the order in which they were last used; there is no *)
(* time in it.                                                             *)
(***************************************************************************)
EXTENDS Naturals, FiniteSets

CONSTANTS BlockSize, NumberOfSets, Ways, Address

VARIABLES
  held,      \* held[s]: the blocks of set s
  newer,     \* newer[s]: pairs of them, the first used after the second
  hits, misses

lruVars == <<held, newer, hits, misses>>

Block(a) == a \div BlockSize
SetOf(a) == Block(a) % NumberOfSets

\* the blocks of set s that all others were used after
leastRecent(s) ==
  { c \in held[s] : \A d \in held[s] \ {c} : <<d, c>> \in newer[s] }

\* what stays of set s when block b is used
kept(s, b) ==
  IF b \in held[s] \/ Cardinality(held[s]) < Ways
    THEN held[s] ELSE held[s] \ leastRecent(s)

LruInit ==
  /\ held = [s \in 0 .. NumberOfSets - 1 |-> {}]
  /\ newer = [s \in 0 .. NumberOfSets - 1 |-> {}]
  /\ hits = 0
  /\ misses = 0

\* block b of set s becomes the most recent one
Use(s, b) ==
  LET others == kept(s, b) \ {b}
  IN  /\ held' = [held EXCEPT ![s] = others \cup {b}]
      /\ newer' = [newer EXCEPT ![s] =
                     (@ \cap (others \X others)) \cup ({b} \X others)]
      /\ IF b \in held[s]
           THEN hits' = hits + 1 /\ UNCHANGED misses
           ELSE misses' = misses + 1 /\ UNCHANGED hits

LruAccess(a) == Use(SetOf(a), Block(a))

LruSpec == LruInit /\ [][\E a \in Address : LruAccess(a)]_lruVars
=============================================================================

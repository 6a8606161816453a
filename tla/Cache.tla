-------------------------------- MODULE Cache --------------------------------
(***************************************************************************)
(* cache.cpp and cache.h: the geometry derived from the configuration, and *)
(* access, which probes a set, and on a miss fills the first invalid line  *)
(* or the one with the oldest timestamp.  readWrite changes nothing.       *)
(***************************************************************************)
EXTENDS Naturals, FiniteSets

CONSTANTS
  cacheSize, blockSize, ways,   \* struct CacheConfig
  Address,                      \* the addresses accessed
  MaxAccesses                   \* bound on the accesses explored

\* The configurations project2.txt:262-264 allows.
ASSUME CacheConfig ==
  /\ ways \in Nat \ {0}
  /\ \E k \in 0 .. 64 : blockSize = 2^k
  /\ cacheSize \in Nat \ {0}
  /\ cacheSize % (blockSize * ways) = 0
  /\ Address \subseteq Nat

VARIABLES sets, lruClock, hits, misses

vars == <<sets, lruClock, hits, misses>>

-----------------------------------------------------------------------------
\* the least number of bits b with 2^b >= value
log2u64(value) == CHOOSE b \in 0 .. 64 : /\ 2^b >= value
                                         /\ \A c \in 0 .. b - 1 : 2^c < value

blockOffsetBits == log2u64(blockSize)
numberOfSets    == cacheSize \div (blockSize * ways)
setIndexBits    == log2u64(numberOfSets)

setIndex(a) == (a \div 2^blockOffsetBits) % 2^setIndexBits
tag(a)      == a \div 2^(blockOffsetBits + setIndexBits)

\* shifting and masking a uint64_t yields one
ASSUME AddressFields == \A a \in Address : setIndex(a) \in Nat /\ tag(a) \in Nat

Way  == 0 .. ways - 1
Line == [isValid : BOOLEAN, tag : Nat, lruTimestamp : Nat]

\* mutant: the probe misses the last way
hitWays_NotLast(a) ==
  { w \in 0 .. ways - 2 :
      sets[setIndex(a)][w].isValid /\ sets[setIndex(a)][w].tag = tag(a) }

\* the ways of address a's set that hold its block
hitWays(a) ==
  { w \in Way : sets[setIndex(a)][w].isValid /\ sets[setIndex(a)][w].tag = tag(a) }

invalidWays(s) == { w \in Way : ~sets[s][w].isValid }

oldestWays(s) ==
  { w \in Way : \A v \in Way : sets[s][w].lruTimestamp <= sets[s][v].lruTimestamp }

first(W) == CHOOSE w \in W : \A v \in W : w <= v

victim(s) ==
  IF invalidWays(s) # {} THEN first(invalidWays(s)) ELSE first(oldestWays(s))

\* mutant: lruClock + 1 where the code has ++lruClock
ticked_NotStored == lruClock

\* ++lruClock
ticked == lruClock + 1

\* mutant: first in, first out
used_Fifo(line) == line

\* the line after a hit
used(line) == [line EXCEPT !.lruTimestamp = lruClock + 1]

-----------------------------------------------------------------------------
Init ==
  /\ sets = [s \in 0 .. numberOfSets - 1 |->
               [w \in Way |-> [isValid |-> FALSE, tag |-> 0, lruTimestamp |-> 0]]]
  /\ lruClock = 0
  /\ hits = 0
  /\ misses = 0

\* an index beyond the vector of sets is undefined behaviour and not explored:
\* IndexInRange says whether there is one
canAccess(a) == lruClock < MaxAccesses /\ setIndex(a) \in DOMAIN sets

Hit(a) ==
  /\ canAccess(a)
  /\ hitWays(a) # {}
  /\ LET w == first(hitWays(a))
     IN  sets' = [sets EXCEPT ![setIndex(a)][w] = used(@)]
  /\ lruClock' = ticked
  /\ hits' = hits + 1
  /\ UNCHANGED misses

Miss(a) ==
  /\ canAccess(a)
  /\ hitWays(a) = {}
  /\ LET w == victim(setIndex(a))
     IN  sets' = [sets EXCEPT ![setIndex(a)][w] =
           [isValid |-> TRUE, tag |-> tag(a), lruTimestamp |-> lruClock + 1]]
  /\ lruClock' = ticked
  /\ misses' = misses + 1
  /\ UNCHANGED hits

Next == \E a \in Address : Hit(a) \/ Miss(a)

Spec == Init /\ [][Next]_vars

-----------------------------------------------------------------------------
\* the block a valid line of set s holds
blockOf(s, w) == sets[s][w].tag * 2^setIndexBits + s

validWays(s) == { w \in Way : sets[s][w].isValid }

heldBlocks(s) == { blockOf(s, w) : w \in validWays(s) }

newerBlocks(s) ==
  { <<blockOf(s, p[1]), blockOf(s, p[2])>> :
      p \in { q \in validWays(s) \X validWays(s) :
                sets[s][q[1]].lruTimestamp > sets[s][q[2]].lruTimestamp } }

L == INSTANCE Lru WITH
       BlockSize <- blockSize, NumberOfSets <- numberOfSets, Ways <- ways,
       held  <- [s \in 0 .. numberOfSets - 1 |-> heldBlocks(s)],
       newer <- [s \in 0 .. numberOfSets - 1 |-> newerBlocks(s)]

\* Lines are structs of the code's type, and no line is newer than the clock.
TypeOK ==
  /\ sets \in [0 .. numberOfSets - 1 -> [Way -> Line]]
  /\ lruClock \in Nat /\ hits \in Nat /\ misses \in Nat
  /\ hits + misses = lruClock
  /\ \A s \in DOMAIN sets, w \in Way : sets[s][w].lruTimestamp <= lruClock

\* A set never holds a block twice, and no two lines were used at the same
\* time: otherwise a probe could find a line that an earlier one had
\* superseded, and the oldest line would not be unique.
LinesDistinct ==
  \A s \in DOMAIN sets : \A v, w \in Way :
    v # w /\ sets[s][v].isValid /\ sets[s][w].isValid
      => /\ sets[s][v].tag # sets[s][w].tag
         /\ sets[s][v].lruTimestamp # sets[s][w].lruTimestamp

\* Timestamps, victims and first invalid lines amount to true LRU replacement
\* with write-allocate, call for call and hit for hit (project2.txt:258-267).
\* A step alone does not tell which address was accessed, so the second
\* conjunct has every access be the abstract access of the same address.
ImplementsLru ==
  /\ L!LruSpec
  /\ [][\A a \in Address : Hit(a) \/ Miss(a) => L!LruAccess(a)]_vars

\* "the cache size will always be a multiple of (block size * number of ways)"
\* (project2.txt:262-264) is all the configuration has to satisfy, so every
\* address should have a set in every such cache.
IndexInRange == \A a \in Address : setIndex(a) \in DOMAIN sets
=============================================================================

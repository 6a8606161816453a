----------------------------- MODULE CacheProofs -----------------------------
(***************************************************************************)
(* Proofs about Cache.  That no set holds a block twice needs the bound of *)
(* the timestamps by the clock; that the lowest timestamp marks the least  *)
(* recently used block needs both, and the laws of CacheLaws, which only   *)
(* the second part, the refinement of Lru, cites.                          *)
(***************************************************************************)
EXTENDS CacheLaws, FiniteSetTheorems, WellFoundedInduction, TLAPS

\* A set of numbers that is not empty has a least one.
LEMMA Least ==
  ASSUME NEW T \in SUBSET Nat, T # {}
  PROVE  \E x \in T : \A y \in T : x <= y
<1> DEFINE R == { p \in Nat \X Nat : p[1] < p[2] }
<1>1. R = OpToRel(<, Nat)
  BY Zenon DEF OpToRel
<1>2. IsWellFoundedOn(R, Nat)
  BY <1>1, NatLessThanWellFounded
<1> HIDE DEF R
<1>3. PICK x \in T : \A y \in T : <<y, x>> \notin R
  BY <1>2, WFMin
<1>4. ASSUME NEW y \in T PROVE x <= y
  <2>1. x \in Nat /\ y \in Nat
    OBVIOUS
  <2>2. y < x => <<y, x>> \in R
    BY <2>1 DEF R
  <2> QED BY <1>3, <2>1, <2>2
<1> QED BY <1>4

\* The first of a set of ways is one of them.
LEMMA FirstIn ==
  ASSUME NEW W \in SUBSET Way, W # {}
  PROVE  first(W) \in W
<1>1. \E w \in W : \A v \in W : w <= v
  BY Least DEF Way
<1> QED BY <1>1 DEF first

\* A victim always exists: an invalid line if there is one, else an oldest.
LEMMA VictimIn ==
  ASSUME TypeOK, NEW s \in DOMAIN sets
  PROVE  /\ victim(s) \in Way
         /\ invalidWays(s) # {} => victim(s) \in invalidWays(s)
         /\ invalidWays(s) = {} => victim(s) \in oldestWays(s)
<1>1. CASE invalidWays(s) # {}
  BY <1>1, FirstIn DEF victim, invalidWays
<1>2. CASE invalidWays(s) = {}
  <2> DEFINE T == { sets[s][w].lruTimestamp : w \in Way }
  <2>1. T \in SUBSET Nat
    BY DEF TypeOK, Line
  <2>2. T # {}
    <3>1. 0 \in Way
      BY CacheConfig DEF Way
    <3> QED BY <3>1
  <2>3. PICK x \in T : \A y \in T : x <= y
    BY <2>1, <2>2, Least
  <2>4. oldestWays(s) # {}
    BY <2>3 DEF oldestWays
  <2> QED BY <1>2, <2>4, FirstIn DEF victim, oldestWays
<1> QED BY <1>1, <1>2

\* The way a hit finds holds the block.
LEMMA HitIn ==
  ASSUME NEW a \in Address, hitWays(a) # {}
  PROVE  first(hitWays(a)) \in hitWays(a) /\ first(hitWays(a)) \in Way
BY FirstIn DEF hitWays

-----------------------------------------------------------------------------
\* The struct a hit or a miss leaves in a line.
Filled(t) == [isValid |-> TRUE, tag |-> t, lruTimestamp |-> lruClock + 1]

\* A hit leaves in its line what a miss on its tag would.
LEMMA UsedIsFilled ==
  ASSUME lruClock \in Nat, NEW l \in Line, l.isValid
  PROVE  used(l) = Filled(l.tag)
<1>1. used(l) \in Line /\ Filled(l.tag) \in Line
  BY DEF used, Filled, Line
<1>2. /\ used(l).isValid = l.isValid /\ used(l).tag = l.tag
      /\ used(l).lruTimestamp = lruClock + 1
  BY DEF used, Line
<1>3. Filled(l.tag).tag = l.tag /\ Filled(l.tag).lruTimestamp = lruClock + 1
  BY DEF Filled
<1>4. used(l).isValid = Filled(l.tag).isValid
  <2>1. l.isValid \in BOOLEAN
    BY DEF Line
  <2> QED BY <1>2, <2>1 DEF Filled
<1> QED BY <1>1, <1>2, <1>3, <1>4 DEF Line

(***************************************************************************)
(* Hit and Miss both stamp one way of the set, which afterwards holds the  *)
(* block of a; it is the one that held it before, or none did.             *)
(***************************************************************************)
LEMMA Stamped ==
  ASSUME TypeOK, LinesDistinct, NEW a \in Address, Hit(a) \/ Miss(a)
  PROVE  \E w \in Way :
           /\ sets' = [sets EXCEPT ![setIndex(a)][w] = Filled(tag(a))]
           /\ \A v \in Way \ {w} :
                sets[setIndex(a)][v].isValid => sets[setIndex(a)][v].tag # tag(a)
           /\ hitWays(a) # {} => w \in hitWays(a)
           /\ hitWays(a) = {} => w = victim(setIndex(a))
<1> DEFINE s == setIndex(a)
<1>0. s \in DOMAIN sets /\ sets[s] \in [Way -> Line]
  BY DEF Hit, Miss, canAccess, TypeOK
<1>1. CASE Hit(a)
  <2> DEFINE w == first(hitWays(a))
  <2>1. hitWays(a) # {} /\ w \in hitWays(a) /\ w \in Way
    BY <1>1, HitIn DEF Hit
  <2>2. sets[s][w] \in Line /\ sets[s][w].isValid = TRUE /\ sets[s][w].tag = tag(a)
    BY <2>1, <1>0 DEF hitWays, Line
  <2>3. used(sets[s][w]) = Filled(tag(a))
    BY <2>2, UsedIsFilled DEF TypeOK
  <2>4. sets' = [sets EXCEPT ![s][w] = Filled(tag(a))]
    BY <1>1, <2>3 DEF Hit
  <2>5. \A v \in Way \ {w} : sets[s][v].isValid => sets[s][v].tag # tag(a)
    BY <1>0, <2>1, <2>2 DEF LinesDistinct
  <2> QED BY <2>1, <2>4, <2>5
<1>2. CASE Miss(a)
  <2>1. victim(s) \in Way
    BY <1>0, VictimIn
  <2>2. \A v \in Way : sets[s][v].isValid => sets[s][v].tag # tag(a)
    BY <1>2 DEF Miss, hitWays
  <2> QED BY <1>2, <2>1, <2>2 DEF Miss, Filled
<1> QED BY <1>1, <1>2

\* An access keeps the types.
LEMMA TypeStep ==
  ASSUME TypeOK, LinesDistinct, [Next]_vars
  PROVE  TypeOK'
<1>1. CASE UNCHANGED vars
  BY <1>1 DEF vars, TypeOK
<1>2. CASE Next
  <2>1. PICK a \in Address : Hit(a) \/ Miss(a)
    BY <1>2 DEF Next
  <2>2. PICK w \in Way : sets' = [sets EXCEPT ![setIndex(a)][w] = Filled(tag(a))]
    BY <2>1, Stamped
  <2>3. setIndex(a) \in DOMAIN sets /\ tag(a) \in Nat
    BY <2>1, AddressFields DEF Hit, Miss, canAccess
  <2>4. /\ lruClock' = lruClock + 1
        /\ \/ hits' = hits + 1 /\ misses' = misses
           \/ misses' = misses + 1 /\ hits' = hits
    BY <2>1 DEF Hit, Miss, ticked
  <2>5. /\ sets' \in [0 .. numberOfSets - 1 -> [Way -> Line]]
        /\ sets'[setIndex(a)][w] = Filled(tag(a))
        /\ \A r \in DOMAIN sets, v \in Way :
             r # setIndex(a) \/ v # w => sets'[r][v] = sets[r][v]
    <3>1. Filled(tag(a)) \in Line
      BY <2>3 DEF Filled, Line, TypeOK
    <3> QED BY <2>2, <2>3, <3>1 DEF TypeOK
  <2>6. ASSUME NEW r \in DOMAIN sets', NEW v \in Way
        PROVE  sets'[r][v].lruTimestamp <= lruClock'
    <3>1. r \in DOMAIN sets /\ sets[r][v] \in Line
      BY <2>5 DEF TypeOK
    <3>2. sets[r][v].lruTimestamp <= lruClock /\ lruClock \in Nat
      BY <3>1 DEF TypeOK
    <3>3. CASE r # setIndex(a) \/ v # w
      BY <2>4, <2>5, <3>1, <3>2, <3>3 DEF Line
    <3>4. CASE r = setIndex(a) /\ v = w
      BY <2>4, <2>5, <3>2, <3>4 DEF Filled
    <3> QED BY <3>3, <3>4
  <2>7. /\ lruClock' \in Nat /\ hits' \in Nat /\ misses' \in Nat
        /\ hits' + misses' = lruClock'
    BY <2>4 DEF TypeOK
  <2> QED BY <2>5, <2>6, <2>7 DEF TypeOK
<1> QED BY <1>1, <1>2

\* An access keeps blocks and timestamps apart.
LEMMA DistinctStep ==
  ASSUME TypeOK, LinesDistinct, [Next]_vars
  PROVE  LinesDistinct'
<1>1. CASE UNCHANGED vars
  BY <1>1 DEF vars, LinesDistinct
<1>2. CASE Next
  <2>1. PICK a \in Address : Hit(a) \/ Miss(a)
    BY <1>2 DEF Next
  <2> DEFINE s == setIndex(a)
  <2>2. PICK w \in Way :
          /\ sets' = [sets EXCEPT ![s][w] = Filled(tag(a))]
          /\ \A v \in Way \ {w} : sets[s][v].isValid => sets[s][v].tag # tag(a)
    BY <2>1, Stamped
  <2>3. s \in DOMAIN sets /\ tag(a) \in Nat
    BY <2>1, AddressFields DEF Hit, Miss, canAccess
  <2>4. /\ DOMAIN sets' = DOMAIN sets
        /\ sets'[s][w] = Filled(tag(a))
        /\ \A r \in DOMAIN sets, v \in Way :
             r # s \/ v # w => sets'[r][v] = sets[r][v]
    <3>1. Filled(tag(a)) \in Line
      BY <2>3 DEF Filled, Line, TypeOK
    <3> QED BY <2>2, <2>3, <3>1 DEF TypeOK
  <2>5. \A r \in DOMAIN sets, v \in Way : sets[r][v].lruTimestamp # lruClock + 1
    BY DEF TypeOK, Line
  <2>6. ASSUME NEW r \in DOMAIN sets, NEW u \in Way, NEW v \in Way, u # v,
               sets'[r][u].isValid, sets'[r][v].isValid
        PROVE  /\ sets'[r][u].tag # sets'[r][v].tag
               /\ sets'[r][u].lruTimestamp # sets'[r][v].lruTimestamp
    <3>1. CASE r = s /\ u = w
      BY <3>1, <2>2, <2>4, <2>5, <2>6 DEF Filled
    <3>2. CASE r = s /\ v = w
      BY <3>2, <2>2, <2>4, <2>5, <2>6 DEF Filled
    <3>3. CASE r # s \/ (u # w /\ v # w)
      BY <3>3, <2>4, <2>6 DEF LinesDistinct
    <3> QED BY <3>1, <3>2, <3>3
  <2> QED BY <2>4, <2>6 DEF LinesDistinct
<1> QED BY <1>1, <1>2

\* The empty cache has both.
LEMMA InitOK == Init => TypeOK /\ LinesDistinct
BY DEF Init, TypeOK, LinesDistinct, Line

\* Every access, on any geometry, keeps the lines and counters within their
\* types, and every access is counted as a hit or as a miss.
THEOREM CacheTypeCorrect == Spec => []TypeOK
<1>1. TypeOK /\ LinesDistinct /\ [Next]_vars => (TypeOK /\ LinesDistinct)'
  BY TypeStep, DistinctStep
<1> QED BY <1>1, InitOK, PTL DEF Spec

\* No sequence of accesses leaves a block twice in a set, or two lines equally
\* old: the probe has one line to find and the replacement one to evict.
THEOREM BlocksHeldOnce == Spec => []LinesDistinct
<1>1. TypeOK /\ LinesDistinct /\ [Next]_vars => (TypeOK /\ LinesDistinct)'
  BY TypeStep, DistinctStep
<1> QED BY <1>1, InitOK, PTL DEF Spec

-----------------------------------------------------------------------------
(***************************************************************************)
(* Cache implements Lru, for any number of sets and ways that the laws of  *)
(* CacheLaws allow.  The valid lines of a set are the blocks it holds,     *)
(* their timestamps the order of use; an access stamps one way, and what   *)
(* Lru keeps of a set are the blocks in the other ways.                    *)
(***************************************************************************)

\* Tags of one set tell its blocks apart.
LEMMA TagsTellBlocks ==
  ASSUME NEW t \in Nat, NEW u \in Nat, NEW s \in Nat,
         t * 2^setIndexBits + s = u * 2^setIndexBits + s
  PROVE  t = u
<1> DEFINE n == numberOfSets
<1>1. n \in Nat \ {0} /\ t * n + s = u * n + s
  BY PowersOfTwo
<1> HIDE DEF n
<1>2. t * n \in Nat /\ u * n \in Nat
  BY <1>1
<1>3. t * n = u * n
  BY <1>1, <1>2
<1> QED BY <1>1, <1>3

\* The bit fields of an address are its set and its block.
LEMMA FieldsAreBlock ==
  ASSUME NEW a \in Address
  PROVE  /\ setIndex(a) = L!SetOf(a)
         /\ tag(a) * 2^setIndexBits + setIndex(a) = L!Block(a)
         /\ setIndex(a) \in Nat /\ tag(a) \in Nat
<1>1. setIndex(a) = L!SetOf(a)
  BY PowersOfTwo DEF setIndex, L!SetOf, L!Block
<1>2. L!Block(a) \in Nat
  BY PowersOfTwo, CacheConfig DEF L!Block
<1>3. \A b \in Nat, n \in Nat \ {0} : (b \div n) * n + (b % n) = b
  OBVIOUS
<1> QED BY <1>1, <1>2, <1>3, PowersOfTwo, TagIsQuotient, AddressFields DEF L!SetOf

\* the blocks in the other ways of a set
others(s, w) == { blockOf(s, v) : v \in validWays(s) \ {w} }

\* Two valid ways of a set hold two blocks.
LEMMA WaysHoldBlocks ==
  ASSUME TypeOK, LinesDistinct, NEW s \in DOMAIN sets,
         NEW v \in validWays(s), NEW w \in validWays(s),
         blockOf(s, v) = blockOf(s, w)
  PROVE  v = w
<1>1. /\ sets[s][v] \in Line /\ sets[s][w] \in Line /\ s \in Nat
      /\ v \in Way /\ w \in Way /\ sets[s][v].isValid /\ sets[s][w].isValid
  BY PowersOfTwo DEF TypeOK, validWays
<1>2. sets[s][v].tag = sets[s][w].tag
  BY <1>1, TagsTellBlocks DEF blockOf, Line
<1> QED BY <1>1, <1>2 DEF LinesDistinct

-----------------------------------------------------------------------------
(***************************************************************************)
(* The mapped state after way w of set s has been stamped with a block.    *)
(***************************************************************************)
LEMMA Restamped ==
  ASSUME TypeOK, LinesDistinct, NEW s \in DOMAIN sets, NEW w \in Way, NEW t \in Nat,
         sets' = [sets EXCEPT ![s][w] = Filled(t)],
         NEW b, b = t * 2^setIndexBits + s
  PROVE  /\ heldBlocks(s)' = others(s, w) \cup {b}
         /\ newerBlocks(s)' = (newerBlocks(s) \cap (others(s, w) \X others(s, w)))
                                 \cup ({b} \X others(s, w))
         /\ \A r \in DOMAIN sets \ {s} :
              heldBlocks(r)' = heldBlocks(r) /\ newerBlocks(r)' = newerBlocks(r)
<1>0. Filled(t) \in Line
  BY DEF Filled, Line, TypeOK
<1>1. /\ sets' \in [0 .. numberOfSets - 1 -> [Way -> Line]]
      /\ sets'[s][w] = Filled(t)
      /\ \A r \in DOMAIN sets, v \in Way : r # s \/ v # w => sets'[r][v] = sets[r][v]
  BY <1>0 DEF TypeOK
<1>2. validWays(s)' = (validWays(s) \ {w}) \cup {w}
  BY <1>1 DEF validWays, Filled
<1>3. blockOf(s, w)' = b
  BY <1>1 DEF blockOf, Filled
<1>4. \A v \in validWays(s) \ {w} :
        blockOf(s, v)' = blockOf(s, v) /\ sets'[s][v] = sets[s][v]
  BY <1>1 DEF blockOf, validWays
<1>5. heldBlocks(s)' = others(s, w) \cup {b}
  BY <1>2, <1>3, <1>4 DEF heldBlocks, others
<1>6. \A v \in validWays(s) :
        sets[s][v].lruTimestamp \in Nat /\ sets[s][v].lruTimestamp <= lruClock
  BY DEF TypeOK, Line, validWays
<1>7. lruClock \in Nat /\ sets'[s][w].lruTimestamp = lruClock + 1
  BY <1>1 DEF Filled, TypeOK
<1>8. ASSUME NEW p \in newerBlocks(s)'
      PROVE  p \in (newerBlocks(s) \cap (others(s, w) \X others(s, w)))
                      \cup ({b} \X others(s, w))
  <2>1. PICK u \in validWays(s)', v \in validWays(s)' :
          /\ p = <<blockOf(s, u)', blockOf(s, v)'>>
          /\ sets'[s][u].lruTimestamp > sets'[s][v].lruTimestamp
    BY <1>8 DEF newerBlocks
  <2>2. v # w
    BY <1>2, <1>4, <1>6, <1>7, <2>1
  <2>3. v \in validWays(s) \ {w} /\ blockOf(s, v)' \in others(s, w)
    BY <1>2, <1>4, <2>1, <2>2 DEF others
  <2>4. CASE u = w
    BY <1>3, <2>1, <2>3, <2>4
  <2>5. CASE u # w
    <3>1. u \in validWays(s) \ {w} /\ blockOf(s, u)' \in others(s, w)
      BY <1>2, <1>4, <2>1, <2>5 DEF others
    <3>2. p = <<blockOf(s, u), blockOf(s, v)>>
      BY <1>4, <2>1, <2>3, <3>1
    <3>3. sets[s][u].lruTimestamp > sets[s][v].lruTimestamp
      BY <1>4, <2>1, <2>3, <3>1
    <3>4. p \in newerBlocks(s)
      <4> DEFINE q == <<u, v>>
      <4>1. q \in validWays(s) \X validWays(s) /\ q[1] = u /\ q[2] = v
        BY <2>3, <3>1
      <4> HIDE DEF q
      <4> QED BY <3>2, <3>3, <4>1 DEF newerBlocks
    <3> QED BY <1>4, <2>3, <3>1, <3>2, <3>4
  <2> QED BY <2>4, <2>5
<1>9. ASSUME NEW p \in newerBlocks(s) \cap (others(s, w) \X others(s, w))
      PROVE  p \in newerBlocks(s)'
  <2>1. PICK u \in validWays(s), v \in validWays(s) :
          /\ p = <<blockOf(s, u), blockOf(s, v)>>
          /\ sets[s][u].lruTimestamp > sets[s][v].lruTimestamp
    BY <1>9 DEF newerBlocks
  <2>2. blockOf(s, u) \in others(s, w) /\ blockOf(s, v) \in others(s, w)
    BY <1>9, <2>1
  <2>3. u # w /\ v # w
    BY <2>1, <2>2, WaysHoldBlocks DEF others
  <2>4. /\ u \in validWays(s)' /\ v \in validWays(s)'
        /\ p = <<blockOf(s, u)', blockOf(s, v)'>>
        /\ sets'[s][u].lruTimestamp > sets'[s][v].lruTimestamp
    BY <1>2, <1>4, <2>1, <2>3
  <2> DEFINE q == <<u, v>>
  <2>5. q \in validWays(s)' \X validWays(s)' /\ q[1] = u /\ q[2] = v
    BY <2>4
  <2> HIDE DEF q
  <2> QED BY <2>4, <2>5 DEF newerBlocks
<1>10. ASSUME NEW c \in others(s, w)
       PROVE  <<b, c>> \in newerBlocks(s)'
  <2>1. PICK v \in validWays(s) \ {w} : c = blockOf(s, v)
    BY <1>10 DEF others
  <2>2. /\ w \in validWays(s)' /\ v \in validWays(s)'
        /\ <<b, c>> = <<blockOf(s, w)', blockOf(s, v)'>>
        /\ sets'[s][w].lruTimestamp > sets'[s][v].lruTimestamp
    BY <1>2, <1>3, <1>4, <1>6, <1>7, <2>1
  <2> DEFINE q == <<w, v>>
  <2>3. q \in validWays(s)' \X validWays(s)' /\ q[1] = w /\ q[2] = v
    BY <2>2
  <2> HIDE DEF q
  <2> QED BY <2>2, <2>3 DEF newerBlocks
<1>11. newerBlocks(s)' = (newerBlocks(s) \cap (others(s, w) \X others(s, w)))
                            \cup ({b} \X others(s, w))
  BY <1>8, <1>9, <1>10
<1>12. ASSUME NEW r \in DOMAIN sets \ {s}
       PROVE  heldBlocks(r)' = heldBlocks(r) /\ newerBlocks(r)' = newerBlocks(r)
  <2>1. \A v \in Way : sets'[r][v] = sets[r][v]
    BY <1>1
  <2>2. validWays(r)' = validWays(r) /\ validWays(r) \subseteq Way
    BY <2>1 DEF validWays
  <2>3. \A v \in Way : blockOf(r, v)' = blockOf(r, v)
    BY <2>1 DEF blockOf
  <2> QED BY <2>1, <2>2, <2>3 DEF heldBlocks, newerBlocks
<1> QED BY <1>5, <1>11, <1>12

-----------------------------------------------------------------------------
\* A set is full, in blocks, when it has no invalid line.
LEMMA RoomIsInvalidWay ==
  ASSUME TypeOK, LinesDistinct, NEW s \in DOMAIN sets
  PROVE  Cardinality(heldBlocks(s)) < ways <=> invalidWays(s) # {}
<1> DEFINE f == [v \in validWays(s) |-> blockOf(s, v)]
<1>1. IsFiniteSet(Way) /\ Cardinality(Way) = ways
  BY CacheConfig, FS_Interval DEF Way
<1>2. validWays(s) \subseteq Way
  BY DEF validWays
<1>3. /\ IsFiniteSet(validWays(s))
      /\ Cardinality(validWays(s)) <= ways
      /\ Cardinality(validWays(s)) = ways => validWays(s) = Way
  BY <1>1, <1>2, FS_Subset
<1>4. f \in Surjection(validWays(s), heldBlocks(s))
  BY DEF Surjection, heldBlocks
<1>5. f \in Injection(validWays(s), heldBlocks(s))
  <2>1. \A v, w \in validWays(s) : f[v] = f[w] => v = w
    BY WaysHoldBlocks
  <2> QED BY <1>4, <2>1 DEF Surjection, Injection, IsInjective
<1>6. Cardinality(heldBlocks(s)) = Cardinality(validWays(s))
  BY <1>3, <1>4, <1>5, FS_Surjection
<1>7. invalidWays(s) # {} <=> validWays(s) # Way
  BY DEF invalidWays, validWays
<1>8. validWays(s) = Way => Cardinality(validWays(s)) = ways
  BY <1>1
<1>9. Cardinality(validWays(s)) \in Nat /\ ways \in Nat
  BY <1>3, FS_CardinalityType, CacheConfig
<1> QED BY <1>3, <1>6, <1>7, <1>8, <1>9

\* In a full set, the oldest line holds the least recently used block.
LEMMA OldestIsLeastRecent ==
  ASSUME TypeOK, LinesDistinct, NEW s \in DOMAIN sets,
         invalidWays(s) = {}, NEW w \in oldestWays(s)
  PROVE  L!leastRecent(s) = {blockOf(s, w)}
<1>1. /\ s \in 0 .. numberOfSets - 1 /\ w \in Way /\ validWays(s) = Way
      /\ \A v \in Way : sets[s][v] \in Line
  BY DEF TypeOK, oldestWays, invalidWays, validWays
<1>2. L!leastRecent(s) =
        { c \in heldBlocks(s) : \A d \in heldBlocks(s) \ {c} : <<d, c>> \in newerBlocks(s) }
  BY <1>1 DEF L!leastRecent
<1>3. \A v \in Way \ {w} : sets[s][v].lruTimestamp > sets[s][w].lruTimestamp
  <2> TAKE v \in Way \ {w}
  <2>1. sets[s][v].lruTimestamp # sets[s][w].lruTimestamp
    BY <1>1 DEF LinesDistinct, validWays
  <2>2. sets[s][w].lruTimestamp <= sets[s][v].lruTimestamp
    BY DEF oldestWays
  <2> QED BY <1>1, <2>1, <2>2 DEF Line
<1>4. \A u, v \in Way : sets[s][u].lruTimestamp > sets[s][v].lruTimestamp
         => <<blockOf(s, u), blockOf(s, v)>> \in newerBlocks(s)
  <2> TAKE u, v \in Way
  <2> DEFINE q == <<u, v>>
  <2>1. q \in validWays(s) \X validWays(s) /\ q[1] = u /\ q[2] = v
    BY <1>1
  <2> HIDE DEF q
  <2> QED BY <2>1 DEF newerBlocks
<1>5. blockOf(s, w) \in L!leastRecent(s)
  <2>1. blockOf(s, w) \in heldBlocks(s)
    BY <1>1 DEF heldBlocks
  <2>2. ASSUME NEW d \in heldBlocks(s) \ {blockOf(s, w)}
        PROVE  <<d, blockOf(s, w)>> \in newerBlocks(s)
    <3>1. PICK v \in Way : d = blockOf(s, v)
      BY <1>1 DEF heldBlocks
    <3>2. v # w
      BY <3>1
    <3> QED BY <1>1, <1>3, <1>4, <3>1, <3>2
  <2> QED BY <1>2, <2>1, <2>2
<1>6. ASSUME NEW c \in L!leastRecent(s), c # blockOf(s, w)
      PROVE  FALSE
  <2>1. c \in heldBlocks(s) /\ <<blockOf(s, w), c>> \in newerBlocks(s)
    BY <1>1, <1>2, <1>6 DEF heldBlocks
  <2>2. PICK u \in Way, v \in Way :
          /\ blockOf(s, w) = blockOf(s, u) /\ c = blockOf(s, v)
          /\ sets[s][u].lruTimestamp > sets[s][v].lruTimestamp
    BY <1>1, <2>1 DEF newerBlocks
  <2>3. u = w
    BY <1>1, <2>2, WaysHoldBlocks
  <2>4. v # w
    BY <1>6, <2>2
  <2>5. sets[s][v].lruTimestamp > sets[s][w].lruTimestamp
    BY <1>3, <2>4
  <2> QED BY <1>1, <2>2, <2>3, <2>5 DEF Line
<1> QED BY <1>5, <1>6

\* A probe finds a line exactly when the set holds the block.
LEMMA HitIsHeld ==
  ASSUME TypeOK, NEW a \in Address, setIndex(a) \in DOMAIN sets
  PROVE  hitWays(a) # {} <=> L!Block(a) \in heldBlocks(setIndex(a))
<1> DEFINE s == setIndex(a)
<1>1. /\ s \in Nat /\ tag(a) \in Nat /\ tag(a) * 2^setIndexBits + s = L!Block(a)
  BY FieldsAreBlock
<1>2. \A w \in Way : sets[s][w] \in Line
  BY DEF TypeOK
<1>3. hitWays(a) # {} => L!Block(a) \in heldBlocks(s)
  BY <1>1 DEF hitWays, heldBlocks, validWays, blockOf
<1>4. ASSUME L!Block(a) \in heldBlocks(s)
      PROVE  hitWays(a) # {}
  <2>1. PICK w \in validWays(s) : L!Block(a) = blockOf(s, w)
    BY <1>4 DEF heldBlocks
  <2>2. w \in Way /\ sets[s][w].isValid /\ sets[s][w].tag \in Nat
    BY <1>2 DEF validWays, Line
  <2>3. sets[s][w].tag = tag(a)
    BY <1>1, <2>1, <2>2, TagsTellBlocks DEF blockOf
  <2> QED BY <2>2, <2>3 DEF hitWays
<1> QED BY <1>3, <1>4

\* An instance of FiniteSets counts as FiniteSets does.
LEMMA SameCardinality == \A S : L!Cardinality(S) = Cardinality(S)
BY DEF Cardinality, L!Cardinality

\* What Lru keeps of the set are the blocks in the other ways.
LEMMA KeptAreOthers ==
  ASSUME TypeOK, LinesDistinct, NEW a \in Address, setIndex(a) \in DOMAIN sets,
         NEW w \in Way,
         hitWays(a) # {} => w \in hitWays(a),
         hitWays(a) = {} => w = victim(setIndex(a))
  PROVE  L!kept(setIndex(a), L!Block(a)) \ {L!Block(a)} = others(setIndex(a), w)
<1> DEFINE s == setIndex(a)
           b == L!Block(a)
<1>1. s \in 0 .. numberOfSets - 1
  BY DEF TypeOK
<1>2. L!kept(s, b) = IF b \in heldBlocks(s) \/ Cardinality(heldBlocks(s)) < ways
                       THEN heldBlocks(s) ELSE heldBlocks(s) \ L!leastRecent(s)
  BY <1>1, SameCardinality DEF L!kept
<1>3. w \in validWays(s) => others(s, w) = heldBlocks(s) \ {blockOf(s, w)}
  BY WaysHoldBlocks DEF others, heldBlocks
<1>4. CASE hitWays(a) # {}
  <2>1. w \in validWays(s) /\ blockOf(s, w) = b
    BY <1>4, FieldsAreBlock DEF hitWays, validWays, blockOf
  <2>2. b \in heldBlocks(s)
    BY <1>4, HitIsHeld
  <2> QED BY <1>2, <1>3, <2>1, <2>2
<1>5. CASE hitWays(a) = {} /\ invalidWays(s) # {}
  <2>1. w \notin validWays(s)
    BY <1>5, VictimIn DEF invalidWays, validWays
  <2>2. others(s, w) = heldBlocks(s)
    BY <2>1 DEF others, heldBlocks
  <2>3. b \notin heldBlocks(s) /\ Cardinality(heldBlocks(s)) < ways
    BY <1>5, HitIsHeld, RoomIsInvalidWay
  <2> QED BY <1>2, <2>2, <2>3
<1>6. CASE hitWays(a) = {} /\ invalidWays(s) = {}
  <2>1. w \in oldestWays(s) /\ w \in validWays(s)
    BY <1>6, VictimIn DEF invalidWays, validWays
  <2>2. L!leastRecent(s) = {blockOf(s, w)}
    BY <1>6, <2>1, OldestIsLeastRecent
  <2>3. b \notin heldBlocks(s) /\ ~(Cardinality(heldBlocks(s)) < ways)
    BY <1>6, HitIsHeld, RoomIsInvalidWay
  <2> QED BY <1>2, <1>3, <2>1, <2>2, <2>3
<1> QED BY <1>4, <1>5, <1>6

-----------------------------------------------------------------------------
(***************************************************************************)
(* Every access is the abstract access of the same address.                *)
(***************************************************************************)
LEMMA AccessStep ==
  ASSUME TypeOK, LinesDistinct, NEW a \in Address, Hit(a) \/ Miss(a)
  PROVE  L!LruAccess(a)
<1> DEFINE s == setIndex(a)
           b == L!Block(a)
           N == 0 .. numberOfSets - 1
<1>1. PICK w \in Way :
        /\ sets' = [sets EXCEPT ![s][w] = Filled(tag(a))]
        /\ hitWays(a) # {} => w \in hitWays(a)
        /\ hitWays(a) = {} => w = victim(s)
  BY Stamped
<1>2. s \in DOMAIN sets /\ DOMAIN sets = N
  BY DEF Hit, Miss, canAccess, TypeOK
<1>3. s = L!SetOf(a) /\ tag(a) \in Nat /\ b = tag(a) * 2^setIndexBits + s
  BY FieldsAreBlock
<1>4. L!kept(s, b) \ {b} = others(s, w)
  BY <1>1, <1>2, KeptAreOthers
<1>5. /\ heldBlocks(s)' = others(s, w) \cup {b}
      /\ newerBlocks(s)' = (newerBlocks(s) \cap (others(s, w) \X others(s, w)))
                              \cup ({b} \X others(s, w))
      /\ \A r \in DOMAIN sets \ {s} :
           heldBlocks(r)' = heldBlocks(r) /\ newerBlocks(r)' = newerBlocks(r)
  <2>1. sets' = [sets EXCEPT ![s][w] = Filled(tag(a))]
    BY <1>1
  <2>2. s \in DOMAIN sets /\ tag(a) \in Nat /\ b = tag(a) * 2^setIndexBits + s
    BY <1>2, <1>3
  <2> HIDE DEF s, b
  <2> QED BY <2>1, <2>2, Restamped
<1>6. b \in heldBlocks(s) <=> hitWays(a) # {}
  BY <1>2, HitIsHeld
<1>7. IF b \in heldBlocks(s)
        THEN hits' = hits + 1 /\ UNCHANGED misses
        ELSE misses' = misses + 1 /\ UNCHANGED hits
  BY <1>6 DEF Hit, Miss
<1> DEFINE h == [r \in N |-> heldBlocks(r)]
           m == [r \in N |-> newerBlocks(r)]
           o == others(s, w)
<1>8. h' = [h EXCEPT ![s] = o \cup {b}]
  <2>1. h' = [r \in N |-> heldBlocks(r)']
    OBVIOUS
  <2> QED BY <1>2, <1>5, <2>1
<1>9. m' = [m EXCEPT ![s] = (@ \cap (o \X o)) \cup ({b} \X o)]
  <2>1. m' = [r \in N |-> newerBlocks(r)']
    OBVIOUS
  <2> QED BY <1>2, <1>5, <2>1
<1>10. h[s] = heldBlocks(s)
  BY <1>2
<1> QED BY <1>3, <1>4, <1>7, <1>8, <1>9, <1>10 DEF L!LruAccess, L!Use

\* An empty cache holds no block, and so has no order of use.
LEMMA InitLru == Init => L!LruInit
<1> SUFFICES ASSUME Init PROVE L!LruInit
  OBVIOUS
<1>1. \A s \in 0 .. numberOfSets - 1 : validWays(s) = {}
  BY DEF Init, validWays
<1>2. \A s \in 0 .. numberOfSets - 1 : heldBlocks(s) = {} /\ newerBlocks(s) = {}
  BY <1>1 DEF heldBlocks, newerBlocks
<1> QED BY <1>2 DEF Init, L!LruInit

\* A step that changes nothing of the cache changes nothing of the set it is.
LEMMA LruStutter ==
  ASSUME UNCHANGED vars
  PROVE  UNCHANGED L!lruVars
<1>1. \A s : validWays(s)' = validWays(s)
  BY DEF vars, validWays
<1>2. \A s, w : blockOf(s, w)' = blockOf(s, w)
  BY DEF vars, blockOf
<1>3. \A s : heldBlocks(s)' = heldBlocks(s)
  BY <1>1, <1>2 DEF heldBlocks
<1>4. \A s : newerBlocks(s)' = newerBlocks(s)
  BY <1>1, <1>2 DEF newerBlocks, vars
<1> QED BY <1>3, <1>4 DEF vars, L!lruVars

\* On any geometry of powers of two the cache is a true LRU cache: timestamps,
\* first invalid lines and first oldest lines choose at every access what the
\* order of use asks for, and count it as it asks.
THEOREM CacheRefinement == Spec => ImplementsLru
<1> DEFINE Inv == TypeOK /\ LinesDistinct
           AbstractNext == \E a \in Address : L!LruAccess(a)
           SameAddress == \A a \in Address : Hit(a) \/ Miss(a) => L!LruAccess(a)
<1>1. Inv /\ [Next]_vars => Inv'
  BY TypeStep, DistinctStep
<1>2. Inv /\ [Next]_vars => [AbstractNext]_(L!lruVars)
  BY AccessStep, LruStutter DEF Next
<1>3. Inv /\ [Next]_vars => [SameAddress]_vars
  BY AccessStep
<1> HIDE DEF AbstractNext, SameAddress
<1>4. Init => Inv /\ L!LruInit
  BY InitOK, InitLru
<1>5. Spec => L!LruInit /\ [][AbstractNext]_(L!lruVars) /\ [][SameAddress]_vars
  BY <1>1, <1>2, <1>3, <1>4, PTL DEF Spec
<1> QED BY <1>5 DEF ImplementsLru, L!LruSpec, AbstractNext, SameAddress
=============================================================================

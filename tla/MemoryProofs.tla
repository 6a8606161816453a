---------------------------- MODULE MemoryProofs ----------------------------
(***************************************************************************)
(* Proofs about MemoryStore, MemoryDump and MemoryLoop.  What a call has   *)
(* done after each of its bytes is inductive as CallEffect states it,      *)
(* given that the bytes of a call are at different entries, which rests on *)
(* the arithmetic of addresses modulo 2^64.  The construction and the dump *)
(* need an invariant each, Construction and DumpInv; that the loop is what *)
(* Datapath says follows from CallEffect.                                  *)
(***************************************************************************)
EXTENDS MemoryLoop, FiniteSetTheorems, TLAPS

\* Division by a positive number, as TLA+ defines it for every integer.
LEMMA DivMod ==
  ASSUME NEW m \in Nat, m > 0, NEW x \in Int
  PROVE  /\ x = m * (x \div m) + (x % m)
         /\ x \div m \in Int
         /\ x % m \in 0 .. m - 1
OBVIOUS

\* Multiples of m are at least m apart.
LEMMA MultiplesApart ==
  ASSUME NEW m \in Nat, m > 0, NEW p \in Int, NEW q \in Int, NEW d \in Int,
         d = m * p - m * q, 0 < d, d < m
  PROVE  FALSE
<1>1. d = m * (p - q)
  OBVIOUS
<1>2. p - q >= 1 \/ p - q <= 0
  OBVIOUS
<1>3. p - q >= 1 => m * (p - q) >= m
  OBVIOUS
<1>4. p - q <= 0 => m * (p - q) <= 0
  OBVIOUS
<1> QED BY <1>1, <1>2, <1>3, <1>4

\* A remainder is known by its range.
LEMMA ModIs ==
  ASSUME NEW m \in Nat, m > 0, NEW x \in Int, NEW y \in 0 .. m - 1, NEW q \in Int,
         x = m * q + y
  PROVE  x % m = y
<1> DEFINE p == x \div m
           r == x % m
<1>1. x = m * p + r /\ p \in Int /\ r \in 0 .. m - 1
  BY DivMod
<1> HIDE DEF p, r
<1>2. y - r = m * p - m * q /\ r - y = m * q - m * p
  BY <1>1
<1>3. y - r \in Int /\ r - y \in Int /\ y - r < m /\ r - y < m
  BY <1>1
<1>4. ~(0 < y - r)
  BY <1>1, <1>2, <1>3, MultiplesApart
<1>5. ~(0 < r - y)
  BY <1>1, <1>2, <1>3, MultiplesApart
<1>6. r = y
  BY <1>1, <1>4, <1>5
<1> QED BY <1>6 DEF r

\* A number is a multiple and a remainder.
LEMMA ModWitness ==
  ASSUME NEW m \in Nat, m > 0, NEW x \in Int
  PROVE  \E q \in Int, y \in 0 .. m - 1 : x = m * q + y /\ x % m = y
<1> DEFINE p == x \div m
           z == x % m
<1>1. x = m * p + z /\ p \in Int /\ z \in 0 .. m - 1
  BY DivMod
<1> HIDE DEF p
<1> QED BY <1>1

\* Two numbers less than m apart differ modulo m.
LEMMA ModApart ==
  ASSUME NEW m \in Nat, m > 0, NEW x \in Int, NEW y \in Int, x < y, y - x < m
  PROVE  x % m # y % m
<1> SUFFICES ASSUME x % m = y % m PROVE FALSE
  OBVIOUS
<1>1. x = m * (x \div m) + (x % m) /\ x \div m \in Int /\ x % m \in Int
  BY DivMod
<1>2. y = m * (y \div m) + (y % m) /\ y \div m \in Int
  BY DivMod
<1> DEFINE p == y \div m
           q == x \div m
<1>3. y - x = m * p - m * q
  BY <1>1, <1>2
<1>4. p \in Int /\ q \in Int
  BY <1>1, <1>2
<1> HIDE DEF p, q
<1> QED BY <1>3, <1>4, MultiplesApart

\* The bytes of a call are at different entries.
LEMMA CellsApart ==
  ASSUME NEW c \in Call, NEW i \in 0 .. 7, NEW k \in 0 .. 7, i # k
  PROVE  cell(c, i) # cell(c, k)
<1>1. c.address \in Nat /\ startAddr \in Nat /\ AddrMod \in Nat /\ 8 <= AddrMod
  BY MemoryConfig DEF Call, DOUBLE_SIZE
<1> DEFINE x == c.address - startAddr + i
           y == c.address - startAddr + k
<1>2. x \in Int /\ y \in Int /\ (x < y => y - x < AddrMod) /\ (y < x => x - y < AddrMod)
      /\ (x < y \/ y < x)
  BY <1>1
<1> HIDE DEF x, y
<1>3. x % AddrMod # y % AddrMod
  BY <1>1, <1>2, ModApart
<1> QED BY <1>3 DEF cell, x, y

\* Beginning a call leaves the memory alone and has done nothing yet.
LEMMA BeginTyped ==
  ASSUME TypeOK,
         NEW get \in BOOLEAN, NEW address \in 0 .. AddrMod - 1,
         NEW value \in Value, NEW size \in MemEntrySize,
         Begin(get, address, value, size), memArr' = memArr
  PROVE  /\ call' \in Call /\ call'.i <= call'.size /\ call'.status = "running"
         /\ start' \in [Entry -> Byte]
         /\ CallEffect'
<1>1. Zeros \in Value /\ initially(get, value) \in Value
  BY MemoryConfig DEF Zeros, Value, initially
<1>2. /\ call' = [get |-> get, address |-> address, size |-> size,
                  value |-> initially(get, value), i |-> 0, status |-> "running"]
      /\ start' = memArr
  BY DEF Begin
<1>3. call' \in Call /\ call'.i <= call'.size
  BY <1>1, <1>2 DEF Call, MemEntrySize, BYTE_SIZE, HALF_SIZE, WORD_SIZE, DOUBLE_SIZE
<1>4. start' \in [Entry -> Byte] /\ memArr' = start'
  BY <1>2 DEF TypeOK
<1>5. call'.i = 0 /\ call'.status = "running" /\ call'.get = get
      /\ call'.value = initially(get, value)
  BY <1>2
<1>6. 0 .. call'.i - 1 = {}
  BY <1>5
<1>7. reached(call', call'.i) = {}
  BY <1>6 DEF reached
<1>8. call'.get => \A k \in 0 .. 7 : call'.value[k] = 0 /\ ~(k < call'.i)
  BY <1>5 DEF initially, Zeros
<1>9. CallEffect'
  BY <1>4, <1>5, <1>6, <1>7, <1>8 DEF CallEffect, reached
<1> QED BY <1>3, <1>4, <1>5, <1>9

-----------------------------------------------------------------------------
\* The constructor starts with the types and with no call under way.
LEMMA InitTyped == Init => TypeOK /\ CallEffect
<1> SUFFICES ASSUME Init PROVE TypeOK /\ CallEffect
  OBVIOUS
<1>1. Zeros \in Value
  BY MemoryConfig DEF Zeros, Value
<1>2. Idle \in Call /\ Idle.i = 0 /\ Idle.i <= Idle.size
  BY <1>1, MemoryConfig
     DEF Idle, Call, MemEntrySize, BYTE_SIZE, HALF_SIZE, WORD_SIZE, DOUBLE_SIZE
<1>3. memArr \in [Entry -> Byte]
  BY MemoryConfig DEF Init
<1>4. TypeOK
  <2>1. image = NoFile \/ image \in Seq(Pair)
    BY MemoryConfig DEF Init, isImage
  <2>2. 0 \in 0 .. MaxCalls
    BY MemoryConfig
  <2> QED BY <1>2, <1>3, <2>1, <2>2 DEF Init, TypeOK, Idle
<1>5. CallEffect
  <2>1. 0 .. call.i - 1 = {}
    BY <1>2 DEF Init
  <2>2. \A k \in 0 .. 7 : call.value[k] = 0
    BY DEF Init, Idle, Zeros
  <2> QED BY <2>1, <2>2 DEF Init, Idle, CallEffect, reached
<1> QED BY <1>4, <1>5

\* A call in the middle of its loop.
LEMMA InLoop ==
  ASSUME TypeOK, inLoop
  PROVE  /\ call.i \in 0 .. 7 /\ call.i + 1 <= call.size /\ call.i + 1 \in 0 .. DOUBLE_SIZE
BY DEF TypeOK, inLoop, Call, MemEntrySize, BYTE_SIZE, HALF_SIZE, WORD_SIZE, DOUBLE_SIZE

\* The entries after one more byte.
LEMMA OneMoreReached ==
  ASSUME NEW c, NEW i \in Nat
  PROVE  reached(c, i + 1) = reached(c, i) \cup {cell(c, i)}
<1>1. 0 .. (i + 1) - 1 = (0 .. i - 1) \cup {i}
  OBVIOUS
<1> QED BY <1>1 DEF reached

\* One byte of a load.
LEMMA GetByteStep ==
  ASSUME TypeOK, CallEffect, GetByte
  PROVE  TypeOK' /\ CallEffect'
<1> DEFINE at == cell(call, call.i)
<1>1. /\ inLoop /\ call.get /\ at \in Entry
      /\ call' = [call EXCEPT !.value[call.i] = memArr[at], !.i = @ + 1]
      /\ memArr' = memArr /\ start' = start
      /\ UNCHANGED <<phase, image, file, calls, loaded>>
  BY DEF GetByte, inRange
<1> HIDE DEF at
<1>2. call.i \in 0 .. 7 /\ call.i + 1 <= call.size /\ call.i + 1 \in 0 .. DOUBLE_SIZE
  BY <1>1, InLoop
<1>3. memArr[at] \in Byte /\ call \in Call
  BY <1>1 DEF TypeOK
<1>4. /\ call'.get = call.get /\ call'.address = call.address
      /\ call'.size = call.size /\ call'.status = call.status
      /\ call'.i = call.i + 1
      /\ call'.value = [call.value EXCEPT ![call.i] = memArr[at]]
  BY <1>1, <1>3 DEF Call
<1>5. call' \in Call
  <2>1. call'.value \in Value
    BY <1>2, <1>3, <1>4 DEF Call, Value
  <2> QED BY <1>1, <1>2, <1>3, <2>1 DEF Call
<1>6. TypeOK'
  BY <1>1, <1>2, <1>4, <1>5 DEF TypeOK, inLoop, running
<1>7. \A k : cell(call', k) = cell(call, k)
  BY <1>4 DEF cell
<1>8. reached(call', call'.i) = reached(call, call.i) \cup {at}
  <2>1. reached(call', call'.i) = reached(call, call.i + 1)
    BY <1>4, <1>7 DEF reached
  <2>2. call.i \in Nat
    BY <1>2
  <2>3. reached(call, call.i + 1) = reached(call, call.i) \cup {cell(call, call.i)}
    BY <2>2, OneMoreReached
  <2> QED BY <2>1, <2>3 DEF at
<1>9. CallEffect'
  <2>1. reached(call', call'.i) \subseteq Entry
    BY <1>1, <1>8 DEF CallEffect
  <2>2. call'.get /\ memArr' = start'
    BY <1>1, <1>4 DEF CallEffect
  <2>3. ASSUME NEW k \in 0 .. 7
        PROVE  call'.value[k] = IF k < call'.i THEN start'[cell(call', k)] ELSE 0
    <3>1. memArr = start
      BY <1>1 DEF CallEffect
    <3>2. call.value[k] = IF k < call.i THEN start[cell(call, k)] ELSE 0
      BY <1>1 DEF CallEffect
    <3>3. call.value \in [0 .. 7 -> Byte]
      BY <1>3 DEF Call, Value
    <3>4. CASE k = call.i
      BY <3>1, <3>3, <3>4, <1>1, <1>2, <1>4, <1>7 DEF at
    <3>5. CASE k # call.i
      <4>1. call'.value[k] = call.value[k]
        BY <3>3, <3>5, <1>2, <1>4
      <4>2. k < call'.i <=> k < call.i
        BY <3>5, <1>2, <1>4
      <4> QED BY <4>1, <4>2, <3>2, <1>1, <1>7
    <3> QED BY <3>4, <3>5
  <2>4. call'.status = "running"
    BY <1>1, <1>4 DEF inLoop, running
  <2> QED BY <2>1, <2>2, <2>3, <2>4 DEF CallEffect
<1> QED BY <1>6, <1>9

\* One byte of a store; it leaves the entries of the bytes before it alone.
LEMMA SetByteStep ==
  ASSUME TypeOK, CallEffect, SetByte
  PROVE  TypeOK' /\ CallEffect'
<1> DEFINE at == cell(call, call.i)
<1>1. /\ inLoop /\ ~call.get /\ at \in Entry
      /\ memArr' = [memArr EXCEPT ![at] = storedByte]
      /\ call' = [call EXCEPT !.i = @ + 1]
      /\ start' = start
      /\ UNCHANGED <<phase, image, file, calls, loaded>>
  BY DEF SetByte, inRange
<1> HIDE DEF at
<1>2. call.i \in 0 .. 7 /\ call.i + 1 <= call.size /\ call.i + 1 \in 0 .. DOUBLE_SIZE
  BY <1>1, InLoop
<1>3. call \in Call /\ memArr \in [Entry -> Byte]
  BY DEF TypeOK
<1>4. storedByte = call.value[call.i] /\ storedByte \in Byte
  BY <1>2, <1>3 DEF storedByte, Call, Value
<1>5. /\ call'.get = call.get /\ call'.address = call.address
      /\ call'.size = call.size /\ call'.status = call.status
      /\ call'.i = call.i + 1 /\ call'.value = call.value
  BY <1>1, <1>3 DEF Call
<1>6. call' \in Call /\ memArr' \in [Entry -> Byte]
  BY <1>1, <1>2, <1>3, <1>4 DEF Call
<1>7. TypeOK'
  BY <1>1, <1>2, <1>5, <1>6 DEF TypeOK, inLoop, running
<1>8. \A k : cell(call', k) = cell(call, k)
  BY <1>5 DEF cell
<1>9. reached(call', call'.i) = reached(call, call.i) \cup {at}
  <2>1. reached(call', call'.i) = reached(call, call.i + 1)
    BY <1>5, <1>8 DEF reached
  <2>2. call.i \in Nat
    BY <1>2
  <2>3. reached(call, call.i + 1) = reached(call, call.i) \cup {cell(call, call.i)}
    BY <2>2, OneMoreReached
  <2> QED BY <2>1, <2>3 DEF at
<1>10. CallEffect'
  <2>1. reached(call', call'.i) \subseteq Entry
    BY <1>1, <1>9 DEF CallEffect
  <2>2. ASSUME NEW k \in 0 .. call'.i - 1
        PROVE  memArr'[cell(call', k)] = call'.value[k]
    <3>1. CASE k = call.i
      BY <3>1, <1>1, <1>3, <1>4, <1>5, <1>8 DEF at
    <3>2. CASE k # call.i
      <4>1. k \in 0 .. call.i - 1 /\ k \in 0 .. 7
        BY <3>2, <1>2, <1>5
      <4>2. memArr[cell(call, k)] = call.value[k]
        BY <4>1, <1>1 DEF CallEffect
      <4>3. cell(call, k) # at
        BY <4>1, <3>2, <1>2, <1>3, CellsApart DEF at
      <4>4. cell(call, k) \in Entry
        BY <4>1 DEF CallEffect, reached
      <4>5. memArr'[cell(call, k)] = memArr[cell(call, k)]
        BY <4>3, <4>4, <1>1, <1>3
      <4> QED BY <4>2, <4>5, <1>5, <1>8
    <3> QED BY <3>1, <3>2
  <2>3. ASSUME NEW e \in Entry \ reached(call', call'.i)
        PROVE  memArr'[e] = start'[e]
    BY <1>1, <1>3, <1>9 DEF CallEffect
  <2>4. ~call'.get /\ call'.status = "running"
    BY <1>1, <1>5 DEF inLoop, running
  <2> QED BY <2>1, <2>2, <2>3, <2>4 DEF CallEffect
<1> QED BY <1>7, <1>10

\* The end of a call, well or not, keeps what it has done.
LEMMA EndStep ==
  ASSUME TypeOK, CallEffect, Throw \/ Return
  PROVE  TypeOK' /\ CallEffect'
<1>1. /\ running /\ memArr' = memArr /\ start' = start
      /\ UNCHANGED <<image, file, calls, loaded>>
      /\ \E s \in {"EINVAL", "SUCCESS"} :
           /\ call' = [call EXCEPT !.status = s]
           /\ s = "EINVAL" => call.i < call.size /\ ~inRange /\ phase' = afterThrow
           /\ s = "SUCCESS" => call.i = call.size /\ phase' = phase
  BY DEF Throw, Return, inLoop
<1>2. PICK s \in {"EINVAL", "SUCCESS"} :
        /\ call' = [call EXCEPT !.status = s]
        /\ s = "EINVAL" => call.i < call.size /\ ~inRange /\ phase' = afterThrow
        /\ s = "SUCCESS" => call.i = call.size /\ phase' = phase
  BY <1>1
<1>3. call \in Call
  BY DEF TypeOK
<1>4. /\ call'.get = call.get /\ call'.address = call.address
      /\ call'.size = call.size /\ call'.status = s
      /\ call'.i = call.i /\ call'.value = call.value
  BY <1>2, <1>3 DEF Call
<1>5. call' \in Call
  BY <1>2, <1>3 DEF Call
<1>6. /\ phase' = "prepare" => phase = "prepare" /\ s # "EINVAL"
      /\ phase' = "load" => phase = "load"
      /\ phase' \in {"prepare", "load", "ready", "aborted"}
  BY <1>2 DEF TypeOK, afterThrow
<1>7. TypeOK'
  BY <1>1, <1>4, <1>5, <1>6 DEF TypeOK
<1>8. \A k : cell(call', k) = cell(call, k)
  BY <1>4 DEF cell
<1>9. reached(call', call'.i) = reached(call, call.i)
  BY <1>4, <1>8 DEF reached
<1>10. CallEffect'
  BY <1>1, <1>2, <1>4, <1>8, <1>9 DEF CallEffect, inRange
<1> QED BY <1>7, <1>10

\* The three places a call begins; its arguments are of their types.
LEMMA BeginStep ==
  ASSUME TypeOK,
         PreparePair \/ PrepareEnd \/ LoadByte
         \/ \E address \in Address, value \in Values, size \in MemEntrySize :
              getMemValue(address, value, size) \/ setMemValue(address, value, size)
  PROVE  TypeOK' /\ CallEffect'
<1> DEFINE Begun == \E get \in BOOLEAN, address \in 0 .. AddrMod - 1,
                       value \in Value, size \in MemEntrySize :
                      Begin(get, address, value, size)
<1>1. Zeros \in Value /\ WORD_SIZE \in MemEntrySize /\ BYTE_SIZE \in MemEntrySize
  BY MemoryConfig DEF Zeros, Value, MemEntrySize
<1>2. ASSUME Begun, UNCHANGED <<memArr, phase, loaded>>,
             calls' \in 0 .. MaxCalls,
             image' = NoFile \/ image' \in Seq(Pair),
             phase = "prepare" => file' = file,
             phase = "load" => file' \in Seq(Byte) /\ Len(file') <= Len(loaded.file)
      PROVE  TypeOK' /\ CallEffect'
  <2>1. PICK get \in BOOLEAN, address \in 0 .. AddrMod - 1,
             value \in Value, size \in MemEntrySize :
          Begin(get, address, value, size)
    BY <1>2
  <2>2. /\ call' \in Call /\ call'.i <= call'.size /\ call'.status = "running"
        /\ start' \in [Entry -> Byte]
        /\ CallEffect'
    BY <1>2, <2>1, BeginTyped
  <2>3. TypeOK'
    BY <1>2, <2>2 DEF TypeOK
  <2> QED BY <2>2, <2>3
<1>3. CASE PreparePair
  <2>1. image \in Seq(Pair) /\ image # <<>> /\ phase = "prepare"
    BY <1>3 DEF PreparePair, TypeOK
  <2>2. Head(image) \in Pair /\ Tail(image) \in Seq(Pair)
    BY <2>1
  <2>3. Begun
    BY <1>1, <1>3, <2>2 DEF PreparePair, Pair
  <2> QED BY <1>2, <1>3, <2>1, <2>2, <2>3 DEF PreparePair, TypeOK
<1>4. CASE PrepareEnd
  <2>1. 0 \in 0 .. AddrMod - 1
    BY MemoryConfig DEF DOUBLE_SIZE
  <2>2. Begun
    BY <1>1, <1>4, <2>1 DEF PrepareEnd
  <2> QED BY <1>2, <1>4, <2>2 DEF PrepareEnd, TypeOK
<1>5. CASE LoadByte
  <2>1. /\ phase = "load" /\ file # <<>> /\ file \in Seq(Byte)
        /\ Len(file) <= Len(loaded.file) /\ loaded.file \in Seq(Byte)
        /\ Len(loaded.file) <= AddrMod
    BY <1>5, MemoryConfig DEF LoadByte, TypeOK
  <2>2. /\ Head(file) \in Byte /\ Tail(file) \in Seq(Byte)
        /\ Len(Tail(file)) <= Len(file) /\ Len(file) > 0 /\ Len(file) \in Nat
        /\ Len(loaded.file) \in Nat
    BY <2>1
  <2>3. Len(loaded.file) - Len(file) \in 0 .. AddrMod - 1
    BY <2>1, <2>2, MemoryConfig
  <2>4. [Zeros EXCEPT ![0] = Head(file)] \in Value
    BY <1>1, <2>2 DEF Value
  <2>5. Begun
    BY <1>1, <1>5, <2>3, <2>4 DEF LoadByte
  <2>6. Len(file') <= Len(loaded.file) /\ file' \in Seq(Byte)
    BY <1>5, <2>1, <2>2 DEF LoadByte
  <2> QED BY <1>2, <1>5, <2>1, <2>5, <2>6 DEF LoadByte, TypeOK
<1>6. ASSUME NEW address \in Address, NEW value \in Values, NEW size \in MemEntrySize,
             getMemValue(address, value, size) \/ setMemValue(address, value, size)
      PROVE  TypeOK' /\ CallEffect'
  <2>1. address \in 0 .. AddrMod - 1 /\ value \in Value
    BY MemoryConfig
  <2>2. Begun
    BY <1>6, <2>1 DEF getMemValue, setMemValue
  <2>3. phase = "ready" /\ calls < MaxCalls /\ calls' = calls + 1
    BY <1>6 DEF getMemValue, setMemValue, canCall
  <2>4. calls' \in 0 .. MaxCalls
    BY <2>3, MemoryConfig DEF TypeOK
  <2> QED BY <1>2, <1>6, <2>2, <2>3, <2>4 DEF getMemValue, setMemValue, TypeOK
<1> QED BY <1>3, <1>4, <1>5, <1>6

\* What moves from one phase to the next touches no call.
LEMMA PhaseStep ==
  ASSUME TypeOK, CallEffect, OpenBinary \/ LoadEnd
  PROVE  TypeOK' /\ CallEffect'
<1>1. UNCHANGED <<memArr, image, file, call, calls, start, loaded>>
  BY DEF OpenBinary, LoadEnd
<1>2. CallEffect'
  BY <1>1 DEF CallEffect, inRange, cell, reached
<1>3. CASE OpenBinary
  <2>1. phase = "prepare" /\ file = loaded.file /\ loaded.file \in Files
    BY <1>3 DEF OpenBinary, TypeOK
  <2>2. file = NoFile \/ (file \in Seq(Byte) /\ Len(file) <= Len(loaded.file))
    BY <2>1, MemoryConfig
  <2> QED BY <1>1, <1>2, <1>3, <2>1, <2>2 DEF OpenBinary, TypeOK
<1>4. CASE LoadEnd
  BY <1>1, <1>2, <1>4 DEF LoadEnd, TypeOK
<1> QED BY <1>3, <1>4

\* Every step keeps the types and what a call has done so far.
LEMMA StepTyped ==
  TypeOK /\ CallEffect /\ [Next]_vars => TypeOK' /\ CallEffect'
<1> SUFFICES ASSUME TypeOK, CallEffect, [Next]_vars PROVE TypeOK' /\ CallEffect'
  OBVIOUS
<1>1. CASE GetByte
  BY <1>1, GetByteStep
<1>2. CASE SetByte
  BY <1>2, SetByteStep
<1>3. CASE Throw \/ Return
  BY <1>3, EndStep
<1>4. CASE \/ PreparePair \/ PrepareEnd \/ LoadByte
           \/ \E address \in Address, value \in Values, size \in MemEntrySize :
                getMemValue(address, value, size) \/ setMemValue(address, value, size)
  BY <1>4, BeginStep
<1>5. CASE OpenBinary \/ LoadEnd
  BY <1>5, PhaseStep
<1>6. CASE UNCHANGED vars
  BY <1>6 DEF vars, TypeOK, CallEffect, inRange, cell, reached
<1> QED BY <1>1, <1>2, <1>3, <1>4, <1>5, <1>6 DEF Next

\* Memory, call and what is left to load keep their types (MemoryStore.cpp).
THEOREM MemoryTypeCorrect == Spec => []TypeOK
<1>1. Spec => [](TypeOK /\ CallEffect)
  BY InitTyped, StepTyped, PTL DEF Spec
<1> QED BY <1>1, PTL

\* However far getOrSetValue (MemoryStore.cpp:57-89) has come, it has dealt
\* with the bytes below i and with nothing else.
THEOREM CallsExact == Spec => []CallEffect
<1>1. Spec => [](TypeOK /\ CallEffect)
  BY InitTyped, StepTyped, PTL DEF Spec
<1> QED BY <1>1, PTL

-----------------------------------------------------------------------------
(***************************************************************************)
(* The construction: how far it has come at every byte of every call.      *)
(***************************************************************************)
\* how many pairs of the image, and bytes of the binary, have been begun
taken  == IF image = NoFile THEN Len(pairs) ELSE Len(pairs) - Len(image)
stored == Len(bytes) - Len(file)

\* the word prepareMemory stores for a pair
wordOf(p) == IF p.complete THEN p.word ELSE Zeros

\* the latest call stores the first bytes of value
Storing(address, value, size) ==
  /\ ~call.get /\ call.address = address /\ call.size = size
  /\ \A k \in 0 .. size - 1 : call.value[k] = value[k]

\* What is left of the two files is a suffix of them.
Left ==
  /\ loaded.image \in Images
  /\ image # NoFile =>
       /\ loaded.image # NoFile /\ Len(image) <= Len(pairs)
       /\ \A k \in 1 .. Len(image) : image[k] = pairs[Len(pairs) - Len(image) + k]
  /\ phase = "load" => \A k \in 1 .. Len(file) : file[k] = bytes[stored + k]

\* Before the first pair: zeros.
NothingYet ==
  /\ ~running /\ image = loaded.image
  /\ \A e \in Entry : memArr[e] = 0

\* The latest call is that of pair taken: it began on the pairs before it, and
\* they fit.  The stream has failed if that pair had no word.
PairStored ==
  /\ taken >= 1 /\ Storing(pairs[taken].addr, wordOf(pairs[taken]), WORD_SIZE)
  /\ image = NoFile <=> ~pairs[taken].complete
  /\ \A k \in 1 .. taken - 1 : wordEntries(pairs[k].addr) \subseteq Entry
  /\ \A e \in Entry : start[e] = underBinary(taken - 1, e)

\* or that of the pass that met the end
LastPass ==
  /\ image = NoFile /\ Storing(0, Zeros, WORD_SIZE)
  /\ fits /\ emptyPass
  /\ \A e \in Entry : start[e] = underBinary(Len(pairs), e)

\* The latest call is that of the last byte stored, and it began on the bytes
\* before it.
ByteStored ==
  \/ /\ stored = 0 /\ ~running
     /\ \A e \in Entry : memArr[e] = prepared(0, e)
  \/ /\ stored >= 1 /\ Storing(stored - 1, [k \in 0 .. 0 |-> bytes[stored]], BYTE_SIZE)
     /\ \A e \in Entry : start[e] = prepared(stored - 1, e)

\* How far the constructor has come, in each of its phases.
Construction ==
  /\ Left
  /\ phase = "prepare" => NothingYet \/ PairStored \/ LastPass
  /\ phase = "load" => fits /\ ByteStored
  /\ phase = "ready" /\ calls = 0 =>
       /\ fits /\ ~running
       /\ \A e \in Entry : memArr[e] = prepared(Len(bytes), e)
  /\ phase = "aborted" => ~fits \/ ~(wordEntries(0) \subseteq Entry)

\* What there was is a sequence of pairs and one of bytes.
LEMMA FilesTyped ==
  ASSUME TypeOK, Left
  PROVE  /\ pairs \in Seq(Pair) /\ Len(pairs) \in Nat
         /\ \A k \in 1 .. Len(pairs) - 1 : pairs[k].complete
         /\ bytes \in Seq(Byte) /\ Len(bytes) \in Nat /\ Len(bytes) <= AddrMod
<1>1. loaded.image = NoFile \/ isImage(loaded.image)
  BY MemoryConfig DEF Left
<1>2. loaded.file = NoFile \/ (loaded.file \in Seq(Byte) /\ Len(loaded.file) <= AddrMod)
  BY MemoryConfig DEF TypeOK
<1>3. pairs \in Seq(Pair) /\ \A k \in 1 .. Len(pairs) - 1 : pairs[k].complete
  <2>1. CASE loaded.image = NoFile
    <3>1. pairs = <<>>
      BY <2>1 DEF pairs
    <3> QED BY <3>1
  <2>2. CASE loaded.image # NoFile
    BY <2>2, <1>1 DEF pairs, isImage
  <2> QED BY <2>1, <2>2
<1>4. bytes \in Seq(Byte) /\ Len(bytes) <= AddrMod
  <2>1. CASE loaded.file = NoFile
    <3>1. bytes = <<>>
      BY <2>1 DEF bytes
    <3> QED BY <3>1, MemoryConfig
  <2>2. CASE loaded.file # NoFile
    BY <2>2, <1>2 DEF bytes
  <2> QED BY <2>1, <2>2
<1> QED BY <1>3, <1>4

\* Everything said of the two files as they were keeps its value.
LEMMA LoadedKept ==
  ASSUME loaded' = loaded
  PROVE  /\ pairs' = pairs /\ bytes' = bytes
         /\ fits' <=> fits
         /\ emptyPass' <=> emptyPass
         /\ \A n, e : underBinary(n, e)' = underBinary(n, e)
         /\ \A m, e : prepared(m, e)' = prepared(m, e)
<1>1. pairs' = pairs /\ bytes' = bytes
  BY DEF pairs, bytes
<1>2. fits' <=> fits
  BY <1>1 DEF fits
<1>3. \A n, e : underBinary(n, e)' = underBinary(n, e)
  BY <1>1 DEF underBinary, pairByte
<1>4. emptyPass' <=> emptyPass
  BY <1>1 DEF emptyPass
<1>5. wordEntries(0)' = wordEntries(0) /\ \A e : addressOf(e)' = addressOf(e)
  BY DEF wordEntries, addressOf
<1>6. \A m, e : prepared(m, e)' = prepared(m, e)
  BY <1>1, <1>3, <1>4, <1>5 DEF prepared
<1> QED BY <1>1, <1>2, <1>3, <1>4, <1>6

\* The bytes of a word are at different entries.
LEMMA WordApart ==
  ASSUME NEW address \in 0 .. AddrMod - 1, NEW i \in 0 .. 3, NEW k \in 0 .. 3,
         (address - startAddr + i) % AddrMod = (address - startAddr + k) % AddrMod
  PROVE  i = k
<1> SUFFICES ASSUME i # k PROVE FALSE
  OBVIOUS
<1>1. address \in Int /\ startAddr \in Int /\ AddrMod \in Nat /\ 8 <= AddrMod
  BY MemoryConfig DEF DOUBLE_SIZE
<1> DEFINE x == address - startAddr + i
           y == address - startAddr + k
<1>2. x \in Int /\ y \in Int /\ (x < y => y - x < AddrMod) /\ (y < x => x - y < AddrMod)
      /\ (x < y \/ y < x)
  BY <1>1
<1>3. x % AddrMod = y % AddrMod
  OBVIOUS
<1> HIDE DEF x, y
<1> QED BY <1>1, <1>2, <1>3, ModApart

\* The entry of an address, and back.
LEMMA EntryAddress ==
  ASSUME NEW a \in 0 .. AddrMod - 1, NEW e \in 0 .. AddrMod - 1
  PROVE  e = (a - startAddr) % AddrMod <=> addressOf(e) = a
<1>1. AddrMod \in Nat /\ AddrMod > 0 /\ startAddr \in Int /\ a \in Int /\ e \in Int
  BY MemoryConfig DEF DOUBLE_SIZE
<1>2. ASSUME NEW x \in Int, NEW y \in Int, y = x % AddrMod
      PROVE  \E q \in Int : x = AddrMod * q + y
  BY <1>1, <1>2, DivMod
<1>4. ASSUME e = (a - startAddr) % AddrMod PROVE addressOf(e) = a
  <2>1. a - startAddr \in Int
    BY <1>1
  <2>2. PICK q \in Int : a - startAddr = AddrMod * q + e
    BY <1>2, <1>4, <2>1
  <2>3. -q \in Int /\ e + startAddr = AddrMod * (-q) + a /\ e + startAddr \in Int
    BY <1>1, <2>2
  <2> QED BY <1>1, <2>3, ModIs DEF addressOf
<1>5. ASSUME addressOf(e) = a PROVE e = (a - startAddr) % AddrMod
  <2>1. e + startAddr \in Int /\ a = (e + startAddr) % AddrMod
    BY <1>1, <1>5 DEF addressOf
  <2>2. PICK q \in Int : e + startAddr = AddrMod * q + a
    BY <1>2, <2>1
  <2>3. -q \in Int /\ a - startAddr = AddrMod * (-q) + e /\ a - startAddr \in Int
    BY <1>1, <2>2
  <2> QED BY <1>1, <2>3, ModIs
<1> QED BY <1>4, <1>5

\* The pairs below the first n say what pair n does not.
LEMMA OneMorePair ==
  ASSUME NEW n \in Nat \ {0}, NEW e
  PROVE  underBinary(n, e) = IF e \in wordEntries(pairs[n].addr)
                               THEN pairByte(pairs[n], e) ELSE underBinary(n - 1, e)
<1> DEFINE at(m) == { k \in 1 .. m : e \in wordEntries(pairs[k].addr) }
           said(S) == IF S = {} THEN 0
                      ELSE pairByte(pairs[CHOOSE k \in S : \A l \in S : l <= k], e)
<1>0. underBinary(n, e) = said(at(n)) /\ underBinary(n - 1, e) = said(at(n - 1))
  BY DEF underBinary
<1>1. CASE e \in wordEntries(pairs[n].addr)
  <2>1. n \in at(n) /\ at(n) # {}
    BY <1>1
  <2>2. n \in at(n) /\ \A l \in at(n) : l <= n
    BY <2>1
  <2>3. \A k \in at(n) : (\A l \in at(n) : l <= k) => k = n
    BY <2>1
  <2>4. (CHOOSE k \in at(n) : \A l \in at(n) : l <= k) = n
    BY <2>2, <2>3
  <2> QED BY <1>0, <1>1, <2>1, <2>4
<1>2. CASE e \notin wordEntries(pairs[n].addr)
  <2>1. at(n) = at(n - 1)
    BY <1>2
  <2> QED BY <1>0, <1>2, <2>1
<1> QED BY <1>1, <1>2
\* How many pairs have been begun.
LEMMA TakenTyped ==
  ASSUME TypeOK, Left
  PROVE  /\ taken \in 0 .. Len(pairs)
         /\ image # NoFile => image \in Seq(Pair) /\ Len(image) = Len(pairs) - taken
<1>1. Len(pairs) \in Nat
  BY FilesTyped
<1>2. CASE image = NoFile
  BY <1>1, <1>2 DEF taken
<1>3. CASE image # NoFile
  <2>1. image \in Seq(Pair) /\ Len(image) \in Nat /\ Len(image) <= Len(pairs)
    BY <1>3 DEF TypeOK, Left
  <2> QED BY <1>1, <1>3, <2>1 DEF taken
<1> QED BY <1>2, <1>3

\* A call of prepareMemory that is over has stored all of its bytes.
LEMMA PrepareEnded ==
  ASSUME TypeOK, CallEffect, phase = "prepare", ~running, ~call.get
  PROVE  call.i = call.size
<1>1. call.status = "SUCCESS"
  BY DEF TypeOK, Call, running
<1>2. call # Idle
  BY DEF Idle
<1> QED BY <1>1, <1>2 DEF CallEffect

\* A call that has stored a word has changed the entries of the word only.
LEMMA WordStored ==
  ASSUME TypeOK, CallEffect, NEW address, NEW value,
         Storing(address, value, WORD_SIZE), call.i = WORD_SIZE
  PROVE  /\ address \in 0 .. AddrMod - 1
         /\ wordEntries(address) \subseteq Entry
         /\ \A k \in 0 .. 3 : memArr[(address - startAddr + k) % AddrMod] = value[k]
         /\ \A e \in Entry : e \notin wordEntries(address) => memArr[e] = start[e]
<1>1. /\ ~call.get /\ call.address = address /\ call.i = 4
      /\ \A k \in 0 .. 3 : call.value[k] = value[k]
  BY DEF Storing, WORD_SIZE
<1>2. address \in 0 .. AddrMod - 1
  BY <1>1 DEF TypeOK, Call
<1>3. \A k : cell(call, k) = (address - startAddr + k) % AddrMod
  BY <1>1 DEF cell
<1>4. reached(call, call.i) = wordEntries(address)
  BY <1>1, <1>3 DEF reached, wordEntries, WORD_SIZE
<1>5. \A k \in 0 .. 3 : memArr[cell(call, k)] = call.value[k]
  BY <1>1 DEF CallEffect
<1>6. \A e \in Entry \ reached(call, call.i) : memArr[e] = start[e]
  BY <1>1 DEF CallEffect
<1>7. reached(call, call.i) \subseteq Entry
  BY DEF CallEffect
<1> QED BY <1>1, <1>2, <1>3, <1>4, <1>5, <1>6, <1>7

\* When its call is over a pair lies over those before it.
LEMMA PairDone ==
  ASSUME TypeOK, CallEffect, Left, phase = "prepare", ~running, PairStored
  PROVE  /\ \A k \in 1 .. taken : wordEntries(pairs[k].addr) \subseteq Entry
         /\ \A e \in Entry : memArr[e] = underBinary(taken, e)
<1> DEFINE p == pairs[taken]
<1>1. taken \in 1 .. Len(pairs) /\ taken \in Nat \ {0} /\ p \in Pair
  BY TakenTyped, FilesTyped DEF PairStored
<1>2. ~call.get /\ call.size = WORD_SIZE /\ Storing(p.addr, wordOf(p), WORD_SIZE)
  BY DEF PairStored, Storing
<1>3. call.i = WORD_SIZE
  BY <1>2, PrepareEnded
<1>4. /\ p.addr \in 0 .. AddrMod - 1
      /\ wordEntries(p.addr) \subseteq Entry
      /\ \A k \in 0 .. 3 : memArr[(p.addr - startAddr + k) % AddrMod] = wordOf(p)[k]
      /\ \A e \in Entry : e \notin wordEntries(p.addr) => memArr[e] = start[e]
  BY <1>2, <1>3, WordStored
<1>5. ASSUME NEW e \in Entry, e \in wordEntries(p.addr)
      PROVE  memArr[e] = pairByte(p, e)
  <2>1. PICK k \in 0 .. 3 : e = (p.addr - startAddr + k) % AddrMod
    BY <1>5 DEF wordEntries, WORD_SIZE
  <2>2. \A l \in 0 .. 3 : e = (p.addr - startAddr + l) % AddrMod => l = k
    BY <2>1, <1>4, WordApart
  <2> DEFINE at == CHOOSE l \in 0 .. WORD_SIZE - 1 : e = (p.addr - startAddr + l) % AddrMod
  <2>3. at = k
    BY <2>1, <2>2 DEF WORD_SIZE
  <2>4. memArr[e] = wordOf(p)[k]
    BY <2>1, <1>4
  <2>5. wordOf(p)[k] = pairByte(p, e)
    <3>1. pairByte(p, e) = IF p.complete THEN p.word[at] ELSE 0
      BY DEF pairByte
    <3>2. Zeros[k] = 0
      BY DEF Zeros
    <3> HIDE DEF at
    <3> QED BY <2>3, <3>1, <3>2 DEF wordOf
  <2> QED BY <2>4, <2>5
<1>6. ASSUME NEW e \in Entry PROVE memArr[e] = underBinary(taken, e)
  <2>1. underBinary(taken, e) = IF e \in wordEntries(p.addr)
                                  THEN pairByte(p, e) ELSE underBinary(taken - 1, e)
    BY <1>1, OneMorePair
  <2>2. start[e] = underBinary(taken - 1, e)
    BY DEF PairStored
  <2> QED BY <2>1, <2>2, <1>4, <1>5
<1>7. ASSUME NEW k \in 1 .. taken PROVE wordEntries(pairs[k].addr) \subseteq Entry
  <2>1. k = taken \/ k \in 1 .. taken - 1
    BY <1>1
  <2> QED BY <2>1, <1>4 DEF PairStored
<1> QED BY <1>6, <1>7

\* Between two calls the memory holds the pairs taken.
LEMMA PairsDone ==
  ASSUME TypeOK, CallEffect, Left, phase = "prepare", ~running, NothingYet \/ PairStored
  PROVE  /\ \A k \in 1 .. taken : wordEntries(pairs[k].addr) \subseteq Entry
         /\ \A e \in Entry : memArr[e] = underBinary(taken, e)
<1>1. CASE PairStored
  BY <1>1, PairDone
<1>2. CASE NothingYet
  <2>1. taken = 0
    <3>1. CASE image = NoFile
      <4>1. pairs = <<>>
        BY <1>2, <3>1 DEF NothingYet, pairs
      <4> QED BY <3>1, <4>1 DEF taken
    <3>2. CASE image # NoFile
      <4>1. pairs = image /\ Len(pairs) \in Nat
        BY <1>2, <3>2, FilesTyped DEF NothingYet, pairs
      <4> QED BY <3>2, <4>1 DEF taken
    <3> QED BY <3>1, <3>2
  <2>2. 1 .. taken = {}
    BY <2>1
  <2>3. \A e : underBinary(taken, e) = 0
    BY <2>2 DEF underBinary
  <2> QED BY <1>2, <2>2, <2>3 DEF NothingYet
<1> QED BY <1>1, <1>2

\* With the stream at its end all of the image lies in the memory, but for
\* what an empty pass has covered.
LEMMA ImageDone ==
  ASSUME TypeOK, CallEffect, Construction, phase = "prepare", ~running, image = NoFile
  PROVE  fits /\ \A e \in Entry : memArr[e] = prepared(0, e)
<1>1. /\ pairs \in Seq(Pair) /\ Len(pairs) \in Nat /\ taken = Len(pairs) /\ Left
      /\ NothingYet \/ PairStored \/ LastPass
  BY FilesTyped DEF Construction, taken
<1>2. ASSUME NEW e \in Entry
      PROVE  prepared(0, e) = IF emptyPass /\ e \in wordEntries(0)
                                THEN 0 ELSE underBinary(Len(pairs), e)
  <2>1. e + startAddr \in Int
    BY MemoryConfig DEF Entry
  <2>2. addressOf(e) \in Nat
    BY <2>1, DivMod, MemoryConfig DEF addressOf, DOUBLE_SIZE
  <2> QED BY <2>2 DEF prepared
<1>3. CASE NothingYet \/ PairStored
  <2>1. /\ \A k \in 1 .. taken : wordEntries(pairs[k].addr) \subseteq Entry
        /\ \A e \in Entry : memArr[e] = underBinary(taken, e)
    BY <1>1, <1>3, PairsDone
  <2>2. ~emptyPass
    <3>1. NothingYet => loaded.image = NoFile
      BY DEF NothingYet
    <3>2. PairStored => taken \in 1 .. Len(pairs) /\ ~pairs[taken].complete
      BY <1>1 DEF PairStored
    <3> QED BY <1>1, <1>3, <3>1, <3>2 DEF emptyPass
  <2> QED BY <1>1, <1>2, <2>1, <2>2 DEF fits
<1>4. CASE LastPass
  <2>1. Storing(0, Zeros, WORD_SIZE) /\ ~call.get /\ call.size = WORD_SIZE
    BY <1>4 DEF LastPass, Storing
  <2>2. call.i = WORD_SIZE
    BY <2>1, PrepareEnded
  <2>3. /\ \A k \in 0 .. 3 : memArr[(0 - startAddr + k) % AddrMod] = Zeros[k]
        /\ \A e \in Entry : e \notin wordEntries(0) => memArr[e] = start[e]
    BY <2>1, <2>2, WordStored
  <2>4. ASSUME NEW e \in wordEntries(0) PROVE memArr[e] = 0
    <3>1. PICK k \in 0 .. 3 : e = (0 - startAddr + k) % AddrMod
      BY <2>4 DEF wordEntries, WORD_SIZE
    <3>2. Zeros[k] = 0
      BY DEF Zeros
    <3> QED BY <2>3, <3>1, <3>2
  <2> QED BY <1>2, <1>4, <2>3, <2>4 DEF LastPass
<1> QED BY <1>1, <1>3, <1>4
\* The byte at an address is prepared once it is stored, and no other is by it.
LEMMA OneMoreByte ==
  ASSUME NEW m \in Nat \ {0}, NEW e \in Entry
  PROVE  /\ addressOf(e) \in 0 .. AddrMod - 1
         /\ addressOf(e) = m - 1 => prepared(m, e) = bytes[m]
         /\ addressOf(e) # m - 1 => prepared(m, e) = prepared(m - 1, e)
<1>1. e + startAddr \in Int /\ AddrMod \in Nat /\ AddrMod > 0
  BY MemoryConfig DEF Entry, DOUBLE_SIZE
<1>2. addressOf(e) \in 0 .. AddrMod - 1
  BY <1>1, DivMod DEF addressOf
<1>3. addressOf(e) = m - 1 => prepared(m, e) = bytes[m]
  <2>1. addressOf(e) = m - 1 => addressOf(e) < m /\ addressOf(e) + 1 = m
    BY <1>2
  <2> QED BY <2>1 DEF prepared
<1>4. addressOf(e) # m - 1 => (addressOf(e) < m <=> addressOf(e) < m - 1)
  BY <1>2
<1>5. addressOf(e) # m - 1 => prepared(m, e) = prepared(m - 1, e)
  BY <1>4 DEF prepared
<1> QED BY <1>2, <1>3, <1>5

\* How many bytes of the binary have been begun.
LEMMA StoredTyped ==
  ASSUME TypeOK, Left, phase = "load"
  PROVE  /\ stored \in 0 .. Len(bytes) /\ Len(bytes) = Len(loaded.file)
         /\ bytes = loaded.file
         /\ file \in Seq(Byte) /\ Len(file) \in Nat /\ Len(file) = Len(bytes) - stored
<1>1. bytes = loaded.file /\ file \in Seq(Byte) /\ Len(file) <= Len(loaded.file)
  BY DEF TypeOK, bytes
<1>2. Len(bytes) \in Nat /\ Len(file) \in Nat
  BY <1>1, FilesTyped
<1> QED BY <1>1, <1>2 DEF stored

\* Between two calls the memory holds the bytes stored, over the image.
LEMMA BytesDone ==
  ASSUME TypeOK, CallEffect, Construction, phase = "load", ~running
  PROVE  \A e \in Entry : memArr[e] = prepared(stored, e)
<1>1. ByteStored /\ stored \in Nat
  BY StoredTyped, FilesTyped DEF Construction
<1>2. CASE stored = 0 /\ \A e \in Entry : memArr[e] = prepared(0, e)
  BY <1>2
<1>3. CASE /\ stored >= 1
           /\ Storing(stored - 1, [k \in 0 .. 0 |-> bytes[stored]], BYTE_SIZE)
           /\ \A e \in Entry : start[e] = prepared(stored - 1, e)
  <2>1. /\ ~call.get /\ call.address = stored - 1 /\ call.size = 1
        /\ call.value[0] = bytes[stored]
    <3>1. 0 \in 0 .. BYTE_SIZE - 1 /\ 0 \in 0 .. 0
      BY DEF BYTE_SIZE
    <3> QED BY <1>3, <3>1 DEF Storing, BYTE_SIZE
  <2>2. stored - 1 \in 0 .. AddrMod - 1
    BY <2>1 DEF TypeOK, Call
  <2>3. cell(call, 0) = (stored - 1 - startAddr) % AddrMod
    BY <2>1, <2>2, MemoryConfig DEF cell
  <2>4. \A e \in Entry : e = cell(call, 0) <=> addressOf(e) = stored - 1
    <3>1. \A e \in Entry : e \in 0 .. AddrMod - 1
      BY MemoryConfig DEF Entry
    <3> QED BY <2>2, <2>3, <3>1, EntryAddress
  <2>5. call.i \in 0 .. 1
    BY <2>1 DEF TypeOK, Call, DOUBLE_SIZE
  <2>6. /\ call.i = 0 => cell(call, 0) \notin Entry
        /\ call.i = 0 => 0 .. call.i - 1 = {}
        /\ call.i = 1 => 0 .. call.i - 1 = {0}
    <3>1. call.status = "SUCCESS" => call.i = 1
      <4>1. call # Idle
        BY <2>1 DEF Idle
      <4> QED BY <2>1, <4>1 DEF CallEffect
    <3>2. call.status \in {"SUCCESS", "EINVAL"}
      BY DEF TypeOK, Call, running
    <3>3. call.status = "EINVAL" => ~inRange
      BY DEF CallEffect
    <3>4. call.i = 0 => cell(call, 0) \notin Entry
      BY <3>1, <3>2, <3>3 DEF inRange
    <3> QED BY <2>5, <3>4
  <2>7. ASSUME NEW e \in Entry PROVE memArr[e] = prepared(stored, e)
    <3>1. e \in Entry /\ stored \in Nat \ {0}
      BY <1>1, <1>3
    <3>2. CASE addressOf(e) = stored - 1
      <4>1. e = cell(call, 0) /\ call.i = 1
        BY <2>4, <2>5, <2>6, <3>1, <3>2
      <4>2. memArr[cell(call, 0)] = call.value[0]
        BY <2>1, <2>6, <4>1 DEF CallEffect
      <4> QED BY <2>1, <3>1, <3>2, <4>1, <4>2, OneMoreByte
    <3>3. CASE addressOf(e) # stored - 1
      <4>1. e # cell(call, 0)
        BY <2>4, <3>1, <3>3
      <4>2. e \notin reached(call, call.i)
        BY <2>5, <2>6, <4>1 DEF reached
      <4>3. memArr[e] = start[e]
        BY <2>1, <3>1, <4>2 DEF CallEffect
      <4> QED BY <1>3, <3>1, <3>3, <4>3, OneMoreByte
    <3> QED BY <3>2, <3>3
  <2> QED BY <2>7
<1> QED BY <1>1, <1>2, <1>3 DEF ByteStored

\* A step inside a call, or its end, that leaves the phase alone.
LEMMA InsideCall ==
  ASSUME TypeOK, Construction, running,
         UNCHANGED <<phase, image, file, calls, start, loaded>>,
         call.get \/ (/\ call'.get = call.get /\ call'.address = call.address
                      /\ call'.size = call.size /\ call'.value = call.value)
  PROVE  Construction'
<1>1. /\ pairs' = pairs /\ bytes' = bytes /\ (fits' <=> fits) /\ (emptyPass' <=> emptyPass)
      /\ \A n, e : underBinary(n, e)' = underBinary(n, e)
      /\ \A m, e : prepared(m, e)' = prepared(m, e)
  BY LoadedKept
<1>2. taken' = taken /\ stored' = stored
  BY <1>1 DEF taken, stored
<1>3. Left'
  BY <1>1, <1>2 DEF Left, Construction
<1>4. ~call.get => \A a, v, n : Storing(a, v, n)' = Storing(a, v, n)
  BY DEF Storing
<1>5. PairStored => PairStored'
  <2>1. PairStored => ~call.get
    BY DEF PairStored, Storing
  <2> QED BY <1>1, <1>2, <1>4, <2>1 DEF PairStored
<1>6. LastPass => LastPass'
  <2>1. LastPass => ~call.get
    BY DEF LastPass, Storing
  <2> QED BY <1>1, <1>4, <2>1 DEF LastPass
<1>7. ByteStored => ByteStored'
  <2>1. ByteStored => ~call.get
    BY DEF ByteStored, Storing
  <2> QED BY <1>1, <1>2, <1>4, <2>1 DEF ByteStored
<1>8. ~NothingYet
  BY DEF NothingYet
<1> QED BY <1>1, <1>3, <1>5, <1>6, <1>7, <1>8 DEF Construction

\* It starts on zeros.
LEMMA InitConstruction == Init => Construction
<1> SUFFICES ASSUME Init PROVE Construction
  OBVIOUS
<1>1. /\ loaded = [image |-> image, file |-> file] /\ image \in Images
      /\ phase = "prepare" /\ call.status = "SUCCESS" /\ \A e \in Entry : memArr[e] = 0
  BY DEF Init, Idle
<1>2. loaded.image = image
  BY <1>1
<1>3. Left
  <2>1. ASSUME image # NoFile
        PROVE  /\ Len(image) <= Len(pairs)
               /\ \A k \in 1 .. Len(image) : image[k] = pairs[Len(pairs) - Len(image) + k]
    <3>1. pairs = image /\ Len(image) \in Nat
      BY <1>1, <1>2, <2>1, MemoryConfig DEF pairs, isImage
    <3> QED BY <3>1
  <2> QED BY <1>1, <1>2, <2>1 DEF Left
<1>4. NothingYet
  BY <1>1, <1>2 DEF NothingYet, running
<1> QED BY <1>1, <1>3, <1>4 DEF Construction

\* The next pair begins on those before it.
LEMMA PreparePairStep ==
  ASSUME TypeOK, CallEffect, Construction, PreparePair
  PROVE  Construction'
<1> DEFINE p == Head(image)
<1>1. /\ phase = "prepare" /\ ~running /\ image # NoFile /\ image # <<>>
      /\ Begin(FALSE, p.addr, wordOf(p), WORD_SIZE)
      /\ image' = IF p.complete THEN Tail(image) ELSE NoFile
      /\ UNCHANGED <<memArr, phase, file, calls, loaded>>
  BY DEF PreparePair, wordOf
<1>2. /\ pairs' = pairs /\ bytes' = bytes /\ (fits' <=> fits) /\ (emptyPass' <=> emptyPass)
      /\ \A n, e : underBinary(n, e)' = underBinary(n, e)
  BY <1>1, LoadedKept
<1>3. Left /\ (NothingYet \/ PairStored)
  BY <1>1 DEF Construction, LastPass
<1>4. /\ image \in Seq(Pair) /\ Len(image) = Len(pairs) - taken
      /\ taken \in 0 .. Len(pairs) /\ Len(pairs) \in Nat
      /\ \A k \in 1 .. Len(pairs) - 1 : pairs[k].complete
  BY <1>1, <1>3, TakenTyped, FilesTyped
<1>5. /\ p = image[1] /\ Len(image) >= 1 /\ Tail(image) \in Seq(Pair)
      /\ Len(Tail(image)) = Len(image) - 1
      /\ \A k \in 1 .. Len(Tail(image)) : Tail(image)[k] = image[k + 1]
  BY <1>1, <1>4
<1>6. \A k \in 1 .. Len(image) : image[k] = pairs[taken + k]
  <2>1. Len(pairs) - Len(image) = taken
    BY <1>4, <1>5
  <2> QED BY <1>1, <1>3, <2>1 DEF Left
<1>7. p = pairs[taken + 1] /\ taken + 1 \in 1 .. Len(pairs)
  BY <1>4, <1>5, <1>6
<1> HIDE DEF p
<1>8. taken' = taken + 1
  <2>1. CASE p.complete
    <3>1. image' = Tail(image) /\ image' # NoFile
      BY <1>1, <1>5, <2>1, MemoryConfig
    <3>2. Len(image') = Len(pairs) - taken - 1
      BY <1>4, <1>5, <3>1
    <3>3. taken' = Len(pairs) - Len(image')
      BY <1>2, <3>1 DEF taken
    <3> QED BY <1>4, <3>2, <3>3
  <2>2. CASE ~p.complete
    <3>1. taken + 1 = Len(pairs)
      BY <1>4, <1>7, <2>2
    <3> QED BY <1>1, <1>2, <2>2, <3>1 DEF taken
  <2> QED BY <2>1, <2>2
<1>9. Left'
  <2>1. loaded'.image \in Images /\ loaded'.image # NoFile
    BY <1>1, <1>3 DEF Left
  <2>2. ASSUME image' # NoFile
        PROVE  /\ Len(image') <= Len(pairs)
               /\ \A k \in 1 .. Len(image') : image'[k] = pairs[Len(pairs) - Len(image') + k]
    <3>1. image' = Tail(image)
      BY <1>1, <2>2
    <3>2. Len(image') = Len(pairs) - (taken + 1)
      BY <1>4, <1>5, <3>1
    <3>3. ASSUME NEW k \in 1 .. Len(image')
          PROVE  image'[k] = pairs[Len(pairs) - Len(image') + k]
      <4>1. image'[k] = image[k + 1] /\ k + 1 \in 1 .. Len(image)
        BY <1>4, <1>5, <3>1
      <4>2. image'[k] = pairs[taken + (k + 1)]
        BY <1>6, <4>1
      <4>3. taken + (k + 1) = Len(pairs) - Len(image') + k
        BY <1>4, <3>2
      <4> QED BY <4>2, <4>3
    <3>4. Len(image') <= Len(pairs)
      BY <1>4, <3>2
    <3> QED BY <3>3, <3>4
  <2> QED BY <1>1, <1>2, <2>1, <2>2 DEF Left
<1>10. /\ ~call'.get /\ call'.address = p.addr /\ call'.size = WORD_SIZE
       /\ call'.value = wordOf(p) /\ start' = memArr
  BY <1>1 DEF Begin, initially
<1>11. PairStored'
  <2>1. /\ \A k \in 1 .. taken : wordEntries(pairs[k].addr) \subseteq Entry
        /\ \A e \in Entry : memArr[e] = underBinary(taken, e)
    BY <1>1, <1>3, PairsDone
  <2>2. taken' >= 1 /\ taken' - 1 = taken
    BY <1>4, <1>8
  <2>3. pairs'[taken'] = p
    BY <1>2, <1>7, <1>8
  <2>4. \A k \in 1 .. taken' - 1 : wordEntries(pairs'[k].addr) \subseteq Entry
    BY <1>2, <2>1, <2>2
  <2>5. \A e \in Entry : start'[e] = underBinary(taken, e)
    BY <1>10, <2>1
  <2>6. Storing(pairs[taken].addr, wordOf(pairs[taken]), WORD_SIZE)'
    BY <1>10, <2>3 DEF Storing, wordOf
  <2>7. image' = NoFile <=> ~p.complete
    BY <1>1, <1>5, MemoryConfig
  <2> QED BY <1>2, <2>2, <2>3, <2>4, <2>5, <2>6, <2>7 DEF PairStored
<1> QED BY <1>1, <1>9, <1>11 DEF Construction
\* The last pass begins on all of the image.
LEMMA PrepareEndStep ==
  ASSUME TypeOK, CallEffect, Construction, PrepareEnd
  PROVE  Construction'
<1>1. /\ phase = "prepare" /\ ~running /\ image = <<>> /\ image' = NoFile
      /\ Begin(FALSE, 0, Zeros, WORD_SIZE)
      /\ UNCHANGED <<memArr, phase, file, calls, loaded>>
  BY DEF PrepareEnd
<1>2. /\ pairs' = pairs /\ bytes' = bytes /\ (fits' <=> fits) /\ (emptyPass' <=> emptyPass)
      /\ \A n, e : underBinary(n, e)' = underBinary(n, e)
  BY <1>1, LoadedKept
<1>3. image # NoFile
  <2>1. <<>> \in Seq(Pair)
    OBVIOUS
  <2> QED BY <1>1, <2>1, MemoryConfig
<1>4. Left /\ (NothingYet \/ PairStored)
  BY <1>1, <1>3 DEF Construction, LastPass
<1>5. taken = Len(pairs) /\ Len(pairs) \in Nat
  BY <1>1, <1>3, <1>4, TakenTyped, FilesTyped
<1>6. /\ \A k \in 1 .. taken : wordEntries(pairs[k].addr) \subseteq Entry
      /\ \A e \in Entry : memArr[e] = underBinary(taken, e)
  BY <1>1, <1>4, PairsDone
<1>7. fits
  BY <1>5, <1>6 DEF fits
<1>8. emptyPass
  <2>1. \A k \in 1 .. Len(pairs) : k \in 1 .. Len(pairs) - 1 \/ k = taken
    BY <1>5
  <2>2. \A k \in 1 .. Len(pairs) - 1 : pairs[k].complete
    BY <1>4, FilesTyped
  <2>3. Len(pairs) # 0 => pairs[taken].complete
    <3>1. CASE PairStored
      BY <1>3, <3>1 DEF PairStored
    <3>2. CASE NothingYet
      <4>1. pairs = <<>>
        BY <1>1, <1>3, <3>2 DEF NothingYet, pairs
      <4> QED BY <4>1
    <3> QED BY <1>4, <3>1, <3>2
  <2>4. loaded.image # NoFile
    BY <1>3, <1>4 DEF Left
  <2> QED BY <1>5, <2>1, <2>2, <2>3, <2>4 DEF emptyPass
<1>9. /\ ~call'.get /\ call'.address = 0 /\ call'.size = WORD_SIZE
      /\ call'.value = Zeros /\ start' = memArr
  BY <1>1 DEF Begin, initially
<1>10. LastPass'
  <2>1. Storing(0, Zeros, WORD_SIZE)'
    BY <1>9 DEF Storing, Zeros
  <2> QED BY <1>1, <1>2, <1>5, <1>6, <1>7, <1>8, <1>9, <2>1 DEF LastPass
<1>11. Left'
  BY <1>1, <1>2, <1>4 DEF Left
<1> QED BY <1>1, <1>10, <1>11 DEF Construction

\* The binary begins on the image.
LEMMA OpenBinaryStep ==
  ASSUME TypeOK, CallEffect, Construction, OpenBinary
  PROVE  Construction'
<1>1. /\ phase = "prepare" /\ ~running /\ image = NoFile
      /\ phase' = IF file = NoFile THEN "ready" ELSE "load"
      /\ UNCHANGED <<memArr, image, file, call, calls, start, loaded>>
  BY DEF OpenBinary
<1>2. /\ pairs' = pairs /\ bytes' = bytes /\ (fits' <=> fits) /\ (emptyPass' <=> emptyPass)
      /\ \A m, e : prepared(m, e)' = prepared(m, e)
  BY <1>1, LoadedKept
<1>3. fits /\ \A e \in Entry : memArr[e] = prepared(0, e)
  BY <1>1, ImageDone
<1>4. Left /\ file = loaded.file
  BY <1>1 DEF Construction, TypeOK
<1>5. ~running'
  BY <1>1 DEF running
<1>6. CASE file = NoFile
  <2>1. bytes = <<>> /\ Len(bytes) = 0
    BY <1>4, <1>6 DEF bytes
  <2>2. Left'
    BY <1>1, <1>2, <1>4, <1>6 DEF Left
  <2> QED BY <1>1, <1>2, <1>3, <1>5, <1>6, <2>1, <2>2 DEF Construction
<1>7. CASE file # NoFile
  <2>1. bytes = file /\ Len(bytes) \in Nat
    BY <1>4, <1>7, FilesTyped DEF bytes
  <2>2. stored = 0 /\ stored' = 0
    BY <1>1, <1>2, <2>1 DEF stored
  <2>3. Left'
    BY <1>1, <1>2, <1>4, <2>1, <2>2 DEF Left
  <2>4. ByteStored'
    BY <1>1, <1>2, <1>3, <1>5, <2>2 DEF ByteStored
  <2> QED BY <1>1, <1>2, <1>3, <1>7, <2>3, <2>4 DEF Construction
<1> QED BY <1>6, <1>7

\* The next byte begins on those before it.
LEMMA LoadByteStep ==
  ASSUME TypeOK, CallEffect, Construction, LoadByte
  PROVE  Construction'
<1>1. /\ phase = "load" /\ ~running /\ file # <<>> /\ file' = Tail(file)
      /\ Begin(FALSE, Len(loaded.file) - Len(file), [Zeros EXCEPT ![0] = Head(file)],
               BYTE_SIZE)
      /\ UNCHANGED <<memArr, phase, image, calls, loaded>>
  BY DEF LoadByte
<1>2. /\ pairs' = pairs /\ bytes' = bytes /\ (fits' <=> fits) /\ (emptyPass' <=> emptyPass)
      /\ \A m, e : prepared(m, e)' = prepared(m, e)
  BY <1>1, LoadedKept
<1>3. Left /\ fits
  BY <1>1 DEF Construction
<1>4. /\ stored \in 0 .. Len(bytes) /\ bytes = loaded.file /\ Len(bytes) \in Nat
      /\ file \in Seq(Byte) /\ Len(file) \in Nat /\ Len(file) = Len(bytes) - stored
  BY <1>1, <1>3, StoredTyped, FilesTyped
<1>5. /\ Len(file) >= 1 /\ Head(file) = file[1] /\ Tail(file) \in Seq(Byte)
      /\ Len(Tail(file)) = Len(file) - 1
      /\ \A k \in 1 .. Len(Tail(file)) : Tail(file)[k] = file[k + 1]
  BY <1>1, <1>4
<1>6. \A k \in 1 .. Len(file) : file[k] = bytes[stored + k]
  BY <1>1, <1>3 DEF Left
<1>7. stored' = stored + 1
  <2>1. Len(file') = Len(bytes) - stored - 1
    BY <1>1, <1>4, <1>5
  <2>2. stored' = Len(bytes) - Len(file')
    BY <1>2 DEF stored
  <2>3. stored \in Int /\ Len(bytes) \in Int
    BY <1>4
  <2> QED BY <2>1, <2>2, <2>3
<1>8. /\ ~call'.get /\ call'.address = stored /\ call'.size = BYTE_SIZE
      /\ call'.value[0] = bytes[stored + 1] /\ start' = memArr
  <2>1. Len(loaded.file) - Len(file) = stored
    BY <1>4
  <2>2. [Zeros EXCEPT ![0] = Head(file)][0] = bytes[stored + 1]
    BY <1>5, <1>6 DEF Zeros
  <2> QED BY <1>1, <2>1, <2>2 DEF Begin, initially
<1>9. Left'
  <2>1. ASSUME NEW k \in 1 .. Len(file') PROVE file'[k] = bytes[stored' + k]
    <3>1. file'[k] = file[k + 1] /\ k + 1 \in 1 .. Len(file)
      BY <1>1, <1>4, <1>5
    <3>2. stored' + k = stored + (k + 1)
      BY <1>4, <1>7
    <3> QED BY <1>6, <3>1, <3>2
  <2> QED BY <1>1, <1>2, <1>3, <2>1 DEF Left
<1>10. ByteStored'
  <2>1. stored' >= 1 /\ stored' - 1 = stored
    BY <1>4, <1>7
  <2>2. \A e \in Entry : memArr[e] = prepared(stored, e)
    BY <1>1, BytesDone
  <2>3. \A e \in Entry : start'[e] = prepared(stored, e)
    BY <1>8, <2>2
  <2>4. call'.address = stored' - 1 /\ call'.value[0] = bytes'[stored']
    BY <1>2, <1>7, <1>8, <2>1
  <2>5. Storing(stored - 1, [k \in 0 .. 0 |-> bytes[stored]], BYTE_SIZE)'
    <3>1. \A k \in 0 .. BYTE_SIZE - 1 : k = 0
      BY DEF BYTE_SIZE
    <3> QED BY <1>8, <2>4, <3>1 DEF Storing
  <2> QED BY <1>2, <2>1, <2>3, <2>5 DEF ByteStored
<1> QED BY <1>1, <1>2, <1>3, <1>9, <1>10 DEF Construction

\* With its last byte the binary lies over the image.
LEMMA LoadEndStep ==
  ASSUME TypeOK, CallEffect, Construction, LoadEnd
  PROVE  Construction'
<1>1. /\ phase = "load" /\ ~running /\ file = <<>> /\ phase' = "ready"
      /\ UNCHANGED <<memArr, image, file, call, calls, start, loaded>>
  BY DEF LoadEnd
<1>2. /\ pairs' = pairs /\ bytes' = bytes /\ (fits' <=> fits) /\ (emptyPass' <=> emptyPass)
      /\ \A m, e : prepared(m, e)' = prepared(m, e)
  BY <1>1, LoadedKept
<1>3. Left /\ fits
  BY <1>1 DEF Construction
<1>4. stored = Len(bytes)
  BY <1>1, <1>3, StoredTyped, FilesTyped
<1>5. \A e \in Entry : memArr[e] = prepared(Len(bytes), e)
  BY <1>1, <1>4, BytesDone
<1>6. Left' /\ ~running'
  BY <1>1, <1>2, <1>3 DEF Left, running
<1> QED BY <1>1, <1>2, <1>3, <1>5, <1>6 DEF Construction

\* A call that leaves the memory ends the program where the image does.
LEMMA ThrowStep ==
  ASSUME TypeOK, CallEffect, Construction, Throw
  PROVE  Construction'
<1>1. /\ inLoop /\ cell(call, call.i) \notin Entry
      /\ call' = [call EXCEPT !.status = "EINVAL"] /\ phase' = afterThrow
      /\ UNCHANGED <<memArr, image, file, calls, start, loaded>>
  BY DEF Throw, inRange
<1>2. /\ call'.get = call.get /\ call'.address = call.address
      /\ call'.size = call.size /\ call'.value = call.value
  BY <1>1 DEF TypeOK, Call
<1>3. running
  BY <1>1 DEF inLoop
<1>4. CASE phase # "prepare"
  BY <1>1, <1>2, <1>3, <1>4, InsideCall DEF afterThrow
<1>5. CASE phase = "prepare"
  <2>1. phase' = "aborted"
    BY <1>1, <1>5 DEF afterThrow
  <2>2. /\ pairs' = pairs /\ bytes' = bytes /\ (fits' <=> fits) /\ (emptyPass' <=> emptyPass)
    BY <1>1, LoadedKept
  <2>3. Left /\ (PairStored \/ LastPass)
    BY <1>3, <1>5 DEF Construction, NothingYet
  <2>4. Left'
    BY <1>1, <2>1, <2>2, <2>3 DEF Left
  <2>5. ASSUME NEW address, NEW value, Storing(address, value, WORD_SIZE)
        PROVE  ~(wordEntries(address) \subseteq Entry)
    <3>1. call.address = address /\ call.i \in 0 .. WORD_SIZE - 1
      BY <1>1, <2>5, InLoop DEF Storing, inLoop, WORD_SIZE
    <3>2. cell(call, call.i) \in wordEntries(address)
      BY <3>1 DEF wordEntries, cell
    <3> QED BY <1>1, <3>2
  <2>6. CASE PairStored
    <3>1. taken \in 1 .. Len(pairs)
      BY <2>3, <2>6, TakenTyped DEF PairStored
    <3>2. ~fits
      BY <2>5, <2>6, <3>1 DEF PairStored, fits
    <3> QED BY <2>1, <2>2, <2>4, <3>2 DEF Construction
  <2>7. CASE LastPass
    <3>1. ~(wordEntries(0) \subseteq Entry)
      BY <2>5, <2>7 DEF LastPass
    <3> QED BY <2>1, <2>4, <3>1 DEF Construction
  <2> QED BY <2>3, <2>6, <2>7
<1> QED BY <1>4, <1>5

\* A call of the simulator is the end of what is said of the construction.
LEMMA SimulatorStep ==
  ASSUME TypeOK, CallEffect, Construction,
         NEW address \in Address, NEW value \in Values, NEW size \in MemEntrySize,
         getMemValue(address, value, size) \/ setMemValue(address, value, size)
  PROVE  Construction'
<1>1. /\ phase = "ready" /\ calls' = calls + 1
      /\ UNCHANGED <<memArr, phase, image, file, loaded>>
  BY DEF getMemValue, setMemValue, canCall
<1>4. calls' # 0
  BY <1>1, MemoryConfig DEF TypeOK
<1>2. pairs' = pairs /\ bytes' = bytes
  BY <1>1, LoadedKept
<1>3. Left'
  BY <1>1, <1>2 DEF Left, Construction
<1> QED BY <1>1, <1>3, <1>4 DEF Construction

\* Every step of it, of its calls and of the simulator keeps that.
LEMMA StepConstruction ==
  TypeOK /\ CallEffect /\ Construction /\ [Next]_vars => Construction'
<1> SUFFICES ASSUME TypeOK, CallEffect, Construction, [Next]_vars PROVE Construction'
  OBVIOUS
<1>1. CASE GetByte
  <2>1. running /\ call.get /\ UNCHANGED <<phase, image, file, calls, start, loaded>>
    BY <1>1 DEF GetByte, inLoop
  <2> QED BY <2>1, InsideCall
<1>2. CASE SetByte
  <2>1. /\ running /\ UNCHANGED <<phase, image, file, calls, start, loaded>>
        /\ call' = [call EXCEPT !.i = @ + 1]
    BY <1>2 DEF SetByte, inLoop
  <2>2. /\ call'.get = call.get /\ call'.address = call.address
        /\ call'.size = call.size /\ call'.value = call.value
    BY <2>1 DEF TypeOK, Call
  <2> QED BY <2>1, <2>2, InsideCall
<1>3. CASE Return
  <2>1. /\ running /\ UNCHANGED <<phase, image, file, calls, start, loaded>>
        /\ call' = [call EXCEPT !.status = "SUCCESS"]
    BY <1>3 DEF Return
  <2>2. /\ call'.get = call.get /\ call'.address = call.address
        /\ call'.size = call.size /\ call'.value = call.value
    BY <2>1 DEF TypeOK, Call
  <2> QED BY <2>1, <2>2, InsideCall
<1>4. CASE UNCHANGED vars
  <2>1. /\ pairs' = pairs /\ bytes' = bytes /\ (fits' <=> fits) /\ (emptyPass' <=> emptyPass)
        /\ \A n, e : underBinary(n, e)' = underBinary(n, e)
        /\ \A m, e : prepared(m, e)' = prepared(m, e)
    BY <1>4, LoadedKept DEF vars
  <2>2. taken' = taken /\ stored' = stored /\ running' = running
    BY <1>4, <2>1 DEF taken, stored, running, vars
  <2>3. \A a, v, n : Storing(a, v, n)' = Storing(a, v, n)
    BY <1>4 DEF Storing, vars
  <2>4. Left' /\ (NothingYet => NothingYet') /\ (LastPass => LastPass')
    BY <1>4, <2>1, <2>2, <2>3 DEF vars, Left, NothingYet, LastPass, Construction
  <2>5. (PairStored => PairStored') /\ (ByteStored => ByteStored')
    BY <1>4, <2>1, <2>2, <2>3 DEF vars, PairStored, ByteStored
  <2> QED BY <1>4, <2>1, <2>2, <2>4, <2>5 DEF vars, Construction
<1> QED BY <1>1, <1>2, <1>3, <1>4, PreparePairStep, PrepareEndStep, OpenBinaryStep,
           LoadByteStep, LoadEndStep, ThrowStep, SimulatorStep DEF Next

\* The constructor (MemoryStore.cpp:21-55, 99-124) leaves the binary over the
\* image over zeros, with zeros in place of the image in the word at address 0
\* if the image ended between two pairs, for every image and every binary, also
\* a short one or none; it ends the program only for an image that does not fit.
THEOREM MemoryIsPrepared == Spec => []MemoryPrepared
<1>1. Construction => MemoryPrepared
  BY DEF Construction, MemoryPrepared
<1>2. Spec => [](TypeOK /\ CallEffect /\ Construction)
  BY InitTyped, StepTyped, InitConstruction, StepConstruction, PTL DEF Spec
<1> QED BY <1>1, <1>2, PTL
-----------------------------------------------------------------------------
(***************************************************************************)
(* The dump.                                                               *)
(***************************************************************************)
\* How many words begin in the d bytes to the end of a range.
LEMMA WordsTo ==
  ASSUME NEW d \in Nat
  PROVE  \E n \in Nat : /\ d <= n * 4
                        /\ n = 0 \/ (n - 1) * 4 < d
<1> DEFINE n == (d + 3) \div 4
<1>1. d + 3 = 4 * n + ((d + 3) % 4) /\ n \in Int /\ (d + 3) % 4 \in 0 .. 3
  BY DivMod
<1> HIDE DEF n
<1>2. n \in Nat /\ d <= n * 4 /\ (n = 0 \/ (n - 1) * 4 < d)
  BY <1>1
<1> QED BY <1>2

\* A row prints all its words or those to the end.
LEMMA RowWords ==
  ASSUME NEW toEnd \in Nat \ {0}
  PROVE  \E n \in 1 .. entriesPerRow :
           /\ Cardinality(rowWords(toEnd)) = n
           /\ (n - 1) * 4 < toEnd
           /\ n < entriesPerRow => toEnd <= n * 4
<1>1. entriesPerRow \in Nat \ {0}
  BY DumpConfig
<1>2. PICK w \in Nat : toEnd <= w * 4 /\ (w = 0 \/ (w - 1) * 4 < toEnd)
  BY WordsTo
<1> DEFINE n == IF w <= entriesPerRow THEN w ELSE entriesPerRow
<1>3. /\ n \in 1 .. entriesPerRow /\ (n - 1) * 4 < toEnd
      /\ n < entriesPerRow => toEnd <= n * 4
      /\ \A k \in 1 .. entriesPerRow : (k - 1) * 4 < toEnd <=> k <= n
  BY <1>1, <1>2
<1> HIDE DEF n
<1>4. rowWords(toEnd) = 1 .. n
  BY <1>1, <1>3 DEF rowWords, WORD_SIZE
<1>5. Cardinality(1 .. n) = n
  <2>1. n \in Int /\ 1 \in Int /\ ~(1 > n) /\ n - 1 + 1 = n
    BY <1>1, <1>3
  <2> QED BY <2>1, FS_Interval
<1> QED BY <1>3, <1>4, <1>5

\* The words of a dump.
LEMMA DumpWords ==
  ASSUME NEW first \in 0 .. AddrMod - 1, NEW last \in 0 .. AddrMod - 1, NEW m \in Nat,
         last <= first + m * 4, m = 0 \/ first + (m - 1) * 4 < last
  PROVE  Cardinality(dumpWords(first, last)) = m
<1>1. AddrMod \in Nat
  BY MemoryConfig
<1>2. dumpWords(first, last) = 0 .. m - 1
  BY <1>1 DEF dumpWords, WORD_SIZE
<1>3. Cardinality(0 .. m - 1) = m
  <2>1. m - 1 \in Int /\ 0 \in Int /\ (0 > m - 1 => m = 0) /\ m - 1 - 0 + 1 = m
    OBVIOUS
  <2> QED BY <2>1, FS_Interval
<1> QED BY <1>2, <1>3
\* A row printed: an address and entries at positions from 1 up.
Row == [label : 0 .. AddrMod - 1, entries : UNION { [S -> Nat] : S \in SUBSET Nat }]

first == relative(range[1])
last  == relative(range[2])

\* Row r holds the bytes it should, as far as they are in the memory.
RowShown(r) ==
  /\ \A b \in DOMAIN rows[r].entries :
       rows[r].entries[b] = first + (r - 1) * rowBytes + b - 1
  /\ r < Len(rows) => DOMAIN rows[r].entries = 1 .. rowBytes
  /\ 1 \in DOMAIN rows[r].entries => relative(rows[r].label) = rows[r].entries[1]

\* While the loop goes on all rows are full.
GoingOn ==
  /\ relStart = first + Len(rows) * rowBytes
  /\ Len(rows) = 0 \/ relStart <= numEntries
  /\ Len(rows) # 0 => DOMAIN rows[Len(rows)].entries = 1 .. rowBytes

\* The position is a number of words after the start, and the last of them
\* begins in the range; all the entries up to it are shown.
DumpInv ==
  /\ range \in (0 .. AddrMod - 1) \X (0 .. AddrMod - 1)
  /\ relStart \in Nat /\ curAddr \in 0 .. AddrMod - 1 /\ rows \in Seq(Row)
  /\ dumpStatus \in {"none", "running", "SUCCESS", "EINVAL"}
  /\ dumpStatus = "none" => rows = <<>>
  /\ dumpStatus # "none" =>
       /\ \A r \in 1 .. Len(rows) : RowShown(r)
       /\ shown = (first .. relStart - 1) \cap Entry
       /\ \E m \in Nat : /\ relStart = first + m * 4
                         /\ m = 0 \/ first + (m - 1) * 4 < last
                         /\ dumpStatus = "SUCCESS" =>
                              last <= relStart /\ (m = 0 \/ relStart <= numEntries)
  /\ dumpStatus = "running" => GoingOn /\ relative(curAddr) = relStart % AddrMod
  /\ dumpStatus = "EINVAL" => relStart > numEntries

\* A relative address is a number of the type of addresses.
LEMMA RelativeTyped ==
  ASSUME NEW a \in 0 .. AddrMod - 1
  PROVE  relative(a) \in 0 .. AddrMod - 1
BY DivMod, MemoryConfig DEF relative, DOUBLE_SIZE

\* The label of the next row.
LEMMA NextLabel ==
  ASSUME NEW c \in 0 .. AddrMod - 1, NEW p \in Nat, NEW d \in Nat,
         relative(c) = p % AddrMod
  PROVE  /\ (c + d) % AddrMod \in 0 .. AddrMod - 1
         /\ relative((c + d) % AddrMod) = (p + d) % AddrMod
<1> DEFINE M == AddrMod
<1>1. M \in Nat /\ M > 0 /\ startAddr \in Int /\ AddrMod = M
  BY MemoryConfig DEF DOUBLE_SIZE
<1> HIDE DEF M
<1>2. PICK q1 \in Int, y \in 0 .. M - 1 : c - startAddr = M * q1 + y /\ relative(c) = y
  <2>1. c - startAddr \in Int
    BY <1>1
  <2> QED BY <1>1, <2>1, ModWitness DEF relative
<1>3. PICK q2 \in Int : p = M * q2 + y
  <2>1. PICK q \in Int, z \in 0 .. M - 1 : p = M * q + z /\ p % M = z
    BY <1>1, ModWitness
  <2> QED BY <1>1, <1>2, <2>1
<1>4. PICK q3 \in Int, c2 \in 0 .. M - 1 : c + d = M * q3 + c2 /\ (c + d) % M = c2
  <2>1. c + d \in Int
    BY <1>1
  <2> QED BY <1>1, <2>1, ModWitness
<1>5. PICK q4 \in Int, z \in 0 .. M - 1 : p + d = M * q4 + z /\ (p + d) % M = z
  <2>1. p + d \in Int
    OBVIOUS
  <2> QED BY <1>1, <2>1, ModWitness
<1> DEFINE q == q1 - q2 + q4 - q3
<1>6. q \in Int /\ c2 - startAddr = M * q + z /\ c2 - startAddr \in Int
  <2>1. M * q = M * q1 - M * q2 + M * q4 - M * q3
    BY <1>1
  <2>2. c2 - startAddr = M * q1 - M * q2 + M * q4 - M * q3 + z
    BY <1>1, <1>2, <1>3, <1>4, <1>5
  <2> QED BY <1>1, <2>1, <2>2
<1> HIDE DEF q
<1>7. (c2 - startAddr) % M = z
  BY <1>1, <1>6, ModIs
<1> QED BY <1>1, <1>4, <1>5, <1>7 DEF relative
\* What DumpInv says of a dump that is over is what DumpIsRange does.
LEMMA DumpInvGivesRange == DumpInv => DumpIsRange
<1> SUFFICES ASSUME DumpInv PROVE DumpIsRange
  OBVIOUS
<1> DEFINE upTo == first + Cardinality(dumpWords(first, last)) * WORD_SIZE - 1
<1>1. first \in 0 .. AddrMod - 1 /\ last \in 0 .. AddrMod - 1 /\ AddrMod \in Nat
  <2>1. range[1] \in 0 .. AddrMod - 1 /\ range[2] \in 0 .. AddrMod - 1
    BY DEF DumpInv
  <2> QED BY <2>1, RelativeTyped, MemoryConfig DEF first, last
<1>2. ASSUME NEW r \in 1 .. Len(rows) PROVE RowShown(r)
  <2>1. dumpStatus # "none"
    BY <1>2 DEF DumpInv
  <2> QED BY <2>1 DEF DumpInv
<1>3. ASSUME dumpStatus = "SUCCESS" PROVE shown = first .. upTo
  <2>1. PICK m \in Nat : /\ relStart = first + m * 4
                         /\ m = 0 \/ first + (m - 1) * 4 < last
                         /\ last <= relStart /\ (m = 0 \/ relStart <= numEntries)
    BY <1>3 DEF DumpInv
  <2>2. Cardinality(dumpWords(first, last)) = m
    BY <1>1, <2>1, DumpWords
  <2>3. upTo = relStart - 1
    BY <1>1, <2>1, <2>2 DEF WORD_SIZE
  <2>4. shown = (first .. relStart - 1) \cap Entry
    BY <1>3 DEF DumpInv
  <2>5. (first .. relStart - 1) \cap Entry = first .. relStart - 1
    BY <1>1, <2>1, MemoryConfig DEF Entry
  <2> QED BY <2>3, <2>4, <2>5
<1>4. ASSUME dumpStatus = "EINVAL"
      PROVE  shown = (first .. upTo) \cap Entry /\ upTo \notin Entry
  <2>1. PICK m \in Nat : /\ relStart = first + m * 4
                         /\ m = 0 \/ first + (m - 1) * 4 < last
    BY <1>4 DEF DumpInv
  <2>2. relStart > numEntries /\ numEntries \in Nat /\ relStart \in Nat
    BY <1>4, MemoryConfig DEF DumpInv
  <2>3. PICK n \in Nat : /\ last <= first + n * 4
                         /\ n = 0 \/ first + (n - 1) * 4 < last
    <3>1. CASE first <= last
      <4>1. last - first \in Nat
        BY <1>1, <3>1
      <4>2. PICK n \in Nat : last - first <= n * 4 /\ (n = 0 \/ (n - 1) * 4 < last - first)
        BY <4>1, WordsTo
      <4> QED BY <1>1, <4>2
    <3>2. CASE last < first
      <4>1. last <= first + 0 * 4
        BY <1>1, <3>2
      <4> QED BY <4>1
    <3> QED BY <1>1, <3>1, <3>2
  <2>4. Cardinality(dumpWords(first, last)) = n
    BY <1>1, <2>3, DumpWords
  <2>5. upTo \in Int /\ upTo >= relStart - 1
    BY <1>1, <2>1, <2>3, <2>4 DEF WORD_SIZE
  <2>6. shown = (first .. relStart - 1) \cap Entry
    BY <1>4 DEF DumpInv
  <2> HIDE DEF upTo
  <2>7. (first .. relStart - 1) \cap Entry = (first .. upTo) \cap Entry
    BY <1>1, <2>2, <2>5 DEF Entry
  <2>8. upTo \notin Entry
    BY <2>2, <2>5 DEF Entry
  <2> QED BY <2>6, <2>7, <2>8
<1> QED BY <1>2, <1>3, <1>4 DEF DumpIsRange, RowShown, first, last

\* The dump begins with no row.
LEMMA DumpBegins ==
  ASSUME DumpInv, dumpMemoryState
  PROVE  DumpInv'
<1>1. /\ dumpStatus = "none" /\ dumpStatus' = "running" /\ rows' = rows
      /\ range' \in Ranges /\ relStart' = relative(range'[1]) /\ curAddr' = range'[1]
  BY DEF dumpMemoryState
<1>2. /\ range' \in (0 .. AddrMod - 1) \X (0 .. AddrMod - 1)
      /\ range'[1] \in 0 .. AddrMod - 1
  BY <1>1, DumpConfig
<1>3. rows' = <<>> /\ Len(rows') = 0 /\ rows' \in Seq(Row)
  BY <1>1 DEF DumpInv
<1>4. PICK n \in 0 .. AddrMod - 1 : relStart' = n /\ first' = n /\ relative(curAddr') = n
  BY <1>1, <1>2, RelativeTyped DEF first
<1>5. n \in Nat /\ AddrMod \in Nat
  BY MemoryConfig
<1>6. shown' = (n .. n - 1) \cap Entry
  <2>1. 1 .. Len(rows') = {} /\ n .. n - 1 = {}
    BY <1>3, <1>5
  <2> QED BY <2>1 DEF shown
<1>7. n % AddrMod = n
  <2>1. n = AddrMod * 0 + n /\ AddrMod > 0
    BY <1>5
  <2> QED BY <1>5, <2>1, ModIs
<1>8. 0 * rowBytes = 0 /\ n = n + 0 * rowBytes /\ n = n + 0 * 4
  BY <1>5, DumpConfig DEF rowBytes, WORD_SIZE
<1>9. GoingOn'
  BY <1>3, <1>4, <1>8 DEF GoingOn
<1>10. 1 .. Len(rows') = {}
  BY <1>3
<1> QED BY <1>1, <1>2, <1>3, <1>4, <1>5, <1>6, <1>7, <1>8, <1>9, <1>10 DEF DumpInv
\* A row takes the position on by its words and shows what they cover.
LEMMA DumpRow ==
  ASSUME DumpInv, printRow
  PROVE  DumpInv'
<1> DEFINE N == Len(rows)
           words == Cardinality(rowWords(last - relStart))
           wanted == { b \in 1 .. words * WORD_SIZE : relStart + b - 1 \in Entry }
           row == [label |-> curAddr, entries |-> [b \in wanted |-> relStart + b - 1]]
           next == relStart + words * 4
<1>1. /\ dumpStatus = "running" /\ relStart < last
      /\ rows' = Append(rows, row) /\ relStart' = next
      /\ curAddr' = (curAddr + rowBytes) % AddrMod
      /\ dumpStatus' = IF next > numEntries THEN "EINVAL"
                       ELSE IF words < entriesPerRow THEN "SUCCESS" ELSE "running"
      /\ range' = range
  BY DEF printRow, last, WORD_SIZE
<1>2. first' = first /\ last' = last
  BY <1>1 DEF first, last
<1>3. /\ first \in Nat /\ last \in Nat /\ relStart \in Nat /\ N \in Nat
      /\ numEntries \in Nat /\ entriesPerRow \in Nat \ {0} /\ rowBytes = entriesPerRow * 4
      /\ rowBytes \in Nat /\ numEntries < AddrMod /\ AddrMod \in Nat /\ rows \in Seq(Row)
      /\ curAddr \in 0 .. AddrMod - 1
  <2>1. range[1] \in 0 .. AddrMod - 1 /\ range[2] \in 0 .. AddrMod - 1
    BY DEF DumpInv
  <2>2. first \in 0 .. AddrMod - 1 /\ last \in 0 .. AddrMod - 1
    BY <2>1, RelativeTyped DEF first, last
  <2>3. rowBytes = entriesPerRow * 4
    BY DEF rowBytes, WORD_SIZE
  <2> QED BY <2>2, <2>3, MemoryConfig, DumpConfig DEF DumpInv
<1>4. /\ relStart = first + N * rowBytes /\ (N = 0 \/ relStart <= numEntries)
      /\ N # 0 => DOMAIN rows[N].entries = 1 .. rowBytes
      /\ relative(curAddr) = relStart % AddrMod
      /\ \A r \in 1 .. N : RowShown(r)
      /\ shown = (first .. relStart - 1) \cap Entry
  BY <1>1 DEF DumpInv, GoingOn
<1>5. PICK n \in 1 .. entriesPerRow : /\ words = n /\ (n - 1) * 4 < last - relStart
                                      /\ n < entriesPerRow => last - relStart <= n * 4
  <2>1. last - relStart \in Nat \ {0}
    BY <1>1, <1>3
  <2> QED BY <2>1, RowWords
<1>6. /\ next = relStart + n * 4 /\ n \in Nat /\ next \in Nat /\ relStart < next
      /\ wanted = { b \in 1 .. n * 4 : relStart + b - 1 \in Entry }
  BY <1>3, <1>5 DEF WORD_SIZE
<1> HIDE DEF words, next
<1>7. row \in Row /\ wanted \subseteq Nat /\ wanted \in SUBSET Nat
  <2>1. wanted \subseteq Nat
    BY <1>6
  <2>2. \A b \in wanted : relStart + b - 1 \in Nat
    BY <1>3, <1>6
  <2> HIDE DEF wanted
  <2>3. [b \in wanted |-> relStart + b - 1] \in [wanted -> Nat]
    BY <2>2
  <2> QED BY <1>3, <2>1, <2>3 DEF Row
<1>8. /\ rows' \in Seq(Row) /\ Len(rows') = N + 1 /\ rows'[N + 1] = row
      /\ \A r \in 1 .. N : rows'[r] = rows[r]
  BY <1>1, <1>3, <1>7
<1> HIDE DEF N
<1>9. \A b \in wanted : row.entries[b] = relStart + b - 1
  OBVIOUS
<1>10. DOMAIN row.entries = wanted /\ row.label = curAddr
  OBVIOUS
<1>11. ASSUME NEW r \in 1 .. N + 1 PROVE RowShown(r)'
  <2>1. CASE r = N + 1
    <3>1. \A b \in wanted : row.entries[b] = first + (r - 1) * rowBytes + b - 1
      <4>1. (r - 1) * rowBytes = N * rowBytes
        BY <1>3, <2>1
      <4> QED BY <1>4, <1>9, <4>1
    <3>2. 1 \in wanted => relative(curAddr) = row.entries[1]
      <4> SUFFICES ASSUME 1 \in wanted PROVE relative(curAddr) = relStart
        BY <1>3, <1>9
      <4>1. relStart \in 0 .. AddrMod - 1 /\ relStart = AddrMod * 0 + relStart /\ AddrMod > 0
        BY <1>3 DEF Entry
      <4>2. relStart % AddrMod = relStart
        BY <1>3, <4>1, ModIs
      <4> QED BY <1>4, <4>2
    <3>3. ~(r < Len(rows'))
      BY <1>3, <1>8, <2>1
    <3> HIDE DEF row, wanted
    <3> QED BY <1>2, <1>8, <1>10, <2>1, <3>1, <3>2, <3>3 DEF RowShown
  <2>2. CASE r \in 1 .. N
    <3>1. RowShown(r) /\ rows'[r] = rows[r]
      BY <1>4, <1>8, <2>2
    <3>2. DOMAIN rows[r].entries = 1 .. rowBytes
      <4>1. r < Len(rows) \/ r = Len(rows)
        BY <1>3, <2>2 DEF N
      <4> QED BY <1>3, <1>4, <2>2, <3>1, <4>1 DEF RowShown, N
    <3> QED BY <1>2, <3>1, <3>2 DEF RowShown
  <2> QED BY <1>3, <2>1, <2>2
<1>12. shown' = (first .. next - 1) \cap Entry
  <2>1. Range(row.entries) = (relStart .. next - 1) \cap Entry
    <3>1. ASSUME NEW e \in (relStart .. next - 1) \cap Entry
          PROVE  \E b \in wanted : e = relStart + b - 1
      <4>1. e - relStart + 1 \in wanted /\ e = relStart + (e - relStart + 1) - 1
        BY <1>3, <1>6, <3>1 DEF Entry
      <4> QED BY <4>1
    <3>2. ASSUME NEW b \in wanted PROVE relStart + b - 1 \in (relStart .. next - 1) \cap Entry
      BY <1>3, <1>6, <3>2
    <3> HIDE DEF wanted
    <3>3. Range(row.entries) = { row.entries[b] : b \in wanted }
      BY <1>10 DEF Range
    <3> HIDE DEF row
    <3> QED BY <1>9, <3>1, <3>2, <3>3
  <2>2. shown' = shown \cup Range(row.entries)
    <3>1. shown' = UNION { Range(rows'[r].entries) : r \in 1 .. N + 1 }
      BY <1>8 DEF shown
    <3>2. shown = UNION { Range(rows[r].entries) : r \in 1 .. N }
      BY DEF shown, N
    <3>3. \A r \in 1 .. N : rows'[r] = rows[r]
      BY <1>8
    <3>4. 1 .. N + 1 = (1 .. N) \cup {N + 1}
      BY <1>3
    <3> HIDE DEF row
    <3> QED BY <1>8, <3>1, <3>2, <3>3, <3>4
  <2>3. first <= relStart
    <3>1. PICK m \in Nat : relStart = first + m * 4
      BY <1>1 DEF DumpInv
    <3> QED BY <1>3, <3>1
  <2>4. (first .. relStart - 1) \cup (relStart .. next - 1) = first .. next - 1
    BY <1>3, <1>6, <2>3
  <2> HIDE DEF row
  <2> QED BY <1>4, <2>1, <2>2, <2>4
<1>13. \E m \in Nat : next = first + m * 4 /\ first + (m - 1) * 4 < last
  <2>1. PICK m \in Nat : relStart = first + m * 4
    BY <1>1 DEF DumpInv
  <2>2. m + n \in Nat /\ next = first + (m + n) * 4 /\ first + (m + n - 1) * 4 < last
    BY <1>3, <1>5, <1>6, <2>1
  <2> QED BY <2>2
<1>14. dumpStatus' = "SUCCESS" => last <= next /\ next <= numEntries
  BY <1>1, <1>3, <1>5, <1>6
<1>15. dumpStatus' = "running" => GoingOn' /\ relative(curAddr') = next % AddrMod
  <2> SUFFICES ASSUME dumpStatus' = "running"
               PROVE  GoingOn' /\ relative(curAddr') = next % AddrMod
    OBVIOUS
  <2>1. n = entriesPerRow /\ next <= numEntries
    BY <1>1, <1>3, <1>5, <1>6
  <2>2. next = relStart + rowBytes /\ n * 4 = rowBytes
    BY <1>3, <1>6, <2>1
  <2>3. (N + 1) * rowBytes = N * rowBytes + rowBytes
    BY <1>3
  <2>4. next = first + (N + 1) * rowBytes
    <3>1. N * rowBytes \in Nat
      BY <1>3
    <3> QED BY <1>3, <1>4, <2>2, <2>3, <3>1
  <2>5. wanted = 1 .. rowBytes
    <3>1. \A b \in 1 .. n * 4 : relStart + b - 1 \in Entry
      BY <1>3, <1>6, <2>1 DEF Entry
    <3> QED BY <1>6, <2>2, <3>1
  <2>6. DOMAIN rows'[N + 1].entries = 1 .. rowBytes
    BY <1>8, <1>10, <2>5
  <2>7. relative(curAddr') = next % AddrMod
    BY <1>1, <1>3, <1>4, <2>2, NextLabel
  <2> QED BY <1>1, <1>2, <1>8, <2>1, <2>4, <2>6, <2>7 DEF GoingOn
<1>16. dumpStatus' = "EINVAL" => next > numEntries
  BY <1>1
<1>17. curAddr' \in 0 .. AddrMod - 1
  BY <1>1, <1>3, <1>4, NextLabel
<1>18. dumpStatus' \in {"running", "SUCCESS", "EINVAL"}
  BY <1>1
<1>19. range' \in (0 .. AddrMod - 1) \X (0 .. AddrMod - 1)
  BY <1>1 DEF DumpInv
<1> HIDE DEF row, wanted
<1>20. \A r \in 1 .. Len(rows') : RowShown(r)'
  BY <1>8, <1>11
<1> QED BY <1>1, <1>2, <1>6, <1>8, <1>12, <1>13, <1>14, <1>15, <1>16, <1>17, <1>18, <1>19,
           <1>20 DEF DumpInv
\* The loop ends at the end of the range.
LEMMA DumpEnds ==
  ASSUME DumpInv, printEnd
  PROVE  DumpInv'
<1>1. /\ dumpStatus = "running" /\ dumpStatus' = "SUCCESS" /\ relStart >= last
      /\ UNCHANGED <<range, relStart, curAddr, rows>>
  BY DEF printEnd, last
<1>2. first' = first /\ last' = last /\ shown' = shown
      /\ \A r : RowShown(r)' <=> RowShown(r)
  BY <1>1 DEF first, last, shown, RowShown
<1>3. PICK m \in Nat : relStart = first + m * 4 /\ (m = 0 \/ first + (m - 1) * 4 < last)
  BY <1>1 DEF DumpInv
<1>4. m = 0 \/ relStart <= numEntries
  <2>1. CASE Len(rows) = 0
    <3>1. relStart = first /\ first \in Nat
      <4>1. range[1] \in 0 .. AddrMod - 1 /\ rowBytes \in Nat
        BY DumpConfig DEF DumpInv, rowBytes, WORD_SIZE
      <4>2. first \in Nat
        BY <4>1, RelativeTyped DEF first
      <4> QED BY <1>1, <2>1, <4>1, <4>2 DEF DumpInv, GoingOn
    <3> QED BY <1>3, <3>1
  <2>2. CASE Len(rows) # 0
    BY <1>1, <2>2 DEF DumpInv, GoingOn
  <2> QED BY <2>1, <2>2
<1>5. last <= relStart
  <2>1. range[2] \in 0 .. AddrMod - 1 /\ relStart \in Nat
    BY DEF DumpInv
  <2>2. last \in Nat
    BY <2>1, RelativeTyped DEF last
  <2> QED BY <1>1, <2>1, <2>2
<1>6. \E k \in Nat : /\ relStart = first + k * 4
                     /\ k = 0 \/ first + (k - 1) * 4 < last
                     /\ last <= relStart /\ (k = 0 \/ relStart <= numEntries)
  BY <1>3, <1>4, <1>5
<1> QED BY <1>1, <1>2, <1>6 DEF DumpInv

\* The dump starts with no line.
LEMMA DumpInitInv == DumpInit => DumpInv
<1> SUFFICES ASSUME DumpInit PROVE DumpInv
  OBVIOUS
<1>1. 0 \in 0 .. AddrMod - 1
  BY MemoryConfig DEF DOUBLE_SIZE
<1> QED BY <1>1 DEF DumpInit, DumpInv

\* and goes on where it is.
LEMMA DumpStep == DumpInv /\ [DumpNext]_<<vars, dumpVars>> => DumpInv'
<1> SUFFICES ASSUME DumpInv, [DumpNext]_<<vars, dumpVars>> PROVE DumpInv'
  OBVIOUS
<1>1. CASE UNCHANGED dumpVars
  <2>1. UNCHANGED <<range, relStart, curAddr, rows, dumpStatus>>
    BY <1>1 DEF dumpVars
  <2>2. first' = first /\ last' = last /\ shown' = shown
    BY <2>1 DEF first, last, shown
  <2>3. (GoingOn' <=> GoingOn) /\ \A r : RowShown(r)' <=> RowShown(r)
    BY <2>1, <2>2 DEF GoingOn, RowShown
  <2> QED BY <2>1, <2>2, <2>3 DEF DumpInv
<1> QED BY <1>1, DumpBegins, DumpRow, DumpEnds DEF DumpNext

\* The dump (MemoryStore.cpp:126-171) leaves the memory alone: what holds of
\* the memory holds beside it.
THEOREM DumpKeepsMemory == DumpSpec => Spec
<1>1. DumpInit => Init
  BY DEF DumpInit
<1>2. [DumpNext]_<<vars, dumpVars>> => [Next]_vars
  BY DEF DumpNext, dumpMemoryState, printRow, printEnd
<1> QED BY <1>1, <1>2, PTL DEF DumpSpec, Spec

\* printMemArray (MemoryStore.cpp:126-171) shows its range, or all of it that
\* is in the memory.
THEOREM DumpShowsRange == DumpSpec => []DumpIsRange
BY DumpInitInv, DumpStep, DumpInvGivesRange, PTL DEF DumpSpec

-----------------------------------------------------------------------------
\* What one more byte above the others adds to a number.
LEMMA OnePlace ==
  ASSUME NEW S \in Nat, NEW b \in Nat, NEW p \in Nat, NEW B \in Nat, S < p, b < B
  PROVE  S + b * p \in Nat /\ S + b * p < B * p
<1>1. B - 1 - b \in Nat
  OBVIOUS
<1>2. (B - 1 - b) * p \in Nat
  BY <1>1
<1>3. B * p = b * p + p + (B - 1 - b) * p
  OBVIOUS
<1>4. b * p \in Nat
  OBVIOUS
<1> QED BY <1>2, <1>3, <1>4

\* The byte at a place of a number.
LEMMA PlaceOf ==
  ASSUME NEW S \in Nat, NEW b \in Nat, NEW p \in Nat, NEW B \in Nat, NEW H \in Nat,
         S < p, b < B
  PROVE  ((S + p * (b + B * H)) \div p) % B = b
<1> DEFINE q == b + B * H
           n == S + p * q
<1>1. q \in Nat /\ B > 0 /\ p > 0 /\ S \in 0 .. p - 1 /\ b \in 0 .. B - 1
  OBVIOUS
<1>2. q % B = b
  <2>1. q = B * H + b
    OBVIOUS
  <2> HIDE DEF q
  <2> QED BY <1>1, <2>1, ModIs
<1>3. n = p * q + S /\ n \in Int
  BY <1>1
<1> HIDE DEF q, n
<1>4. n \div p = q
  <2>1. n % p = S
    <3>1. q \in Int
      BY <1>1
    <3> QED BY <1>1, <1>3, <3>1, ModIs, Zenon
  <2>2. n = p * (n \div p) + (n % p) /\ n \div p \in Int
    <3>1. n \in Int
      BY <1>3
    <3> QED BY <1>1, <3>1, DivMod, Zenon
  <2> DEFINE d == n \div p
  <2>3. p * d = p * q /\ d \in Int
    BY <1>1, <1>3, <2>1, <2>2
  <2> HIDE DEF d
  <2>4. p * (d - q) = 0
    BY <1>1, <2>3
  <2>5. d - q >= 1 => p * (d - q) >= p
    BY <1>1, <2>3
  <2>6. d - q <= -1 => p * (d - q) <= -p
    BY <1>1, <2>3
  <2>7. d = q
    BY <1>1, <2>3, <2>4, <2>5, <2>6
  <2> QED BY <2>7 DEF d
<1> QED BY <1>2, <1>4 DEF n, q

\* A byte taken out of what is below, into what is from it up.
LEMMA Below ==
  ASSUME NEW S \in Nat, NEW b \in Nat, NEW p \in Nat, NEW B \in Nat, NEW H \in Nat,
         NEW q, q = B * p
  PROVE  b + B * H \in Nat /\ (S + b * p) + q * H = S + p * (b + B * H)
<1>1. p * (b + B * H) = p * b + p * (B * H)
  OBVIOUS
<1>2. q * H = p * (B * H)
  OBVIOUS
<1>3. p * b = b * p /\ p * b \in Nat /\ p * (B * H) \in Nat /\ b + B * H \in Nat
  OBVIOUS
<1> QED BY <1>1, <1>2, <1>3

\* The weights of the bytes of a number.
weight(k) == 2^(CellBits * k)

\* Each is as many times the one below as a byte has values; a register has
\* one more than the last.
LEMMA Weights ==
  /\ weight(0) = 1
  /\ \A k \in 0 .. 7 : weight(k + 1) = 2^CellBits * weight(k)
  /\ \A k \in 0 .. 8 : weight(k) \in Nat
  /\ weight(8) = AddrMod
<1>1. CellBits \in Nat
  BY LoopConfig
<1>2. CellBits * 0 = 0
  BY <1>1
<1>3. weight(0) = 1
  BY <1>2, CellPowers DEF weight
<1>4. \A k \in 0 .. 7 : weight(k + 1) = 2^CellBits * weight(k)
  BY CellPowers DEF weight
<1>5. weight(8) = AddrMod
  <2>1. W = CellBits * 8
    BY <1>1, LoopConfig DEF DOUBLE_SIZE
  <2> QED BY <2>1, LoopConfig DEF weight
<1>6. \A k \in 0 .. 8 : weight(k) \in Nat
  <2> DEFINE B == 2^CellBits
  <2>1. B \in Nat
    BY CellPowers
  <2>2. /\ weight(1) = B * weight(0) /\ weight(2) = B * weight(1)
        /\ weight(3) = B * weight(2) /\ weight(4) = B * weight(3)
        /\ weight(5) = B * weight(4) /\ weight(6) = B * weight(5)
        /\ weight(7) = B * weight(6) /\ weight(8) = B * weight(7)
    <3>1. /\ weight(0 + 1) = B * weight(0) /\ weight(1 + 1) = B * weight(1)
          /\ weight(2 + 1) = B * weight(2) /\ weight(3 + 1) = B * weight(3)
          /\ weight(4 + 1) = B * weight(4) /\ weight(5 + 1) = B * weight(5)
          /\ weight(6 + 1) = B * weight(6) /\ weight(7 + 1) = B * weight(7)
      BY <1>4
    <3> QED BY <3>1
  <2> HIDE DEF B
  <2>3. weight(0) \in Nat
    BY <1>3
  <2>4. weight(1) \in Nat
    BY <2>1, <2>2, <2>3
  <2>5. weight(2) \in Nat
    BY <2>1, <2>2, <2>4
  <2>6. weight(3) \in Nat
    BY <2>1, <2>2, <2>5
  <2>7. weight(4) \in Nat
    BY <2>1, <2>2, <2>6
  <2>8. weight(5) \in Nat
    BY <2>1, <2>2, <2>7
  <2>9. weight(6) \in Nat
    BY <2>1, <2>2, <2>8
  <2>10. weight(7) \in Nat
    BY <2>1, <2>2, <2>9
  <2>11. weight(8) \in Nat
    BY <2>1, <2>2, <2>10
  <2>12. \A k \in 0 .. 8 : k = 0 \/ k = 1 \/ k = 2 \/ k = 3 \/ k = 4 \/ k = 5
                           \/ k = 6 \/ k = 7 \/ k = 8
    OBVIOUS
  <2> QED BY <2>3, <2>4, <2>5, <2>6, <2>7, <2>8, <2>9, <2>10, <2>11, <2>12
<1> QED BY <1>3, <1>4, <1>5, <1>6

\* A value is a number of a register, and its bytes are that number's.
LEMMA NumberOf ==
  ASSUME NEW v \in Value
  PROVE  /\ number(v) \in 0 .. AddrMod - 1
         /\ \A k \in 0 .. 7 : (number(v) \div weight(k)) % 2^CellBits = v[k]
<1> DEFINE B == 2^CellBits
<1>1. B \in Nat
  BY CellPowers
<1>2. \A k \in 0 .. 7 : v[k] \in Nat /\ v[k] < B
  <2>1. Byte = 0 .. B - 1
    BY LoopConfig
  <2>2. \A k \in 0 .. 7 : v[k] \in Byte
    BY DEF Value
  <2> HIDE DEF B
  <2>3. \A k \in 0 .. 7 : v[k] \in 0 .. B - 1
    BY <2>1, <2>2, Zenon
  <2> QED BY <1>1, <2>3
<1> DEFINE p0 == weight(0)
           p1 == weight(1)
           p2 == weight(2)
           p3 == weight(3)
           p4 == weight(4)
           p5 == weight(5)
           p6 == weight(6)
           p7 == weight(7)
           v0 == v[0]
           v1 == v[1]
           v2 == v[2]
           v3 == v[3]
           v4 == v[4]
           v5 == v[5]
           v6 == v[6]
           v7 == v[7]
<1>3. /\ p0 \in Nat /\ p1 \in Nat /\ p2 \in Nat /\ p3 \in Nat
      /\ p4 \in Nat /\ p5 \in Nat /\ p6 \in Nat /\ p7 \in Nat
  BY Weights
<1>4. /\ v0 \in Nat /\ v1 \in Nat /\ v2 \in Nat /\ v3 \in Nat
      /\ v4 \in Nat /\ v5 \in Nat /\ v6 \in Nat /\ v7 \in Nat
  BY <1>2
<1>5. /\ v0 < B /\ v1 < B /\ v2 < B /\ v3 < B
      /\ v4 < B /\ v5 < B /\ v6 < B /\ v7 < B
  BY <1>2
<1>6. /\ p0 = 1 /\ p1 = B * p0 /\ p2 = B * p1 /\ p3 = B * p2 /\ p4 = B * p3
      /\ p5 = B * p4 /\ p6 = B * p5 /\ p7 = B * p6 /\ AddrMod = B * p7
  <2>1. /\ weight(0 + 1) = B * weight(0) /\ weight(1 + 1) = B * weight(1)
        /\ weight(2 + 1) = B * weight(2) /\ weight(3 + 1) = B * weight(3)
        /\ weight(4 + 1) = B * weight(4) /\ weight(5 + 1) = B * weight(5)
        /\ weight(6 + 1) = B * weight(6) /\ weight(7 + 1) = B * weight(7)
    BY Weights
  <2> HIDE DEF B
  <2>2. /\ weight(1) = B * weight(0) /\ weight(2) = B * weight(1)
        /\ weight(3) = B * weight(2) /\ weight(4) = B * weight(3)
        /\ weight(5) = B * weight(4) /\ weight(6) = B * weight(5)
        /\ weight(7) = B * weight(6) /\ weight(8) = B * weight(7)
    BY <2>1
  <2> QED BY <2>2, Weights
<1>7. \A k \in 0 .. 7 : k = 0 \/ k = 1 \/ k = 2 \/ k = 3 \/ k = 4 \/ k = 5
                        \/ k = 6 \/ k = 7
  OBVIOUS
<1> DEFINE n == number(v)
<1>8. n = v0 * p0 + v1 * p1 + v2 * p2 + v3 * p3 + v4 * p4 + v5 * p5 + v6 * p6 + v7 * p7
  BY DEF number, place, weight
<1> HIDE DEF B, n, p0, p1, p2, p3, p4, p5, p6, p7, v0, v1, v2, v3, v4, v5, v6, v7
(* what is below a byte *)
<1> DEFINE S1 == 0 + v0 * p0
           S2 == S1 + v1 * p1
           S3 == S2 + v2 * p2
           S4 == S3 + v3 * p3
           S5 == S4 + v4 * p4
           S6 == S5 + v5 * p5
           S7 == S6 + v6 * p6
           S8 == S7 + v7 * p7
<1>9. n = S8
  BY <1>3, <1>4, <1>8
<1>10. S1 \in Nat /\ S1 < p1
  BY <1>1, <1>3, <1>4, <1>5, <1>6, OnePlace
<1> HIDE DEF S1
<1>11. S2 \in Nat /\ S2 < p2
  BY <1>1, <1>3, <1>4, <1>5, <1>6, <1>10, OnePlace
<1> HIDE DEF S2
<1>12. S3 \in Nat /\ S3 < p3
  BY <1>1, <1>3, <1>4, <1>5, <1>6, <1>11, OnePlace
<1> HIDE DEF S3
<1>13. S4 \in Nat /\ S4 < p4
  BY <1>1, <1>3, <1>4, <1>5, <1>6, <1>12, OnePlace
<1> HIDE DEF S4
<1>14. S5 \in Nat /\ S5 < p5
  BY <1>1, <1>3, <1>4, <1>5, <1>6, <1>13, OnePlace
<1> HIDE DEF S5
<1>15. S6 \in Nat /\ S6 < p6
  BY <1>1, <1>3, <1>4, <1>5, <1>6, <1>14, OnePlace
<1> HIDE DEF S6
<1>16. S7 \in Nat /\ S7 < p7
  BY <1>1, <1>3, <1>4, <1>5, <1>6, <1>15, OnePlace
<1> HIDE DEF S7
<1>17. S8 \in Nat /\ S8 < AddrMod
  BY <1>1, <1>3, <1>4, <1>5, <1>6, <1>16, OnePlace
<1>18. n \in Nat /\ n < AddrMod
  BY <1>9, <1>17
(* what is from a byte up, in units of that byte *)
<1> DEFINE H8 == 0
           H7 == v7 + B * H8
           H6 == v6 + B * H7
           H5 == v5 + B * H6
           H4 == v4 + B * H5
           H3 == v3 + B * H4
           H2 == v2 + B * H3
           H1 == v1 + B * H2
           H0 == v0 + B * H1
<1>19. H7 \in Nat /\ n = S7 + p7 * H7
  <2>1. B * 0 = 0
    BY <1>1
  <2>2. p7 * v7 = v7 * p7
    BY <1>3, <1>4
  <2> QED BY <2>1, <2>2, <1>4, <1>9
<1> HIDE DEF H7
<1>20. H6 \in Nat /\ n = S6 + p6 * H6
  BY <1>1, <1>3, <1>4, <1>6, <1>15, <1>19, Below DEF S7
<1> HIDE DEF H6
<1>21. H5 \in Nat /\ n = S5 + p5 * H5
  BY <1>1, <1>3, <1>4, <1>6, <1>14, <1>20, Below DEF S6
<1> HIDE DEF H5
<1>22. H4 \in Nat /\ n = S4 + p4 * H4
  BY <1>1, <1>3, <1>4, <1>6, <1>13, <1>21, Below DEF S5
<1> HIDE DEF H4
<1>23. H3 \in Nat /\ n = S3 + p3 * H3
  BY <1>1, <1>3, <1>4, <1>6, <1>12, <1>22, Below DEF S4
<1> HIDE DEF H3
<1>24. H2 \in Nat /\ n = S2 + p2 * H2
  BY <1>1, <1>3, <1>4, <1>6, <1>11, <1>23, Below DEF S3
<1> HIDE DEF H2
<1>25. H1 \in Nat /\ n = S1 + p1 * H1
  BY <1>1, <1>3, <1>4, <1>6, <1>10, <1>24, Below DEF S2
<1> HIDE DEF H1
<1>26. H0 \in Nat /\ n = 0 + p0 * H0
  BY <1>1, <1>3, <1>4, <1>6, <1>25, Below DEF S1
<1> HIDE DEF S8, H8, H0
<1>27. n \in Int /\ 0 < p0 /\ 0 \in Nat
  BY <1>6, <1>18
<1>28. (n \div p0) % B = v0
  <2>1. n = 0 + p0 * (v0 + B * H1)
    BY <1>26 DEF H0
  <2>2. 0 \in Nat /\ 0 < p0 /\ v0 < B 
         /\ H1 \in Nat /\ v0 \in Nat /\ p0 \in Nat /\ B \in Nat
    BY <1>1, <1>3, <1>4, <1>5, <1>27, <1>25, <1>26
  <2>3. ((0 + p0 * (v0 + B * H1)) \div p0) % B = v0
    BY <2>2, PlaceOf, Zenon
  <2> QED BY <2>1, <2>3, Zenon
<1>29. (n \div p1) % B = v1
  <2>1. n = S1 + p1 * (v1 + B * H2)
    BY <1>25 DEF H1
  <2>2. S1 \in Nat /\ S1 < p1 /\ v1 < B 
         /\ H2 \in Nat /\ v1 \in Nat /\ p1 \in Nat /\ B \in Nat
    BY <1>1, <1>3, <1>4, <1>5, <1>27, <1>10, <1>24, <1>25
  <2>3. ((S1 + p1 * (v1 + B * H2)) \div p1) % B = v1
    BY <2>2, PlaceOf, Zenon
  <2> QED BY <2>1, <2>3, Zenon
<1>30. (n \div p2) % B = v2
  <2>1. n = S2 + p2 * (v2 + B * H3)
    BY <1>24 DEF H2
  <2>2. S2 \in Nat /\ S2 < p2 /\ v2 < B 
         /\ H3 \in Nat /\ v2 \in Nat /\ p2 \in Nat /\ B \in Nat
    BY <1>1, <1>3, <1>4, <1>5, <1>27, <1>11, <1>23, <1>24
  <2>3. ((S2 + p2 * (v2 + B * H3)) \div p2) % B = v2
    BY <2>2, PlaceOf, Zenon
  <2> QED BY <2>1, <2>3, Zenon
<1>31. (n \div p3) % B = v3
  <2>1. n = S3 + p3 * (v3 + B * H4)
    BY <1>23 DEF H3
  <2>2. S3 \in Nat /\ S3 < p3 /\ v3 < B 
         /\ H4 \in Nat /\ v3 \in Nat /\ p3 \in Nat /\ B \in Nat
    BY <1>1, <1>3, <1>4, <1>5, <1>27, <1>12, <1>22, <1>23
  <2>3. ((S3 + p3 * (v3 + B * H4)) \div p3) % B = v3
    BY <2>2, PlaceOf, Zenon
  <2> QED BY <2>1, <2>3, Zenon
<1>32. (n \div p4) % B = v4
  <2>1. n = S4 + p4 * (v4 + B * H5)
    BY <1>22 DEF H4
  <2>2. S4 \in Nat /\ S4 < p4 /\ v4 < B 
         /\ H5 \in Nat /\ v4 \in Nat /\ p4 \in Nat /\ B \in Nat
    BY <1>1, <1>3, <1>4, <1>5, <1>27, <1>13, <1>21, <1>22
  <2>3. ((S4 + p4 * (v4 + B * H5)) \div p4) % B = v4
    BY <2>2, PlaceOf, Zenon
  <2> QED BY <2>1, <2>3, Zenon
<1>33. (n \div p5) % B = v5
  <2>1. n = S5 + p5 * (v5 + B * H6)
    BY <1>21 DEF H5
  <2>2. S5 \in Nat /\ S5 < p5 /\ v5 < B 
         /\ H6 \in Nat /\ v5 \in Nat /\ p5 \in Nat /\ B \in Nat
    BY <1>1, <1>3, <1>4, <1>5, <1>27, <1>14, <1>20, <1>21
  <2>3. ((S5 + p5 * (v5 + B * H6)) \div p5) % B = v5
    BY <2>2, PlaceOf, Zenon
  <2> QED BY <2>1, <2>3, Zenon
<1>34. (n \div p6) % B = v6
  <2>1. n = S6 + p6 * (v6 + B * H7)
    BY <1>20 DEF H6
  <2>2. S6 \in Nat /\ S6 < p6 /\ v6 < B 
         /\ H7 \in Nat /\ v6 \in Nat /\ p6 \in Nat /\ B \in Nat
    BY <1>1, <1>3, <1>4, <1>5, <1>27, <1>15, <1>19, <1>20
  <2>3. ((S6 + p6 * (v6 + B * H7)) \div p6) % B = v6
    BY <2>2, PlaceOf, Zenon
  <2> QED BY <2>1, <2>3, Zenon
<1>35. (n \div p7) % B = v7
  <2>1. n = S7 + p7 * (v7 + B * 0)
    BY <1>19 DEF H7, H8
  <2>2. S7 \in Nat /\ S7 < p7 /\ v7 < B 
         /\ 0 \in Nat /\ v7 \in Nat /\ p7 \in Nat /\ B \in Nat
    BY <1>1, <1>3, <1>4, <1>5, <1>27, <1>16, <1>19
  <2>3. ((S7 + p7 * (v7 + B * 0)) \div p7) % B = v7
    BY <2>2, PlaceOf, Zenon
  <2> QED BY <2>1, <2>3, Zenon
<1>36. \A k \in 0 .. 7 : (n \div weight(k)) % B = v[k]
  <2> SUFFICES ASSUME NEW k \in 0 .. 7 PROVE (n \div weight(k)) % B = v[k]
    OBVIOUS
  <2>1. CASE k = 0
    BY <2>1, <1>28, Zenon DEF p0, v0
  <2>2. CASE k = 1
    BY <2>2, <1>29, Zenon DEF p1, v1
  <2>3. CASE k = 2
    BY <2>3, <1>30, Zenon DEF p2, v2
  <2>4. CASE k = 3
    BY <2>4, <1>31, Zenon DEF p3, v3
  <2>5. CASE k = 4
    BY <2>5, <1>32, Zenon DEF p4, v4
  <2>6. CASE k = 5
    BY <2>6, <1>33, Zenon DEF p5, v5
  <2>7. CASE k = 6
    BY <2>7, <1>34, Zenon DEF p6, v6
  <2>8. CASE k = 7
    BY <2>8, <1>35, Zenon DEF p7, v7
  <2> QED BY <1>7, <2>1, <2>2, <2>3, <2>4, <2>5, <2>6, <2>7, <2>8, Zenon
<1>37. n \in 0 .. AddrMod - 1
  BY <1>18, MemoryConfig
<1> QED BY <1>36, <1>37 DEF B, n

\* Before the first call the memory is all zeros, and no call ends as Idle.
AtFirst == call = Idle => start = [e \in Entry |-> 0]

\* It holds of every state.
LEMMA FirstCall == Spec => []AtFirst
<1>1. Init => AtFirst
  BY DEF Init, AtFirst
<1>2. TypeOK /\ AtFirst /\ [Next]_vars => AtFirst'
  <2> SUFFICES ASSUME TypeOK, AtFirst, [Next]_vars PROVE AtFirst'
    OBVIOUS
  <2>1. call'.status = "running" \/ call'.status = "EINVAL" => call' # Idle
    BY DEF Idle
  <2>2. CASE GetByte \/ SetByte
    <3>1. call \in Call /\ call.status = "running"
      BY <2>2 DEF TypeOK, GetByte, SetByte, inLoop, running
    <3>2. call'.status = "running"
      BY <2>2, <3>1 DEF GetByte, SetByte, Call
    <3> QED BY <2>1, <3>2 DEF AtFirst
  <2>3. CASE Throw
    <3>1. call'.status = "EINVAL"
      BY <2>3 DEF TypeOK, Throw, Call
    <3> QED BY <2>1, <3>1 DEF AtFirst
  <2>4. CASE Return
    <3>1. call'.i = call.size /\ call.size \in MemEntrySize
      BY <2>4 DEF TypeOK, Return, Call
    <3>2. call'.i # 0
      BY <3>1 DEF MemEntrySize, BYTE_SIZE, HALF_SIZE, WORD_SIZE, DOUBLE_SIZE
    <3>3. Idle.i = 0
      BY DEF Idle
    <3> QED BY <3>2, <3>3 DEF AtFirst
  <2>5. CASE PreparePair \/ PrepareEnd \/ LoadByte
    <3>1. \E get, address, value, size : Begin(get, address, value, size)
      BY <2>5, Zenon DEF PreparePair, PrepareEnd, LoadByte
    <3>2. call'.status = "running"
      BY <3>1 DEF Begin
    <3> QED BY <2>1, <3>2 DEF AtFirst
  <2>6. CASE OpenBinary \/ LoadEnd \/ UNCHANGED vars
    BY <2>6 DEF OpenBinary, LoadEnd, vars, AtFirst
  <2>7. CASE \E address \in Address, value \in Values, size \in MemEntrySize :
               getMemValue(address, value, size) \/ setMemValue(address, value, size)
    <3>1. \E get, address, value, size : Begin(get, address, value, size)
      BY <2>7, Zenon DEF getMemValue, setMemValue
    <3>2. call'.status = "running"
      BY <3>1 DEF Begin
    <3> QED BY <2>1, <3>2 DEF AtFirst
  <2> QED BY <2>2, <2>3, <2>4, <2>5, <2>6, <2>7 DEF Next
<1> QED BY <1>1, <1>2, MemoryTypeCorrect, PTL DEF Spec

\* Datapath asks for the bytes of a call at the entries the loop visits.
LEMMA SameCells ==
  ASSUME NEW c \in Call, NEW k \in 0 .. 7
  PROVE  /\ D!Wrap(c.address + k) = cell(c, k)
         /\ D!size(access(c.size)) = c.size
         /\ access(c.size).fn \notin {"B", "H", "W"}
<1>1. D!Wrap(c.address + k) = cell(c, k)
  <2>1. c.address \in Int /\ startAddr = 0 /\ AddrMod = 2^W
    BY LoopConfig, MemoryConfig DEF Call
  <2>2. c.address - 0 + k = c.address + k
    BY <2>1
  <2> QED BY <2>1, <2>2, Zenon DEF D!Wrap, cell
<1>2. c.size = 1 \/ c.size = 2 \/ c.size = 4 \/ c.size = 8
  BY DEF Call, MemEntrySize, BYTE_SIZE, HALF_SIZE, WORD_SIZE, DOUBLE_SIZE
<1>3. CASE c.size = 1
  <2>1. access(c.size).fn = "BU"
    BY <1>3 DEF access, BYTE_SIZE, HALF_SIZE, WORD_SIZE
  <2> QED BY <1>1, <1>3, <2>1 DEF D!size
<1>4. CASE c.size = 2
  <2>1. access(c.size).fn = "HU"
    BY <1>4 DEF access, BYTE_SIZE, HALF_SIZE, WORD_SIZE
  <2> QED BY <1>1, <1>4, <2>1 DEF D!size
<1>5. CASE c.size = 4
  <2>1. access(c.size).fn = "WU"
    BY <1>5 DEF access, BYTE_SIZE, HALF_SIZE, WORD_SIZE
  <2> QED BY <1>1, <1>5, <2>1 DEF D!size
<1>6. CASE c.size = 8
  <2>1. access(c.size).fn = "D"
    BY <1>6 DEF access, BYTE_SIZE, HALF_SIZE, WORD_SIZE
  <2> QED BY <1>1, <1>6, <2>1 DEF D!size
<1> QED BY <1>2, <1>3, <1>4, <1>5, <1>6

\* A call that has ended has reached what Datapath reaches.
LEMMA SameReach ==
  ASSUME TypeOK, CallEffect, ~running, call # Idle
  PROVE  D!reachedCells(access(call.size), call.address) = 0 .. call.i - 1
<1>1. call \in Call /\ call.i \in Nat /\ call.i <= call.size /\ call.size <= 8 /\ call.size \in Nat
  BY DEF TypeOK, Call, MemEntrySize, BYTE_SIZE, HALF_SIZE, WORD_SIZE, DOUBLE_SIZE
<1>2. \A k \in 0 .. 7 : D!Wrap(call.address + k) = cell(call, k)
  BY <1>1, SameCells
<1>3. D!size(access(call.size)) = call.size
  <2>1. 0 \in 0 .. 7
    OBVIOUS
  <2> QED BY <1>1, <2>1, SameCells
<1>4. \A k \in 0 .. call.i - 1 : cell(call, k) \in Entry
  BY DEF CallEffect, reached
<1>5. call.i = call.size \/ (call.i < call.size /\ cell(call, call.i) \notin Entry)
  <2>1. call.status = "SUCCESS" \/ call.status = "EINVAL"
    BY <1>1 DEF Call, running
  <2> QED BY <2>1 DEF CallEffect, inRange
<1> HIDE DEF cell
<1>6. ASSUME NEW k \in 0 .. call.i - 1
      PROVE  k \in D!reachedCells(access(call.size), call.address)
  <2>1. k \in 0 .. call.size - 1 /\ \A j \in 0 .. k : j \in 0 .. 7 /\ j \in 0 .. call.i - 1
    BY <1>1
  <2> QED BY <2>1, <1>2, <1>3, <1>4 DEF D!reachedCells
<1>7. ASSUME NEW k \in D!reachedCells(access(call.size), call.address)
      PROVE  k \in 0 .. call.i - 1
  <2>1. k \in 0 .. call.size - 1 /\ \A j \in 0 .. k : D!Wrap(call.address + j) \in Entry
    BY <1>3 DEF D!reachedCells
  <2>2. CASE k < call.i
    BY <1>1, <2>1, <2>2
  <2>3. CASE call.i <= k
    <3>1. call.i \in 0 .. k /\ call.i \in 0 .. 7 /\ call.i < call.size
      BY <1>1, <2>1, <2>3
    <3>2. cell(call, call.i) \in Entry
      BY <2>1, <3>1, <1>2
    <3> QED BY <1>5, <3>1, <3>2
  <2> QED BY <1>1, <2>1, <2>2, <2>3
<1> QED BY <1>6, <1>7

\* What the loop has done is what Datapath says.
LEMMA EffectIsDatapath ==
  ASSUME TypeOK, CallEffect, AtFirst
  PROVE  LoopIsDatapath
<1> SUFFICES ASSUME ~running
             PROVE  IF call.get
                      THEN number(call.value)
                             = D!DMemGet(start, access(call.size), call.address)
                      ELSE memArr = D!DMemSet(start, access(call.size), call.address,
                                              number(call.value))
  BY DEF LoopIsDatapath
<1> DEFINE a == access(call.size)
           v == call.value
           i == call.i
<1>1. /\ call \in Call /\ v \in Value /\ i \in Nat /\ i <= 8
      /\ memArr \in [Entry -> Byte] /\ start \in [Entry -> Byte]
  BY DEF TypeOK, Call, MemEntrySize, BYTE_SIZE, HALF_SIZE, WORD_SIZE, DOUBLE_SIZE
<1>2. \A k \in 0 .. 7 : D!Wrap(call.address + k) = cell(call, k)
  BY <1>1, SameCells
<1>3. a.fn \notin {"B", "H", "W"} /\ D!size(a) = call.size
  <2>1. 0 \in 0 .. 7
    OBVIOUS
  <2> QED BY <1>1, <2>1, SameCells
<1>4. number(v) \in 0 .. AddrMod - 1
  BY <1>1, NumberOf
<1>5. D!Wrap(number(v)) = number(v)
  <2>1. AddrMod \in Nat /\ AddrMod > 0 /\ AddrMod = 2^W
    BY LoopConfig, MemoryConfig DEF DOUBLE_SIZE
  <2>2. number(v) = AddrMod * 0 + number(v) /\ 0 \in Int /\ number(v) \in Int
    BY <1>4, <2>1
  <2>3. number(v) % AddrMod = number(v)
    BY <1>4, <2>1, <2>2, ModIs, Zenon
  <2> QED BY <2>1, <2>3, Zenon DEF D!Wrap
<1> DEFINE part(k) == IF k \in D!reachedCells(a, call.address)
                        THEN start[D!Wrap(call.address + k)] * 2^(CellBits * k) ELSE 0
<1>6. ASSUME call.get, \A k \in 0 .. 7 : part(k) = place(v, k)
      PROVE  number(v) = D!DMemGet(start, a, call.address)
  <2>1. part(0) + part(1) + part(2) + part(3) + part(4) + part(5) + part(6) + part(7)
          = number(v)
    <3>1. /\ part(0) = place(v, 0) /\ part(1) = place(v, 1) /\ part(2) = place(v, 2)
          /\ part(3) = place(v, 3) /\ part(4) = place(v, 4) /\ part(5) = place(v, 5)
          /\ part(6) = place(v, 6) /\ part(7) = place(v, 7)
      BY <1>6
    <3> HIDE DEF part
    <3> QED BY <3>1, Zenon DEF number
  <2>2. D!DMemGet(start, a, call.address)
          = D!Wrap(part(0) + part(1) + part(2) + part(3)
                     + part(4) + part(5) + part(6) + part(7))
    BY <1>3, Zenon DEF D!DMemGet
  <2> HIDE DEF part
  <2> QED BY <1>5, <2>1, <2>2, Zenon
<1>7. CASE call = Idle
  <2>1. call.get = TRUE /\ v = Zeros /\ start = [e \in Entry |-> 0]
    BY <1>7 DEF Idle, AtFirst
  <2>2. ASSUME NEW k \in 0 .. 7
        PROVE  part(k) = place(v, k)
    <3>1. 2^(CellBits * k) \in Nat
      BY Weights DEF weight
    <3>2. v[k] = 0
      BY <2>1 DEF Zeros
    <3>3. k \in D!reachedCells(a, call.address) => start[D!Wrap(call.address + k)] = 0
      <4>1. k \in D!reachedCells(a, call.address) => D!Wrap(call.address + k) \in Entry
        BY DEF D!reachedCells
      <4> QED BY <2>1, <4>1
    <3>4. 0 * 2^(CellBits * k) = 0
      BY <3>1
    <3> QED BY <3>2, <3>3, <3>4, Zenon DEF place
  <2> QED BY <1>6, <2>1, <2>2
<1>8. CASE call # Idle
  <2>1. D!reachedCells(a, call.address) = 0 .. i - 1
    BY <1>8, SameReach
  <2>2. CASE call.get
    <3>1. \A k \in 0 .. 7 : v[k] = IF k < i THEN start[cell(call, k)] ELSE 0
      BY <2>2 DEF CallEffect
    <3>2. ASSUME NEW k \in 0 .. 7
          PROVE  part(k) = place(v, k)
      <4>1. 2^(CellBits * k) \in Nat
        BY Weights DEF weight
      <4>2. k \in 0 .. i - 1 <=> k < i
        BY <1>1
      <4>3. CASE k < i
        <5>1. v[k] = start[D!Wrap(call.address + k)]
          BY <1>2, <3>1, <4>3
        <5> QED BY <2>1, <4>2, <4>3, <5>1, Zenon DEF place
      <4>4. CASE ~(k < i)
        <5>1. v[k] = 0
          BY <3>1, <4>4
        <5>2. 0 * 2^(CellBits * k) = 0
          BY <4>1
        <5> QED BY <2>1, <4>2, <4>4, <5>1, <5>2, Zenon DEF place
      <4> QED BY <4>3, <4>4
    <3> QED BY <1>6, <2>2, <3>2
  <2>3. CASE ~call.get
    <3> DEFINE here(c) == { k \in D!reachedCells(a, call.address) :
                              c = D!Wrap(call.address + k) }
    <3>1. ASSUME NEW c \in Entry
          PROVE  memArr[c]
                   = IF here(c) = {} THEN start[c]
                     ELSE D!low(number(v) \div 2^(CellBits * (CHOOSE k \in here(c) : TRUE)),
                                CellBits)
      <4>1. CASE here(c) = {}
        <5>1. c \notin reached(call, call.i)
          BY <1>1, <1>2, <2>1, <4>1 DEF reached
        <5>2. memArr[c] = start[c]
          BY <2>3, <5>1 DEF CallEffect
        <5> QED BY <4>1, <5>2
      <4>2. CASE here(c) # {}
        <5> DEFINE k == CHOOSE j \in here(c) : TRUE
        <5>1. k \in here(c)
          BY <4>2
        <5> HIDE DEF k
        <5>2. k \in 0 .. i - 1 /\ c = D!Wrap(call.address + k)
          BY <2>1, <5>1
        <5>3. k \in 0 .. 7 /\ c = cell(call, k)
          BY <1>1, <1>2, <5>2
        <5>4. memArr[c] = v[k]
          BY <2>3, <5>2, <5>3 DEF CallEffect
        <5>5. D!low(number(v) \div 2^(CellBits * k), CellBits) = v[k]
          <6>1. (number(v) \div weight(k)) % 2^CellBits = v[k]
            BY <1>1, <5>3, NumberOf
          <6> QED BY <6>1, Zenon DEF D!low, weight
        <5> QED BY <4>2, <5>4, <5>5 DEF k
      <4> QED BY <4>1, <4>2
    <3>2. memArr = [c \in Entry |-> memArr[c]]
      BY <1>1
    <3>3. D!DMemSet(start, a, call.address, number(v))
            = [c \in Entry |->
                 IF here(c) = {} THEN start[c]
                 ELSE D!low(number(v) \div 2^(CellBits * (CHOOSE k \in here(c) : TRUE)),
                            CellBits)]
      BY Zenon DEF D!DMemSet
    <3> HIDE DEF here
    <3>4. memArr = D!DMemSet(start, a, call.address, number(v))
      BY <3>1, <3>2, <3>3, Zenon
    <3> QED BY <2>3, <3>4
  <2> QED BY <2>2, <2>3
<1> QED BY <1>7, <1>8

\* getOrSetValue (MemoryStore.cpp:28-72) loads and stores the numbers that
\* simMemAccess of the two simulators is modelled with, for every width of a
\* byte and every memory.
THEOREM LoopImplementsDatapath == Spec => []LoopIsDatapath
BY EffectIsDatapath, FirstCall, MemoryTypeCorrect, CallsExact, PTL
=============================================================================

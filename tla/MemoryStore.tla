----------------------------- MODULE MemoryStore -----------------------------
(***************************************************************************)
(* MemoryStore.cpp: the construction of the memory from init_mem_image and *)
(* the binary, the loads and stores of the simulators, byte by byte, and   *)
(* the dump.  A uint64_t that is read or written is its eight bytes.       *)
(***************************************************************************)
EXTENDS Integers, Sequences

CONSTANTS
  startAddr, numEntries,   \* the arguments of the constructor
  AddrMod,                 \* 2^64, where an address wraps
  Byte,
  NoFile,                  \* no such file
  Images,                  \* what init_mem_image may hold, as Pairs below
  Files,                   \* what the binary may hold
  Address, Values,         \* what the simulator asks for
  MaxCalls                 \* bound on the calls explored

BYTE_SIZE   == 1
HALF_SIZE   == 2
WORD_SIZE   == 4
DOUBLE_SIZE == 8
MemEntrySize == {BYTE_SIZE, HALF_SIZE, WORD_SIZE, DOUBLE_SIZE}

Value == [0 .. 7 -> Byte]

\* An entry of init_mem_image, an address and a word; the word of the last one
\* may be missing.
Pair  == [addr : 0 .. AddrMod - 1, word : Value, complete : BOOLEAN]
isImage(m) == m \in Seq(Pair) /\ \A k \in 1 .. Len(m) - 1 : m[k].complete

ASSUME MemoryConfig ==
  /\ numEntries \in Nat /\ AddrMod \in Nat
  /\ numEntries <= AddrMod /\ DOUBLE_SIZE <= AddrMod
  /\ startAddr \in 0 .. AddrMod - 1
  /\ 0 \in Byte
  /\ NoFile \notin Seq(Pair) /\ NoFile \notin Seq(Byte)
  /\ \A m \in Images : m = NoFile \/ isImage(m)
  /\ \A f \in Files : f = NoFile \/ (f \in Seq(Byte) /\ Len(f) <= AddrMod)
  /\ Address \subseteq 0 .. AddrMod - 1
  /\ Values \subseteq Value /\ MaxCalls \in Nat

VARIABLES
  memArr,
  phase,    \* where the constructor or the simulator is
  image,    \* the pairs prepareMemory has not read; NoFile: the stream has failed
  file,     \* the bytes loadFromFile has not stored
  call,     \* the latest call of getOrSetValue
  calls,    \* how many calls the simulator has made
  start,    \* history: memArr when that call began
  loaded    \* history: the image and the file there were

vars == <<memArr, phase, image, file, call, calls, start, loaded>>

Entry == 0 .. numEntries - 1
Zeros == [k \in 0 .. 7 |-> 0]

\* relativeAddr + i, of an unsigned type
cell(c, i) == (c.address - startAddr + i) % AddrMod

Idle == [get |-> TRUE, address |-> startAddr, value |-> Zeros, size |-> BYTE_SIZE,
         i |-> 0, status |-> "SUCCESS"]

\* mutant: value |= without value = 0
initially_NotCleared(get, value) == value

\* a load starts from 0, whatever its caller's variable holds
initially(get, value) == IF get THEN Zeros ELSE value

Begin(get, address, value, size) ==
  /\ call' = [get |-> get, address |-> address, size |-> size,
              value |-> initially(get, value), i |-> 0, status |-> "running"]
  /\ start' = memArr

Init ==
  /\ memArr = [e \in Entry |-> 0]
  /\ phase = "prepare"
  /\ image \in Images
  /\ file \in Files
  /\ call = Idle
  /\ calls = 0
  /\ start = memArr
  /\ loaded = [image |-> image, file |-> file]

running == call.status = "running"
-----------------------------------------------------------------------------
(***************************************************************************)
(* getOrSetValue: one byte after the other, until the size is reached or   *)
(* memArr.at throws.  What has been read or written by then stays.         *)
(***************************************************************************)
inRange == cell(call, call.i) \in Entry

\* mutant: i <= byteSize
inLoop_OneMore == running /\ call.i <= call.size

inLoop == running /\ call.i < call.size

GetByte ==
  /\ inLoop /\ call.get /\ inRange
  /\ call' = [call EXCEPT !.value[call.i] = memArr[cell(call, call.i)], !.i = @ + 1]
  /\ UNCHANGED <<memArr, phase, image, file, calls, start, loaded>>

\* mutant: the most significant byte first
storedByte_BigEndian == call.value[call.size - 1 - call.i]

\* (value >> (i * 8)) & 0xFF
storedByte == call.value[call.i]

SetByte ==
  /\ inLoop /\ ~call.get /\ inRange
  /\ memArr' = [memArr EXCEPT ![cell(call, call.i)] = storedByte]
  /\ call' = [call EXCEPT !.i = @ + 1]
  /\ UNCHANGED <<phase, image, file, calls, start, loaded>>

\* mutant: NDEBUG drops the assertion
afterThrow_Released == phase

afterThrow == IF phase = "prepare" THEN "aborted" ELSE phase

\* std::out_of_range becomes -EINVAL.  prepareMemory passes it on to the
\* assertion in the constructor; loadFromFile and the simulator ignore it.
Throw ==
  /\ inLoop /\ ~inRange
  /\ call' = [call EXCEPT !.status = "EINVAL"]
  /\ phase' = afterThrow
  /\ UNCHANGED <<memArr, image, file, calls, start, loaded>>

Return ==
  /\ running /\ call.i = call.size
  /\ call' = [call EXCEPT !.status = "SUCCESS"]
  /\ UNCHANGED <<memArr, phase, image, file, calls, start, loaded>>

-----------------------------------------------------------------------------
(***************************************************************************)
(* The constructor.                                                        *)
(***************************************************************************)
PreparePair ==
  /\ phase = "prepare" /\ ~running /\ image # NoFile /\ image # <<>>
  /\ LET p == Head(image)
     IN  /\ Begin(FALSE, p.addr, IF p.complete THEN p.word ELSE Zeros, WORD_SIZE)
         /\ image' = IF p.complete THEN Tail(image) ELSE NoFile
  /\ UNCHANGED <<memArr, phase, file, calls, loaded>>

\* The stream fails only when a read meets the end, so the pass that meets it
\* stores what it has: both variables are still 0.
PrepareEnd ==
  /\ phase = "prepare" /\ ~running /\ image = <<>>
  /\ Begin(FALSE, 0, Zeros, WORD_SIZE)
  /\ image' = NoFile
  /\ UNCHANGED <<memArr, phase, file, calls, loaded>>

\* loadFromFile opens the binary, or reports an error nobody looks at.
OpenBinary ==
  /\ phase = "prepare" /\ ~running /\ image = NoFile
  /\ phase' = IF file = NoFile THEN "ready" ELSE "load"
  /\ UNCHANGED <<memArr, image, file, call, calls, start, loaded>>

\* setMemValue(i * BYTE_SIZE, buf[i], BYTE_SIZE); the bytes above the lowest,
\* the sign of buf[i], are not stored
LoadByte ==
  /\ phase = "load" /\ ~running /\ file # <<>>
  /\ Begin(FALSE, Len(loaded.file) - Len(file), [Zeros EXCEPT ![0] = Head(file)],
           BYTE_SIZE)
  /\ file' = Tail(file)
  /\ UNCHANGED <<memArr, phase, image, calls, loaded>>

\* mutant: i < memLength - 1
LoadEnd_OneLess ==
  /\ phase = "load" /\ ~running /\ Len(file) <= 1
  /\ phase' = "ready"
  /\ UNCHANGED <<memArr, image, file, call, calls, start, loaded>>

LoadEnd ==
  /\ phase = "load" /\ ~running /\ file = <<>>
  /\ phase' = "ready"
  /\ UNCHANGED <<memArr, image, file, call, calls, start, loaded>>

-----------------------------------------------------------------------------
(***************************************************************************)
(* getMemValue and setMemValue, as simFetch and simMemAccess call them.    *)
(***************************************************************************)
canCall == phase = "ready" /\ ~running /\ calls < MaxCalls

getMemValue(address, value, size) ==
  /\ canCall
  /\ Begin(TRUE, address, value, size)
  /\ calls' = calls + 1
  /\ UNCHANGED <<memArr, phase, image, file, loaded>>

setMemValue(address, value, size) ==
  /\ canCall
  /\ Begin(FALSE, address, value, size)
  /\ calls' = calls + 1
  /\ UNCHANGED <<memArr, phase, image, file, loaded>>

Next ==
  \/ GetByte \/ SetByte \/ Throw \/ Return
  \/ PreparePair \/ PrepareEnd \/ OpenBinary \/ LoadByte \/ LoadEnd
  \/ \E address \in Address, value \in Values, size \in MemEntrySize :
       getMemValue(address, value, size) \/ setMemValue(address, value, size)

Spec == Init /\ [][Next]_vars

-----------------------------------------------------------------------------
Call ==
  [get : BOOLEAN, address : 0 .. AddrMod - 1, value : Value, size : MemEntrySize,
   i : 0 .. DOUBLE_SIZE, status : {"running", "SUCCESS", "EINVAL"}]

\* Every variable has the type the code declares, what is left of the two
\* files too, and a call that ended in prepareMemory without success has ended
\* the program.
TypeOK ==
  /\ memArr \in [Entry -> Byte] /\ start \in [Entry -> Byte]
  /\ phase \in {"prepare", "load", "ready", "aborted"}
  /\ call \in Call /\ call.i <= call.size
  /\ calls \in 0 .. MaxCalls
  /\ image = NoFile \/ image \in Seq(Pair)
  /\ loaded.file \in Files /\ (phase = "prepare" => file = loaded.file)
  /\ phase = "load" => /\ file \in Seq(Byte) /\ loaded.file # NoFile
                       /\ Len(file) <= Len(loaded.file)
  /\ phase = "prepare" => call.status # "EINVAL"

\* the entries the first n bytes of a call are at
reached(c, n) == { cell(c, k) : k \in 0 .. n - 1 }

\* However far a call has come, it has dealt with the bytes below i and with
\* nothing else: a store has changed their entries and no other, a load has
\* their values and zeros above them and has changed nothing; it has succeeded
\* only if that is all of them, and failed only at an entry out of range.  So
\* a simulator that ignores -EINVAL goes on with a prefix of the access.
CallEffect ==
  /\ reached(call, call.i) \subseteq Entry
  /\ call.get => memArr = start
  /\ ~call.get =>
       /\ \A k \in 0 .. call.i - 1 : memArr[cell(call, k)] = call.value[k]
       /\ \A e \in Entry \ reached(call, call.i) : memArr[e] = start[e]
  /\ call.get =>
       \A k \in 0 .. 7 :
         call.value[k] = IF k < call.i THEN start[cell(call, k)] ELSE 0
  /\ call.status = "SUCCESS" => call.i = call.size \/ call = Idle
  /\ call.status = "EINVAL" => call.i < call.size /\ ~inRange

\* the image and the binary there were
pairs == IF loaded.image = NoFile THEN <<>> ELSE loaded.image
bytes == IF loaded.file = NoFile THEN <<>> ELSE loaded.file

\* the entries of a word of the image, and the bytes a pair has for them
wordEntries(address) == { (address - startAddr + k) % AddrMod : k \in 0 .. WORD_SIZE - 1 }
pairByte(p, e) ==
  IF p.complete
    THEN p.word[CHOOSE k \in 0 .. WORD_SIZE - 1 : e = (p.addr - startAddr + k) % AddrMod]
    ELSE 0

\* the byte of entry e after n pairs of the image: that of the last one of them
\* that has one
underBinary(n, e) ==
  LET at == { k \in 1 .. n : e \in wordEntries(pairs[k].addr) }
  IN  IF at = {} THEN 0
      ELSE pairByte(pairs[CHOOSE k \in at : \A l \in at : l <= k], e)

fits == \A k \in 1 .. Len(pairs) : wordEntries(pairs[k].addr) \subseteq Entry

\* The stream ended between two pairs, and prepareMemory found that out only
\* after it had stored the zeros it had in place of one more.
emptyPass == loaded.image # NoFile /\ \A k \in 1 .. Len(pairs) : pairs[k].complete

\* the address of entry e, and its byte with m bytes of the binary stored
addressOf(e) == (e + startAddr) % AddrMod
prepared(m, e) ==
  IF addressOf(e) < m THEN bytes[addressOf(e) + 1]
  ELSE IF emptyPass /\ e \in wordEntries(0) THEN 0
  ELSE underBinary(Len(pairs), e)

\* The simulator starts on the binary, over the image, over zeros, but for the
\* word at address 0: after an image of whole pairs it has lost what the image
\* had for it, which shows wherever the binary is shorter than a word, or
\* missing.  A binary longer than the memory loses its tail.  An image that
\* reaches out of the memory ends the program, and no other does in a memory
\* that has the word at address 0.
MemoryPrepared ==
  /\ phase = "ready" /\ calls = 0 =>
       fits /\ \A e \in Entry : memArr[e] = prepared(Len(bytes), e)
  /\ phase = "aborted" => ~fits \/ ~(wordEntries(0) \subseteq Entry)
=============================================================================

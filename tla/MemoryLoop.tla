----------------------------- MODULE MemoryLoop -----------------------------
(***************************************************************************)
(* The byte loop of MemoryStore next to DMemGet and DMemSet of Datapath,   *)
(* what the two simulators are modelled with.  A register is the eight     *)
(* bytes of a value and an address.                                        *)
(***************************************************************************)
EXTENDS MemoryDump

CONSTANTS W, WordBits, CellBits, BitXor(_,_), BitOr(_,_), BitAnd(_,_)

\* the program has W = 64 and CellBits = 8, and its memory starts at address 0
ASSUME LoopConfig ==
  /\ startAddr = 0
  /\ CellBits \in Nat \ {0} /\ W = DOUBLE_SIZE * CellBits /\ AddrMod = 2^W
  /\ Byte = 0 .. 2^CellBits - 1

\* arithmetic the proofs need
ASSUME CellPowers ==
  /\ 2^CellBits \in Nat \ {0} /\ 2^0 = 1
  /\ \A k \in 0 .. 7 : 2^(CellBits * (k + 1)) = 2^CellBits * 2^(CellBits * k)

D == INSTANCE Datapath WITH Cells <- Entry

\* the number whose bytes v has, the lowest first
place(v, k) == v[k] * 2^(CellBits * k)
number(v) ==
  place(v, 0) + place(v, 1) + place(v, 2) + place(v, 3)
    + place(v, 4) + place(v, 5) + place(v, 6) + place(v, 7)

\* an unsigned load or a store of a size
access(size) ==
  [fn |-> CASE size = BYTE_SIZE -> "BU" [] size = HALF_SIZE -> "HU"
            [] size = WORD_SIZE -> "WU" [] OTHER -> "D"]

\* The byte loop is what the two simulators are modelled with: a call that has
\* ended has left the memory, and returned the value, that Datapath gives for
\* its arguments, whether it has ended well or in the middle.
LoopIsDatapath ==
  ~running =>
    IF call.get
      THEN number(call.value) = D!DMemGet(start, access(call.size), call.address)
      ELSE memArr = D!DMemSet(start, access(call.size), call.address,
                              number(call.value))
=============================================================================

------------------------------ MODULE Datapath ------------------------------
(***************************************************************************)
(* The data path for the constants of Machine: simArithLogic,              *)
(* simNextPCResolution, simAddrGen and simMemAccess of simulator.cpp and   *)
(* getOrSetValue of MemoryStore.cpp.  The widths are parameters; the       *)
(* program has W = 64, WordBits = 32 and CellBits = 8, the runs a narrower *)
(* machine that wraps, sign-extends and runs off its memory in the same    *)
(* places.  The immediate of a word is its sign-extended value, modulo 2^W.*)
(***************************************************************************)
EXTENDS Integers

CONSTANTS
  W,          \* bits of a register
  WordBits,   \* bits the W variants of an operation work on
  CellBits,   \* bits of a memory cell, the unit of an address
  Cells,      \* addresses in range of the memory
  BitXor(_,_), BitOr(_,_), BitAnd(_,_)    \* a ^ b, a | b, BitAnd(a, b)

ASSUME DatapathWidth ==
  W \in Nat \ {0} /\ WordBits \in 1..W /\ CellBits \in 1..W /\ 8 <= 2^W

\* arithmetic the proofs need, for the exponents the module uses
ASSUME PowersOfTwo ==
  2^0 = 1 /\ \A n \in 0 .. W + 8 * CellBits : 2^n \in Nat \ {0} /\ 2^(n + 1) = 2 * 2^n

DWord == 0 .. 2^W - 1

bit(p) == IF p THEN 1 ELSE 0
bitOf(n, k) == (n \div 2^k) % 2

\* the three operators of the language, known by their bits
ASSUME BitwiseOperators ==
  \A a, b \in DWord :
    LET x == BitXor(a, b)
        o == BitOr(a, b)
        n == BitAnd(a, b)
    IN  /\ x \in DWord /\ o \in DWord /\ n \in DWord
        /\ \A k \in 0 .. W - 1 :
             /\ bitOf(x, k) = (bitOf(a, k) + bitOf(b, k)) % 2
             /\ bitOf(o, k) = bit(bitOf(a, k) + bitOf(b, k) > 0)
             /\ bitOf(n, k) = bitOf(a, k) * bitOf(b, k)

DMems == [Cells -> 0 .. 2^CellBits - 1]

\* an opcode's funct3, and funct7 where the code looks at it
DFn ==
  { "ADD", "SUB", "SLL", "SLT", "SLTU", "XOR", "SRL", "SRA", "OR", "AND",
    "ADDW", "SUBW", "SLLW", "SRLW", "SRAW", "LUI", "AUIPC",
    "B", "H", "W", "D", "BU", "HU", "WU",
    "BEQ", "BNE", "BLT", "BGE", "BLTU", "BGEU" }

Wrap(n) == n % 2^W

\* the low bits of n, and their value as a signed number
low(n, bits)    == n % 2^bits
signed(n, bits) == IF low(n, bits) < 2^(bits - 1) THEN low(n, bits)
                                                  ELSE low(n, bits) - 2^bits

\* mutant: the upper bits left at zero
sext64_Zero(n, bits) == low(n, bits)

\* sext64(n, bits - 1)
sext64(n, bits) == Wrap(signed(n, bits))

DPlus4(pc) == Wrap(pc + 4)

\* (int64_t)a < (int64_t)b
less(a, b) == signed(a, W) < signed(b, W)

\* OP_INT and OP_INTW; with the immediate for b, OP_INTIMM and OP_INTIMMW
alu(fn, a, b) ==
  CASE fn = "ADD"  -> Wrap(a + b)
    [] fn = "SUB"  -> Wrap(a - b)
    [] fn = "SLL"  -> Wrap(a * 2^(b % W))
    [] fn = "SLT"  -> bit(less(a, b))
    [] fn = "SLTU" -> bit(a < b)
    [] fn = "XOR"  -> BitXor(a, b)
    [] fn = "SRL"  -> a \div 2^(b % W)
    [] fn = "SRA"  -> Wrap(signed(a, W) \div 2^(b % W))
    [] fn = "OR"   -> BitOr(a, b)
    [] fn = "AND"  -> BitAnd(a, b)
    [] fn = "ADDW" -> sext64(a + b, WordBits)
    [] fn = "SUBW" -> sext64(a - b, WordBits)
    [] fn = "SLLW" -> sext64(a * 2^(b % WordBits), WordBits)
    [] fn = "SRLW" -> sext64(low(a, WordBits) \div 2^(b % WordBits), WordBits)
    [] fn = "SRAW" -> sext64(signed(a, WordBits) \div 2^(b % WordBits), WordBits)
    [] OTHER       -> 0

DArithLogic(i, pc, a, b) ==
  CASE i.op = "INT"                     -> alu(i.fn, a, b)
    [] i.op = "INTIMM"                  -> alu(i.fn, a, i.imm)
    [] i.op \in {"JALR", "JAL"}         -> DPlus4(pc)
    [] i.op = "UPPER" /\ i.fn = "AUIPC" -> Wrap(pc + i.imm)
    [] i.op = "UPPER" /\ i.fn = "LUI"   -> i.imm
    [] OTHER                            -> 0

taken(i, a, b) ==
  /\ i.op = "BRANCH"
  /\ \/ i.fn = "BEQ"  /\ a = b
     \/ i.fn = "BNE"  /\ a # b
     \/ i.fn = "BLT"  /\ less(a, b)
     \/ i.fn = "BGE"  /\ ~less(a, b)
     \/ i.fn = "BLTU" /\ a < b
     \/ i.fn = "BGEU" /\ a >= b

DNextPC(i, pc, a, b) ==
  CASE i.op = "JALR"                    -> LET t == Wrap(a + i.imm) IN t - (t % 2)
    [] i.op = "JAL" \/ taken(i, a, b)   -> Wrap(pc + i.imm)
    [] OTHER                            -> DPlus4(pc)

DAddrGen(i, a) == Wrap(a + i.imm)

\* how many cells an access covers
size(i) ==
  CASE i.fn \in {"B", "BU"} -> 1
    [] i.fn \in {"H", "HU"} -> 2
    [] i.fn \in {"W", "WU"} -> 4
    [] OTHER                -> 8

\* The cells an access reaches: getOrSetValue goes from the lowest up and
\* leaves at the first one out of range, with what it has read or written so
\* far.  simMemAccess drops the error it returns and the simulator goes on.
reachedCells(i, addr) ==
  { k \in 0 .. size(i) - 1 : \A j \in 0 .. k : Wrap(addr + j) \in Cells }

DMemGet(m, i, addr) ==
  LET cell(k) == IF k \in reachedCells(i, addr)
                   THEN m[Wrap(addr + k)] * 2^(CellBits * k) ELSE 0
      value   == cell(0) + cell(1) + cell(2) + cell(3)
                   + cell(4) + cell(5) + cell(6) + cell(7)
  IN  IF i.fn \in {"B", "H", "W"} THEN sext64(value, CellBits * size(i))
                                  ELSE Wrap(value)

DMemSet(m, i, addr, v) ==
  [ c \in Cells |->
      LET here == { k \in reachedCells(i, addr) : c = Wrap(addr + k) }
      IN  IF here = {} THEN m[c]
          ELSE low(v \div 2^(CellBits * (CHOOSE k \in here : TRUE)), CellBits) ]
=============================================================================

-------------------------------- MODULE Words --------------------------------
(***************************************************************************)
(* One word on its way through simDecode, simArithLogic and printInstr,    *)
(* next to what its assembler meant by it.  Machine and Datapath, the      *)
(* models the two simulators are checked with, start from decoded words;   *)
(* asMachine says which of theirs a word is.                               *)
(***************************************************************************)
EXTENDS Decoder, Datapath

CONSTANTS
  Assembled,    \* instructions of an assembler: op and fn as in Machine, the
                \* register fields and a signed immediate
  Raw,          \* words no assembler need have made
  Operands      \* register values simArithLogic is tried on

NoInstruction == [op |-> "none", fn |-> "none", rd |-> 0, rs1 |-> 0, rs2 |-> 0,
                  imm |-> 0]

VARIABLES
  meant,    \* the instruction the word was assembled from, if it was
  word,
  stage,    \* the last of simIF, simID, simEX it has been through, or printed
  inst,     \* the flags simDecode sets
  ops,      \* PC, op1Val, op2Val
  result,   \* arithResult
  shown     \* what printInstr wrote

vars == <<meant, word, stage, inst, ops, result, shown>>

-----------------------------------------------------------------------------
(***************************************************************************)
(* The encoding of the RISC-V base formats, external to the code.          *)
(***************************************************************************)
wide == {"ADDW", "SUBW", "SLLW", "SRLW", "SRAW"}
shifts == {"SLL", "SRL", "SRA", "SLLW", "SRLW", "SRAW"}
second == {"SUB", "SRA", "SUBW", "SRAW"}    \* bit 30 is set

basic  == {"ADD", "SLL", "SLT", "SLTU", "XOR", "SRL", "SRA", "OR", "AND"}
loads  == {"B", "H", "W", "D", "BU", "HU", "WU"}
stores == {"B", "H", "W", "D"}
branches == {"BEQ", "BNE", "BLT", "BGE", "BLTU", "BGEU"}

fitsSigned(k, n) == k \in Int /\ -(2^(n - 1)) <= k /\ k < 2^(n - 1)

\* the operations of the base formats, and the immediates they have room for
isInstruction(i) ==
  /\ i = [op |-> i.op, fn |-> i.fn, rd |-> i.rd, rs1 |-> i.rs1, rs2 |-> i.rs2,
          imm |-> i.imm]
  /\ i.rd \in 0 .. 31 /\ i.rs1 \in 0 .. 31 /\ i.rs2 \in 0 .. 31
  /\ \/ i.op = "INT" /\ i.fn \in basic \cup {"SUB"} \cup wide /\ i.imm = 0
     \/ i.op = "INTIMM" /\ i.fn \in (basic \ shifts) \cup {"ADDW"}
          /\ fitsSigned(i.imm, 12)
     \/ i.op = "INTIMM" /\ i.fn \in shifts \ wide /\ i.imm \in 0 .. 63
     \/ i.op = "INTIMM" /\ i.fn \in shifts \cap wide /\ i.imm \in 0 .. 31
     \/ i.op = "LOAD" /\ i.fn \in loads /\ fitsSigned(i.imm, 12)
     \/ i.op = "STORE" /\ i.fn \in stores /\ fitsSigned(i.imm, 12)
     \/ i.op = "BRANCH" /\ i.fn \in branches
          /\ fitsSigned(i.imm, 13) /\ i.imm % 2 = 0
     \/ i.op = "JALR" /\ i.fn = "ADD" /\ fitsSigned(i.imm, 12)
     \/ i.op = "JAL" /\ i.fn = "ADD" /\ fitsSigned(i.imm, 21) /\ i.imm % 2 = 0
     \/ i.op = "UPPER" /\ i.fn \in {"LUI", "AUIPC"} /\ fitsSigned(i.imm, 20)

ASSUME WordsConfig ==
  /\ \A i \in Assembled : isInstruction(i)
  /\ Raw \subseteq Field
  /\ Operands \subseteq [pc : DWord, a : DWord, b : DWord]

\* The shift amount is the low bits of the immediate for both widths, and bit
\* 10 of a word, which tells an arithmetic shift, is above them.
ASSUME ShiftAmounts == \A n \in {W, WordBits} : 2^W % n = 0 /\ 2^10 % n = 0

opcodeOf(i) ==
  CASE i.op = "INT"    -> IF i.fn \in wide THEN OP_INTW ELSE OP_INT
    [] i.op = "INTIMM" -> IF i.fn \in wide THEN OP_INTIMMW ELSE OP_INTIMM
    [] i.op = "LOAD"   -> OP_LOAD
    [] i.op = "STORE"  -> OP_STORE
    [] i.op = "BRANCH" -> OP_BRANCH
    [] i.op = "JALR"   -> OP_JALR
    [] i.op = "JAL"    -> OP_JAL
    [] i.op = "UPPER"  -> IF i.fn = "LUI" THEN OP_LUI ELSE OP_AUIPC

funct3Of(fn) ==
  CASE fn \in {"ADD", "SUB", "ADDW", "SUBW", "B", "BEQ"} -> 0
    [] fn \in {"SLL", "SLLW", "H", "BNE"}                -> 1
    [] fn \in {"SLT", "W"}                               -> 2
    [] fn \in {"SLTU", "D"}                              -> 3
    [] fn \in {"XOR", "BU", "BLT"}                       -> 4
    [] fn \in {"SRL", "SRA", "SRLW", "SRAW", "HU", "BGE"} -> 5
    [] fn \in {"OR", "WU", "BLTU"}                       -> 6
    [] fn \in {"AND", "BGEU"}                            -> 7

\* The pieces of the immediate, where each format has them: in place of rd, of
\* rs2 and of funct7.
rdPiece(i) ==
  CASE i.op = "STORE"  -> i.imm % 2^5
    [] i.op = "BRANCH" -> (i.imm % 2^5) + ((i.imm \div 2^11) % 2)
    [] OTHER           -> i.rd

rs2Piece(i) ==
  IF i.op \in {"INTIMM", "LOAD", "JALR"} THEN i.imm % 2^5 ELSE i.rs2

funct7Piece(i) ==
  LET selected == IF i.fn \in second THEN 32 ELSE 0
  IN  CASE i.op = "INT" -> selected
        [] i.op = "INTIMM" /\ i.fn \in shifts -> selected + (i.imm \div 2^5)
        [] i.op = "BRANCH" -> ((i.imm \div 2^12) % 2) * 2^6 + ((i.imm \div 2^5) % 2^6)
        [] OTHER -> (i.imm \div 2^5) % 2^7

\* bits 31 .. 12 of the formats that have their immediate there
upperPiece(i) ==
  IF i.op = "UPPER" THEN i.imm % 2^20
  ELSE ((i.imm \div 2^20) % 2) * 2^19 + ((i.imm \div 2) % 2^10) * 2^9
         + ((i.imm \div 2^11) % 2) * 2^8 + ((i.imm \div 2^12) % 2^8)

assemble(i) ==
  IF i.op \in {"UPPER", "JAL"}
    THEN LET bits == upperPiece(i)
         IN  [opcode |-> opcodeOf(i), rd |-> i.rd, funct3 |-> bits % 2^3,
              rs1 |-> (bits \div 2^3) % 2^5, rs2 |-> (bits \div 2^8) % 2^5,
              funct7 |-> bits \div 2^13]
    ELSE [opcode |-> opcodeOf(i), rd |-> rdPiece(i), funct3 |-> funct3Of(i.fn),
          rs1 |-> i.rs1, rs2 |-> rs2Piece(i), funct7 |-> funct7Piece(i)]

-----------------------------------------------------------------------------
\* the word Machine and Datapath have for w
asMachine(w) ==
  [op |-> IF isHaltWord(w) THEN "HALT"
          ELSE IF isNopWord(w) THEN "NOP"
          ELSE IF ~opcodeIsLegal(w)
            THEN IF w.opcode = OP_BRANCH THEN "ILLEGAL_BRANCH" ELSE "ILLEGAL"
          ELSE CASE w.opcode \in {OP_INT, OP_INTW} -> "INT"
                 [] w.opcode \in {OP_INTIMM, OP_INTIMMW} -> "INTIMM"
                 [] w.opcode = OP_LOAD -> "LOAD"
                 [] w.opcode = OP_STORE -> "STORE"
                 [] w.opcode = OP_BRANCH -> "BRANCH"
                 [] w.opcode = OP_JALR -> "JALR"
                 [] w.opcode = OP_JAL -> "JAL"
                 [] OTHER -> "UPPER",
   fn |-> operation(w), rd |-> w.rd, rs1 |-> w.rs1, rs2 |-> w.rs2,
   imm |-> Wrap(immediate(w))]

M == INSTANCE DatapathLaws WITH
       Word <- DWord, Reg <- 0 .. 31, Fn <- DFn, Insts <- {}, Programs <- {},
       Mems <- DMems, Plus4 <- DPlus4, ArithLogic <- DArithLogic,
       NextPC <- DNextPC, AddrGen <- DAddrGen, MemGet <- DMemGet, MemSet <- DMemSet

\* the flags of a struct Instruction before simDecode
NoFlags ==
  [isHalt |-> FALSE, isNop |-> FALSE, isLegal |-> FALSE, doesArithLogic |-> FALSE,
   writesRd |-> FALSE, readsRs1 |-> FALSE, readsRs2 |-> FALSE,
   readsMem |-> FALSE, writesMem |-> FALSE]

Init ==
  /\ \/ meant \in Assembled /\ word = assemble(meant)
     \/ meant = NoInstruction /\ word \in Raw
  /\ stage = "IF"
  /\ inst = NoFlags
  /\ ops = [pc |-> 0, a |-> 0, b |-> 0]
  /\ result = 0
  /\ shown = [operation |-> "none", imm |-> 0]

Decode ==
  /\ stage = "IF" /\ stage' = "ID"
  /\ inst' = simDecode(word)
  /\ UNCHANGED <<meant, word, ops, result, shown>>

\* simEX of a decoded instruction
Execute ==
  /\ stage = "ID" /\ stage' = "EX"
  /\ inst.doesArithLogic
  /\ ops' \in Operands
  /\ result' = DArithLogic(asMachine(word), ops'.pc, ops'.a, ops'.b)
  /\ UNCHANGED <<meant, word, inst, shown>>

\* the dump of a stage that holds the word
PrintInstr ==
  /\ stage = "ID" /\ stage' = "printed"
  /\ ~isHaltWord(word) /\ ~isNopWord(word)
  /\ shown' = [operation |-> printedOperation(word), imm |-> printedImmediate(word)]
  /\ UNCHANGED <<meant, word, inst, ops, result>>

Next == Decode \/ Execute \/ PrintInstr

Spec == Init /\ [][Next]_vars

-----------------------------------------------------------------------------
(***************************************************************************)
(* What an operation does, bit by bit.                                     *)
(***************************************************************************)
carry(a, b, k)  == bit((a % 2^k) + (b % 2^k) >= 2^k)
borrow(a, b, k) == bit(a % 2^k < b % 2^k)

\* bit k of the operation on the low n bits of a and b
resultBit(fn, a, b, n, k) ==
  LET s == b % n
  IN  CASE fn = "ADD" -> (bitOf(a, k) + bitOf(b, k) + carry(a, b, k)) % 2
        [] fn = "SUB" -> (bitOf(a, k) + bitOf(b, k) + borrow(a, b, k)) % 2
        [] fn = "SLL" -> IF k >= s THEN bitOf(a, k - s) ELSE 0
        [] fn = "SRL" -> IF k + s < n THEN bitOf(a, k + s) ELSE 0
        [] fn = "SRA" -> bitOf(a, IF k + s < n THEN k + s ELSE n - 1)
        [] fn = "XOR" -> (bitOf(a, k) + bitOf(b, k)) % 2
        [] fn = "OR"  -> bit(bitOf(a, k) + bitOf(b, k) > 0)
        [] fn = "AND" -> bitOf(a, k) * bitOf(b, k)
        [] fn = "SLTU" -> bit(k = 0 /\ borrow(a, b, n) = 1)
        [] fn = "SLT"  -> bit(k = 0 /\ IF bitOf(a, n - 1) = bitOf(b, n - 1)
                                         THEN borrow(a, b, n) = 1
                                         ELSE bitOf(a, n - 1) = 1)

\* a W variant works on the low bits and copies its sign into the others
narrow == [ADDW |-> "ADD", SUBW |-> "SUB", SLLW |-> "SLL", SRLW |-> "SRL", SRAW |-> "SRA"]

meantBit(fn, a, b, k) ==
  IF fn \in wide
    THEN resultBit(narrow[fn], a, b, WordBits, IF k < WordBits THEN k ELSE WordBits - 1)
    ELSE resultBit(fn, a, b, W, k)

-----------------------------------------------------------------------------
\* the immediate the instruction works with: a shift has its low bits only
effective(i, imm) ==
  IF i.fn \in wide /\ i.fn \in shifts THEN imm % 2^5
  ELSE IF i.fn \in shifts THEN imm % 2^6 ELSE imm

\* the number an instruction of the upper format means by its twenty bits
upper(i) == i.imm * 2^12

\* bit k of that number
upperBit(i, k) == IF k < 12 THEN 0 ELSE bitOf(i.imm, k - 12)

isAssembled == meant # NoInstruction /\ ~isNopWord(word)

\* Every instruction an assembler makes is decoded as what it was made from:
\* the operation, and the immediate put together from its scattered bits, each
\* bit from its place and the sign over all above it, an upper one at bit 12.
DecodedAsAssembled ==
  isAssembled /\ stage # "IF" =>
    /\ inst.isLegal
    /\ asMachine(word).op = meant.op /\ operation(word) = meant.fn
    /\ meant.op # "INT" =>
         effective(meant, immediate(word)) =
           IF meant.op = "UPPER" THEN upper(meant) ELSE meant.imm

\* The models of the simulators start from decoded words: the flags simDecode
\* sets on a word, assembled or not, are those Machine has for its operation,
\* and simDecode accepts none that the switch of simArithLogic drops.
FlagsAreMachine ==
  stage # "IF" =>
    LET i == asMachine(word)
    IN  /\ inst.isHalt <=> M!isHalt(i)
        /\ inst.isLegal <=> M!isLegal(i)
        /\ inst.doesArithLogic <=> M!doesArithLogic(i)
        /\ inst.writesRd <=> M!writesRd(i)
        /\ inst.readsRs1 <=> M!readsRs1(i)
        /\ inst.readsRs2 <=> M!readsRs2(i)
        /\ inst.readsMem <=> M!readsMem(i)
        /\ inst.writesMem <=> M!writesMem(i)
        /\ (word.opcode = OP_BRANCH \/ word.opcode = OP_JALR) <=> M!controlOpcode(i)
        /\ inst.isLegal => operation(word) # "none"

\* What an instruction computes is, bit by bit, what its mnemonic means:
\* carries end at the width of the operation, W results carry their sign, shift
\* amounts are masked to the width; lui leaves twelve zeros below its immediate
\* and auipc adds that number to the PC; a jump links the address after its own.
ComputedAsMeant ==
  stage = "EX" /\ isAssembled =>
    \A k \in 0 .. W - 1 :
      bitOf(result, k) =
        CASE meant.op = "INT"    -> meantBit(meant.fn, ops.a, ops.b, k)
          [] meant.op = "INTIMM" -> meantBit(meant.fn, ops.a, Wrap(meant.imm), k)
          [] meant.fn = "LUI"    -> upperBit(meant, k)
          [] meant.fn = "AUIPC"  -> meantBit("ADD", ops.pc, Wrap(upper(meant)), k)
          [] meant.op \in {"JAL", "JALR"} -> meantBit("ADD", ops.pc, 4, k)

\* The operation the pipe state names and the immediate it shows are those the
\* simulator works with, and it shows ILLEGAL for the words that are; but for
\* addiw, which getOpString takes for a register instruction, and the upper
\* immediates, whose sign handleSpecial looks for in the wrong bit.
PrintedAsDecoded ==
  stage = "printed" =>
    /\ word.opcode # OP_INTIMMW \/ word.funct3 # FUNCT3_ADD =>
         /\ inst.isLegal <=> shown.operation # "ILLEGAL"
         /\ inst.isLegal =>
              operation(word) \in {shown.operation} \cup
                 { fn \in wide : narrow[fn] = shown.operation /\
                                 word.opcode \in {OP_INTW, OP_INTIMMW} }
    /\ isAssembled /\ meant.op \notin {"INT", "UPPER"} => shown.imm = meant.imm
=============================================================================

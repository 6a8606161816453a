------------------------------ MODULE Decoder ------------------------------
(***************************************************************************)
(* The bits of an instruction word: simDecode and the immediates and       *)
(* switches of simulator.cpp, and what Utilities.cpp prints of a word.     *)
(* A word is the record of its fields; extractBits works on the numbers    *)
(* the fields make up.                                                     *)
(***************************************************************************)
EXTENDS Integers

\* extractBits(n, start, end)
extractBits(n, start, end) == (n \div 2^end) % 2^(start - end + 1)

\* sext64(n, signBit), as the signed number it is; sext32 agrees with it on
\* the low 32 bits, all its caller keeps
sext(n, signBit) ==
  IF extractBits(n, signBit, signBit) = 1 THEN n - 2^(signBit + 1) ELSE n

OP_INT     == \b0110011
OP_INTW    == \b0111011
OP_LOAD    == \b0000011
OP_INTIMM  == \b0010011
OP_INTIMMW == \b0011011
OP_JALR    == \b1100111
OP_STORE   == \b0100011
OP_BRANCH  == \b1100011
OP_AUIPC   == \b0010111
OP_LUI     == \b0110111
OP_JAL     == \b1101111

FUNCT3_ADD == 0
FUNCT3_SLL == 1
FUNCT3_SR  == 5

\* FUNCT7_ADD and FUNCT7_LOGICAL, FUNCT7_SUB and FUNCT7_ARITH; a shift by an
\* immediate of six bits has only the upper six of them
FUNCT7_ADD == 0
FUNCT7_SUB == \b0100000

Field == [opcode : 0 .. 127, rd : 0 .. 31, funct3 : 0 .. 7,
          rs1 : 0 .. 31, rs2 : 0 .. 31, funct7 : 0 .. 127]

HaltField == [opcode |-> 109, rd |-> 29, funct3 |-> 7,
              rs1 |-> 27, rs2 |-> 14, funct7 |-> 127]    \* 0xfeedfeed
NopField  == [opcode |-> OP_INTIMM, rd |-> 0, funct3 |-> 0,
              rs1 |-> 0, rs2 |-> 0, funct7 |-> 0]        \* 0x00000013

imm12(w) == w.funct7 * 2^5 + w.rs2
imm20(w) == imm12(w) * 2^8 + w.rs1 * 2^3 + w.funct3
upperImm12(w) == extractBits(w.funct7, 6, 1)
-----------------------------------------------------------------------------
(***************************************************************************)
(* simDecode.                                                              *)
(***************************************************************************)
isHaltWord(w) == w = HaltField
isNopWord(w)  == w = NopField

\* mutant: the W shifts looked up like the others, by six bits
shiftIsLegal_SixBits(w) == upperImm12(w) \in {0, 16}

shiftIsLegal(w) ==
  IF w.opcode \in {OP_INTW, OP_INTIMMW}
    THEN w.funct7 \in {FUNCT7_ADD, FUNCT7_SUB}
    ELSE upperImm12(w) \in {0, 16}

\* mutant: funct7 not looked at
addIsLegal_Any(w) == TRUE

addIsLegal(w) ==
  w.opcode \in {OP_INTIMM, OP_INTIMMW} \/ w.funct7 \in {FUNCT7_ADD, FUNCT7_SUB}

\* the switch over the opcode, for any word but the two special ones
opcodeIsLegal(w) ==
  \/ /\ w.opcode \in {OP_INT, OP_INTIMM, OP_INTW, OP_INTIMMW}
     /\ w.funct3 = FUNCT3_ADD => addIsLegal(w)
     /\ w.funct3 = FUNCT3_SR => shiftIsLegal(w)
     /\ w.opcode \in {OP_INTW, OP_INTIMMW} =>
          w.funct3 \in {FUNCT3_ADD, FUNCT3_SLL, FUNCT3_SR}
  \/ w.opcode = OP_LOAD /\ w.funct3 # 7
  \/ w.opcode = OP_STORE /\ w.funct3 \in 0 .. 3
  \/ w.opcode = OP_BRANCH /\ w.funct3 \notin {2, 3}
  \/ w.opcode \in {OP_JALR, OP_AUIPC, OP_LUI, OP_JAL}

simDecode(w) ==
  LET plain == ~isHaltWord(w) /\ ~isNopWord(w) /\ opcodeIsLegal(w)
      any(S) == plain /\ w.opcode \in S
      R == {OP_INT, OP_INTW}
      I == {OP_INTIMM, OP_INTIMMW}
  IN  [isHalt         |-> isHaltWord(w),
       isNop          |-> isNopWord(w),
       isLegal        |-> isHaltWord(w) \/ isNopWord(w) \/ opcodeIsLegal(w),
       doesArithLogic |-> any(R \cup I \cup {OP_JALR, OP_AUIPC, OP_LUI, OP_JAL}),
       writesRd       |-> any(R \cup I \cup {OP_LOAD, OP_JALR, OP_AUIPC, OP_LUI, OP_JAL}),
       readsRs1       |-> any(R \cup I \cup {OP_LOAD, OP_STORE, OP_BRANCH, OP_JALR}),
       readsRs2       |-> any(R \cup {OP_STORE, OP_BRANCH}),
       readsMem       |-> any({OP_LOAD}),
       writesMem      |-> any({OP_STORE})]

-----------------------------------------------------------------------------
(***************************************************************************)
(* The immediates, and what the switches of simArithLogic, simMemAccess    *)
(* and simNextPCResolution select.                                         *)
(***************************************************************************)
immI(w) == sext(imm12(w), 11)
immS(w) == sext(w.funct7 * 2^5 + w.rd, 11)

\* mutant: bit 11 taken from the top of rd, where the S format has it
immB_LikeS(w) ==
  sext(extractBits(w.funct7, 6, 6) * 2^12 + extractBits(w.funct7, 5, 0) * 2^5
           + extractBits(w.rd, 3, 0) * 2 + extractBits(w.rd, 4, 4) * 2^11, 12)

immB(w) ==
  sext(extractBits(w.funct7, 6, 6) * 2^12 + extractBits(w.funct7, 5, 0) * 2^5
           + extractBits(w.rd, 4, 1) * 2 + extractBits(w.rd, 0, 0) * 2^11, 12)

immJ(w) ==
  sext(extractBits(imm20(w), 19, 19) * 2^20 + extractBits(imm20(w), 18, 9) * 2
           + extractBits(imm20(w), 8, 8) * 2^11 + extractBits(imm20(w), 7, 0) * 2^12,
         20)

\* mutant: the shift forgotten
immU_NoShift(w) == sext(imm20(w), 19)

\* sext64(imm20 << 12, 31); the sign is extended before the shift and not
\* after it, which keeps the number within 32 bits
immU(w) == sext(imm20(w), 19) * 2^12

immediate(w) ==
  CASE w.opcode = OP_STORE            -> immS(w)
    [] w.opcode = OP_BRANCH           -> immB(w)
    [] w.opcode = OP_JAL              -> immJ(w)
    [] w.opcode \in {OP_LUI, OP_AUIPC} -> immU(w)
    [] OTHER                          -> immI(w)

intNames    == <<"ADD", "SLL", "SLT", "SLTU", "XOR", "SR", "OR", "AND">>
memNames    == <<"B", "H", "W", "D", "BU", "HU", "WU">>
branchNames == <<"BEQ", "BNE", "none", "none", "BLT", "BGE", "BLTU", "BGEU">>

\* The operation of an integer instruction: the switch over funct3, and for
\* two of its cases over funct7 or the upper bits of the immediate.  "none" is
\* an operation none of them selects, which leaves arithResult at 0.
intOperation(w) ==
  CASE w.funct3 = FUNCT3_ADD ->
         IF w.opcode \in {OP_INTIMM, OP_INTIMMW} \/ w.funct7 = FUNCT7_ADD THEN "ADD"
         ELSE IF w.funct7 = FUNCT7_SUB THEN "SUB" ELSE "none"
    [] w.funct3 = FUNCT3_SR ->
         IF upperImm12(w) = 0 THEN "SRL"
         ELSE IF upperImm12(w) = 16 THEN "SRA" ELSE "none"
    [] OTHER -> intNames[w.funct3 + 1]

\* the W variants exist for three values of funct3
intOperationW(w) ==
  IF w.funct3 \notin {FUNCT3_ADD, FUNCT3_SLL, FUNCT3_SR} THEN "none"
  ELSE CASE intOperation(w) = "ADD" -> "ADDW" [] intOperation(w) = "SUB" -> "SUBW"
         [] intOperation(w) = "SLL" -> "SLLW" [] intOperation(w) = "SRL" -> "SRLW"
         [] intOperation(w) = "SRA" -> "SRAW" [] OTHER -> "none"

\* simMemAccess takes everything it has no other size for as a double word
operation(w) ==
  CASE w.opcode \in {OP_INT, OP_INTIMM}   -> intOperation(w)
    [] w.opcode \in {OP_INTW, OP_INTIMMW} -> intOperationW(w)
    [] w.opcode \in {OP_LOAD, OP_STORE}   -> IF w.funct3 = 7 THEN "D"
                                             ELSE memNames[w.funct3 + 1]
    [] w.opcode = OP_BRANCH               -> branchNames[w.funct3 + 1]
    [] w.opcode = OP_LUI                  -> "LUI"
    [] w.opcode = OP_AUIPC                -> "AUIPC"
    [] OTHER                              -> "ADD"

-----------------------------------------------------------------------------
(***************************************************************************)
(* What printInstr shows of a word that is neither special: the operation  *)
(* getOpString names after the opcode, and the immediate.                  *)
(***************************************************************************)
printedInt(w) ==
  CASE w.funct3 = FUNCT3_ADD ->
         IF w.opcode = OP_INTIMM \/ w.funct7 = FUNCT7_ADD THEN "ADD"
         ELSE IF w.funct7 = FUNCT7_SUB THEN "SUB" ELSE "ILLEGAL"
    [] w.funct3 = FUNCT3_SR ->
         LET kind == IF w.opcode \in {OP_INTW, OP_INTIMMW}
                       THEN w.funct7 ELSE 2 * upperImm12(w)
         IN  IF kind = FUNCT7_ADD THEN "SRL"
             ELSE IF kind = FUNCT7_SUB THEN "SRA" ELSE "ILLEGAL"
    [] OTHER ->
         IF w.opcode \in {OP_INTW, OP_INTIMMW} /\ w.funct3 # FUNCT3_SLL
           THEN "ILLEGAL" ELSE intNames[w.funct3 + 1]

printedOperation(w) ==
  CASE w.opcode \in {OP_INT, OP_INTIMM, OP_INTW, OP_INTIMMW} -> printedInt(w)
    [] w.opcode = OP_LOAD ->
         IF w.funct3 = 7 THEN "ILLEGAL" ELSE memNames[w.funct3 + 1]
    [] w.opcode = OP_STORE ->
         IF w.funct3 \in 0 .. 3 THEN memNames[w.funct3 + 1] ELSE "ILLEGAL"
    [] w.opcode = OP_BRANCH ->
         IF w.funct3 \in {2, 3} THEN "ILLEGAL" ELSE branchNames[w.funct3 + 1]
    [] w.opcode = OP_LUI -> "LUI"
    [] w.opcode = OP_AUIPC -> "AUIPC"
    [] w.opcode \in {OP_JAL, OP_JALR} -> "ADD"
    [] OTHER -> "ILLEGAL"

\* sext64(imm20 << 12, 19), here in units of 2^12: bit 7 of imm20 decides, and
\* covers the bits above it or leaves them as they are
printedUpper(w) ==
  IF extractBits(imm20(w), 7, 7) = 1 THEN sext(imm20(w) % 2^8, 7) ELSE imm20(w)

printedImmediate(w) ==
  CASE w.opcode = OP_STORE  -> immS(w)
    [] w.opcode = OP_BRANCH -> immB(w)
    [] w.opcode = OP_JAL    -> immJ(w)
    [] w.opcode \in {OP_LUI, OP_AUIPC} -> printedUpper(w)
    [] OTHER -> IF w.opcode # OP_LOAD /\ w.funct3 \in {FUNCT3_SLL, FUNCT3_SR}
                  THEN imm12(w) % 2^6 ELSE immI(w)
=============================================================================

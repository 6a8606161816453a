---------------------------- MODULE WordsProofs ----------------------------
(***************************************************************************)
(* Proofs about Words and about the data path.  WordsInv says of each      *)
(* stage what it has computed; what it implies is arithmetic: on the       *)
(* pieces of a word for the decoder, and on single bits of sums, shifts    *)
(* and signed numbers, at every width, for simArithLogic.                  *)
(***************************************************************************)
EXTENDS Words, WellFoundedInduction, TLAPS

-----------------------------------------------------------------------------
(* Quotients and remainders. *)

\* A number is its quotient and its remainder.
LEMMA DivMod ==
  ASSUME NEW n \in Int, NEW p \in Nat \ {0}
  PROVE  n \div p \in Int /\ n % p \in 0 .. p - 1 /\ n = (n \div p) * p + (n % p)
BY SMT

\* They are the only ones.
LEMMA DivModIs ==
  ASSUME NEW p \in Nat \ {0}, NEW q \in Int, NEW r \in Nat, r < p
  PROVE  (q * p + r) \div p = q /\ (q * p + r) % p = r
BY SMT

-----------------------------------------------------------------------------
(* The immediates: each format's pieces, put together again. *)

\* Sign extension from the top bit of twelve.
LEMMA Sext12 ==
  ASSUME NEW n \in Nat, n < 4096
  PROVE  sext(n, 11) = IF n >= 2048 THEN n - 4096 ELSE n
BY SMT DEF sext, extractBits

\* Sign extension from the top bit of thirteen.
LEMMA Sext13 ==
  ASSUME NEW n \in Nat, n < 8192
  PROVE  sext(n, 12) = IF n >= 4096 THEN n - 8192 ELSE n
BY SMT DEF sext, extractBits

\* Sign extension from the top bit of twenty.
LEMMA Sext20 ==
  ASSUME NEW n \in Nat, n < 1048576
  PROVE  sext(n, 19) = IF n >= 524288 THEN n - 1048576 ELSE n
BY SMT DEF sext, extractBits

\* Sign extension from the top bit of twenty-one.
LEMMA Sext21 ==
  ASSUME NEW n \in Nat, n < 2097152
  PROVE  sext(n, 20) = IF n >= 1048576 THEN n - 2097152 ELSE n
BY SMT DEF sext, extractBits

\* A signed number of twelve bits survives the cut into seven and five.
LEMMA Split12 ==
  ASSUME NEW k, fitsSigned(k, 12)
  PROVE  /\ ((k \div 32) % 128) * 32 + (k % 32) = IF k < 0 THEN k + 4096 ELSE k
BY SMT DEF fitsSigned

\* The branch format: bits 12, 10..5 of the immediate in funct7, 4..1 and 11 in
\* rd; put together again they are a signed number of thirteen bits.
LEMMA Split13 ==
  ASSUME NEW k, fitsSigned(k, 13), k % 2 = 0,
         NEW f, f = ((k \div 4096) % 2) * 64 + ((k \div 32) % 64),
         NEW r, r = (k % 32) + ((k \div 2048) % 2)
  PROVE  /\ f \in 0 .. 127 /\ r \in 0 .. 31
         /\ extractBits(f, 6, 6) * 4096 + extractBits(f, 5, 0) * 32
              + extractBits(r, 4, 1) * 2 + extractBits(r, 0, 0) * 2048
              = IF k < 0 THEN k + 8192 ELSE k
<1>1. k \in Int /\ -4096 <= k /\ k < 4096
  BY SMT DEF fitsSigned
<1>2. PICK j \in Int : k = 2 * j
  BY <1>1, SMT
<1>3. f \in 0 .. 127 /\ r \in 0 .. 31
  BY <1>1, SMT
<1>4. /\ extractBits(f, 6, 6) = (k \div 4096) % 2
      /\ extractBits(f, 5, 0) = (k \div 32) % 64
  BY <1>1, <1>3, SMT DEF extractBits
<1>5. /\ extractBits(r, 4, 1) = (k % 32) \div 2
      /\ extractBits(r, 0, 0) = (k \div 2048) % 2
  BY <1>1, <1>2, <1>3, SMT DEF extractBits
<1>6. ((k \div 4096) % 2) * 4096 + ((k \div 32) % 64) * 32
        + ((k % 32) \div 2) * 2 + ((k \div 2048) % 2) * 2048
        = IF k < 0 THEN k + 8192 ELSE k
  BY <1>1, <1>2, SMT
<1> QED BY <1>3, <1>4, <1>5, <1>6, SMT

\* The cut of twenty bits into funct3, rs1, rs2 and funct7.
isCut(n, a, b, c, t) ==
  a = n % 8 /\ b = (n \div 8) % 32 /\ c = (n \div 256) % 32 /\ t = n \div 8192

\* The four pieces fit their fields and make up the twenty bits.
LEMMA Join20 ==
  ASSUME NEW n \in Nat, n < 1048576, NEW a, NEW b, NEW c, NEW t, isCut(n, a, b, c, t)
  PROVE  /\ a \in 0 .. 7 /\ b \in 0 .. 31 /\ c \in 0 .. 31 /\ t \in 0 .. 127
         /\ (t * 32 + c) * 256 + b * 8 + a = n
<1>0. /\ a = n % 8 /\ b = (n \div 8) % 32 /\ c = (n \div 256) % 32
      /\ t = n \div 8192
  BY SMT DEF isCut
<1>1. PICK q \in Nat : q = n \div 8 /\ n = q * 8 + a /\ a \in 0 .. 7
  BY <1>0, SMT
<1>2. PICK r \in Nat : q = r * 32 + b /\ b \in 0 .. 31
  <2>1. (q \div 32) \in Nat /\ q = (q \div 32) * 32 + b /\ b \in 0 .. 31
    BY <1>0, <1>1, SMT
  <2> QED BY <2>1
<1>3. n \div 256 = r
  BY <1>1, <1>2, SMT
<1>4. r = (r \div 32) * 32 + c /\ c \in 0 .. 31 /\ r \div 32 \in Nat
  BY <1>0, <1>2, <1>3, SMT
<1>5. t = r \div 32
  <2>1. PICK u \in Nat : u = r \div 32
    BY <1>4
  <2>2. /\ c * 256 + b * 8 + a \in Nat /\ c * 256 + b * 8 + a < 8192
        /\ n = u * 8192 + (c * 256 + b * 8 + a)
    BY <1>1, <1>2, <1>4, <2>1, SMT
  <2>3. \A x \in Nat : n = u * 8192 + x /\ x < 8192 => n \div 8192 = u
    BY DivModIs, SMT
  <2> QED BY <1>0, <2>1, <2>2, <2>3, SMT
<1>6. (t * 32 + c) * 256 + b * 8 + a = n /\ t \in Nat
  BY <1>1, <1>2, <1>4, <1>5, SMT
<1>7. t < 128
  BY <1>1, <1>2, <1>4, <1>6, SMT
<1> QED BY <1>1, <1>2, <1>4, <1>6, <1>7, SMT

\* A signed number of twenty bits, in two's complement.
LEMMA Split20 ==
  ASSUME NEW k, fitsSigned(k, 20)
  PROVE  /\ k % 1048576 = IF k < 0 THEN k + 1048576 ELSE k
         /\ k % 1048576 \in Nat /\ k % 1048576 < 1048576
BY SMT DEF fitsSigned

\* The jump format: bits 20, 10..1, 11 and 19..12 of the immediate, put together
\* again, are a signed number of twenty-one bits.
LEMMA Split21 ==
  ASSUME NEW k, fitsSigned(k, 21), k % 2 = 0,
         NEW n, n = ((k \div 1048576) % 2) * 524288 + ((k \div 2) % 1024) * 512
                       + ((k \div 2048) % 2) * 256 + ((k \div 4096) % 256)
  PROVE  /\ n \in Nat /\ n < 1048576
         /\ extractBits(n, 19, 19) * 1048576 + extractBits(n, 18, 9) * 2
              + extractBits(n, 8, 8) * 2048 + extractBits(n, 7, 0) * 4096
              = IF k < 0 THEN k + 2097152 ELSE k
<1>1. k \in Int /\ -1048576 <= k /\ k < 1048576
  BY SMT DEF fitsSigned
<1>2. PICK j \in Int : k = 2 * j
  BY <1>1, SMT
<1> DEFINE s == (k \div 1048576) % 2
           m == (k \div 2) % 1024
           b == (k \div 2048) % 2
           h == (k \div 4096) % 256
<1>3. s \in 0 .. 1 /\ m \in 0 .. 1023 /\ b \in 0 .. 1 /\ h \in 0 .. 255
  BY <1>1, SMT
<1>4. s * 1048576 + m * 2 + b * 2048 + h * 4096 = IF k < 0 THEN k + 2097152 ELSE k
  BY <1>1, <1>2, SMT
<1>5. n = s * 524288 + m * 512 + b * 256 + h
  OBVIOUS
<1> HIDE DEF s, m, b, h
<1>6. n \in Nat /\ n < 1048576
  <2>1. s = 0 \/ s = 1
    BY <1>3, SMT
  <2> QED BY <1>3, <1>5, <2>1, SMT
<1>7. /\ n \div 524288 = s /\ n \div 512 = s * 1024 + m
      /\ n \div 256 = s * 2048 + m * 2 + b
  BY <1>3, <1>5, SMT
<1>8. /\ (n \div 524288) % 2 = s /\ (n \div 512) % 1024 = m
      /\ (n \div 256) % 2 = b
  BY <1>3, <1>7, SMT
<1>10. n % 256 = h
  BY <1>3, <1>5, SMT
<1>9. /\ extractBits(n, 19, 19) = s /\ extractBits(n, 18, 9) = m
      /\ extractBits(n, 8, 8) = b /\ extractBits(n, 7, 0) = h
  BY <1>6, <1>8, <1>10, SMT DEF extractBits
<1> QED BY <1>4, <1>6, <1>9, SMT
-----------------------------------------------------------------------------
(* What an assembler makes is decoded as what it was made from. *)

\* The opcodes as numbers.
LEMMA Opcodes ==
  /\ OP_INT = 51 /\ OP_INTW = 59 /\ OP_LOAD = 3 /\ OP_INTIMM = 19 /\ OP_INTIMMW = 27
  /\ OP_JALR = 103 /\ OP_STORE = 35 /\ OP_BRANCH = 99 /\ OP_AUIPC = 23
  /\ OP_LUI = 55 /\ OP_JAL = 111
BY SMT DEF OP_INT, OP_INTW, OP_LOAD, OP_INTIMM, OP_INTIMMW, OP_JALR, OP_STORE,
           OP_BRANCH, OP_AUIPC, OP_LUI, OP_JAL

\* What the formats have in common.
LEMMA Formats ==
  ASSUME NEW i, isInstruction(i)
  PROVE  /\ i.op \in {"INT", "INTIMM", "LOAD", "STORE", "BRANCH", "JALR", "JAL", "UPPER"}
         /\ i.rd \in 0 .. 31 /\ i.rs1 \in 0 .. 31 /\ i.rs2 \in 0 .. 31
         /\ i.op = "UPPER" => i.fn \in {"LUI", "AUIPC"}
         /\ i.op \in {"INT", "INTIMM"} => i.fn \notin {"LUI", "AUIPC"}
BY SMT DEF isInstruction, basic, wide, shifts

\* The opcode of an instruction is that of its operation, or of its W variant.
LEMMA OpcodeIs ==
  ASSUME NEW i, isInstruction(i)
  PROVE  /\ i.op = "INT" => opcodeOf(i) = IF i.fn \in wide THEN OP_INTW ELSE OP_INT
         /\ i.op = "INTIMM" =>
              opcodeOf(i) = IF i.fn \in wide THEN OP_INTIMMW ELSE OP_INTIMM
         /\ i.op = "LOAD" => opcodeOf(i) = OP_LOAD
         /\ i.op = "STORE" => opcodeOf(i) = OP_STORE
         /\ i.op = "BRANCH" => opcodeOf(i) = OP_BRANCH
         /\ i.op = "JALR" => opcodeOf(i) = OP_JALR
         /\ i.op = "JAL" => opcodeOf(i) = OP_JAL
         /\ i.op = "UPPER" =>
              opcodeOf(i) = IF i.fn = "LUI" THEN OP_LUI ELSE OP_AUIPC
         /\ opcodeOf(i) \in 0 .. 127
<1>1. CASE i.op = "INT"
  BY <1>1, Opcodes, SMT DEF opcodeOf
<1>2. CASE i.op = "INTIMM"
  BY <1>2, Opcodes, SMT DEF opcodeOf
<1>3. CASE i.op \in {"LOAD", "STORE", "BRANCH", "JALR", "JAL"}
  BY <1>3, Opcodes, SMT DEF opcodeOf
<1>4. CASE i.op = "UPPER"
  BY <1>4, Formats, Opcodes, SMT DEF opcodeOf
<1> QED BY <1>1, <1>2, <1>3, <1>4, Formats

\* The upper formats: the fields are the pieces of twenty bits.
LEMMA AssembledUpper ==
  ASSUME NEW i, isInstruction(i), i.op \in {"UPPER", "JAL"}
  PROVE  /\ assemble(i) \in Field /\ assemble(i).opcode = opcodeOf(i)
         /\ imm20(assemble(i)) = upperPiece(i)
         /\ upperPiece(i) \in Nat /\ upperPiece(i) < 1048576
<1> DEFINE n == upperPiece(i)
<1>1. n \in Nat /\ n < 1048576
  <2>1. CASE i.op = "UPPER"
    BY <2>1, Split20, SMT DEF isInstruction, upperPiece
  <2>2. CASE i.op = "JAL"
    BY <2>2, Split21, SMT DEF isInstruction, upperPiece
  <2> QED BY <2>1, <2>2
<1>2. assemble(i) = [opcode |-> opcodeOf(i), rd |-> i.rd, funct3 |-> n % 8,
                     rs1 |-> (n \div 8) % 32, rs2 |-> (n \div 256) % 32,
                     funct7 |-> n \div 8192]
  BY SMT DEF assemble
<1> HIDE DEF n
<1>3. PICK a, b, c, t : isCut(n, a, b, c, t)
  BY SMT DEF isCut
<1>4. assemble(i) = [opcode |-> opcodeOf(i), rd |-> i.rd, funct3 |-> a,
                     rs1 |-> b, rs2 |-> c, funct7 |-> t]
  BY <1>2, <1>3, SMT DEF isCut
<1>7. /\ a \in 0 .. 7 /\ b \in 0 .. 31 /\ c \in 0 .. 31 /\ t \in 0 .. 127
      /\ (t * 32 + c) * 256 + b * 8 + a = n
  BY <1>1, <1>3, Join20, SMT
<1>5. assemble(i) \in Field
  BY <1>4, <1>7, OpcodeIs, Formats DEF Field
<1>6. imm20(assemble(i)) = (t * 32 + c) * 256 + b * 8 + a
  BY <1>4, SMT DEF imm20, imm12
<1> QED BY <1>1, <1>4, <1>5, <1>6, <1>7, SMT DEF n
\* The other formats: the registers are their own, and the pieces of the
\* immediate fit their places.
LEMMA AssembledPlain ==
  ASSUME NEW i, isInstruction(i), i.op \notin {"UPPER", "JAL"}
  PROVE  /\ assemble(i) = [opcode |-> opcodeOf(i), rd |-> rdPiece(i),
                           funct3 |-> funct3Of(i.fn), rs1 |-> i.rs1,
                           rs2 |-> rs2Piece(i), funct7 |-> funct7Piece(i)]
         /\ assemble(i) \in Field
<1>1. funct3Of(i.fn) \in 0 .. 7
  BY SMT DEF isInstruction, basic, wide, shifts, loads, stores, branches, funct3Of
<1>2. rdPiece(i) \in 0 .. 31
  <2>1. CASE i.op = "STORE"
    BY <2>1, SMT DEF isInstruction, fitsSigned, rdPiece
  <2>2. CASE i.op = "BRANCH"
    BY <2>2, Split13, SMT DEF isInstruction, rdPiece
  <2>3. CASE i.op \notin {"STORE", "BRANCH"}
    BY <2>3, Formats, SMT DEF rdPiece
  <2> QED BY <2>1, <2>2, <2>3
<1>3. i.imm \in Int
  BY SMT DEF isInstruction, fitsSigned
<1>4. rs2Piece(i) \in 0 .. 31
  BY <1>3, Formats, SMT DEF rs2Piece
<1>5. funct7Piece(i) \in 0 .. 127
  <2>1. CASE i.op = "BRANCH"
    BY <2>1, Split13, SMT DEF isInstruction, funct7Piece
  <2>2. CASE i.op = "INTIMM" /\ i.fn \in shifts
    BY <2>2, SMT DEF isInstruction, funct7Piece, shifts, basic
  <2>3. CASE i.op = "INT"
    BY <2>3, SMT DEF funct7Piece
  <2>4. CASE i.op \notin {"BRANCH", "INT"} /\ ~(i.op = "INTIMM" /\ i.fn \in shifts)
    BY <1>3, <2>4, SMT DEF funct7Piece
  <2> QED BY <2>1, <2>2, <2>3, <2>4
<1> QED BY <1>1, <1>2, <1>4, <1>5, OpcodeIs, Formats DEF assemble, Field

-----------------------------------------------------------------------------
(* The immediates simDecode's users put together are those assembled. *)

\* The I format, but for the shifts.
LEMMA ImmediateI ==
  ASSUME NEW i, isInstruction(i),
         i.op \in {"LOAD", "JALR"} \/ (i.op = "INTIMM" /\ i.fn \notin shifts)
  PROVE  immediate(assemble(i)) = i.imm
<1> DEFINE k == i.imm
<1>1. fitsSigned(k, 12)
  BY SMT DEF isInstruction, shifts, basic
<1>2. k \in Int /\ -2048 <= k /\ k < 2048
  BY <1>1, SMT DEF fitsSigned
<1>3. /\ assemble(i).funct7 = (k \div 32) % 128 /\ assemble(i).rs2 = k % 32
      /\ assemble(i).opcode \notin {OP_STORE, OP_BRANCH, OP_JAL, OP_LUI, OP_AUIPC}
  BY AssembledPlain, OpcodeIs, Opcodes, SMT DEF funct7Piece, rs2Piece
<1>4. imm12(assemble(i)) = IF k < 0 THEN k + 4096 ELSE k
  BY <1>1, <1>3, Split12, SMT DEF imm12
<1>5. immediate(assemble(i)) = sext(imm12(assemble(i)), 11)
  BY <1>3, SMT DEF immediate, immI
<1> HIDE DEF k
<1>6. sext(imm12(assemble(i)), 11) = k
  BY <1>2, <1>4, Sext12, SMT
<1> QED BY <1>5, <1>6 DEF k

\* A shift by an immediate: bit 10 tells the arithmetic one.
LEMMA ImmediateShift ==
  ASSUME NEW i, isInstruction(i), i.op = "INTIMM", i.fn \in shifts
  PROVE  /\ i.imm \in 0 .. 63 /\ (i.fn \in wide => i.imm \in 0 .. 31)
         /\ immediate(assemble(i)) = i.imm + IF i.fn \in second THEN 1024 ELSE 0
         /\ imm12(assemble(i)) = immediate(assemble(i))
<1> DEFINE k == i.imm
<1>1. k \in 0 .. 63 /\ (i.fn \in wide => k \in 0 .. 31)
  BY SMT DEF isInstruction, shifts, basic, wide
<1>3. /\ assemble(i).funct7 = (IF i.fn \in second THEN 32 ELSE 0) + (k \div 32)
      /\ assemble(i).rs2 = k % 32
      /\ assemble(i).opcode \notin {OP_STORE, OP_BRANCH, OP_JAL, OP_LUI, OP_AUIPC}
  BY AssembledPlain, OpcodeIs, Opcodes, SMT DEF funct7Piece, rs2Piece
<1>4. imm12(assemble(i)) = k + IF i.fn \in second THEN 1024 ELSE 0
  BY <1>1, <1>3, SMT DEF imm12
<1>5. immediate(assemble(i)) = sext(imm12(assemble(i)), 11)
  BY <1>3, SMT DEF immediate, immI
<1> HIDE DEF k
<1>6. sext(imm12(assemble(i)), 11) = imm12(assemble(i))
  BY <1>1, <1>4, Sext12, SMT
<1> QED BY <1>1, <1>4, <1>5, <1>6 DEF k

\* The S format.
LEMMA ImmediateS ==
  ASSUME NEW i, isInstruction(i), i.op = "STORE"
  PROVE  immediate(assemble(i)) = i.imm
<1> DEFINE k == i.imm
<1>1. fitsSigned(k, 12)
  BY SMT DEF isInstruction
<1>2. k \in Int /\ -2048 <= k /\ k < 2048
  BY <1>1, SMT DEF fitsSigned
<1>3. /\ assemble(i).funct7 = (k \div 32) % 128 /\ assemble(i).rd = k % 32
      /\ assemble(i).opcode = OP_STORE
  BY AssembledPlain, OpcodeIs, SMT DEF funct7Piece, rdPiece
<1>6. immediate(assemble(i)) = immS(assemble(i))
  BY <1>3, Opcodes, SMT DEF immediate
<1>4. immediate(assemble(i)) = sext(IF k < 0 THEN k + 4096 ELSE k, 11)
  BY <1>1, <1>3, <1>6, Split12, SMT DEF immS
<1> HIDE DEF k
<1>5. sext(IF k < 0 THEN k + 4096 ELSE k, 11) = k
  BY <1>2, Sext12, SMT
<1> QED BY <1>4, <1>5 DEF k

\* The B format.
LEMMA ImmediateB ==
  ASSUME NEW i, isInstruction(i), i.op = "BRANCH"
  PROVE  immediate(assemble(i)) = i.imm
<1> DEFINE k == i.imm
           f == funct7Piece(i)
           r == rdPiece(i)
<1>1. fitsSigned(k, 13) /\ k % 2 = 0
  BY SMT DEF isInstruction
<1>2. k \in Int /\ -4096 <= k /\ k < 4096
  BY <1>1, SMT DEF fitsSigned
<1>3. /\ f = ((k \div 4096) % 2) * 64 + ((k \div 32) % 64)
      /\ r = (k % 32) + ((k \div 2048) % 2)
  BY SMT DEF funct7Piece, rdPiece
<1>4. extractBits(f, 6, 6) * 4096 + extractBits(f, 5, 0) * 32
        + extractBits(r, 4, 1) * 2 + extractBits(r, 0, 0) * 2048
        = IF k < 0 THEN k + 8192 ELSE k
  <2> HIDE DEF f, r, k
  <2> QED BY <1>1, <1>3, Split13, SMT
<1>5. /\ assemble(i).funct7 = f /\ assemble(i).rd = r
      /\ assemble(i).opcode = OP_BRANCH /\ OP_BRANCH # OP_STORE
  BY AssembledPlain, OpcodeIs, Opcodes, SMT
<1> HIDE DEF f, r, k
<1>6. immediate(assemble(i)) =
        sext(extractBits(f, 6, 6) * 4096 + extractBits(f, 5, 0) * 32
               + extractBits(r, 4, 1) * 2 + extractBits(r, 0, 0) * 2048, 12)
  <2>1. immediate(assemble(i)) = immB(assemble(i))
    BY <1>5, Opcodes, SMT DEF immediate
  <2> QED BY <1>5, <2>1, SMT DEF immB
<1>7. sext(IF k < 0 THEN k + 8192 ELSE k, 12) = k
  BY <1>2, Sext13, SMT
<1> QED BY <1>4, <1>6, <1>7, SMT DEF k

\* The J format.
LEMMA ImmediateJ ==
  ASSUME NEW i, isInstruction(i), i.op = "JAL"
  PROVE  immediate(assemble(i)) = i.imm
<1> DEFINE k == i.imm
           n == upperPiece(i)
<1>1. fitsSigned(k, 21) /\ k % 2 = 0
  BY SMT DEF isInstruction
<1>2. k \in Int /\ -1048576 <= k /\ k < 1048576
  BY <1>1, SMT DEF fitsSigned
<1>3. n = ((k \div 1048576) % 2) * 524288 + ((k \div 2) % 1024) * 512
            + ((k \div 2048) % 2) * 256 + ((k \div 4096) % 256)
  BY SMT DEF upperPiece
<1>4. extractBits(n, 19, 19) * 1048576 + extractBits(n, 18, 9) * 2
        + extractBits(n, 8, 8) * 2048 + extractBits(n, 7, 0) * 4096
        = IF k < 0 THEN k + 2097152 ELSE k
  <2> HIDE DEF n, k
  <2> QED BY <1>1, <1>3, Split21, SMT
<1>5. /\ imm20(assemble(i)) = n /\ assemble(i).opcode = OP_JAL
      /\ OP_JAL \notin {OP_STORE, OP_BRANCH}
  BY AssembledUpper, OpcodeIs, Opcodes, SMT
<1> HIDE DEF n, k
<1>6. immediate(assemble(i)) =
        sext(extractBits(n, 19, 19) * 1048576 + extractBits(n, 18, 9) * 2
               + extractBits(n, 8, 8) * 2048 + extractBits(n, 7, 0) * 4096, 20)
  <2>1. immediate(assemble(i)) = immJ(assemble(i))
    BY <1>5, Opcodes, SMT DEF immediate
  <2> QED BY <1>5, <2>1, SMT DEF immJ
<1>7. sext(IF k < 0 THEN k + 2097152 ELSE k, 20) = k
  BY <1>2, Sext21, SMT
<1> QED BY <1>4, <1>6, <1>7, SMT DEF k

\* The U format: twenty bits, moved to the upper end of the word.
LEMMA ImmediateU ==
  ASSUME NEW i, isInstruction(i), i.op = "UPPER"
  PROVE  immediate(assemble(i)) = upper(i)
<1> DEFINE k == i.imm
<1>1. fitsSigned(k, 20) /\ i.fn \in {"LUI", "AUIPC"}
  BY SMT DEF isInstruction
<1>2. k \in Int /\ -524288 <= k /\ k < 524288
  BY <1>1, SMT DEF fitsSigned
<1>3. upperPiece(i) = IF k < 0 THEN k + 1048576 ELSE k
  BY <1>1, Split20, SMT DEF upperPiece
<1>4. /\ imm20(assemble(i)) = upperPiece(i)
      /\ assemble(i).opcode \in {OP_LUI, OP_AUIPC}
      /\ assemble(i).opcode \notin {OP_STORE, OP_BRANCH, OP_JAL}
  BY <1>1, AssembledUpper, OpcodeIs, Opcodes, SMT
<1>5. immediate(assemble(i)) = sext(upperPiece(i), 19) * 2^12
  BY <1>4, SMT DEF immediate, immU
<1> HIDE DEF k
<1>6. sext(IF k < 0 THEN k + 1048576 ELSE k, 19) = k
  BY <1>2, Sext20, SMT
<1>7. immediate(assemble(i)) = k * 2^12
  BY <1>3, <1>5, <1>6, SMT
<1> QED BY <1>7 DEF k, upper
-----------------------------------------------------------------------------
(* The operation an assembled word is decoded as. *)

\* One lemma for each format: the fields, and with them the switches.
LEMMA OperationInt ==
  ASSUME NEW i, isInstruction(i), i.op \in {"INT", "INTIMM"}
  PROVE  opcodeIsLegal(assemble(i)) /\ operation(assemble(i)) = i.fn
<1> DEFINE w == assemble(i)
           W3 == {OP_INTW, OP_INTIMMW}
<1>1. /\ w.opcode = opcodeOf(i) /\ w.funct3 = funct3Of(i.fn)
      /\ w.funct7 = funct7Piece(i)
  BY AssembledPlain, SMT
<1>2. /\ w.opcode \in {OP_INT, OP_INTIMM, OP_INTW, OP_INTIMMW}
      /\ w.opcode \in W3 <=> i.fn \in wide
      /\ w.opcode \in {OP_INTIMM, OP_INTIMMW} <=> i.op = "INTIMM"
      /\ w.opcode \notin W3 <=> w.opcode \in {OP_INT, OP_INTIMM}
  BY <1>1, OpcodeIs, Opcodes, SMT
<1>3. /\ i.fn \in basic \cup {"SUB"} \cup wide
      /\ i.op = "INTIMM" => i.fn \notin {"SUB", "SUBW"}
  BY SMT DEF isInstruction, basic, wide, shifts
<1>4. /\ i.op = "INT" => w.funct7 = IF i.fn \in second THEN 32 ELSE 0
      /\ i.fn \in shifts /\ i.op = "INTIMM" =>
           \E d \in {0, 1} : /\ w.funct7 = d + IF i.fn \in second THEN 32 ELSE 0
                             /\ i.fn \in wide => d = 0
  <2>1. CASE i.op = "INT"
    BY <1>1, <2>1, SMT DEF funct7Piece
  <2>2. CASE i.op = "INTIMM" /\ i.fn \in shifts
    BY <1>1, <2>2, ImmediateShift, SMT DEF funct7Piece
  <2> QED BY <2>1, <2>2, Zenon
<1>5. /\ i.fn \in {"ADD", "SUB", "ADDW", "SUBW"} <=> w.funct3 = 0
      /\ i.fn \in {"SRL", "SRA", "SRLW", "SRAW"} <=> w.funct3 = 5
      /\ i.fn \in {"SLL", "SLLW"} <=> w.funct3 = 1
      /\ i.fn = "SLT" <=> w.funct3 = 2
      /\ i.fn = "SLTU" <=> w.funct3 = 3
      /\ i.fn = "XOR" <=> w.funct3 = 4
      /\ i.fn = "OR" <=> w.funct3 = 6
      /\ i.fn = "AND" <=> w.funct3 = 7
      /\ w.funct3 \in 0 .. 7
  <2>1. /\ i.fn \in {"ADD", "SUB", "ADDW", "SUBW"} => w.funct3 = 0
        /\ i.fn \in {"SLL", "SLLW"} => w.funct3 = 1
        /\ i.fn = "SLT" => w.funct3 = 2
        /\ i.fn = "SLTU" => w.funct3 = 3
    BY <1>1, SMT DEF funct3Of
  <2>2. /\ i.fn = "XOR" => w.funct3 = 4
        /\ i.fn \in {"SRL", "SRA", "SRLW", "SRAW"} => w.funct3 = 5
        /\ i.fn = "OR" => w.funct3 = 6
        /\ i.fn = "AND" => w.funct3 = 7
    BY <1>1, SMT DEF funct3Of
  <2> HIDE DEF w
  <2> QED BY <1>3, <2>1, <2>2, SMT DEF basic, wide
<1>6. w.funct3 = 5 =>
        /\ w.funct7 \in 0 .. 127
        /\ upperImm12(w) = IF i.fn \in second THEN 16 ELSE 0
        /\ i.fn \in wide => w.funct7 = IF i.fn \in second THEN 32 ELSE 0
  <2> SUFFICES ASSUME w.funct3 = 5
               PROVE  /\ w.funct7 \in 0 .. 127
                      /\ upperImm12(w) = IF i.fn \in second THEN 16 ELSE 0
                      /\ i.fn \in wide => w.funct7 = IF i.fn \in second THEN 32 ELSE 0
    OBVIOUS
  <2> HIDE DEF w
  <2>1. i.fn \in shifts
    BY <1>5, SMT DEF shifts
  <2>2. PICK d \in {0, 1} : /\ w.funct7 = d + IF i.fn \in second THEN 32 ELSE 0
                            /\ i.fn \in wide => d = 0
    BY <1>4, <2>1, SMT
  <2> QED BY <2>2, SMT DEF upperImm12, extractBits
<1> HIDE DEF w
<1>7. opcodeIsLegal(w)
  BY <1>2, <1>3, <1>4, <1>5, <1>6, SMT
     DEF opcodeIsLegal, addIsLegal, shiftIsLegal, second, wide, basic, FUNCT3_ADD,
         FUNCT3_SR, FUNCT3_SLL, FUNCT7_ADD, FUNCT7_SUB
<1>8. intOperation(w) =
        CASE i.fn = "ADDW" -> "ADD" [] i.fn = "SUBW" -> "SUB" [] i.fn = "SLLW" -> "SLL"
          [] i.fn = "SRLW" -> "SRL" [] i.fn = "SRAW" -> "SRA" [] OTHER -> i.fn
  <2>1. CASE w.funct3 = 0
    BY <1>2, <1>3, <1>4, <1>5, <2>1, SMT
       DEF intOperation, second, FUNCT3_ADD, FUNCT3_SR, FUNCT7_ADD, FUNCT7_SUB, wide
  <2>2. CASE w.funct3 = 5
    BY <1>5, <1>6, <2>2, SMT DEF intOperation, second, FUNCT3_ADD, FUNCT3_SR, wide
  <2>3. CASE w.funct3 \notin {0, 5}
    <3>1. intOperation(w) = intNames[w.funct3 + 1]
      BY <2>3, SMT DEF intOperation, FUNCT3_ADD, FUNCT3_SR
    <3> QED BY <1>3, <1>5, <2>3, <3>1, SMT DEF intNames, wide, basic
  <2> QED BY <2>1, <2>2, <2>3
<1>9. operation(w) = i.fn
  <2>1. CASE i.fn \in wide
    <3>1. w.funct3 \in {FUNCT3_ADD, FUNCT3_SLL, FUNCT3_SR}
      BY <1>5, <2>1, SMT DEF wide, FUNCT3_ADD, FUNCT3_SLL, FUNCT3_SR
    <3>2. operation(w) = intOperationW(w)
      BY <1>2, <2>1, Opcodes, SMT DEF operation
    <3> QED BY <1>8, <2>1, <3>1, <3>2, SMT DEF intOperationW, wide
  <2>2. CASE i.fn \notin wide
    <3>1. operation(w) = intOperation(w)
      BY <1>2, <2>2, Opcodes, SMT DEF operation
    <3> QED BY <1>8, <2>2, <3>1, SMT DEF wide
  <2> QED BY <2>1, <2>2
<1> QED BY <1>7, <1>9 DEF w

\* Loads and stores: the switch of simMemAccess finds the size and the sign.
LEMMA OperationMemory ==
  ASSUME NEW i, isInstruction(i), i.op \in {"LOAD", "STORE"}
  PROVE  opcodeIsLegal(assemble(i)) /\ operation(assemble(i)) = i.fn
<1> DEFINE w == assemble(i)
<1>1. /\ w.opcode = IF i.op = "LOAD" THEN OP_LOAD ELSE OP_STORE
      /\ w.funct3 = funct3Of(i.fn)
  BY AssembledPlain, OpcodeIs, SMT
<1>2. i.fn \in loads /\ (i.op = "STORE" => i.fn \in stores)
  BY SMT DEF isInstruction, loads, stores
<1>3. <<i.fn, w.funct3>> \in {<<"B", 0>>, <<"H", 1>>, <<"W", 2>>, <<"D", 3>>,
                              <<"BU", 4>>, <<"HU", 5>>, <<"WU", 6>>}
  <2>1. /\ i.fn = "B" => w.funct3 = 0
        /\ i.fn = "H" => w.funct3 = 1
        /\ i.fn = "W" => w.funct3 = 2
        /\ i.fn = "D" => w.funct3 = 3
    BY <1>1, SMT DEF funct3Of
  <2>2. /\ i.fn = "BU" => w.funct3 = 4
        /\ i.fn = "HU" => w.funct3 = 5
        /\ i.fn = "WU" => w.funct3 = 6
    BY <1>1, SMT DEF funct3Of
  <2> HIDE DEF w
  <2> QED BY <1>2, <2>1, <2>2, SMT DEF loads
<1> HIDE DEF w
<1>4. opcodeIsLegal(w)
  BY <1>1, <1>2, <1>3, SMT DEF opcodeIsLegal, stores
<1>5. operation(w) = memNames[w.funct3 + 1]
  BY <1>1, <1>3, Opcodes, SMT DEF operation
<1>6. operation(w) = i.fn
  BY <1>3, <1>5, SMT DEF memNames
<1> QED BY <1>4, <1>6 DEF w

\* Branches: the switch of simNextPCResolution finds the comparison.
LEMMA OperationBranch ==
  ASSUME NEW i, isInstruction(i), i.op = "BRANCH"
  PROVE  opcodeIsLegal(assemble(i)) /\ operation(assemble(i)) = i.fn
<1> DEFINE w == assemble(i)
<1>1. w.opcode = OP_BRANCH /\ w.funct3 = funct3Of(i.fn)
  BY AssembledPlain, OpcodeIs, SMT
<1>2. i.fn \in branches
  BY SMT DEF isInstruction
<1>3. <<i.fn, w.funct3>> \in {<<"BEQ", 0>>, <<"BNE", 1>>, <<"BLT", 4>>,
                              <<"BGE", 5>>, <<"BLTU", 6>>, <<"BGEU", 7>>}
  <2>1. /\ i.fn = "BEQ" => w.funct3 = 0
        /\ i.fn = "BNE" => w.funct3 = 1
        /\ i.fn = "BLT" => w.funct3 = 4
    BY <1>1, SMT DEF funct3Of
  <2>2. /\ i.fn = "BGE" => w.funct3 = 5
        /\ i.fn = "BLTU" => w.funct3 = 6
        /\ i.fn = "BGEU" => w.funct3 = 7
    BY <1>1, SMT DEF funct3Of
  <2> HIDE DEF w
  <2> QED BY <1>2, <2>1, <2>2, SMT DEF branches
<1> HIDE DEF w
<1>4. opcodeIsLegal(w)
  BY <1>1, <1>3, SMT DEF opcodeIsLegal
<1>5. operation(w) = branchNames[w.funct3 + 1]
  BY <1>1, Opcodes, SMT DEF operation
<1>6. operation(w) = i.fn
  BY <1>3, <1>5, SMT DEF branchNames
<1> QED BY <1>4, <1>6 DEF w

\* Jumps and upper immediates have no switch.
LEMMA OperationOther ==
  ASSUME NEW i, isInstruction(i), i.op \in {"JALR", "JAL", "UPPER"}
  PROVE  opcodeIsLegal(assemble(i)) /\ operation(assemble(i)) = i.fn
<1> DEFINE w == assemble(i)
<1>1. w.opcode = opcodeOf(i)
  BY AssembledPlain, AssembledUpper, SMT
<1>2. /\ i.op \in {"JALR", "JAL"} => i.fn = "ADD"
      /\ i.op = "UPPER" => i.fn \in {"LUI", "AUIPC"}
  BY SMT DEF isInstruction
<1> HIDE DEF w
<1>3. opcodeIsLegal(w)
  BY <1>1, <1>2, OpcodeIs, SMT DEF opcodeIsLegal
<1>4. operation(w) = i.fn
  BY <1>1, <1>2, OpcodeIs, Opcodes, SMT DEF operation
<1> QED BY <1>3, <1>4 DEF w

\* All three parts of DecodedAsAssembled, for every instruction there is.
LEMMA Decoded ==
  ASSUME NEW i, isInstruction(i)
  PROVE  /\ assemble(i) \in Field
         /\ opcodeIsLegal(assemble(i)) /\ ~isHaltWord(assemble(i))
         /\ ~isNopWord(assemble(i)) => asMachine(assemble(i)).op = i.op
         /\ operation(assemble(i)) = i.fn
         /\ i.op # "INT" => effective(i, immediate(assemble(i))) =
                              IF i.op = "UPPER" THEN upper(i) ELSE i.imm
<1> DEFINE w == assemble(i)
<1>1. w \in Field
  BY AssembledPlain, AssembledUpper, Formats
<1>2. opcodeIsLegal(w) /\ operation(w) = i.fn
  BY OperationInt, OperationMemory, OperationBranch, OperationOther, Formats
<1>3. w.opcode = opcodeOf(i)
  BY AssembledPlain, AssembledUpper, Formats, SMT
<1>4. i.op = "INTIMM" /\ i.fn \in shifts => effective(i, immediate(w)) = i.imm
  <2> SUFFICES ASSUME i.op = "INTIMM", i.fn \in shifts
               PROVE  effective(i, immediate(w)) = i.imm
    OBVIOUS
  <2>1. /\ i.imm \in 0 .. 63 /\ (i.fn \in wide => i.imm \in 0 .. 31)
        /\ immediate(w) \in {i.imm, i.imm + 1024}
    BY ImmediateShift, SMT
  <2> HIDE DEF w
  <2>2. effective(i, immediate(w)) = i.imm
    BY <2>1, SMT DEF effective
  <2> QED BY <2>2
<1>5. i.op \notin {"INT", "INTIMM"} => i.fn \notin shifts
  BY SMT DEF isInstruction, loads, stores, branches, shifts
<1>6. i.op # "INT" /\ ~(i.op = "INTIMM" /\ i.fn \in shifts) =>
        effective(i, immediate(w)) = IF i.op = "UPPER" THEN upper(i) ELSE i.imm
  <2> DEFINE n == IF i.op = "UPPER" THEN upper(i) ELSE i.imm
  <2> SUFFICES ASSUME i.op # "INT", ~(i.op = "INTIMM" /\ i.fn \in shifts)
               PROVE  effective(i, immediate(w)) = n
    OBVIOUS
  <2>1. immediate(w) = n
    <3>1. CASE i.op \in {"LOAD", "JALR"}
      BY <3>1, ImmediateI, SMT
    <3>3. CASE i.op = "INTIMM"
      BY <3>3, ImmediateI, Zenon
    <3>2. CASE i.op \in {"STORE", "BRANCH", "JAL", "UPPER"}
      BY <3>2, ImmediateS, ImmediateB, ImmediateJ, ImmediateU, Zenon
    <3> QED BY <3>1, <3>2, <3>3, Formats, Zenon
  <2> HIDE DEF w, n
  <2>2. effective(i, immediate(w)) = n
    BY <1>5, Formats, <2>1, SMT DEF effective
  <2> QED BY <2>2
<1> HIDE DEF w
<1>7. ~isHaltWord(w)
  BY <1>2, Opcodes, SMT DEF isHaltWord, HaltField, opcodeIsLegal
<1>8. ~isNopWord(w) => asMachine(w).op = i.op
  BY <1>2, <1>3, <1>7, OpcodeIs, Opcodes, Formats, SMT DEF asMachine
<1> QED BY <1>1, <1>2, <1>4, <1>6, <1>7, <1>8 DEF w
-----------------------------------------------------------------------------
(* The flags of any word. *)

\* A word that simDecode does not know has none of the flags, and every other
\* the flags of its operation; the name of the operation is never "none".
LEMMA FlagsOf ==
  ASSUME NEW w \in Field, NEW f, f = simDecode(w), NEW i, i = asMachine(w)
  PROVE  /\ f.isHalt <=> M!isHalt(i)
         /\ f.isLegal <=> M!isLegal(i)
         /\ f.doesArithLogic <=> M!doesArithLogic(i)
         /\ f.writesRd <=> M!writesRd(i)
         /\ f.readsRs1 <=> M!readsRs1(i)
         /\ f.readsRs2 <=> M!readsRs2(i)
         /\ f.readsMem <=> M!readsMem(i)
         /\ f.writesMem <=> M!writesMem(i)
         /\ (w.opcode = OP_BRANCH \/ w.opcode = OP_JALR) <=> M!controlOpcode(i)
<1> DEFINE plain == ~isHaltWord(w) /\ ~isNopWord(w) /\ opcodeIsLegal(w)
           R == {OP_INT, OP_INTW}
           I == {OP_INTIMM, OP_INTIMMW}
<1>1. /\ f.isHalt <=> isHaltWord(w)
      /\ f.isLegal <=> isHaltWord(w) \/ isNopWord(w) \/ opcodeIsLegal(w)
      /\ f.doesArithLogic <=> plain /\ w.opcode \in R \cup I \cup
                                 {OP_JALR, OP_AUIPC, OP_LUI, OP_JAL}
      /\ f.writesRd <=> plain /\ w.opcode \in R \cup I \cup
                                 {OP_LOAD, OP_JALR, OP_AUIPC, OP_LUI, OP_JAL}
      /\ f.readsRs1 <=> plain /\ w.opcode \in R \cup I \cup
                                 {OP_LOAD, OP_STORE, OP_BRANCH, OP_JALR}
      /\ f.readsRs2 <=> plain /\ w.opcode \in R \cup {OP_STORE, OP_BRANCH}
      /\ f.readsMem <=> plain /\ w.opcode \in {OP_LOAD}
      /\ f.writesMem <=> plain /\ w.opcode \in {OP_STORE}
  BY Zenon DEF simDecode
<1>2. isHaltWord(w) => w.opcode = 109 /\ ~isNopWord(w)
  BY Opcodes, SMT DEF isHaltWord, isNopWord, HaltField, NopField
<1>3. isNopWord(w) => w.opcode = OP_INTIMM
  BY SMT DEF isNopWord, NopField
<1>4. plain => w.opcode \in R \cup I \cup {OP_LOAD, OP_STORE, OP_BRANCH, OP_JALR,
                                          OP_AUIPC, OP_LUI, OP_JAL}
  BY SMT DEF opcodeIsLegal
<1>5. /\ isHaltWord(w) => i.op = "HALT"
      /\ isNopWord(w) => i.op = "NOP"
      /\ ~isHaltWord(w) /\ ~isNopWord(w) /\ ~opcodeIsLegal(w) =>
           i.op = IF w.opcode = OP_BRANCH THEN "ILLEGAL_BRANCH" ELSE "ILLEGAL"
      /\ plain => i.op =
           CASE w.opcode \in {OP_INT, OP_INTW} -> "INT"
             [] w.opcode \in {OP_INTIMM, OP_INTIMMW} -> "INTIMM"
             [] w.opcode = OP_LOAD -> "LOAD"
             [] w.opcode = OP_STORE -> "STORE"
             [] w.opcode = OP_BRANCH -> "BRANCH"
             [] w.opcode = OP_JALR -> "JALR"
             [] w.opcode = OP_JAL -> "JAL"
             [] OTHER -> "UPPER"
  BY <1>2, Zenon DEF asMachine
<1> USE DEF M!isHalt, M!isLegal, M!doesArithLogic, M!writesRd, M!readsRs1,
            M!readsRs2, M!readsMem, M!writesMem, M!controlOpcode
<1>7. CASE isHaltWord(w)
  <2>1. i.op = "HALT" /\ ~plain /\ w.opcode \notin {OP_BRANCH, OP_JALR}
    BY <1>2, <1>5, <1>7, Opcodes, SMT
  <2> HIDE DEF plain
  <2> QED BY <1>1, <1>7, <2>1, SMT
<1>8. CASE isNopWord(w)
  <2>1. i.op = "NOP" /\ ~plain /\ w.opcode \notin {OP_BRANCH, OP_JALR} /\ ~isHaltWord(w)
    BY <1>2, <1>3, <1>5, <1>8, Opcodes, SMT
  <2> HIDE DEF plain
  <2> QED BY <1>1, <1>8, <2>1, SMT
<1>9. CASE ~isHaltWord(w) /\ ~isNopWord(w) /\ ~opcodeIsLegal(w)
  <2>1. /\ i.op = IF w.opcode = OP_BRANCH THEN "ILLEGAL_BRANCH" ELSE "ILLEGAL"
        /\ ~plain /\ w.opcode # OP_JALR
    BY <1>5, <1>9, SMT DEF opcodeIsLegal
  <2> HIDE DEF plain
  <2> QED BY <1>1, <1>9, <2>1, SMT
<1>10. CASE plain
  <2>1. ~isHaltWord(w) /\ ~isNopWord(w) /\ opcodeIsLegal(w)
    BY <1>10
  <2> QED BY <1>1, <1>4, <1>5, <1>10, <2>1, Opcodes, SMT
<1> QED BY <1>7, <1>8, <1>9, <1>10
\* The integer operations: what selects them, in a word simDecode accepts.
LEMMA IntOperations ==
  ASSUME NEW w \in Field, opcodeIsLegal(w),
         w.opcode \in {OP_INT, OP_INTIMM, OP_INTW, OP_INTIMMW}
  PROVE  /\ operation(w) \in DFn
         /\ w.opcode # OP_INTIMMW \/ w.funct3 # FUNCT3_ADD =>
              printedOperation(w) # "ILLEGAL"
              /\ operation(w) \in {printedOperation(w)} \cup
                   { fn \in wide : narrow[fn] = printedOperation(w) /\
                                   w.opcode \in {OP_INTW, OP_INTIMMW} }
<1> DEFINE W3 == {OP_INTW, OP_INTIMMW}
           o == intOperation(w)
           p == printedInt(w)
<1>1. printedOperation(w) = p
  BY Opcodes, SMT DEF printedOperation
<1>2. operation(w) = IF w.opcode \in W3 THEN intOperationW(w) ELSE o
  BY Opcodes, SMT DEF operation
<1>3. w.funct3 \in 0 .. 7 /\ w.funct7 \in 0 .. 127
  BY SMT DEF Field
<1>4. upperImm12(w) = (w.funct7 \div 2) % 64
  BY <1>3, SMT DEF upperImm12, extractBits
<1>5. ASSUME w.funct3 = 0
      PROVE  /\ o \in {"ADD", "SUB"}
             /\ w.opcode # OP_INTIMMW => p = o
  <2>1. w.opcode \in {OP_INTIMM, OP_INTIMMW} \/ w.funct7 \in {0, 32}
    BY <1>5, Opcodes, SMT
       DEF opcodeIsLegal, addIsLegal, FUNCT3_ADD, FUNCT7_ADD, FUNCT7_SUB
  <2>2. o = IF w.opcode \in {OP_INTIMM, OP_INTIMMW} \/ w.funct7 = 0 THEN "ADD" ELSE "SUB"
    BY <1>5, <2>1, SMT
       DEF intOperation, FUNCT3_ADD, FUNCT3_SR, FUNCT7_ADD, FUNCT7_SUB
  <2>3. w.opcode # OP_INTIMMW =>
          p = IF w.opcode = OP_INTIMM \/ w.funct7 = 0 THEN "ADD" ELSE "SUB"
    BY <1>5, <2>1, Opcodes, SMT
       DEF printedInt, FUNCT3_ADD, FUNCT3_SR, FUNCT7_ADD, FUNCT7_SUB
  <2> HIDE DEF o, p
  <2> QED BY <2>2, <2>3, SMT
<1>6. ASSUME w.funct3 = 5
      PROVE  o \in {"SRL", "SRA"} /\ p = o
  <2>1. /\ w.opcode \notin W3 => upperImm12(w) \in {0, 16}
        /\ w.opcode \in W3 => w.funct7 \in {0, 32}
    BY <1>6, Opcodes, SMT
       DEF opcodeIsLegal, shiftIsLegal, FUNCT3_ADD, FUNCT3_SR, FUNCT7_ADD, FUNCT7_SUB
  <2>2. \/ upperImm12(w) = 0 /\ (w.opcode \in W3 => w.funct7 = 0)
        \/ upperImm12(w) = 16 /\ (w.opcode \in W3 => w.funct7 = 32)
    BY <1>3, <1>4, <2>1, SMT
  <2>3. o = IF upperImm12(w) = 0 THEN "SRL" ELSE "SRA"
    BY <1>6, <2>2, SMT DEF intOperation, FUNCT3_ADD, FUNCT3_SR
  <2>4. p = IF upperImm12(w) = 0 THEN "SRL" ELSE "SRA"
    <3> DEFINE kind == IF w.opcode \in W3 THEN w.funct7 ELSE 2 * upperImm12(w)
    <3>1. p = IF kind = 0 THEN "SRL" ELSE IF kind = 32 THEN "SRA" ELSE "ILLEGAL"
      BY <1>6, SMT DEF printedInt, FUNCT3_ADD, FUNCT3_SR, FUNCT7_ADD, FUNCT7_SUB
    <3>2. kind = IF upperImm12(w) = 0 THEN 0 ELSE 32
      BY <2>2, SMT
    <3> HIDE DEF kind
    <3> QED BY <2>2, <3>1, <3>2, SMT
  <2> QED BY <2>3, <2>4
<1>7. ASSUME w.funct3 \notin {0, 5}
      PROVE  /\ o = intNames[w.funct3 + 1] /\ p = o
             /\ w.opcode \in W3 => w.funct3 = 1
  <2>1. o = intNames[w.funct3 + 1]
    BY <1>7, SMT DEF intOperation, FUNCT3_ADD, FUNCT3_SR
  <2>2. w.opcode \in W3 => w.funct3 = 1
    BY <1>7, Opcodes, SMT DEF opcodeIsLegal, FUNCT3_ADD, FUNCT3_SLL, FUNCT3_SR
  <2>3. p = intNames[w.funct3 + 1]
    BY <1>7, <2>2, SMT DEF printedInt, FUNCT3_ADD, FUNCT3_SLL, FUNCT3_SR
  <2> QED BY <2>1, <2>2, <2>3
<1> HIDE DEF o, p
<1>8. /\ o \in {"ADD", "SUB", "SLL", "SLT", "SLTU", "XOR", "SRL", "SRA", "OR", "AND"}
      /\ w.opcode \in W3 => o \in {"ADD", "SUB", "SLL", "SRL", "SRA"}
                             /\ w.funct3 \in {0, 1, 5}
      /\ w.opcode # OP_INTIMMW \/ w.funct3 # 0 => p = o
  BY <1>3, <1>5, <1>6, <1>7, SMT DEF intNames
<1>9. CASE w.opcode \notin W3
  BY <1>1, <1>2, <1>8, <1>9, SMT DEF FUNCT3_ADD, DFn
<1>10. CASE w.opcode \in W3
  <2>1. intOperationW(w) =
          CASE o = "ADD" -> "ADDW" [] o = "SUB" -> "SUBW" [] o = "SLL" -> "SLLW"
            [] o = "SRL" -> "SRLW" [] o = "SRA" -> "SRAW" [] OTHER -> "none"
    BY <1>8, <1>10, SMT DEF intOperationW, FUNCT3_ADD, FUNCT3_SLL, FUNCT3_SR, o
  <2>2. intOperationW(w) \in wide /\ narrow[intOperationW(w)] = o
    BY <1>8, <1>10, <2>1, SMT DEF wide, narrow
  <2>3. "none" \notin wide /\ "ILLEGAL" # o
    BY <1>8, SMT DEF wide
  <2>4. wide \subseteq DFn
    BY DEF wide, DFn
  <2> QED BY <1>1, <1>2, <1>8, <1>10, <2>2, <2>3, <2>4, SMT DEF FUNCT3_ADD
<1> QED BY <1>9, <1>10

\* An integer word that simDecode rejects is printed as ILLEGAL.
LEMMA IntIllegal ==
  ASSUME NEW w \in Field, ~opcodeIsLegal(w),
         w.opcode \in {OP_INT, OP_INTIMM, OP_INTW, OP_INTIMMW},
         w.opcode # OP_INTIMMW \/ w.funct3 # FUNCT3_ADD
  PROVE  printedOperation(w) = "ILLEGAL"
<1> DEFINE p == printedInt(w)
<1>1. printedOperation(w) = p
  BY Opcodes, SMT DEF printedOperation
<1>2. CASE w.funct3 = 0
  <2>1. w.opcode \notin {OP_INTIMM, OP_INTIMMW} /\ w.funct7 \notin {0, 32}
    BY <1>2, Opcodes, SMT
       DEF opcodeIsLegal, addIsLegal, FUNCT3_ADD, FUNCT3_SR, FUNCT7_ADD, FUNCT7_SUB
  <2> QED BY <1>1, <1>2, <2>1, SMT
          DEF printedInt, FUNCT3_ADD, FUNCT3_SR, FUNCT7_ADD, FUNCT7_SUB
<1>3. CASE w.funct3 = 5
  <2> DEFINE kind == IF w.opcode \in {OP_INTW, OP_INTIMMW} THEN w.funct7
                                                          ELSE 2 * upperImm12(w)
  <2>1. p = IF kind = 0 THEN "SRL" ELSE IF kind = 32 THEN "SRA" ELSE "ILLEGAL"
    BY <1>3, SMT DEF printedInt, FUNCT3_ADD, FUNCT3_SR, FUNCT7_ADD, FUNCT7_SUB
  <2>2. ~shiftIsLegal(w)
    BY <1>3, SMT DEF opcodeIsLegal, FUNCT3_ADD, FUNCT3_SLL, FUNCT3_SR
  <2>3. upperImm12(w) \in Nat /\ w.funct7 \in Nat
    BY SMT DEF Field, upperImm12, extractBits
  <2>4. kind \notin {0, 32}
    BY <2>2, <2>3, SMT DEF shiftIsLegal, FUNCT7_ADD, FUNCT7_SUB
  <2> HIDE DEF kind, p
  <2> QED BY <1>1, <2>1, <2>4
<1>4. CASE w.funct3 \notin {0, 5}
  <2>1. w.opcode \in {OP_INTW, OP_INTIMMW} /\ w.funct3 # 1
    BY <1>4, SMT DEF opcodeIsLegal, FUNCT3_ADD, FUNCT3_SLL, FUNCT3_SR
  <2> QED BY <1>1, <1>4, <2>1, SMT DEF printedInt, FUNCT3_ADD, FUNCT3_SLL, FUNCT3_SR
<1> QED BY <1>2, <1>3, <1>4

\* The name printed of any word: ILLEGAL for those simDecode rejects, else that
\* of the operation, which is never "none".
LEMMA Printed ==
  ASSUME NEW w \in Field
  PROVE  /\ opcodeIsLegal(w) => operation(w) \in DFn
         /\ w.opcode # OP_INTIMMW \/ w.funct3 # FUNCT3_ADD =>
              /\ opcodeIsLegal(w) <=> printedOperation(w) # "ILLEGAL"
              /\ opcodeIsLegal(w) =>
                   operation(w) \in {printedOperation(w)} \cup
                     { fn \in wide : narrow[fn] = printedOperation(w) /\
                                     w.opcode \in {OP_INTW, OP_INTIMMW} }
<1> DEFINE ints == {OP_INT, OP_INTIMM, OP_INTW, OP_INTIMMW}
<1>1. CASE w.opcode \in ints
  <2>1. CASE opcodeIsLegal(w)
    BY <1>1, <2>1, IntOperations
  <2>2. CASE ~opcodeIsLegal(w)
    BY <1>1, <2>2, IntIllegal
  <2> QED BY <2>1, <2>2
<1>2. w.funct3 \in 0 .. 7
  BY SMT DEF Field
<1>3. ASSUME w.opcode \notin ints
      PROVE  /\ opcodeIsLegal(w) => operation(w) \in DFn
             /\ opcodeIsLegal(w) => printedOperation(w) = operation(w)
             /\ operation(w) # "ILLEGAL"
             /\ ~opcodeIsLegal(w) => printedOperation(w) = "ILLEGAL"
  <2>1. CASE w.opcode = OP_LOAD
    BY <1>2, <2>1, Opcodes, SMT DEF opcodeIsLegal, operation, printedOperation, memNames, DFn
  <2>2. CASE w.opcode = OP_STORE
    BY <1>2, <2>2, Opcodes, SMT DEF opcodeIsLegal, operation, printedOperation, memNames, DFn
  <2>3. CASE w.opcode = OP_BRANCH
    BY <1>2, <2>3, Opcodes, SMT
       DEF opcodeIsLegal, operation, printedOperation, branchNames, DFn
  <2>4. CASE w.opcode \notin {OP_LOAD, OP_STORE, OP_BRANCH}
    BY <1>3, <2>4, Opcodes, SMT DEF opcodeIsLegal, operation, printedOperation, DFn
  <2> QED BY <2>1, <2>2, <2>3, <2>4
<1> QED BY <1>1, <1>3

\* The two special words have an operation nobody asks for.
LEMMA SpecialOperation ==
  ASSUME NEW w, isHaltWord(w) \/ isNopWord(w)
  PROVE  operation(w) = "ADD"
BY Opcodes, SMT DEF isHaltWord, isNopWord, HaltField, NopField, operation,
   intOperation, FUNCT3_ADD, FUNCT3_SR

\* The immediate printed of an assembled word is the assembled one.
LEMMA PrintedImmediate ==
  ASSUME NEW i, isInstruction(i), i.op \notin {"INT", "UPPER"}
  PROVE  printedImmediate(assemble(i)) = i.imm
<1> DEFINE w == assemble(i)
<1>1. w.opcode = opcodeOf(i)
  BY AssembledPlain, AssembledUpper, Formats, SMT
<1>2. i.op # "JAL" => w.funct3 = funct3Of(i.fn)
  BY AssembledPlain, SMT
<1>3. CASE i.op \in {"STORE", "BRANCH", "JAL"}
  <2>1. printedImmediate(w) = immediate(w)
    BY <1>1, <1>3, OpcodeIs, Opcodes, SMT DEF printedImmediate, immediate
  <2> QED BY <1>3, <2>1, ImmediateS, ImmediateB, ImmediateJ
<1>4. CASE i.op \in {"LOAD", "JALR"} \/ (i.op = "INTIMM" /\ i.fn \notin shifts)
  <2>1. i.op # "LOAD" => w.funct3 \notin {1, 5}
    BY <1>2, <1>4, SMT DEF isInstruction, basic, shifts, funct3Of
  <2>2. printedImmediate(w) = immediate(w)
    BY <1>1, <1>4, <2>1, OpcodeIs, Opcodes, SMT
       DEF printedImmediate, immediate, FUNCT3_SLL, FUNCT3_SR
  <2> QED BY <1>4, <2>2, ImmediateI
<1>5. CASE i.op = "INTIMM" /\ i.fn \in shifts
  <2>1. w.funct3 \in {1, 5}
    BY <1>2, <1>5, SMT DEF shifts, funct3Of
  <2>2. printedImmediate(w) = imm12(w) % 2^6
    BY <1>1, <1>5, <2>1, OpcodeIs, Opcodes, SMT
       DEF printedImmediate, FUNCT3_SLL, FUNCT3_SR
  <2>3. i.imm \in 0 .. 63 /\ imm12(w) \in {i.imm, i.imm + 1024}
    BY <1>5, ImmediateShift, SMT
  <2> HIDE DEF w
  <2>4. printedImmediate(w) = i.imm
    BY <2>2, <2>3, SMT
  <2> QED BY <2>4 DEF w
<1> QED BY <1>3, <1>4, <1>5, Formats

-----------------------------------------------------------------------------
(* The data path keeps the types. *)

\* The powers the data path uses.
LEMMA Powers ==
  /\ W \in Nat \ {0} /\ WordBits \in 1 .. W /\ CellBits \in 1 .. W
  /\ 2^W \in Nat \ {0} /\ 8 <= 2^W
  /\ \A n \in 0 .. W : 2^n \in Nat \ {0}
  /\ \A n \in 0 .. W + 8 * CellBits : 2^n \in Nat \ {0}
BY DatapathWidth, PowersOfTwo, SMT

\* A quotient of a number in range is in range.
LEMMA QuotientTyped ==
  ASSUME NEW p \in Nat \ {0}, NEW a \in Nat
  PROVE  a \div p \in 0 .. a
<1>1. PICK q \in Int, r \in Nat : q = a \div p /\ a = q * p + r /\ r < p
  BY DivMod, SMT
<1>2. q >= 0
  <2> SUFFICES ASSUME q <= -1 PROVE FALSE
    BY <1>1, SMT
  <2>1. q * p <= (-1) * p
    BY SMT
  <2> QED BY <1>1, <2>1, SMT
<1>3. q * p >= q
  BY <1>2, SMT
<1> QED BY <1>1, <1>2, <1>3, SMT

\* The constructions words are made with.
LEMMA WrapTyped ==
  ASSUME NEW n \in Int
  PROVE  Wrap(n) \in DWord
BY Powers, DivMod, SMT DEF Wrap, DWord

\* The low bits of a number.
LEMMA LowTyped ==
  ASSUME NEW n \in Int, NEW k \in 0 .. W + 8 * CellBits
  PROVE  low(n, k) \in 0 .. 2^k - 1 /\ low(n, k) \in Nat
BY Powers, DivMod, SMT DEF low

\* A signed number, and its sign extension to a word.
LEMMA SignedTyped ==
  ASSUME NEW n \in Int, NEW k \in 0 .. W + 8 * CellBits
  PROVE  signed(n, k) \in Int /\ sext64(n, k) \in DWord
<1>1. 2^k \in Nat /\ low(n, k) \in Nat
  BY LowTyped, Powers
<1>2. signed(n, k) \in Int
  BY <1>1, SMT DEF signed
<1> QED BY <1>2, WrapTyped DEF sext64

\* A truth value as a word.
LEMMA BitTyped ==
  ASSUME NEW p \in BOOLEAN
  PROVE  bit(p) \in DWord
BY Powers, SMT DEF bit, DWord

\* A comparison has a truth value.
LEMMA LessBoolean ==
  ASSUME NEW a, NEW b
  PROVE  less(a, b) \in BOOLEAN
BY DEF less

\* The value of an operation is a word, whatever the operation.
LEMMA AluTyped ==
  ASSUME NEW fn, NEW a \in DWord, NEW b \in DWord
  PROVE  alu(fn, a, b) \in DWord
<1>1. a \in Nat /\ b \in Nat /\ a <= 2^W - 1
  BY Powers, SMT DEF DWord
<1> DEFINE s == b % W
           t == b % WordBits
<1>2. s \in 0 .. W /\ t \in 0 .. W
  BY <1>1, Powers, DivMod, SMT
<1>3. 2^s \in Nat \ {0} /\ 2^t \in Nat \ {0}
  BY <1>2, Powers
<1>4. WordBits \in 0 .. W + 8 * CellBits /\ W \in 0 .. W + 8 * CellBits
  BY Powers, SMT
<1> HIDE DEF s, t
<1>5. \A n \in Int : Wrap(n) \in DWord /\ sext64(n, WordBits) \in DWord
  BY <1>4, WrapTyped, SignedTyped
<1>6. /\ a + b \in Int /\ a - b \in Int /\ a * 2^s \in Int /\ a * 2^t \in Int
      /\ a \div 2^s \in DWord
  <2>1. a \div 2^s \in 0 .. a
    BY <1>1, <1>3, QuotientTyped
  <2> QED BY <1>1, <1>3, <2>1, Powers, SMT DEF DWord
<1>7. \A n \in Int : n \div 2^s \in Int /\ n \div 2^t \in Int
  BY <1>3, DivMod
<1>8. /\ signed(a, W) \in Int /\ signed(a, WordBits) \in Int
      /\ low(a, WordBits) \in Int
  BY <1>1, <1>4, SignedTyped, LowTyped
<1>9. BitXor(a, b) \in DWord /\ BitOr(a, b) \in DWord /\ BitAnd(a, b) \in DWord
  BY BitwiseOperators
<1>10. \A p \in BOOLEAN : bit(p) \in DWord
  BY BitTyped
<1>11. 0 \in DWord
  BY Powers, SMT DEF DWord
<1>12. less(a, b) \in BOOLEAN /\ (a < b) \in BOOLEAN
  BY LessBoolean
<1>13. CASE fn \in {"ADD", "SUB", "SLL", "SLT", "SLTU"}
  BY <1>5, <1>6, <1>10, <1>12, <1>13 DEF alu, s
<1>14. CASE fn \in {"XOR", "SRL", "SRA", "OR", "AND"}
  BY <1>5, <1>6, <1>7, <1>8, <1>9, <1>14 DEF alu, s
<1>15. CASE fn \in {"ADDW", "SUBW", "SLLW", "SRLW", "SRAW"}
  BY <1>5, <1>6, <1>7, <1>8, <1>15 DEF alu, t
<1>16. CASE fn \notin {"ADD", "SUB", "SLL", "SLT", "SLTU", "XOR", "SRL", "SRA",
                       "OR", "AND", "ADDW", "SUBW", "SLLW", "SRLW", "SRAW"}
  BY <1>11, <1>16 DEF alu
<1> QED BY <1>13, <1>14, <1>15, <1>16

\* What simArithLogic leaves in arithResult is a word.
LEMMA ArithTyped ==
  ASSUME NEW i, i.imm \in DWord, NEW pc \in DWord, NEW a \in DWord, NEW b \in DWord
  PROVE  DArithLogic(i, pc, a, b) \in DWord
<1>1. 0 \in DWord /\ pc + 4 \in Int /\ pc + i.imm \in Int
  BY Powers, SMT DEF DWord
<1>2. DPlus4(pc) \in DWord /\ Wrap(pc + i.imm) \in DWord
  BY <1>1, WrapTyped DEF DPlus4
<1> QED BY <1>1, <1>2, AluTyped DEF DArithLogic

\* The immediate of any word is a number.
LEMMA ImmediateInt ==
  ASSUME NEW w \in Field
  PROVE  immediate(w) \in Int
<1>1. /\ w.rd \in Nat /\ w.funct3 \in Nat /\ w.rs1 \in Nat /\ w.rs2 \in Nat
      /\ w.funct7 \in Nat
  BY SMT DEF Field
<1>2. imm12(w) \in Nat /\ imm20(w) \in Nat
  BY <1>1, SMT DEF imm12, imm20
<1>3. immI(w) \in Int
  BY <1>2, SMT DEF immI, sext
<1>4. immS(w) \in Int
  BY <1>1, SMT DEF immS, sext
<1>5. immB(w) \in Int
  <2>1. /\ extractBits(w.funct7, 6, 6) \in Int /\ extractBits(w.funct7, 5, 0) \in Int
        /\ extractBits(w.rd, 4, 1) \in Int /\ extractBits(w.rd, 0, 0) \in Int
    BY <1>1, SMT DEF extractBits
  <2>2. \A n \in Int : sext(n, 12) \in Int
    BY SMT DEF sext
  <2> QED BY <2>1, <2>2, SMT DEF immB
<1>6. immJ(w) \in Int
  BY <1>2, SMT DEF immJ, sext, extractBits
<1>7. immU(w) \in Int
  <2>1. sext(imm20(w), 19) \in Int
    BY <1>2, SMT DEF sext
  <2> QED BY <2>1, SMT DEF immU
<1> QED BY <1>3, <1>4, <1>5, <1>6, <1>7 DEF immediate
-----------------------------------------------------------------------------
(* The specification: what the state is at each stage. *)

\* A word is an assembled instruction's or a raw one, its flags are those
\* simDecode sets from the moment it has been called, and the other variables
\* are what the step that wrote them wrote.
WordsInv ==
  /\ word \in Field
  /\ meant # NoInstruction => isInstruction(meant) /\ word = assemble(meant)
  /\ stage \in {"IF", "ID", "EX", "printed"}
  /\ inst = IF stage = "IF" THEN NoFlags ELSE simDecode(word)
  /\ ops \in [pc : DWord, a : DWord, b : DWord]
  /\ result \in DWord
  /\ stage = "EX" => /\ inst.doesArithLogic
                     /\ result = DArithLogic(asMachine(word), ops.pc, ops.a, ops.b)
  /\ stage = "printed" =>
       /\ ~isHaltWord(word) /\ ~isNopWord(word)
       /\ shown = [operation |-> printedOperation(word),
                   imm |-> printedImmediate(word)]

\* It holds before simDecode.
LEMMA WordsInit == Init => WordsInv
<1> SUFFICES ASSUME Init PROVE WordsInv
  OBVIOUS
<1>1. word \in Field /\ (meant # NoInstruction => isInstruction(meant) /\ word = assemble(meant))
  <2>1. CASE meant \in Assembled /\ word = assemble(meant)
    BY <2>1, WordsConfig, Decoded
  <2>2. CASE meant = NoInstruction /\ word \in Raw
    BY <2>2, WordsConfig
  <2> QED BY <2>1, <2>2 DEF Init
<1>2. 0 \in DWord
  BY Powers, SMT DEF DWord
<1> QED BY <1>1, <1>2 DEF Init, WordsInv

\* and every step keeps it.
LEMMA WordsStep == WordsInv /\ [Next]_vars => WordsInv'
<1> SUFFICES ASSUME WordsInv, [Next]_vars PROVE WordsInv'
  OBVIOUS
<1> USE DEF WordsInv
<1>1. CASE Decode
  BY <1>1 DEF Decode
<1>2. CASE Execute
  <2>1. PICK o \in Operands : /\ ops' = o
                              /\ result' = DArithLogic(asMachine(word), o.pc, o.a, o.b)
    BY <1>2 DEF Execute
  <2>2. o \in [pc : DWord, a : DWord, b : DWord]
    BY WordsConfig
  <2>3. asMachine(word).imm \in DWord
    BY ImmediateInt, WrapTyped DEF asMachine
  <2>4. result' \in DWord
    BY <2>1, <2>2, <2>3, ArithTyped
  <2> QED BY <1>2, <2>1, <2>2, <2>4 DEF Execute
<1>3. CASE PrintInstr
  BY <1>3 DEF PrintInstr
<1>4. CASE UNCHANGED vars
  BY <1>4 DEF vars
<1> QED BY <1>1, <1>2, <1>3, <1>4 DEF Next

\* What the state is holds throughout.
LEMMA WordsInvHolds == Spec => []WordsInv
BY WordsInit, WordsStep, PTL DEF Spec

\* Every instruction of the base formats, with every immediate they have room
\* for, is decoded as what it was made from.
THEOREM WordsDecoded == Spec => []DecodedAsAssembled
<1>1. WordsInv => DecodedAsAssembled
  <2> SUFFICES ASSUME WordsInv, isAssembled, stage # "IF"
               PROVE  /\ inst.isLegal
                      /\ asMachine(word).op = meant.op /\ operation(word) = meant.fn
                      /\ meant.op # "INT" =>
                           effective(meant, immediate(word)) =
                             IF meant.op = "UPPER" THEN upper(meant) ELSE meant.imm
    BY DEF DecodedAsAssembled
  <2>1. isInstruction(meant) /\ word = assemble(meant) /\ ~isNopWord(word)
    BY DEF WordsInv, isAssembled
  <2>2. inst.isLegal <=> isHaltWord(word) \/ isNopWord(word) \/ opcodeIsLegal(word)
    BY DEF WordsInv, simDecode
  <2> QED BY <2>1, <2>2, Decoded
<1> QED BY <1>1, WordsInvHolds, PTL

\* The flags simDecode sets on any word of 32 bits are those Machine, and so
\* the proofs about the two simulators, have for its operation.
THEOREM WordsFlags == Spec => []FlagsAreMachine
<1>1. WordsInv => FlagsAreMachine
  <2> SUFFICES ASSUME WordsInv, stage # "IF" PROVE FlagsAreMachine
    BY DEF FlagsAreMachine
  <2>1. word \in Field /\ inst = simDecode(word)
    BY DEF WordsInv
  <2>2. inst.isLegal <=> isHaltWord(word) \/ isNopWord(word) \/ opcodeIsLegal(word)
    BY <2>1 DEF simDecode
  <2>3. inst.isLegal => operation(word) \in DFn
    <3>1. "ADD" \in DFn
      BY DEF DFn
    <3> QED BY <2>1, <2>2, <3>1, SpecialOperation, Printed
  <2>4. "none" \notin DFn
    BY DEF DFn
  <2> QED BY <2>1, <2>3, <2>4, FlagsOf DEF FlagsAreMachine
<1> QED BY <1>1, WordsInvHolds, PTL

\* The pipe state names the operation of every word and shows the immediate of
\* every instruction, but for the two flaws the property leaves out.
THEOREM WordsPrinted == Spec => []PrintedAsDecoded
<1>1. WordsInv => PrintedAsDecoded
  <2> SUFFICES ASSUME WordsInv, stage = "printed" PROVE PrintedAsDecoded
    BY DEF PrintedAsDecoded
  <2>1. /\ word \in Field /\ ~isHaltWord(word) /\ ~isNopWord(word)
        /\ shown.operation = printedOperation(word)
        /\ shown.imm = printedImmediate(word)
        /\ inst = simDecode(word)
        /\ meant # NoInstruction => isInstruction(meant) /\ word = assemble(meant)
    BY DEF WordsInv
  <2>2. inst.isLegal <=> opcodeIsLegal(word)
    BY <2>1 DEF simDecode
  <2>3. isAssembled /\ meant.op \notin {"INT", "UPPER"} => shown.imm = meant.imm
    BY <2>1, PrintedImmediate DEF isAssembled
  <2> QED BY <2>1, <2>2, <2>3, Printed DEF PrintedAsDecoded
<1> QED BY <1>1, WordsInvHolds, PTL

-----------------------------------------------------------------------------
(* The data path has what the proofs about the simulators assume of theirs, *)
(* for every instruction word and at every width.                           *)

\* A cell an access reaches is in range, and its place in the value is one of
\* the eight a double word has.
LEMMA Reached ==
  ASSUME NEW i, NEW addr, NEW k \in reachedCells(i, addr)
  PROVE  /\ k \in 0 .. 7 /\ Wrap(addr + k) \in Cells
         /\ CellBits * k \in 0 .. W + 8 * CellBits
<1>1. size(i) \in {1, 2, 4, 8}
  BY DEF size
<1>2. k \in 0 .. size(i) - 1 /\ \A j \in 0 .. k : Wrap(addr + j) \in Cells
  BY SMT DEF reachedCells
<1>3. k \in 0 .. 7
  BY <1>1, <1>2, SMT
<1>4. Wrap(addr + k) \in Cells
  BY <1>2, <1>3, SMT
<1>5. CellBits * k \in 0 .. W + 8 * CellBits
  <2>1. k = 0 \/ k = 1 \/ k = 2 \/ k = 3 \/ k = 4 \/ k = 5 \/ k = 6 \/ k = 7
    BY <1>3, SMT
  <2> QED BY <2>1, Powers, SMT
<1> QED BY <1>3, <1>4, <1>5

\* What a load returns is a word, also where it runs off the memory.
LEMMA MemGetTyped ==
  ASSUME NEW m \in DMems, NEW i, NEW addr \in DWord
  PROVE  DMemGet(m, i, addr) \in DWord
<1> DEFINE cell(k) == IF k \in reachedCells(i, addr)
                        THEN m[Wrap(addr + k)] * 2^(CellBits * k) ELSE 0
           value == cell(0) + cell(1) + cell(2) + cell(3)
                      + cell(4) + cell(5) + cell(6) + cell(7)
<1>1. \A k : cell(k) \in Int
  <2> SUFFICES ASSUME NEW k, k \in reachedCells(i, addr)
               PROVE  m[Wrap(addr + k)] * 2^(CellBits * k) \in Int
    BY SMT
  <2>1. Wrap(addr + k) \in Cells /\ CellBits * k \in 0 .. W + 8 * CellBits
    BY Reached
  <2>2. m[Wrap(addr + k)] \in 0 .. 2^CellBits - 1
    BY <2>1 DEF DMems
  <2>3. m[Wrap(addr + k)] \in Int /\ 2^(CellBits * k) \in Int
    BY <2>1, <2>2, Powers, SMT
  <2> QED BY <2>3, SMT
<1>2. value \in Int
  <2> HIDE DEF cell
  <2> QED BY <1>1, SMT
<1>3. i.fn \in {"B", "H", "W"} => CellBits * size(i) \in 0 .. W + 8 * CellBits
  <2>1. i.fn \in {"B", "H", "W"} => size(i) = 1 \/ size(i) = 2 \/ size(i) = 4
    BY DEF size
  <2> QED BY <2>1, Powers, SMT
<1>4. DMemGet(m, i, addr) = IF i.fn \in {"B", "H", "W"}
                              THEN sext64(value, CellBits * size(i)) ELSE Wrap(value)
  BY Zenon DEF DMemGet
<1> HIDE DEF value
<1> QED BY <1>2, <1>3, <1>4, WrapTyped, SignedTyped

\* A store leaves a memory.
LEMMA MemSetTyped ==
  ASSUME NEW m \in DMems, NEW i, NEW addr \in DWord, NEW v \in DWord
  PROVE  DMemSet(m, i, addr, v) \in DMems
<1> SUFFICES ASSUME NEW c \in Cells,
                    NEW here, here = { k \in reachedCells(i, addr) : c = Wrap(addr + k) },
                    here # {}, NEW k \in here
             PROVE  low(v \div 2^(CellBits * k), CellBits) \in 0 .. 2^CellBits - 1
  <2>1. \A c \in Cells : m[c] \in 0 .. 2^CellBits - 1
    BY DEF DMems
  <2> QED BY <2>1, Zenon DEF DMems, DMemSet
<1>1. CellBits * k \in 0 .. W + 8 * CellBits
  BY Reached
<1>2. v \div 2^(CellBits * k) \in Int
  <2>1. 2^(CellBits * k) \in Nat \ {0} /\ v \in Int
    BY <1>1, Powers, SMT DEF DWord
  <2> QED BY <2>1, DivMod
<1>3. CellBits \in 0 .. W + 8 * CellBits
  BY Powers, SMT
<1> QED BY <1>2, <1>3, LowTyped

\* What comes out of the data path has the type of where it goes: what the
\* proofs about the simulators take from MachineTypes and DatapathTypes.
THEOREM DatapathIsTyped ==
  /\ 0 \in DWord /\ \A pc \in DWord : DPlus4(pc) \in DWord
  /\ \A i \in M!InstWord : M!wellTyped(i)
<1>1. 0 \in DWord /\ \A pc, n \in DWord : pc + 4 \in Int /\ pc + n \in Int
  BY Powers, SMT DEF DWord
<1>2. \A pc \in DWord : DPlus4(pc) \in DWord
  BY <1>1, WrapTyped DEF DPlus4
<1>3. ASSUME NEW i \in M!InstWord
      PROVE  M!wellTyped(i)
  <2>1. i.imm \in DWord
    BY DEF M!InstWord
  <2>2. ASSUME NEW pc \in DWord, NEW a \in DWord, NEW b \in DWord
        PROVE  DNextPC(i, pc, a, b) \in DWord
    <3>1. Wrap(pc + i.imm) \in DWord /\ Wrap(a + i.imm) \in DWord
      BY <1>1, <2>1, WrapTyped
    <3>2. \A t \in DWord : t - (t % 2) \in DWord
      BY Powers, SMT DEF DWord
    <3> QED BY <1>2, <3>1, <3>2 DEF DNextPC
  <2>3. \A a \in DWord : DAddrGen(i, a) \in DWord
    BY <1>1, <2>1, WrapTyped DEF DAddrGen
  <2> QED BY <2>1, <2>2, <2>3, ArithTyped, MemGetTyped, MemSetTyped DEF M!wellTyped
<1> QED BY <1>1, <1>2, <1>3

\* simArithLogic and simNextPCResolution ignore the operand an instruction does
\* not read, and only branches and jumps leave the straight line: what the
\* proofs about the pipeline take from UnusedOperands and StraightLine.
THEOREM DatapathObeysLaws ==
  \A i \in M!InstWord : M!ignoresUnused(i) /\ M!goesStraight(i)
<1> SUFFICES ASSUME NEW i \in M!InstWord
             PROVE  M!ignoresUnused(i) /\ M!goesStraight(i)
  OBVIOUS
<1>1. i.op \in M!Ops
  BY DEF M!InstWord
<1>2. M!goesStraight(i)
  BY DEF M!goesStraight, DNextPC, taken
<1>3. ASSUME NEW pc \in DWord, NEW a \in DWord, NEW b \in DWord, ~M!readsRs1(i)
      PROVE  /\ M!doesArithLogic(i) => DArithLogic(i, pc, a, b) = DArithLogic(i, pc, 0, b)
             /\ DNextPC(i, pc, a, b) = DNextPC(i, pc, 0, b)
  <2>1. i.op \notin {"INT", "INTIMM", "BRANCH", "JALR"}
    BY <1>3 DEF M!readsRs1
  <2> QED BY <2>1 DEF DArithLogic, DNextPC, taken
<1>4. ASSUME NEW pc \in DWord, NEW a \in DWord, NEW b \in DWord, ~M!readsRs2(i)
      PROVE  /\ M!doesArithLogic(i) => DArithLogic(i, pc, a, b) = DArithLogic(i, pc, a, 0)
             /\ DNextPC(i, pc, a, b) = DNextPC(i, pc, a, 0)
  <2>1. i.op \notin {"INT", "BRANCH"}
    BY <1>4 DEF M!readsRs2
  <2> QED BY <2>1 DEF DArithLogic, DNextPC, taken
<1> QED BY <1>2, <1>3, <1>4 DEF M!ignoresUnused

\* The words Machine has for the words of 32 bits that simDecode accepts, as
\* they are decoded, are typed and obey the laws of the data path: nothing is
\* left to assume of the instructions of a program made of such words.
THEOREM WordsAreMachine ==
  \A w \in Field : simDecode(w).isLegal =>
    /\ asMachine(w) \in M!InstWord
    /\ M!wellTyped(asMachine(w))
    /\ M!ignoresUnused(asMachine(w)) /\ M!goesStraight(asMachine(w))
<1> SUFFICES ASSUME NEW w \in Field, simDecode(w).isLegal
             PROVE  asMachine(w) \in M!InstWord
  BY DatapathIsTyped, DatapathObeysLaws
<1> DEFINE i == asMachine(w)
<1>1. isHaltWord(w) \/ isNopWord(w) \/ opcodeIsLegal(w)
  BY DEF simDecode
<1>2. operation(w) \in DFn
  <2>1. "ADD" \in DFn
    BY DEF DFn
  <2> QED BY <1>1, <2>1, SpecialOperation, Printed
<1>3. i.op \in M!Ops
  BY Zenon DEF asMachine, M!Ops
<1>4. Wrap(immediate(w)) \in DWord
  BY ImmediateInt, WrapTyped
<1>5. w.rd \in 0 .. 31 /\ w.rs1 \in 0 .. 31 /\ w.rs2 \in 0 .. 31
  BY SMT DEF Field
<1>6. PICK o : i = [op |-> o, fn |-> operation(w), rd |-> w.rd, rs1 |-> w.rs1,
                    rs2 |-> w.rs2, imm |-> Wrap(immediate(w))]
  BY Zenon DEF asMachine
<1> HIDE DEF i
<1>7. i.op = o
  BY <1>6
<1>8. i \in M!InstWord
  BY <1>2, <1>3, <1>4, <1>5, <1>6, <1>7 DEF M!InstWord
<1> QED BY <1>8 DEF i

-----------------------------------------------------------------------------
(* Bits: what the operators of the data path do to bit k. *)

\* Quotient and remainder of a number whose parts are known.
LEMMA Parts ==
  ASSUME NEW p \in Nat \ {0}, NEW q \in Int, NEW r \in Nat, r < p,
         NEW n, n = q * p + r
  PROVE  n \div p = q /\ n % p = r
BY DivModIs

\* A number's parts, by name.
LEMMA HasParts ==
  ASSUME NEW n \in Int, NEW p \in Nat \ {0}
  PROVE  \E q \in Int, r \in Nat :
           r < p /\ n = q * p + r /\ q = n \div p /\ r = n % p
<1>1. n \div p \in Int /\ n % p \in Nat /\ n % p < p
  BY DivMod, SMT
<1> QED BY <1>1, DivMod

\* A set of numbers that is not empty has a least one.
LEMMA LeastOf ==
  ASSUME NEW T \in SUBSET Nat, T # {}
  PROVE  \E x \in T : \A y \in T : x <= y
<1> DEFINE R == { p \in Nat \X Nat : p[1] < p[2] }
<1>1. IsWellFoundedOn(R, Nat)
  <2>1. R = OpToRel(<, Nat)
    BY Zenon DEF OpToRel
  <2> QED BY <2>1, NatLessThanWellFounded
<1> HIDE DEF R
<1>2. PICK x \in T : \A y \in T : <<y, x>> \notin R
  BY <1>1, WFMin
<1>3. ASSUME NEW y \in T PROVE x <= y
  <2>1. x \in Nat /\ y \in Nat
    OBVIOUS
  <2>2. y < x => <<y, x>> \in R
    BY <2>1 DEF R
  <2> QED BY <1>2, <2>1, <2>2
<1> QED BY <1>3

\* Exponents add.  The power of the sum for the least exponent that fails would
\* follow from the one before it.
LEMMA PowerSum ==
  ASSUME NEW j \in Nat, NEW k \in Nat, j + k <= W
  PROVE  2^(j + k) = 2^j * 2^k
<1> DEFINE T == { n \in Nat : j + n <= W /\ 2^(j + n) # 2^j * 2^n }
<1>1. ASSUME NEW n \in Nat, j + n + 1 <= W
      PROVE  2^(j + (n + 1)) = 2 * 2^(j + n) /\ 2^(n + 1) = 2 * 2^n
             /\ 2^(j + n) \in Nat /\ 2^n \in Nat /\ 2^j \in Nat
  <2>1. /\ j + n \in 0 .. W + 8 * CellBits /\ n \in 0 .. W + 8 * CellBits
        /\ j \in 0 .. W + 8 * CellBits /\ j + (n + 1) = (j + n) + 1
    BY <1>1, Powers, SMT
  <2>2. 2^((j + n) + 1) = 2 * 2^(j + n) /\ 2^(n + 1) = 2 * 2^n
    BY <2>1, PowersOfTwo
  <2> QED BY <2>1, <2>2, PowersOfTwo
<1>2. 0 \notin T
  <2>1. 2^j \in Nat /\ j + 0 = j
    BY Powers, SMT
  <2>2. 2^0 = 1
    BY PowersOfTwo
  <2>3. 2^j = 2^j * 1
    BY <2>1, SMT
  <2> QED BY <2>1, <2>2, <2>3
<1>3. ASSUME NEW n \in Nat, n + 1 \in T
      PROVE  n \in T
  <2>1. j + n + 1 <= W /\ j + n <= W
    BY <1>3, Powers, SMT
  <2> DEFINE a == 2^(j + n)
             b == 2^j
             c == 2^n
  <2>2. 2^(j + (n + 1)) = 2 * a /\ 2^(n + 1) = 2 * c /\ 2 * a # b * (2 * c)
        /\ a \in Nat /\ b \in Nat /\ c \in Nat
    BY <1>1, <1>3, <2>1
  <2> HIDE DEF a, b, c
  <2>3. a # b * c
    BY <2>2, SMT
  <2> QED BY <2>1, <2>3 DEF a, b, c
<1>4. T = {}
  <2> SUFFICES ASSUME T # {} PROVE FALSE
    OBVIOUS
  <2>1. T \in SUBSET Nat
    OBVIOUS
  <2> HIDE DEF T
  <2>2. PICK n \in T : \A y \in T : n <= y
    BY <2>1, LeastOf
  <2>3. n \in Nat /\ n # 0
    BY <1>2, <2>1, <2>2
  <2>4. n - 1 \in Nat /\ (n - 1) + 1 = n
    BY <2>3, SMT
  <2>5. n - 1 \in T
    BY <1>3, <2>2, <2>4
  <2> QED BY <2>2, <2>3, <2>5, SMT
<1> QED BY <1>4

\* A higher power is an even multiple of a lower one.
LEMMA PowerAbove ==
  ASSUME NEW j \in Nat, NEW k \in Nat, j < k, k <= W
  PROVE  \E h \in Nat \ {0} : 2^k = (2 * h) * 2^j
<1>1. k - j - 1 \in Nat /\ (j + 1) + (k - j - 1) = k /\ j + 1 \in Nat
      /\ j \in 0 .. W + 8 * CellBits /\ k - j - 1 \in 0 .. W
  BY Powers, SMT
<1>2. 2^(j + 1) = 2 * 2^j
  BY <1>1, PowersOfTwo
<1> DEFINE h == 2^(k - j - 1)
           b == 2^j
           c == 2^k
<1>3. c = 2^(j + 1) * h
  BY <1>1, PowerSum
<1>4. h \in Nat \ {0} /\ b \in Nat
  BY <1>1, Powers
<1>5. c = (2 * b) * h
  BY <1>2, <1>3
<1> HIDE DEF h, b, c
<1>6. c = (2 * h) * b
  BY <1>4, <1>5, SMT
<1> QED BY <1>4, <1>6 DEF b, c

\* A bit is the parity of the quotient.
LEMMA BitIs ==
  ASSUME NEW k \in 0 .. W, NEW q \in Int, NEW r \in Nat, r < 2^k,
         NEW n, n = q * 2^k + r
  PROVE  bitOf(n, k) = q % 2
BY Parts, Powers DEF bitOf

\* A bit does not see a multiple of a higher power.
LEMMA BitBelow ==
  ASSUME NEW n \in Int, NEW q \in Int, NEW j \in Nat, NEW k \in Nat, j < k, k <= W
  PROVE  bitOf(n + q * 2^k, j) = bitOf(n, j)
<1> DEFINE p == 2^j
           c == 2^k
<1>1. p \in Nat \ {0} /\ j \in 0 .. W
  BY Powers, SMT
<1>2. PICK h \in Nat \ {0} : c = (2 * h) * p
  BY PowerAbove
<1>3. PICK d \in Int, r \in Nat : r < p /\ n = d * p + r
  BY <1>1, HasParts
<1>4. PICK e \in Int : e = q * h
  BY SMT
<1>5. n + q * c = (d + 2 * e) * p + r
  <2> HIDE DEF p, c
  <2>1. q * c = (2 * e) * p
    BY <1>1, <1>2, <1>4, SMT
  <2> QED BY <1>1, <1>3, <2>1, SMT
<1>6. PICK x \in Int : x = d + 2 * e
  BY SMT
<1>7. bitOf(n, j) = d % 2
  BY <1>1, <1>3, BitIs, Zenon
<1>8. bitOf(n + q * c, j) = x % 2
  <2>1. n + q * c = x * p + r
    BY <1>5, <1>6
  <2> QED BY <1>1, <1>3, <2>1, BitIs, Zenon
<1>9. x % 2 = d % 2
  BY <1>6, SMT
<1> QED BY <1>7, <1>8, <1>9

\* The low bits of a number are its own, signed or not.
LEMMA BitLow ==
  ASSUME NEW n \in Int, NEW j \in Nat, NEW k \in Nat, j < k, k <= W
  PROVE  bitOf(low(n, k), j) = bitOf(n, j) /\ bitOf(signed(n, k), j) = bitOf(n, j)
<1> DEFINE c == 2^k
<1>1. c \in Nat \ {0}
  BY Powers, SMT
<1>2. PICK d \in Int, r \in Nat : r < c /\ n = d * c + r /\ r = low(n, k)
  BY <1>1, HasParts DEF low
<1>3. r = n + (-d) * c /\ r - c = n + (-d - 1) * c /\ -d \in Int /\ -d - 1 \in Int
  <2> HIDE DEF c
  <2> QED BY <1>1, <1>2, SMT
<1>4. \A q \in Int : bitOf(n + q * c, j) = bitOf(n, j)
  BY BitBelow
<1>5. signed(n, k) = r \/ signed(n, k) = r - c
  BY <1>2 DEF signed
<1> QED BY <1>2, <1>3, <1>4, <1>5, Zenon

\* Above the highest power a number stays below, its bits are its sign.
LEMMA BitAbove ==
  ASSUME NEW n \in Int, NEW j \in Nat, NEW k \in Nat, j <= k, k <= W,
         -(2^j) <= n, n < 2^j
  PROVE  bitOf(n, k) = bit(n < 0)
<1> DEFINE c == 2^k
           p == 2^j
<1>1. c \in Nat \ {0} /\ p \in Nat \ {0} /\ k \in 0 .. W
  BY Powers, SMT
<1>2. p <= c
  <2>1. CASE j = k
    BY <1>1, <2>1, SMT
  <2>2. CASE j < k
    <3>1. PICK h \in Nat \ {0} : c = (2 * h) * p
      BY <2>2, PowerAbove
    <3> HIDE DEF c, p
    <3> QED BY <1>1, <3>1, SMT
  <2> QED BY <2>1, <2>2, SMT
<1>3. CASE n < 0
  <2>1. PICK z \in Int : z + 1 = 0
    BY SMT
  <2>2. n = z * c + (n + c) /\ n + c \in Nat /\ n + c < c
    <3>1. -p <= n
      OBVIOUS
    <3>2. z * c = -c
      <4> HIDE DEF c
      <4> QED BY <1>1, <2>1, SMT
    <3> HIDE DEF c, p
    <3> QED BY <1>1, <1>2, <1>3, <3>1, <3>2, SMT
  <2>3. bitOf(n, k) = z % 2
    BY <1>1, <2>2, BitIs, Zenon
  <2>4. z % 2 = 1
    BY <2>1, SMT
  <2> QED BY <1>3, <2>3, <2>4 DEF bit
<1>4. CASE ~(n < 0)
  <2>1. n = 0 * c + n /\ n \in Nat /\ n < c
    <3>1. n < p
      OBVIOUS
    <3> HIDE DEF c, p
    <3> QED BY <1>1, <1>2, <1>4, <3>1, SMT
  <2>2. bitOf(n, k) = 0 % 2
    BY <1>1, <2>1, BitIs, 0 \in Int, Zenon
  <2> QED BY <1>4, <2>2, SMT DEF bit
<1> QED BY <1>3, <1>4

\* Two's complement: the range of a signed number, and its sign, which is its
\* top bit.
LEMMA SignedRange ==
  ASSUME NEW n \in Int, NEW m \in 1 .. W
  PROVE  /\ signed(n, m) \in Int /\ -(2^(m - 1)) <= signed(n, m) /\ signed(n, m) < 2^(m - 1)
         /\ bitOf(n, m - 1) = bit(signed(n, m) < 0)
<1> DEFINE p == 2^(m - 1)
           c == 2^m
           r == low(n, m)
<1>1. /\ m - 1 \in 0 .. W + 8 * CellBits /\ m - 1 \in 0 .. W /\ (m - 1) + 1 = m
      /\ m - 1 \in Nat /\ m \in Nat /\ m - 1 < m /\ m <= W
      /\ m \in 0 .. W + 8 * CellBits
  BY Powers, SMT
<1>2. c = 2 * p /\ p \in Nat \ {0}
  BY <1>1, PowersOfTwo
<1>3. r \in 0 .. c - 1
  BY <1>1, LowTyped
<1>4. signed(n, m) = IF r < p THEN r ELSE r - c
  BY DEF signed
<1>5. bitOf(n, m - 1) = bitOf(r, m - 1)
  BY <1>1, BitLow
<1>6. r < p => bitOf(r, m - 1) = 0
  <2> SUFFICES ASSUME r < p PROVE bitOf(r, m - 1) = 0
    OBVIOUS
  <2>1. r = 0 * p + r /\ r \in Nat
    BY <1>2, <1>3, SMT
  <2>2. bitOf(r, m - 1) = 0 % 2
    BY <1>1, <2>1, BitIs, 0 \in Int, Zenon
  <2> QED BY <2>2, SMT
<1>7. ~(r < p) => bitOf(r, m - 1) = 1
  <2> SUFFICES ASSUME ~(r < p) PROVE bitOf(r, m - 1) = 1
    OBVIOUS
  <2>1. r = 1 * p + (r - p) /\ r - p \in Nat /\ r - p < p
    <3> HIDE DEF p, c, r
    <3> QED BY <1>2, <1>3, SMT
  <2>2. bitOf(r, m - 1) = 1 % 2
    BY <1>1, <2>1, BitIs, 1 \in Int, Zenon
  <2> QED BY <2>2, SMT
<1> HIDE DEF p, c, r
<1> QED BY <1>2, <1>3, <1>4, <1>5, <1>6, <1>7, SMT DEF bit, p

\* A W result: the low bits are the operation's, the others its sign.
LEMMA BitExtended ==
  ASSUME NEW n \in Int, NEW m \in 1 .. W, NEW k \in 0 .. W - 1
  PROVE  bitOf(sext64(n, m), k) = bitOf(n, IF k < m THEN k ELSE m - 1)
<1>1. /\ signed(n, m) \in Int /\ -(2^(m - 1)) <= signed(n, m)
      /\ signed(n, m) < 2^(m - 1)
      /\ bitOf(n, m - 1) = bit(signed(n, m) < 0)
  BY SignedRange
<1>2. k \in Nat /\ k < W /\ W <= W /\ W \in Nat /\ m \in Nat /\ m <= W
  BY Powers, SMT
<1>3. sext64(n, m) = low(signed(n, m), W)
  BY DEF sext64, Wrap, low
<1>4. bitOf(sext64(n, m), k) = bitOf(signed(n, m), k)
  BY <1>1, <1>2, <1>3, BitLow
<1>5. CASE k < m
  BY <1>2, <1>4, <1>5, BitLow
<1>6. CASE ~(k < m)
  <2>1. m - 1 \in Nat /\ m - 1 <= k /\ k <= W
    BY <1>2, <1>6, SMT
  <2>2. bitOf(signed(n, m), k) = bit(signed(n, m) < 0)
    BY <1>1, <1>2, <2>1, BitAbove
  <2> QED BY <1>1, <1>4, <1>6, <2>2
<1> QED BY <1>5, <1>6

\* Addition: a bit is the sum of the two and of the carry from below.
LEMMA BitSum ==
  ASSUME NEW a \in Int, NEW b \in Int, NEW k \in 0 .. W
  PROVE  bitOf(a + b, k) = (bitOf(a, k) + bitOf(b, k) + carry(a, b, k)) % 2
<1> DEFINE p == 2^k
<1>1. p \in Nat \ {0}
  BY Powers
<1>2. PICK d \in Int, r \in Nat : r < p /\ a = d * p + r /\ d = a \div p /\ r = a % p
  BY <1>1, HasParts
<1>3. PICK e \in Int, t \in Nat : t < p /\ b = e * p + t /\ e = b \div p /\ t = b % p
  BY <1>1, HasParts
<1>4. carry(a, b, k) = bit(r + t >= p) /\ bitOf(a, k) = d % 2 /\ bitOf(b, k) = e % 2
  BY <1>2, <1>3 DEF carry, bitOf
<1>5. PICK c \in {0, 1} : c = bit(r + t >= p)
  BY DEF bit
<1>6. PICK x \in Int : x = d + e + c
  BY SMT
<1>7. PICK y \in Nat : y = r + t - c * p /\ y < p
  <2>1. r + t - c * p \in Nat /\ r + t - c * p < p
    <3> HIDE DEF p
    <3> QED BY <1>1, <1>2, <1>3, <1>5, SMT DEF bit
  <2> QED BY <2>1
<1>8. bitOf(a + b, k) = x % 2
  <2>1. x * p = d * p + e * p + c * p
    <3> HIDE DEF p
    <3> QED BY <1>1, <1>6, SMT
  <2>2. a + b = x * p + y
    <3> HIDE DEF p
    <3> QED BY <1>1, <1>2, <1>3, <1>7, <2>1, SMT
  <2>3. y < 2^k
    BY <1>7
  <2> QED BY <2>2, <2>3, BitIs, Zenon
<1>9. x % 2 = ((d % 2) + (e % 2) + c) % 2
  BY <1>5, <1>6, SMT
<1> QED BY <1>4, <1>5, <1>8, <1>9

\* Subtraction: the same with the borrow.
LEMMA BitDifference ==
  ASSUME NEW a \in Int, NEW b \in Int, NEW k \in 0 .. W
  PROVE  bitOf(a - b, k) = (bitOf(a, k) + bitOf(b, k) + borrow(a, b, k)) % 2
<1> DEFINE p == 2^k
<1>1. p \in Nat \ {0}
  BY Powers
<1>2. PICK d \in Int, r \in Nat : r < p /\ a = d * p + r /\ d = a \div p /\ r = a % p
  BY <1>1, HasParts
<1>3. PICK e \in Int, t \in Nat : t < p /\ b = e * p + t /\ e = b \div p /\ t = b % p
  BY <1>1, HasParts
<1>4. borrow(a, b, k) = bit(r < t) /\ bitOf(a, k) = d % 2 /\ bitOf(b, k) = e % 2
  BY <1>2, <1>3 DEF borrow, bitOf
<1>5. PICK c \in {0, 1} : c = bit(r < t)
  BY DEF bit
<1>6. PICK x \in Int : x = d - e - c
  BY SMT
<1>7. PICK y \in Nat : y = r - t + c * p /\ y < p
  <2>1. r - t + c * p \in Nat /\ r - t + c * p < p
    <3> HIDE DEF p
    <3> QED BY <1>1, <1>2, <1>3, <1>5, SMT DEF bit
  <2> QED BY <2>1
<1>8. bitOf(a - b, k) = x % 2
  <2>1. x * p = d * p - e * p - c * p
    <3> HIDE DEF p
    <3> QED BY <1>1, <1>6, SMT
  <2>2. a - b = x * p + y
    <3> HIDE DEF p
    <3> QED BY <1>1, <1>2, <1>3, <1>7, <2>1, SMT
  <2>3. y < 2^k
    BY <1>7
  <2> QED BY <2>2, <2>3, BitIs, Zenon
<1>9. x % 2 = ((d % 2) + (e % 2) + c) % 2
  BY <1>5, <1>6, SMT
<1> QED BY <1>4, <1>5, <1>8, <1>9

\* A left shift moves the bits up and brings zeros in.
LEMMA BitLeft ==
  ASSUME NEW a \in Int, NEW s \in 0 .. W, NEW k \in 0 .. W
  PROVE  bitOf(a * 2^s, k) = IF k >= s THEN bitOf(a, k - s) ELSE 0
<1> DEFINE f == 2^s
           p == 2^k
<1>1. W \in Nat /\ f \in Nat \ {0} /\ p \in Nat \ {0} /\ s \in Nat /\ k \in Nat /\ k <= W /\ s <= W
  BY Powers, SMT
<1>2. CASE k >= s
  <2> DEFINE g == 2^(k - s)
  <2>1. k - s \in 0 .. W /\ k - s \in Nat /\ (k - s) + s = k
    BY <1>1, <1>2, SMT
  <2>2. g \in Nat \ {0} /\ p = g * f
    BY <1>1, <2>1, PowerSum, Powers
  <2>3. PICK d \in Int, r \in Nat : r < g /\ a = d * g + r
    BY <2>2, HasParts
  <2>4. PICK y \in Nat : y = r * f /\ y < p
    <3>1. r * f \in Nat /\ r * f < p
      <4> HIDE DEF f, p, g
      <4> QED BY <1>1, <2>2, <2>3, SMT
    <3> QED BY <3>1
  <2>5. a * f = d * p + y
    <3> HIDE DEF f, p, g
    <3> QED BY <1>1, <2>2, <2>3, <2>4, SMT
  <2>6. bitOf(a * f, k) = d % 2
    BY <2>4, <2>5, BitIs, Zenon
  <2>7. bitOf(a, k - s) = d % 2
    BY <2>1, <2>3, BitIs, Zenon
  <2> QED BY <1>2, <2>6, <2>7
<1>3. CASE ~(k >= s)
  <2>1. k < s
    BY <1>1, <1>3, SMT
  <2>2. PICK h \in Nat \ {0} : f = (2 * h) * p
    BY <1>1, <2>1, PowerAbove
  <2>3. PICK e \in Int : e = a * h
    BY SMT
  <2>4. PICK x \in Int : x = 2 * e
    BY SMT
  <2>5. a * f = x * p + 0
    <3> HIDE DEF f, p
    <3>1. a * f = (2 * e) * p
      BY <1>1, <2>2, <2>3, SMT
    <3> QED BY <1>1, <2>4, <3>1, SMT
  <2>6. 0 \in Nat /\ 0 < p
    BY <1>1, SMT
  <2>7. bitOf(a * f, k) = x % 2
    BY <2>5, <2>6, BitIs, Zenon
  <2>8. x % 2 = 0
    BY <2>4, SMT
  <2> QED BY <1>3, <2>7, <2>8
<1> QED BY <1>2, <1>3

\* A right shift moves the bits down, as far as there are any.
LEMMA BitRight ==
  ASSUME NEW n \in Int, NEW s \in Nat, NEW k \in Nat, s + k <= W
  PROVE  bitOf(n \div 2^s, k) = bitOf(n, k + s)
<1> DEFINE f == 2^s
           p == 2^k
           g == 2^(k + s)
<1>1. /\ W \in Nat /\ s \in 0 .. W /\ k \in 0 .. W /\ k + s \in 0 .. W
      /\ f \in Nat \ {0} /\ p \in Nat \ {0} /\ g \in Nat \ {0}
  BY Powers, SMT
<1>2. g = p * f
  BY <1>1, PowerSum
<1>3. PICK d \in Int, r \in Nat : r < f /\ n = d * f + r /\ d = n \div f
  BY <1>1, HasParts
<1>4. PICK e \in Int, t \in Nat : t < p /\ d = e * p + t
  <2>1. PICK e \in Int, t \in Nat : t < p /\ d = e * p + t /\ e = d \div p /\ t = d % p
    BY <1>1, HasParts, Zenon
  <2> QED BY <2>1, Zenon
<1>5. PICK y \in Nat : y = t * f + r /\ y < g
  <2>1. t * f + r \in Nat /\ t * f + r < g
    <3> HIDE DEF f, p, g
    <3>1. t <= p - 1 /\ (p - 1) * f = p * f - f
      BY <1>1, <1>4, SMT
    <3>2. t * f <= (p - 1) * f
      BY <1>1, <1>4, <3>1, SMT
    <3>3. t * f \in Nat
      BY <1>1, <1>4, SMT
    <3> QED BY <1>1, <1>2, <1>3, <3>1, <3>2, <3>3, SMT
  <2> QED BY <2>1
<1>6. n = e * g + y
  <2> HIDE DEF f, p, g
  <2>1. d * f = e * (p * f) + t * f
    BY <1>1, <1>4, SMT
  <2>2. PICK u \in Int, v \in Int : u = e * g /\ v = t * f
    BY <1>1, SMT
  <2>3. d * f = u + v
    BY <1>2, <2>1, <2>2, Zenon
  <2> QED BY <1>3, <1>5, <2>2, <2>3, SMT
<1>7. bitOf(n \div 2^s, k) = e % 2
  <2>1. bitOf(d, k) = e % 2
    BY <1>1, <1>4, BitIs, Zenon
  <2> QED BY <1>3, <2>1, Zenon
<1>8. bitOf(n, k + s) = e % 2
  <2>1. y < g
    BY <1>5
  <2> QED BY <1>1, <1>6, <2>1, BitIs, Zenon
<1> QED BY <1>7, <1>8

\* and from there on they are the sign.
LEMMA BitRightAbove ==
  ASSUME NEW n \in Int, NEW j \in Nat, NEW s \in Nat, NEW k \in Nat,
         s <= j, j <= W, k <= W, j <= k + s, -(2^j) <= n, n < 2^j
  PROVE  bitOf(n \div 2^s, k) = bit(n < 0)
<1> DEFINE f == 2^s
           c == 2^(j - s)
           p == 2^j
           d == n \div f
<1>1. /\ W \in Nat /\ s \in 0 .. W /\ j \in 0 .. W /\ j - s \in 0 .. W
      /\ j - s \in Nat /\ (j - s) + s = j /\ j - s <= k
      /\ f \in Nat \ {0} /\ c \in Nat \ {0} /\ p \in Nat \ {0}
  BY Powers, SMT
<1>2. p = c * f
  BY <1>1, PowerSum
<1>3. PICK r \in Nat : d \in Int /\ r < f /\ n = d * f + r
  <2>1. PICK q \in Int, r \in Nat : r < f /\ n = q * f + r /\ q = n \div f
    BY <1>1, HasParts
  <2> QED BY <2>1
<1>4. -p <= n /\ n < p
  OBVIOUS
<1> HIDE DEF f, p, c, d
<1>5. d < c
  <2> SUFFICES ASSUME d >= c PROVE FALSE
    BY <1>1, <1>3, SMT
  <2>1. d * f >= c * f
    BY <1>1, <1>3, SMT
  <2> QED BY <1>1, <1>2, <1>3, <1>4, <2>1, SMT
<1>6. -c <= d
  <2> SUFFICES ASSUME d + 1 <= -c PROVE FALSE
    BY <1>1, <1>3, SMT
  <2>1. (d + 1) * f <= (-c) * f /\ (d + 1) * f = d * f + f /\ (-c) * f = -(c * f)
    BY <1>1, <1>3, SMT
  <2>2. d * f \in Int
    BY <1>1, <1>3, SMT
  <2> QED BY <1>1, <1>2, <1>3, <1>4, <2>1, <2>2, SMT
<1>7. d < 0 <=> n < 0
  <2>1. d < 0 => d * f <= -f
    BY <1>1, <1>3, SMT
  <2>2. d >= 0 => d * f >= 0
    BY <1>1, <1>3, SMT
  <2>3. d * f \in Int
    BY <1>1, <1>3, SMT
  <2> QED BY <1>1, <1>3, <2>1, <2>2, <2>3, SMT
<1>8. bitOf(d, k) = bit(d < 0)
  BY <1>1, <1>3, <1>5, <1>6, BitAbove DEF c
<1> QED BY <1>7, <1>8 DEF bit, d, f

\* A shift to the right of a signed number of m bits fills with its sign.
LEMMA BitArithmetic ==
  ASSUME NEW a \in Int, NEW m \in 1 .. W, NEW s \in 0 .. m - 1, NEW k \in 0 .. m - 1
  PROVE  bitOf(signed(a, m) \div 2^s, k) = bitOf(a, IF k + s < m THEN k + s ELSE m - 1)
<1>1. /\ signed(a, m) \in Int /\ -(2^(m - 1)) <= signed(a, m)
      /\ signed(a, m) < 2^(m - 1)
      /\ bitOf(a, m - 1) = bit(signed(a, m) < 0)
  BY SignedRange
<1>2. /\ W \in Nat /\ m \in Nat /\ m <= W /\ s \in Nat /\ k \in Nat /\ k + s \in Nat
      /\ m - 1 \in Nat /\ s <= m - 1 /\ m - 1 <= W /\ k <= W
  BY Powers, SMT
<1>3. CASE k + s < m
  <2>1. s + k <= W
    BY <1>2, <1>3, SMT
  <2>2. bitOf(signed(a, m) \div 2^s, k) = bitOf(signed(a, m), k + s)
    BY <1>1, <1>2, <2>1, BitRight
  <2> QED BY <1>2, <1>3, <2>2, BitLow
<1>4. CASE ~(k + s < m)
  <2>1. m - 1 <= k + s
    BY <1>2, <1>4, SMT
  <2> QED BY <1>1, <1>2, <1>4, <2>1, BitRightAbove
<1> QED BY <1>3, <1>4

\* and one of an unsigned number of m bits with zeros.
LEMMA BitLogical ==
  ASSUME NEW a \in Int, NEW m \in 1 .. W, NEW s \in 0 .. m - 1, NEW k \in 0 .. m - 1
  PROVE  bitOf(low(a, m) \div 2^s, k) = IF k + s < m THEN bitOf(a, k + s) ELSE 0
<1>1. /\ W \in Nat /\ m \in Nat /\ m <= W /\ s \in Nat /\ k \in Nat /\ k + s \in Nat
      /\ m \in 0 .. W + 8 * CellBits /\ m \in 0 .. W /\ s <= m /\ k <= W
  BY Powers, SMT
<1>2. low(a, m) \in 0 .. 2^m - 1 /\ 2^m \in Nat
  BY <1>1, LowTyped, Powers
<1>3. low(a, m) \in Int /\ -(2^m) <= low(a, m) /\ low(a, m) < 2^m /\ ~(low(a, m) < 0)
  BY <1>2, SMT
<1>4. CASE k + s < m
  <2>1. s + k <= W
    BY <1>1, <1>4, SMT
  <2>2. bitOf(low(a, m) \div 2^s, k) = bitOf(low(a, m), k + s)
    BY <1>1, <1>3, <2>1, BitRight
  <2> QED BY <1>1, <1>4, <2>2, BitLow
<1>5. CASE ~(k + s < m)
  <2>1. m <= k + s
    BY <1>1, <1>5, SMT
  <2>2. bitOf(low(a, m) \div 2^s, k) = bit(low(a, m) < 0)
    BY <1>1, <1>3, <2>1, BitRightAbove
  <2> QED BY <1>3, <1>5, <2>2 DEF bit
<1> QED BY <1>4, <1>5

\* The bits of a truth value.
LEMMA BitOfBit ==
  ASSUME NEW p \in BOOLEAN, NEW k \in 0 .. W - 1
  PROVE  bitOf(bit(p), k) = bit(k = 0 /\ p)
<1>1. /\ W \in Nat /\ 1 <= W /\ k \in Nat /\ k <= W /\ 0 + 1 = 1
      /\ 0 \in 0 .. W + 8 * CellBits /\ 0 \in 0 .. W
  BY Powers, SMT
<1>2. 2^0 = 1 /\ 2^(0 + 1) = 2 * 2^0
  BY <1>1, PowersOfTwo
<1>3. 2^1 = 2
  BY <1>1, <1>2
<1>4. PICK v \in Int : v = bit(p) /\ 0 <= v /\ v < 2
  BY SMT DEF bit
<1>5. CASE k = 0
  <2>1. v = v * 2^0 + 0 /\ 0 \in Nat /\ 0 < 2^0
    BY <1>2, SMT
  <2>2. bitOf(v, 0) = v % 2
    BY <1>1, <2>1, BitIs, Zenon
  <2> QED BY <1>4, <1>5, <2>2, SMT DEF bit
<1>6. CASE k # 0
  <2>1. 1 <= k /\ -(2^1) <= v /\ v < 2^1 /\ ~(v < 0)
    BY <1>1, <1>3, <1>4, <1>6, SMT
  <2>2. bitOf(v, k) = bit(v < 0)
    BY <1>1, <2>1, BitAbove
  <2> QED BY <1>4, <1>6, <2>1, <2>2 DEF bit
<1> QED BY <1>5, <1>6

\* Signed comparison: between numbers of one sign the unsigned one decides,
\* else the one with the sign bit is less.
LEMMA LessBits ==
  ASSUME NEW a \in DWord, NEW b \in DWord
  PROVE  /\ borrow(a, b, W) = bit(a < b)
         /\ less(a, b) <=> IF bitOf(a, W - 1) = bitOf(b, W - 1)
                             THEN borrow(a, b, W) = 1 ELSE bitOf(a, W - 1) = 1
<1> DEFINE c == 2^W
           h == 2^(W - 1)
<1>1. W \in Nat /\ W \in 1 .. W /\ c \in Nat /\ a \in Nat /\ b \in Nat /\ a < c /\ b < c
  BY Powers, SMT DEF DWord
<1>2. a % c = a /\ b % c = b
  <2> HIDE DEF c
  <2> QED BY <1>1, SMT
<1>3. borrow(a, b, W) = bit(a < b)
  BY <1>2 DEF borrow
<1>4. /\ bitOf(a, W - 1) = bit(signed(a, W) < 0)
      /\ bitOf(b, W - 1) = bit(signed(b, W) < 0)
      /\ signed(a, W) \in Int /\ signed(b, W) \in Int
  BY <1>1, SignedRange
<1>5. /\ signed(a, W) = IF a < h THEN a ELSE a - c
      /\ signed(b, W) = IF b < h THEN b ELSE b - c
  BY <1>2 DEF signed, low
<1>6. borrow(a, b, W) = 1 <=> a < b
  BY <1>3 DEF bit
<1>7. bitOf(a, W - 1) = 1 <=> signed(a, W) < 0
  BY <1>4 DEF bit
<1>8. bitOf(a, W - 1) = bitOf(b, W - 1) <=> (signed(a, W) < 0 <=> signed(b, W) < 0)
  BY <1>4 DEF bit
<1>9. h \in Nat
  BY Powers, SMT
<1> HIDE DEF c, h
<1>10. signed(a, W) < signed(b, W) <=>
         IF signed(a, W) < 0 <=> signed(b, W) < 0 THEN a < b ELSE signed(a, W) < 0
  <2>1. /\ signed(a, W) < 0 <=> ~(a < h)
        /\ signed(b, W) < 0 <=> ~(b < h)
    BY <1>1, <1>5, <1>9, SMT
  <2> QED BY <1>1, <1>5, <1>9, <2>1, SMT
<1> QED BY <1>3, <1>6, <1>7, <1>8, <1>10 DEF less

\* Every operation of simArithLogic does, bit by bit, what its mnemonic means.
LEMMA AluBits ==
  ASSUME NEW fn \in basic \cup {"SUB"} \cup wide, NEW a \in DWord, NEW b \in DWord,
         NEW k \in 0 .. W - 1
  PROVE  bitOf(alu(fn, a, b), k) = meantBit(fn, a, b, k)
<1>1. /\ W \in Nat /\ W \in 1 .. W /\ WordBits \in 1 .. W /\ k \in Nat /\ k < W
      /\ k \in 0 .. W /\ a \in Int /\ b \in Int
  BY Powers, SMT DEF DWord
<1> DEFINE s == b % W
           t == b % WordBits
           l == IF k < WordBits THEN k ELSE WordBits - 1
<1>2. /\ s \in 0 .. W - 1 /\ s \in 0 .. W /\ t \in 0 .. WordBits - 1 /\ t \in 0 .. W
      /\ l \in 0 .. WordBits - 1 /\ l \in 0 .. W
  BY <1>1, DivMod, SMT
<1>3. 2^s \in Nat \ {0} /\ 2^t \in Nat \ {0}
  BY <1>2, Powers
<1>4. \A n \in Int : bitOf(Wrap(n), k) = bitOf(n, k)
  BY <1>1, BitLow DEF Wrap, low
<1>5. \A n \in Int : bitOf(sext64(n, WordBits), k) = bitOf(n, l)
  BY <1>1, BitExtended
<1>6. fn \notin wide => meantBit(fn, a, b, k) = resultBit(fn, a, b, W, k)
  BY DEF meantBit
<1>7. fn \in wide => meantBit(fn, a, b, k) = resultBit(narrow[fn], a, b, WordBits, l)
  BY DEF meantBit
<1> HIDE DEF l
<1>8. /\ a + b \in Int /\ a - b \in Int /\ a * 2^s \in Int /\ a * 2^t \in Int
      /\ signed(a, W) \in Int /\ signed(a, WordBits) \in Int
      /\ low(a, WordBits) \in Int
  <2>1. WordBits \in 0 .. W + 8 * CellBits /\ W \in 0 .. W + 8 * CellBits
    BY Powers, SMT
  <2>2. signed(a, W) \in Int /\ signed(a, WordBits) \in Int /\ low(a, WordBits) \in Int
    BY <1>1, <2>1, SignedTyped, LowTyped
  <2> QED BY <1>1, <1>3, <2>2, SMT
<1>9. \A n \in Int : n \div 2^s \in Int /\ n \div 2^t \in Int
  BY <1>3, DivMod
<1> HIDE DEF s, t
<1>10. CASE fn = "ADD"
  <2>1. alu(fn, a, b) = Wrap(a + b) /\ fn \notin wide
    BY <1>10 DEF alu, wide
  <2>2. resultBit(fn, a, b, W, k) = (bitOf(a, k) + bitOf(b, k) + carry(a, b, k)) % 2
    BY <1>10 DEF resultBit
  <2> QED BY <1>1, <1>4, <1>6, <1>8, <2>1, <2>2, BitSum
<1>11. CASE fn = "SUB"
  <2>1. alu(fn, a, b) = Wrap(a - b) /\ fn \notin wide
    BY <1>11 DEF alu, wide
  <2>2. resultBit(fn, a, b, W, k) = (bitOf(a, k) + bitOf(b, k) + borrow(a, b, k)) % 2
    BY <1>11 DEF resultBit
  <2> QED BY <1>1, <1>4, <1>6, <1>8, <2>1, <2>2, BitDifference
<1>12. CASE fn = "SLL"
  <2>1. alu(fn, a, b) = Wrap(a * 2^s) /\ fn \notin wide
    BY <1>12 DEF alu, wide, s
  <2>2. resultBit(fn, a, b, W, k) = IF k >= s THEN bitOf(a, k - s) ELSE 0
    BY <1>12 DEF resultBit, s
  <2> QED BY <1>1, <1>2, <1>4, <1>6, <1>8, <2>1, <2>2, BitLeft
<1>13. CASE fn = "SRL"
  <2>1. alu(fn, a, b) = a \div 2^s /\ fn \notin wide
    BY <1>13 DEF alu, wide, s
  <2>2. resultBit(fn, a, b, W, k) = IF k + s < W THEN bitOf(a, k + s) ELSE 0
    BY <1>13 DEF resultBit, s
  <2>3. low(a, W) = a
    <3>1. 2^W \in Nat /\ a \in 0 .. 2^W - 1
      BY Powers DEF DWord
    <3> QED BY <3>1, SMT DEF low
  <2>4. bitOf(low(a, W) \div 2^s, k) = IF k + s < W THEN bitOf(a, k + s) ELSE 0
    BY <1>1, <1>2, BitLogical
  <2> QED BY <1>6, <2>1, <2>2, <2>3, <2>4
<1>14. CASE fn = "SRA"
  <2>1. alu(fn, a, b) = Wrap(signed(a, W) \div 2^s) /\ fn \notin wide
    BY <1>14 DEF alu, wide, s
  <2>2. resultBit(fn, a, b, W, k) = bitOf(a, IF k + s < W THEN k + s ELSE W - 1)
    BY <1>14 DEF resultBit, s
  <2> QED BY <1>1, <1>2, <1>4, <1>6, <1>8, <1>9, <2>1, <2>2, BitArithmetic
<1>15. CASE fn \in {"XOR", "OR", "AND"}
  <2>1. /\ fn = "XOR" => alu(fn, a, b) = BitXor(a, b)
        /\ fn = "OR" => alu(fn, a, b) = BitOr(a, b)
        /\ fn = "AND" => alu(fn, a, b) = BitAnd(a, b)
        /\ fn \notin wide
    BY <1>15 DEF alu, wide
  <2>2. /\ fn = "XOR" => resultBit(fn, a, b, W, k) = (bitOf(a, k) + bitOf(b, k)) % 2
        /\ fn = "OR" => resultBit(fn, a, b, W, k) = bit(bitOf(a, k) + bitOf(b, k) > 0)
        /\ fn = "AND" => resultBit(fn, a, b, W, k) = bitOf(a, k) * bitOf(b, k)
    BY <1>15 DEF resultBit
  <2>3. /\ bitOf(BitXor(a, b), k) = (bitOf(a, k) + bitOf(b, k)) % 2
        /\ bitOf(BitOr(a, b), k) = bit(bitOf(a, k) + bitOf(b, k) > 0)
        /\ bitOf(BitAnd(a, b), k) = bitOf(a, k) * bitOf(b, k)
    BY BitwiseOperators
  <2> QED BY <1>6, <1>15, <2>1, <2>2, <2>3
<1>16. CASE fn = "SLTU"
  <2>1. alu(fn, a, b) = bit(a < b) /\ fn \notin wide /\ (a < b) \in BOOLEAN
    BY <1>16 DEF alu, wide
  <2>2. resultBit(fn, a, b, W, k) = bit(k = 0 /\ borrow(a, b, W) = 1)
    BY <1>16 DEF resultBit
  <2>3. borrow(a, b, W) = 1 <=> a < b
    BY LessBits DEF bit
  <2>4. bitOf(bit(a < b), k) = bit(k = 0 /\ a < b)
    BY <2>1, BitOfBit
  <2> QED BY <1>6, <2>1, <2>2, <2>3, <2>4 DEF bit
<1>17. CASE fn = "SLT"
  <2>1. alu(fn, a, b) = bit(less(a, b)) /\ fn \notin wide
    BY <1>17 DEF alu, wide
  <2>2. resultBit(fn, a, b, W, k) =
          bit(k = 0 /\ IF bitOf(a, W - 1) = bitOf(b, W - 1)
                         THEN borrow(a, b, W) = 1 ELSE bitOf(a, W - 1) = 1)
    BY <1>17 DEF resultBit
  <2>3. bitOf(bit(less(a, b)), k) = bit(k = 0 /\ less(a, b))
    BY LessBoolean, BitOfBit
  <2>4. less(a, b) <=> IF bitOf(a, W - 1) = bitOf(b, W - 1)
                         THEN borrow(a, b, W) = 1 ELSE bitOf(a, W - 1) = 1
    BY LessBits
  <2> QED BY <1>6, <2>1, <2>2, <2>3, <2>4 DEF bit
<1>18. CASE fn = "ADDW"
  <2>1. alu(fn, a, b) = sext64(a + b, WordBits) /\ fn \in wide /\ narrow[fn] = "ADD"
    BY <1>18 DEF alu, wide, narrow
  <2>2. resultBit("ADD", a, b, WordBits, l) =
          (bitOf(a, l) + bitOf(b, l) + carry(a, b, l)) % 2
    BY DEF resultBit
  <2> QED BY <1>1, <1>2, <1>5, <1>7, <1>8, <2>1, <2>2, BitSum
<1>19. CASE fn = "SUBW"
  <2>1. alu(fn, a, b) = sext64(a - b, WordBits) /\ fn \in wide /\ narrow[fn] = "SUB"
    BY <1>19 DEF alu, wide, narrow
  <2>2. resultBit("SUB", a, b, WordBits, l) =
          (bitOf(a, l) + bitOf(b, l) + borrow(a, b, l)) % 2
    BY DEF resultBit
  <2> QED BY <1>1, <1>2, <1>5, <1>7, <1>8, <2>1, <2>2, BitDifference
<1>20. CASE fn = "SLLW"
  <2>1. alu(fn, a, b) = sext64(a * 2^t, WordBits) /\ fn \in wide /\ narrow[fn] = "SLL"
    BY <1>20 DEF alu, wide, narrow, t
  <2>2. resultBit("SLL", a, b, WordBits, l) = IF l >= t THEN bitOf(a, l - t) ELSE 0
    BY DEF resultBit, t
  <2> QED BY <1>1, <1>2, <1>5, <1>7, <1>8, <2>1, <2>2, BitLeft
<1>21. CASE fn = "SRLW"
  <2>1. /\ alu(fn, a, b) = sext64(low(a, WordBits) \div 2^t, WordBits)
        /\ fn \in wide /\ narrow[fn] = "SRL"
    BY <1>21 DEF alu, wide, narrow, t
  <2>2. resultBit("SRL", a, b, WordBits, l) =
          IF l + t < WordBits THEN bitOf(a, l + t) ELSE 0
    BY DEF resultBit, t
  <2> QED BY <1>1, <1>2, <1>5, <1>7, <1>8, <1>9, <2>1, <2>2, BitLogical
<1>22. CASE fn = "SRAW"
  <2>1. /\ alu(fn, a, b) = sext64(signed(a, WordBits) \div 2^t, WordBits)
        /\ fn \in wide /\ narrow[fn] = "SRA"
    BY <1>22 DEF alu, wide, narrow, t
  <2>2. resultBit("SRA", a, b, WordBits, l) =
          bitOf(a, IF l + t < WordBits THEN l + t ELSE WordBits - 1)
    BY DEF resultBit, t
  <2> QED BY <1>1, <1>2, <1>5, <1>7, <1>8, <1>9, <2>1, <2>2, BitArithmetic
<1> QED BY <1>10, <1>11, <1>12, <1>13, <1>14, <1>15, <1>16, <1>17, <1>18, <1>19,
           <1>20, <1>21, <1>22 DEF basic, wide

\* A shift takes its amount from the low bits of its second operand.
LEMMA AluShiftAmount ==
  ASSUME NEW fn \in shifts, NEW a, NEW b, NEW c, b % W = c % W,
         b % WordBits = c % WordBits
  PROVE  alu(fn, a, b) = alu(fn, a, c)
BY DEF shifts, alu

\* Numbers that differ by a multiple have the same remainder.
LEMMA SameRemainder ==
  ASSUME NEW n \in Nat \ {0}, NEW x \in Int, NEW y \in Int, NEW z \in Int,
         x = y + z * n
  PROVE  x % n = y % n
<1>1. PICK q \in Int, r \in Nat : r < n /\ y = q * n + r /\ q = y \div n /\ r = y % n
  BY HasParts, Zenon
<1>2. PICK e \in Int : e = q + z
  BY SMT
<1>3. x = e * n + r /\ r < n
  <2>1. y = q * n + r /\ r < n
    BY <1>1, Zenon
  <2>2. e * n = q * n + z * n
    BY <1>2, SMT
  <2>3. PICK f \in Int, h \in Int : f = q * n /\ h = z * n
    BY SMT
  <2>4. y = f + r /\ x = y + h /\ e * n = f + h
    BY <2>1, <2>2, <2>3, Zenon
  <2> QED BY <2>1, <2>4, SMT
<1>4. x % n = r
  <2>1. (e * n + r) % n = r
    BY <1>1, DivModIs, Zenon
  <2> QED BY <1>3, <2>1, Zenon
<1> QED BY <1>1, <1>4, Zenon

\* A multiple of both widths added to the immediate, which bit 10 is, leaves
\* the amount of a shift as it is.
LEMMA ShiftAmount ==
  ASSUME NEW n \in {W, WordBits}, NEW k \in Int, NEW g \in Int, g % n = 0
  PROVE  Wrap(k + g) % n = Wrap(k) % n
<1> DEFINE c == 2^W
<1>1. n \in Nat \ {0} /\ c \in Nat \ {0} /\ c \in Int
  BY Powers, SMT
<1>2. c % n = 0
  BY ShiftAmounts, Zenon
<1> HIDE DEF c
<1>3. PICK u \in Int : c = u * n
  <2>1. PICK q \in Int, r \in Nat : r < n /\ c = q * n + r /\ q = c \div n /\ r = c % n
    BY <1>1, HasParts, Zenon
  <2>2. r = 0
    BY <1>2, <2>1, Zenon
  <2> QED BY <1>1, <2>1, <2>2, SMT
<1>4. PICK v \in Int : g = v * n
  <2>1. PICK q \in Int, r \in Nat : r < n /\ g = q * n + r /\ q = g \div n /\ r = g % n
    BY <1>1, HasParts, Zenon
  <2>2. r = 0 /\ g = q * n + r
    BY <2>1, Zenon
  <2> QED BY <1>1, <2>2, SMT
<1>5. PICK m \in Int : m = k + g
  BY SMT
<1>6. PICK d \in Int, y \in Nat : y < c /\ k = d * c + y /\ d = k \div c /\ y = k % c
  BY <1>1, HasParts, Zenon
<1>7. PICK e \in Int, x \in Nat : x < c /\ m = e * c + x /\ e = m \div c /\ x = m % c
  BY <1>1, HasParts, Zenon
<1>8. PICK z \in Int : z = v + (d - e) * u
  BY SMT
<1>9. x = y + z * n
  <2>1. z * n = v * n + (d - e) * (u * n)
    BY <1>1, <1>8, SMT
  <2>2. z * n = g + (d - e) * c
    BY <1>3, <1>4, <2>1, Zenon
  <2>3. PICK f \in Int, h \in Int : f = d * c /\ h = e * c /\ (d - e) * c = f - h
    BY <1>1, SMT
  <2>4. z * n = g + (f - h)
    BY <2>2, <2>3, Zenon
  <2>5. k = f + y /\ m = h + x
    BY <1>6, <1>7, <2>3, Zenon
  <2> QED BY <1>5, <2>4, <2>5, SMT
<1>10. x \in Int /\ y \in Int
  BY SMT
<1>11. x % n = y % n
  <2>1. n \in Nat \ {0}
    BY <1>1
  <2>2. \A w \in Int : x = y + w * n => x % n = y % n
    BY <1>10, <2>1, SameRemainder, Zenon
  <2> QED BY <1>9, <2>2, Zenon
<1>12. Wrap(k + g) = x /\ Wrap(k) = y
  BY <1>5, <1>6, <1>7, Zenon DEF Wrap, c
<1> QED BY <1>11, <1>12, Zenon

\* Twelve bits up is an even multiple of every lower bit, also where a word has
\* fewer.
LEMMA PowerTwelve ==
  ASSUME NEW k \in 0 .. 11
  PROVE  \E h \in Nat : 2^12 = (2 * h) * 2^k
<1>1. CASE k \in 0 .. 5
  <2>1. CASE k = 0
    BY <2>1, 2^12 = (2 * 2048) * 2^0, 2048 \in Nat, SMT
  <2>2. CASE k = 1
    BY <2>2, 2^12 = (2 * 1024) * 2^1, 1024 \in Nat, SMT
  <2>3. CASE k = 2
    BY <2>3, 2^12 = (2 * 512) * 2^2, 512 \in Nat, SMT
  <2>4. CASE k = 3
    BY <2>4, 2^12 = (2 * 256) * 2^3, 256 \in Nat, SMT
  <2>5. CASE k = 4
    BY <2>5, 2^12 = (2 * 128) * 2^4, 128 \in Nat, SMT
  <2>6. CASE k = 5
    BY <2>6, 2^12 = (2 * 64) * 2^5, 64 \in Nat, SMT
  <2> QED BY <1>1, <2>1, <2>2, <2>3, <2>4, <2>5, <2>6, SMT
<1>2. CASE k \in 6 .. 11
  <2>1. CASE k = 6
    BY <2>1, 2^12 = (2 * 32) * 2^6, 32 \in Nat, SMT
  <2>2. CASE k = 7
    BY <2>2, 2^12 = (2 * 16) * 2^7, 16 \in Nat, SMT
  <2>3. CASE k = 8
    BY <2>3, 2^12 = (2 * 8) * 2^8, 8 \in Nat, SMT
  <2>4. CASE k = 9
    BY <2>4, 2^12 = (2 * 4) * 2^9, 4 \in Nat, SMT
  <2>5. CASE k = 10
    BY <2>5, 2^12 = (2 * 2) * 2^10, 2 \in Nat, SMT
  <2>6. CASE k = 11
    BY <2>6, 2^12 = (2 * 1) * 2^11, 1 \in Nat, SMT
  <2> QED BY <1>2, <2>1, <2>2, <2>3, <2>4, <2>5, <2>6, SMT
<1> QED BY <1>1, <1>2, SMT

\* The bits of an upper immediate, in a word of any width.
LEMMA UpperBits ==
  ASSUME NEW i, i.imm \in Int, NEW k \in 0 .. W - 1
  PROVE  bitOf(Wrap(upper(i)), k) = upperBit(i, k)
<1> DEFINE f == 2^12
           p == 2^k
<1>1. /\ k \in Nat /\ k \in 0 .. W /\ k < W /\ W <= W /\ W \in Nat
      /\ p \in Nat \ {0} /\ f \in Int
  BY Powers, SMT
<1>2. upper(i) \in Int
  BY SMT DEF upper
<1>3. bitOf(Wrap(upper(i)), k) = bitOf(upper(i), k)
  BY <1>1, <1>2, BitLow DEF Wrap, low
<1>4. CASE k < 12
  <2>1. PICK h \in Nat : f = (2 * h) * p
    <3>1. k \in 0 .. 11
      BY <1>4, SMT
    <3> QED BY <3>1, PowerTwelve
  <2>2. PICK e \in Int : e = i.imm * h
    BY SMT
  <2>3. PICK x \in Int : x = 2 * e
    BY SMT
  <2>4. i.imm * f = x * p + 0
    <3> HIDE DEF f, p
    <3>1. i.imm * f = (2 * e) * p
      BY <1>1, <2>1, <2>2, SMT
    <3> QED BY <1>1, <2>3, <3>1, SMT
  <2>5. 0 \in Nat /\ 0 < p
    BY <1>1, SMT
  <2>6. bitOf(i.imm * f, k) = x % 2
    BY <1>1, <2>4, <2>5, BitIs, Zenon
  <2>7. x % 2 = 0
    BY <2>3, SMT
  <2> QED BY <1>3, <1>4, <2>6, <2>7 DEF upper, upperBit
<1>5. CASE ~(k < 12)
  <2>1. 12 \in 0 .. W /\ k >= 12
    BY <1>1, <1>5, SMT
  <2>2. bitOf(i.imm * 2^12, k) = bitOf(i.imm, k - 12)
    BY <1>1, <2>1, BitLeft
  <2> QED BY <1>3, <1>5, <2>2 DEF upper, upperBit
<1> QED BY <1>4, <1>5

\* What comes out of every instruction that doesArithLogic is, at every width
\* and for any operands, bit by bit what its mnemonic means.
THEOREM WordsComputed == Spec => []ComputedAsMeant
<1>1. WordsInv => ComputedAsMeant
  <2> DEFINE i == meant
             bitMeant(k) ==
               CASE i.op = "INT"    -> meantBit(i.fn, ops.a, ops.b, k)
                 [] i.op = "INTIMM" -> meantBit(i.fn, ops.a, Wrap(i.imm), k)
                 [] i.fn = "LUI"    -> upperBit(i, k)
                 [] i.fn = "AUIPC"  -> meantBit("ADD", ops.pc, Wrap(upper(i)), k)
                 [] i.op \in {"JAL", "JALR"} -> meantBit("ADD", ops.pc, 4, k)
  <2> SUFFICES ASSUME WordsInv, stage = "EX", isAssembled, NEW k \in 0 .. W - 1
               PROVE  bitOf(result, k) = bitMeant(k)
    BY Zenon DEF ComputedAsMeant
  <2>1. isInstruction(i) /\ word = assemble(i) /\ ~isNopWord(word)
    BY DEF WordsInv, isAssembled
  <2>2. asMachine(word).op = i.op /\ operation(word) = i.fn /\ word \in Field
    BY <2>1, Decoded
  <2>3. /\ ops.pc \in DWord /\ ops.a \in DWord /\ ops.b \in DWord
        /\ result = DArithLogic(asMachine(word), ops.pc, ops.a, ops.b)
        /\ inst = simDecode(word) /\ inst.doesArithLogic
    BY DEF WordsInv
  <2>4. asMachine(word).fn = i.fn /\ asMachine(word).imm = Wrap(immediate(word))
    BY <2>2 DEF asMachine
  <2>5. i.imm \in Int
    BY <2>1, SMT DEF isInstruction, fitsSigned
  <2>6. Wrap(i.imm) \in DWord /\ 4 \in DWord
    <3>1. 4 \in DWord
      BY Powers, SMT DEF DWord
    <3> QED BY <2>5, <3>1, WrapTyped
  <2>7. i.op \in {"INT", "INTIMM", "JALR", "JAL", "UPPER"}
    <3>1. M!doesArithLogic(asMachine(word))
      BY <2>2, <2>3, FlagsOf
    <3> QED BY <2>2, <3>1 DEF M!doesArithLogic
  <2>8. /\ i.op \in {"INT", "INTIMM"} => i.fn \in basic \cup {"SUB"} \cup wide
        /\ i.op \in {"JAL", "JALR"} => i.fn = "ADD"
        /\ i.op = "UPPER" => i.fn \in {"LUI", "AUIPC"}
    BY <2>1, SMT DEF isInstruction, basic, shifts, wide
  <2>9. "ADD" \in basic \cup {"SUB"} \cup wide
    BY DEF basic
  <2>10. \A n \in DWord : bitOf(Wrap(ops.pc + n), k) = meantBit("ADD", ops.pc, n, k)
    <3>1. \A n : alu("ADD", ops.pc, n) = Wrap(ops.pc + n)
      BY DEF alu
    <3> QED BY <2>3, <2>9, <3>1, AluBits
  <2>11. CASE i.op = "INT"
    <3>1. result = alu(i.fn, ops.a, ops.b)
      BY <2>2, <2>3, <2>4, <2>11 DEF DArithLogic
    <3>2. bitMeant(k) = meantBit(i.fn, ops.a, ops.b, k)
      BY <2>1, <2>11, Formats
    <3> HIDE DEF bitMeant
    <3> QED BY <2>3, <2>8, <2>11, <3>1, <3>2, AluBits
  <2>12. CASE i.op = "INTIMM"
    <3>1. result = alu(i.fn, ops.a, Wrap(immediate(word)))
      BY <2>2, <2>3, <2>4, <2>12 DEF DArithLogic
    <3>2. alu(i.fn, ops.a, Wrap(immediate(word))) = alu(i.fn, ops.a, Wrap(i.imm))
      <4>1. CASE i.fn \notin shifts
        BY <2>1, <2>12, <4>1, ImmediateI
      <4>2. CASE i.fn \in shifts
        <5>1. immediate(word) = i.imm \/ immediate(word) = i.imm + 1024
          BY <2>1, <2>5, <2>12, <4>2, ImmediateShift, SMT
        <5>2. PICK g \in Int : /\ immediate(word) = i.imm \/ immediate(word) = i.imm + g
                              /\ g % W = 0 /\ g % WordBits = 0
          <6>1. 1024 % W = 0 /\ 1024 % WordBits = 0
            BY ShiftAmounts, SMT
          <6> QED BY <5>1, <6>1, SMT
        <5>3. /\ Wrap(i.imm + g) % W = Wrap(i.imm) % W
              /\ Wrap(i.imm + g) % WordBits = Wrap(i.imm) % WordBits
          BY <2>5, <5>2, ShiftAmount
        <5> QED BY <4>2, <5>2, <5>3, AluShiftAmount
      <4> QED BY <4>1, <4>2
    <3>3. bitOf(alu(i.fn, ops.a, Wrap(i.imm)), k) =
            meantBit(i.fn, ops.a, Wrap(i.imm), k)
      BY <2>3, <2>6, <2>8, <2>12, AluBits
    <3>4. bitMeant(k) = meantBit(i.fn, ops.a, Wrap(i.imm), k)
      BY <2>1, <2>12, Formats
    <3> HIDE DEF bitMeant
    <3> QED BY <3>1, <3>2, <3>3, <3>4
  <2>13. CASE i.op = "UPPER"
    <3>1. immediate(word) = upper(i)
      BY <2>1, <2>13, ImmediateU
    <3>2. upper(i) \in Int
      BY <2>5, SMT DEF upper
    <3>3. Wrap(upper(i)) \in DWord
      BY <3>2, WrapTyped
    <3>4. CASE i.fn = "LUI"
      <4>1. result = Wrap(upper(i))
        BY <2>2, <2>3, <2>4, <2>13, <3>1, <3>4 DEF DArithLogic
      <4> QED BY <2>5, <2>13, <3>4, <4>1, UpperBits
    <3>5. CASE i.fn = "AUIPC"
      <4>1. result = Wrap(ops.pc + Wrap(upper(i)))
        BY <2>2, <2>3, <2>4, <2>13, <3>1, <3>5 DEF DArithLogic
      <4> QED BY <2>10, <2>13, <3>3, <3>5, <4>1
    <3> QED BY <2>8, <2>13, <3>4, <3>5
  <2>14. CASE i.op \in {"JAL", "JALR"}
    <3>1. result = Wrap(ops.pc + 4)
      BY <2>2, <2>3, <2>14 DEF DArithLogic, DPlus4
    <3> QED BY <2>6, <2>8, <2>10, <2>14, <3>1
  <2> QED BY <2>7, <2>11, <2>12, <2>13, <2>14
<1> QED BY <1>1, WordsInvHolds, PTL
=============================================================================

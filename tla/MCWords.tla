------------------------------ MODULE MCWords ------------------------------
(***************************************************************************)
(* Every operation with immediates at the edges of its format and of its   *)
(* pieces, and words with any funct3 under every opcode the code knows.    *)
(***************************************************************************)
EXTENDS Words, DatapathBits

make(op, fns, rd, rs1, rs2, imms) ==
  { [op |-> op, fn |-> fn, rd |-> rd, rs1 |-> rs1, rs2 |-> rs2, imm |-> imm] :
      fn \in fns, imm \in imms }

\* one bit, all bits but one, and the two ends of a signed number of n bits
edges(n) ==
  {0, 2^(n - 1) - 1} \cup { 2^k : k \in 0 .. n - 2 } \cup
  { -(2^k) : k \in 0 .. n - 1 } \cup { -(2^k) - 1 : k \in 0 .. n - 2 }

twice(S) == { 2 * n : n \in S }

MCAssembled ==
  make("INT", basic \cup {"SUB"} \cup wide, 1, 31, 10, {0}) \cup
  make("INTIMM", (basic \ shifts) \cup {"ADDW"}, 1, 31, 0, edges(12)) \cup
  make("INTIMM", {"SLL", "SRL", "SRA"}, 1, 31, 0, {0, 1, 7, 31, 32, 63}) \cup
  make("INTIMM", {"SLLW", "SRLW", "SRAW"}, 1, 31, 0, {0, 1, 3, 4, 31}) \cup
  make("LOAD", loads, 31, 1, 0, edges(12)) \cup
  make("STORE", stores, 0, 1, 31, edges(12)) \cup
  make("BRANCH", branches, 0, 1, 31, twice(edges(12))) \cup
  make("JALR", {"ADD"}, 1, 31, 0, edges(12)) \cup
  make("JAL", {"ADD"}, 1, 0, 0, twice(edges(20))) \cup
  make("UPPER", {"LUI", "AUIPC"}, 1, 0, 0, edges(20)) \cup
  make("INTIMM", {"ADD"}, 0, 0, 0, {0})    \* the word 0x00000013

MCRaw ==
  [opcode : { OP_INT, OP_INTW, OP_LOAD, OP_INTIMM, OP_INTIMMW, OP_JALR, OP_STORE,
              OP_BRANCH, OP_AUIPC, OP_LUI, OP_JAL, 0, 109, 127 },
   rd : {0}, funct3 : 0 .. 7, rs1 : {0}, rs2 : {0, 14},
   funct7 : {0, 1, 2, 16, 31, 32, 33, 64, 127}] \cup {HaltField}

edgeValues == {0, 1, 3, 4, 7, 8, 15, 16, 127, 128, 129, 200, 255}

MCOperands ==
  [pc : {252}, a : edgeValues, b : edgeValues] \cup
  [pc : {0, 4, 60, 124, 248}, a : {0}, b : {1}]
=============================================================================

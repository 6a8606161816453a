------------------------------ MODULE Binaries ------------------------------
(***************************************************************************)
(* The programs the simulators are checked on: every sequence of Length    *)
(* words over an alphabet of dependent instructions on two registers,      *)
(* loaded at address 0 of a memory that is zero beyond them (the zero word *)
(* is illegal).                                                            *)
(***************************************************************************)
EXTENDS Machine, DatapathBits, TLC

CONSTANT Length

MCReg == 0 .. 2

I(op, fn, rd, rs1, rs2, imm) ==
  [op |-> op, fn |-> fn, rd |-> rd, rs1 |-> rs1, rs2 |-> rs2, imm |-> Wrap(imm)]

ZeroWord == I("ILLEGAL", "ADD", 0, 0, 0, 0)

\* 0xfeedfeed, whose fields name the registers like any other word's
HaltWord == I("HALT", "ADD", 0, 1, 2, 0)

IllegalBranch == I("ILLEGAL_BRANCH", "ADD", 0, 1, 2, 0)

Alphabet ==
  { I("INTIMM", "ADD", 1, 0, 2, 4),    \* addi r1, r0, 4   (rs2 field is 2)
    I("INTIMM", "ADD", 2, 1, 0, 1),    \* addi r2, r1, 1
    I("INT",    "ADD", 1, 1, 2, 0),    \* add  r1, r1, r2
    I("INT",    "SUB", 0, 1, 2, 0),    \* sub  r0, r1, r2
    I("LOAD",   "HU",  1, 0, 0, 4),    \* lhu  r1, 4(r0)
    I("LOAD",   "B",   2, 1, 1, 1),    \* lb   r2, 1(r1)   (rs2 field is 1)
    I("STORE",  "H",   0, 1, 2, 1),    \* sh   r2, 1(r1)
    I("STORE",  "B",   2, 0, 1, 5),    \* sb   r1, 5(r0)   (rd field is 2)
    I("BRANCH", "BEQ", 0, 1, 2, 8),    \* beq  r1, r2, .+8
    I("BRANCH", "BNE", 0, 2, 0, -4),   \* bne  r2, r0, .-4
    I("JAL",    "ADD", 1, 0, 0, 8),    \* jal  r1, .+8
    I("JALR",   "ADD", 2, 1, 0, 4),    \* jalr r2, 4(r1)
    HaltWord,
    ZeroWord }

MCInsts == Alphabet \cup {NopWord, IllegalBranch}

Blank == [a \in Word |-> ZeroWord]

Load(words) ==
  [a \in {4 * k : k \in 0 .. Length - 1} |-> words[a \div 4 + 1]] @@ Blank

MCPrograms == { Load(s) : s \in [1 .. Length -> Alphabet] }

\* Three cells.  The first load of Alphabet reads 5, the second from there a
\* negative byte, and the first store from there runs off the memory.
MCCells == 4 .. 6

MCInitMems == { 4 :> 1 @@ 5 :> 1 @@ 6 :> 2 }
=============================================================================

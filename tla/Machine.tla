------------------------------- MODULE Machine -------------------------------
(***************************************************************************)
(* What simulator.cpp says of one instruction, shared by the functional    *)
(* simulator (funct.cpp) and the pipelined one (cycle.cpp): the flags      *)
(* simDecode sets, and the step functions over the struct Instruction.     *)
(*                                                                         *)
(* The arithmetic is a parameter: the constant operators below stand for   *)
(* the data path of simulator.cpp, and the assumptions say the little that *)
(* the control of the two simulators relies on.  Module Datapath defines   *)
(* them for model checking.                                                *)
(***************************************************************************)
EXTENDS Naturals

CONSTANTS
  Word,                \* register values and addresses (uint64_t)
  Reg,                 \* register numbers, 0 is the zero register
  Fn,                  \* what funct3 and funct7 select within an opcode
  Insts,               \* the instruction words considered
  Programs,            \* loaded binaries: the word found at every address
  Mems,                \* states of the data memory
  Plus4(_),            \* PC + 4
  ArithLogic(_,_,_,_), \* simArithLogic: instruction, PC, op1Val, op2Val
  NextPC(_,_,_,_),     \* simNextPCResolution: instruction, PC, op1Val, op2Val
  AddrGen(_,_),        \* simAddrGen: instruction, op1Val
  MemGet(_,_,_),       \* what a load returns: memory, instruction, address
  MemSet(_,_,_,_)      \* memory after a store: memory, instruction, address, value

(***************************************************************************)
(* Instruction words after field extraction.  op is the opcode, with the   *)
(* special words (NOP, HALT) and the encodings simDecode rejects set       *)
(* apart; an illegal funct3 under OP_BRANCH keeps its opcode, because      *)
(* cycle.cpp tests the opcode and not the legality.  Every word has rd,    *)
(* rs1 and rs2 fields, whether or not it uses them as registers.           *)
(***************************************************************************)
Ops == { "INT", "INTIMM", "LOAD", "STORE", "BRANCH", "JALR", "JAL", "UPPER",
         "NOP", "HALT", "ILLEGAL", "ILLEGAL_BRANCH" }

InstWord == [op : Ops, fn : Fn, rd : Reg, rs1 : Reg, rs2 : Reg, imm : Word]

isHalt(i)         == i.op = "HALT"
isLegal(i)        == i.op \notin {"ILLEGAL", "ILLEGAL_BRANCH"}
readsMem(i)       == i.op = "LOAD"
writesMem(i)      == i.op = "STORE"
doesArithLogic(i) == i.op \in {"INT", "INTIMM", "JALR", "JAL", "UPPER"}
writesRd(i)       == i.op \in {"INT", "INTIMM", "LOAD", "JALR", "JAL", "UPPER"}
readsRs1(i)       == i.op \in {"INT", "INTIMM", "LOAD", "STORE", "BRANCH", "JALR"}
readsRs2(i)       == i.op \in {"INT", "STORE", "BRANCH"}

\* opcode == OP_BRANCH || opcode == OP_JALR, the test cycle.cpp makes in ID
controlOpcode(i)  == i.op \in {"BRANCH", "ILLEGAL_BRANCH", "JALR"}

\* 0x00000013, the word nop() puts in the pipeline
NopWord ==
  [op |-> "NOP", fn |-> "ADD", rd |-> 0, rs1 |-> 0, rs2 |-> 0, imm |-> 0]

-----------------------------------------------------------------------------
(***************************************************************************)
(* The values the constants may take.                                      *)
(***************************************************************************)
ASSUME MachineTypes ==
  /\ 0 \in Word
  /\ 0 \in Reg
  /\ Insts \subseteq InstWord
  /\ NopWord \in Insts
  /\ Programs \subseteq [Word -> Insts]
  /\ \A pc \in Word : Plus4(pc) \in Word

\* What the data path returns for an instruction has the type of where it goes.
wellTyped(i) ==
  /\ \A pc, a, b \in Word : NextPC(i, pc, a, b) \in Word
  /\ doesArithLogic(i) =>
       \A pc, a, b \in Word : ArithLogic(i, pc, a, b) \in Word
  /\ readsMem(i) \/ writesMem(i) => \A a \in Word : AddrGen(i, a) \in Word
  /\ readsMem(i) => \A m \in Mems, a \in Word : MemGet(m, i, a) \in Word
  /\ writesMem(i) =>
       \A m \in Mems, a, v \in Word : MemSet(m, i, a, v) \in Mems

ASSUME DatapathTypes == \A i \in Insts : wellTyped(i)

-----------------------------------------------------------------------------
(***************************************************************************)
(* struct Instruction, the content of a pipeline latch.  fetched is not in *)
(* the code: it tells an instruction simIF brought in from a bubble that   *)
(* nop() made, which the properties are about and no operator below reads. *)
(***************************************************************************)
Latch == [fetched : BOOLEAN, PC : Word, instruction : Insts, nextPC : Word,
          op1Val : Word, op2Val : Word, arithResult : Word,
          memAddress : Word, memResult : Word]

RegFile == [Reg -> Word]

Fresh(fetched, pc, i) ==
  [fetched |-> fetched, PC |-> pc, instruction |-> i, nextPC |-> 0,
   op1Val |-> 0, op2Val |-> 0, arithResult |-> 0,
   memAddress |-> 0, memResult |-> 0]

\* simFetch leaves everything but PC and instruction at its default
simIF(prog, pc) == Fresh(TRUE, pc, prog[pc])

\* what the registers show to simOperandCollection, which clears register 0
\* in its copy of them
readReg(regs, r) == IF r = 0 THEN 0 ELSE regs[r]

simOperandCollection(l, regs) ==
  [l EXCEPT !.op1Val = IF readsRs1(l.instruction)
                         THEN readReg(regs, l.instruction.rs1) ELSE @,
            !.op2Val = IF readsRs2(l.instruction)
                         THEN readReg(regs, l.instruction.rs2) ELSE @]

simNextPCResolution(l) ==
  [l EXCEPT !.nextPC = NextPC(l.instruction, l.PC, l.op1Val, l.op2Val)]

\* mutant: the halt word resolved like a legal instruction
simID_HaltResolved(l, regs) ==
  IF ~isLegal(l.instruction)
    THEN l
    ELSE simNextPCResolution(simOperandCollection(l, regs))

\* an illegal word and the halt word leave simID with nextPC still 0
simID(l, regs) ==
  IF ~isLegal(l.instruction) \/ isHalt(l.instruction)
    THEN l
    ELSE simNextPCResolution(simOperandCollection(l, regs))

simEX(l) ==
  [l EXCEPT !.arithResult =
                IF doesArithLogic(l.instruction)
                  THEN ArithLogic(l.instruction, l.PC, l.op1Val, l.op2Val) ELSE @,
            !.memAddress =
                IF readsMem(l.instruction) \/ writesMem(l.instruction)
                  THEN AddrGen(l.instruction, l.op1Val) ELSE @]

simMEM(l, mem) ==
  [l EXCEPT !.memResult = IF readsMem(l.instruction)
                            THEN MemGet(mem, l.instruction, l.memAddress) ELSE @]

\* the memory after simMEM(l)
simMEMStore(l, mem) ==
  IF writesMem(l.instruction)
    THEN MemSet(mem, l.instruction, l.memAddress, l.op2Val)
    ELSE mem

\* the value a finished instruction leaves for its destination register
Result(l) == IF readsMem(l.instruction) THEN l.memResult ELSE l.arithResult

\* the registers after simWB(l); register 0 is written like any other
simWB(l, regs) ==
  IF writesRd(l.instruction)
    THEN [regs EXCEPT ![l.instruction.rd] = Result(l)]
    ELSE regs
=============================================================================

----------------------------- MODULE PipelineInv -----------------------------
(***************************************************************************)
(* The inductive invariant behind the properties of Pipeline: what is in   *)
(* the latches, in which order, and which values the forwarding paths can  *)
(* rely on.  Each part is preserved by a cycle given the parts before it.  *)
(***************************************************************************)
EXTENDS Pipeline

inFlight == {ifInst, idInst, exInst, memInst, wbInst}

\* A latch holds nop()'s word or the program's word at its PC.
Origin ==
  \A l \in inFlight :
    IF l.fetched THEN l.instruction = prog[l.PC]
                 ELSE l.instruction = NopWord /\ l.PC = 0

\* Nothing but PC and instruction is set in IF.
FreshIF == ifInst = Fresh(ifInst.fetched, ifInst.PC, ifInst.instruction)

\* The registers a branch in ID names are not about to be written by EX, nor
\* by a load in MEM.
BranchReady ==
  controlOpcode(idInst.instruction) =>
    \A r \in {idInst.instruction.rs1, idInst.instruction.rs2} :
      ~hazard(exInst, r) /\ ~(readsMem(memInst.instruction) /\ hazard(memInst, r))

\* An instruction naming the register of a load is not right behind it.
LoadGap ==
  readsMem(memInst.instruction) /\ memInst.instruction.rd # 0 =>
    ~names(exInst, memInst.instruction.rd)

\* Behind the halt word this pipeline sends bubbles only, until nothing that
\* follows it can reach MEM before the run ends.
HaltDrains ==
  /\ isHalt(idInst.instruction) => ~ifInst.fetched
  /\ isHalt(exInst.instruction) => ~idInst.fetched
  /\ isHalt(memInst.instruction) => ~exInst.fetched
  /\ status = "HALT" <=> isHalt(wbInst.instruction)
  /\ status = "HALT" => ~memInst.fetched

\* doneInst's result is in the register file.
DoneWritten ==
  \A r \in Reg : hazard(wbInst, r) => regs[r] = Result(wbInst)

\* An operand waiting in ID is the register's value, unless one of the
\* instructions that bypass it writes the register.  Only after a stall, when
\* EX holds a bubble, can doneInst be such an instruction.
upToDate(r, val) ==
  ~hazard(memInst, r) /\ (exInst.fetched \/ ~hazard(wbInst, r))
    => val = readReg(regs, r)

OperandsInID ==
  /\ readsRs1(idInst.instruction) => upToDate(idInst.instruction.rs1, idInst.op1Val)
  /\ readsRs2(idInst.instruction) => upToDate(idInst.instruction.rs2, idInst.op2Val)

\* the operands instruction i has in the program state
value1(i) == IF readsRs1(i) THEN archRegs[i.rs1] ELSE 0
value2(i) == IF readsRs2(i) THEN archRegs[i.rs2] ELSE 0

\* where the instruction in latch l leads in the program state
leadsTo(l) ==
  IF ~isLegal(l.instruction) \/ isHalt(l.instruction)
    THEN 0
    ELSE NextPC(l.instruction, l.PC, value1(l.instruction), value2(l.instruction))

\* What ID resolved is where the instruction leads, although EX still holds
\* one that comes before it.
ResolvedInID ==
  idInst.fetched /\ idInst.instruction.op # "ILLEGAL_BRANCH"
    => idInst.nextPC = leadsTo(idInst)

\* What EX computed is what the instruction computes in the program state.
ExecutedInEX ==
  LET i == exInst.instruction IN
  exInst.fetched =>
    /\ i.op # "ILLEGAL_BRANCH" => exInst.nextPC = leadsTo(exInst)
    /\ doesArithLogic(i) =>
         exInst.arithResult = ArithLogic(i, exInst.PC, value1(i), value2(i))
    /\ readsMem(i) \/ writesMem(i) => exInst.memAddress = AddrGen(i, value1(i))
    /\ writesMem(i) => exInst.op2Val = value2(i)

\* The loaded binary does not end in a halt word at the top of the address
\* space, where the next word is at 0 (the memory has 64 KB).
HaltNotLast == \A a \in Word : isHalt(prog[a]) => Plus4(a) # 0

\* Every forwarded value is the one the program state has: the invariant from
\* which the theorems of PipelineProofs follow.
IInv ==
  /\ TypeOK
  /\ HaltNotLast
  /\ Origin
  /\ FreshIF
  /\ ProgramOrder
  /\ BranchReady
  /\ LoadGap
  /\ HaltDrains
  /\ DoneWritten
  /\ OperandsInID
  /\ ResolvedInID
  /\ ExecutedInEX
=============================================================================

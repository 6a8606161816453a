------------------------------ MODULE Pipeline ------------------------------
(***************************************************************************)
(* The five-stage pipeline of cycle.cpp.  One step is one iteration of the *)
(* loop of runCycles: the stall test on the latches as the last cycle left *)
(* them, then WB, MEM, EX, ID and IF, each reading what the stages before  *)
(* it have just written.  The operators below are the latches a cycle      *)
(* computes, in that order; the actions are the four ways a cycle can end. *)
(*                                                                         *)
(* doneInst is the write-back latch of the cycle before, so wbInst of the  *)
(* unprimed state is doneInst for the whole of a cycle.                    *)
(***************************************************************************)
EXTENDS Machine

CONSTANTS
  InitMems,   \* the data memory the binary comes with
  Cycles      \* how many cycles are asked for, 0 to run until the halt

ASSUME PipelineTypes == InitMems \subseteq Mems /\ Cycles \in Nat

VARIABLES
  prog,       \* the loaded binary; no store modifies instructions
  regs,       \* Simulator::regData
  mem,        \* Simulator::memory, the data part
  PC,
  ifInst, idInst, exInst, memInst, wbInst,   \* pipelineInfo
  cycleCount,
  din,        \* Simulator::din
  status      \* what runCycles returns

latches == <<ifInst, idInst, exInst, memInst, wbInst>>
vars == <<prog, regs, mem, PC, latches, cycleCount, din, status>>

nop == Fresh(FALSE, 0, NopWord)

\* the instruction in a latch writes register r, as far as forwarding goes
hazard(l, r) ==
  /\ writesRd(l.instruction)
  /\ l.instruction.rd # 0
  /\ l.instruction.rd = r

\* a latch whose instruction has a field naming register r, read or not
names(l, r) == r \in {l.instruction.rs1, l.instruction.rs2}

-----------------------------------------------------------------------------
(***************************************************************************)
(* The stall conditions, on the latches of the last cycle.                 *)
(***************************************************************************)
\* mutant: tests the load in MEM as well as the one in EX
loadUse_AlsoMem ==
  \E l \in {exInst, memInst} :
    /\ readsMem(l.instruction)
    /\ l.instruction.rd # 0
    /\ names(idInst, l.instruction.rd)

loadUse ==
  /\ readsMem(exInst.instruction)
  /\ exInst.instruction.rd # 0
  /\ names(idInst, exInst.instruction.rd)

arithBranch ==
  /\ writesRd(exInst.instruction)
  /\ controlOpcode(idInst.instruction)
  /\ exInst.instruction.rd # 0
  /\ names(idInst, exInst.instruction.rd)

loadBranch ==
  /\ readsMem(memInst.instruction)
  /\ controlOpcode(idInst.instruction)
  /\ memInst.instruction.rd # 0
  /\ names(idInst, memInst.instruction.rd)

stall == loadUse \/ arithBranch \/ loadBranch

(***************************************************************************)
(* WB and MEM never wait.  The store leaving EX takes its data from a load *)
(* that is just being written back.                                        *)
(***************************************************************************)
newRegs == simWB(memInst, regs)

storeForward ==
  /\ writesMem(exInst.instruction)
  /\ readsMem(memInst.instruction)
  /\ memInst.instruction.rd # 0
  /\ exInst.instruction.rs2 = memInst.instruction.rd

toMEM ==
  IF storeForward THEN [exInst EXCEPT !.op2Val = memInst.memResult] ELSE exInst

newMem == simMEM(toMEM, mem)

\* mutant: no forwarding from the instruction that left WB a cycle ago
bypass_NoDone(r, old) ==
  IF hazard(newMem, r) THEN Result(newMem)
  ELSE IF hazard(memInst, r) THEN Result(memInst)
  ELSE old

\* an operand naming register r: the youngest of the three finished
\* instructions that writes r supplies it, else it keeps its value
bypass(r, old) ==
  IF hazard(newMem, r) THEN Result(newMem)
  ELSE IF hazard(memInst, r) THEN Result(memInst)
  ELSE IF hazard(wbInst, r) THEN Result(wbInst)
  ELSE old

bypassed(l) ==
  [l EXCEPT !.op1Val = bypass(l.instruction.rs1, @),
            !.op2Val = bypass(l.instruction.rs2, @)]

\* mutant: ID held without a bubble taking its place in EX
newEX_Held == IF stall THEN exInst ELSE simEX(bypassed(idInst))

newEX == IF stall THEN nop ELSE simEX(bypassed(idInst))

(***************************************************************************)
(* ID decodes the word in IF.  A branch or JALR is resolved here; it waits *)
(* in IF while an operand is one cycle (newEX) or a load (newMem) away.    *)
(***************************************************************************)
decoded == simID(ifInst, newRegs)

waitsFor(l) ==
  hazard(l, ifInst.instruction.rs1) \/ hazard(l, ifInst.instruction.rs2)

\* mutant: forgets the second cycle a branch waits for a load
branchStall_NoLoad ==
  /\ ~stall
  /\ controlOpcode(ifInst.instruction)
  /\ waitsFor(newEX)

branchStall ==
  /\ ~stall
  /\ controlOpcode(ifInst.instruction)
  /\ waitsFor(newEX) \/ (waitsFor(newMem) /\ readsMem(newMem.instruction))

resolved ==
  IF controlOpcode(ifInst.instruction)
    THEN simNextPCResolution(bypassed(decoded))
    ELSE decoded

\* mutant: JAL resolved like the instructions that fall through
flush_NotJal ==
  controlOpcode(ifInst.instruction) /\ resolved.nextPC # Plus4(ifInst.PC)

flush == resolved.nextPC # Plus4(ifInst.PC)

-----------------------------------------------------------------------------
Init ==
  /\ prog \in Programs
  /\ regs = [r \in Reg |-> 0]
  /\ mem \in InitMems
  /\ PC = 0
  /\ ifInst = nop /\ idInst = nop /\ exInst = nop
  /\ memInst = nop /\ wbInst = nop
  /\ cycleCount = 0
  /\ din = 0
  /\ status = "SUCCESS"

\* mutant: the loop bound off by one
canRun_OneMore == status # "HALT" /\ (Cycles = 0 \/ cycleCount <= Cycles)

canRun == status # "HALT" /\ (Cycles = 0 \/ cycleCount < Cycles)

\* what every cycle does: the back of the pipeline and the counter
BackEnd ==
  /\ canRun
  /\ wbInst' = memInst
  /\ regs' = newRegs
  /\ memInst' = newMem
  /\ mem' = simMEMStore(toMEM, mem)
  /\ exInst' = newEX
  /\ cycleCount' = cycleCount + 1
  /\ status' = IF isHalt(memInst.instruction) THEN "HALT" ELSE "SUCCESS"
  /\ UNCHANGED prog

\* the instruction in ID waits for the load in EX; IF is held with it
LoadUseStall ==
  /\ stall
  /\ BackEnd
  /\ UNCHANGED <<idInst, ifInst, PC, din>>

\* the branch in IF waits for an operand; ID gets a bubble
BranchStall ==
  /\ branchStall
  /\ BackEnd
  /\ idInst' = nop
  /\ din' = din + 1
  /\ UNCHANGED <<ifInst, PC>>

\* the instruction entering ID is not followed by the next word
Flush ==
  /\ ~stall /\ ~branchStall /\ flush
  /\ BackEnd
  /\ idInst' = resolved
  /\ din' = din + 1
  /\ ifInst' = nop
  /\ PC' = resolved.nextPC

Advance ==
  /\ ~stall /\ ~branchStall /\ ~flush
  /\ BackEnd
  /\ idInst' = resolved
  /\ din' = din + 1
  /\ ifInst' = simIF(prog, PC)
  /\ PC' = Plus4(PC)

Next == LoadUseStall \/ BranchStall \/ Flush \/ Advance

Spec == Init /\ [][Next]_vars

\* the loop of runTillHalt keeps calling runCycles until it returns HALT
LiveSpec == Spec /\ WF_vars(Next)

-----------------------------------------------------------------------------
(***************************************************************************)
(* The program state a pipeline state stands for.  An instruction takes    *)
(* effect when it goes through MEM, where a store writes memory: the       *)
(* registers are those with the instruction in MEM already written back,   *)
(* and the next instruction is the oldest one that has not reached MEM.    *)
(***************************************************************************)
archRegs == [r \in Reg |-> readReg(newRegs, r)]

\* the address following the instruction in ID, and the one in EX
afterID == IF ifInst.fetched THEN ifInst.PC ELSE PC
afterEX == IF idInst.fetched THEN idInst.PC ELSE afterID

archPC == IF exInst.fetched THEN exInst.PC ELSE afterEX

archHalted == status = "HALT" \/ isHalt(memInst.instruction)

A == INSTANCE Isa WITH regs <- archRegs, pc <- archPC, halted <- archHalted

-----------------------------------------------------------------------------
(***************************************************************************)
(* Properties.                                                             *)
(***************************************************************************)

\* The latches hold structs of the code's type, and runCycles never goes
\* beyond the number of cycles it was asked for.
TypeOK ==
  /\ prog \in [Word -> Insts]
  /\ regs \in RegFile
  /\ mem \in Mems
  /\ PC \in Word
  /\ ifInst \in Latch /\ idInst \in Latch /\ exInst \in Latch
  /\ memInst \in Latch /\ wbInst \in Latch
  /\ cycleCount \in Nat /\ (Cycles # 0 => cycleCount <= Cycles)
  /\ din \in Nat
  /\ status \in {"SUCCESS", "HALT"}

\* The final registers and memory match the functional simulator's
\* (project2.txt:189-194), and so does every state on the way: with its
\* stalls, bubbles and three forwarding paths the pipeline makes the same
\* instructions take effect in the same order on the same values.
ImplementsIsa == A!Spec

\* An instruction fetched on the wrong path never enters ID
\* (project2.txt:106-131): whatever is held, squashed or turned into a bubble,
\* each instruction is followed by the one at the address it resolved to, and
\* the next fetch continues that path.
ProgramOrder ==
  /\ exInst.fetched => exInst.nextPC = afterEX
  /\ idInst.fetched => idInst.nextPC = afterID
  /\ ifInst.fetched => PC = Plus4(ifInst.PC)

\* "You should halt execution when the 0xfeedfeed has completed its WB stage"
\* (project2.txt:161-165): a run ends in the cycle that writes the halt word
\* back, in no other, and in that cycle nothing that was fetched behind the
\* halt changes a register or the memory.  What is fetched there, and how far
\* it comes before that, is left open: the reference dumps go on at PC + 4.
PreciseHalt ==
  [][ /\ ~isHalt(wbInst.instruction)
      /\ status' = "HALT" <=> isHalt(memInst.instruction)
      /\ isHalt(memInst.instruction) => UNCHANGED <<regs, mem>> ]_vars

\* A load-use stall lasts one cycle, a branch is held for two at most
\* (project2.txt:82-100); a condition read from held latches must not hold them
\* again.
BoundedStalls ==
  [][ /\ LoadUseStall => ~stall'
      /\ BranchStall /\ ~idInst.fetched => ~branchStall' ]_vars

\* ID never stalls a branch: BranchStall has kept it in IF until its operands
\* were there, so the arithmetic-branch and load-branch tests of cycle.cpp:92-103
\* never decide.  The load-use stall in turn keeps a load and an instruction
\* naming its register apart, so nothing ever reaches the forwarding from WB
\* to a store in MEM (cycle.cpp:116-120).
DeadHazardLogic ==
  /\ stall => loadUse /\ ~controlOpcode(idInst.instruction)
  /\ ~storeForward
=============================================================================

----------------------------- MODULE MCPipeline -----------------------------
(***************************************************************************)
(* Pipeline on the programs of Binaries, and what project2.txt asks of it  *)
(* that cycle.cpp does not do.                                             *)
(***************************************************************************)
EXTENDS PipelineInv, Binaries

\* The programs whose first word has an illegal funct3 under OP_BRANCH.
MCIllegalBranchPrograms ==
  { Load([s EXCEPT ![1] = IllegalBranch]) : s \in [1 .. Length -> Alphabet] }

\* 0x8000 in simulator.cpp:8, where no program of Binaries has a word.
EXCEPTION_HANDLER == 20

\* "IF should be fetching from the exception handler address in the next
\* cycle" (project2.txt:341-342): the instruction following an illegal word in
\* ID is the one at 0x8000.
IllegalGoesToHandler ==
  idInst.instruction.op = "ILLEGAL" => afterID = EXCEPTION_HANDLER

\* a load or store that reaches the end of the memory, behind the last cell
leavesMemory(l) ==
  /\ readsMem(l.instruction) \/ writesMem(l.instruction)
  /\ l.memAddress + size(l.instruction) > 7

\* "You should NOT update state for the instruction triggering the exception",
\* which for a memory exception is "squashed before it reaches WB"
\* (project2.txt:335-339): an access outside of the memory changes neither the
\* registers nor the memory.
MemoryExceptionSquashed ==
  [][ /\ leavesMemory(memInst) => regs' = regs
      /\ leavesMemory(toMEM) => mem' = mem ]_vars
=============================================================================

----------------------------- MODULE Functional -----------------------------
(***************************************************************************)
(* The functional simulator, funct.cpp over simInstruction: one            *)
(* instruction per step, fetched, decoded, executed and committed before   *)
(* the next one.  sim_funct runs it until it halts or meets an illegal     *)
(* word; runInstructions can also be asked for a number of instructions.   *)
(***************************************************************************)
EXTENDS Machine

CONSTANTS
  InitMems,       \* the data memory the binary comes with
  Instructions    \* how many instructions are asked for, 0 for no limit

ASSUME FunctionalTypes == InitMems \subseteq Mems /\ Instructions \in Nat

VARIABLES
  prog,    \* the loaded binary; no store modifies instructions
  regs,    \* Simulator::regData
  mem,     \* Simulator::memory, the data part
  PC,
  din,     \* Simulator::din, instructions simulated
  status   \* what runInstructions returns

vars == <<prog, regs, mem, PC, din, status>>

fetched == simIF(prog, PC)

\* mutant: memory accessed before the address is generated
executed_MemFirst == simEX(simMEM(simID(fetched, regs), mem))

\* the struct after decode, operands, next PC, arithmetic or address, memory
executed == simMEM(simEX(simID(fetched, regs)), mem)

-----------------------------------------------------------------------------
Init ==
  /\ prog \in Programs
  /\ regs = [r \in Reg |-> 0]
  /\ mem \in InitMems
  /\ PC = 0
  /\ din = 0
  /\ status = "SUCCESS"

\* mutant: the loop bound off by one
canRun_OneMore ==
  status = "SUCCESS" /\ (Instructions = 0 \/ din <= Instructions)

canRun == status = "SUCCESS" /\ (Instructions = 0 \/ din < Instructions)

\* simInstruction of a legal word
Simulate ==
  /\ canRun
  /\ isLegal(fetched.instruction)
  /\ ~isHalt(fetched.instruction)
  /\ regs' = simWB(executed, regs)
  /\ mem' = simMEMStore(executed, mem)
  /\ PC' = executed.nextPC
  /\ din' = din + 1
  /\ UNCHANGED <<prog, status>>

\* simInstruction returns after decoding; the loop leaves with HALT or ERROR
Stop ==
  /\ canRun
  /\ ~isLegal(fetched.instruction) \/ isHalt(fetched.instruction)
  /\ status' = IF isHalt(fetched.instruction) THEN "HALT" ELSE "ERROR"
  /\ PC' = 0
  /\ din' = din + 1
  /\ UNCHANGED <<prog, regs, mem>>

Next == Simulate \/ Stop

Spec == Init /\ [][Next]_vars

-----------------------------------------------------------------------------
archRegs == [r \in Reg |-> readReg(regs, r)]

A == INSTANCE Isa WITH regs <- archRegs, pc <- PC, halted <- status = "HALT"

\* The types of Functional's variables.
TypeOK ==
  /\ prog \in [Word -> Insts]
  /\ regs \in RegFile
  /\ mem \in Mems
  /\ PC \in Word
  /\ din \in Nat /\ (Instructions # 0 => din <= Instructions)
  /\ status \in {"SUCCESS", "HALT", "ERROR"}

\* simInstruction takes the stage functions through one struct, with the
\* operands read once and the destination written last, also when it is one
\* of them or is x0: the outcome is the instruction of the architecture.
ImplementsIsa == A!Spec
=============================================================================

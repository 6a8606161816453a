--------------------------------- MODULE Isa ---------------------------------
(***************************************************************************)
(* What both simulators promise: the program's instructions take effect    *)
(* one at a time, in program order, until the halt word.  It has no        *)
(* latches, no cycles and no forwarding.                                   *)
(*                                                                         *)
(* regs holds what a program and the register dump can see, so x0 is       *)
(* always zero in it.  An illegal word has no effect and sends the program *)
(* to address 0, the nextPC simDecode leaves behind.                       *)
(***************************************************************************)
EXTENDS Machine

CONSTANT InitMems

VARIABLES
  prog,     \* the loaded binary, chosen once
  regs,     \* the registers
  mem,      \* the data memory
  pc,       \* address of the next instruction to take effect
  halted    \* the halt word has taken effect

vars == <<prog, regs, mem, pc, halted>>

inst == prog[pc]

op1 == IF readsRs1(inst) THEN regs[inst.rs1] ELSE 0
op2 == IF readsRs2(inst) THEN regs[inst.rs2] ELSE 0

address == AddrGen(inst, op1)

result ==
  IF readsMem(inst) THEN MemGet(mem, inst, address)
                    ELSE ArithLogic(inst, pc, op1, op2)

-----------------------------------------------------------------------------
Init ==
  /\ prog \in [Word -> Insts]
  /\ regs = [r \in Reg |-> 0]
  /\ mem \in InitMems
  /\ pc = 0
  /\ halted = FALSE

Execute ==
  /\ ~halted
  /\ isLegal(inst)
  /\ ~isHalt(inst)
  /\ regs' = IF writesRd(inst) /\ inst.rd # 0
               THEN [regs EXCEPT ![inst.rd] = result] ELSE regs
  /\ mem' = IF writesMem(inst) THEN MemSet(mem, inst, address, op2) ELSE mem
  /\ pc' = NextPC(inst, pc, op1, op2)
  /\ UNCHANGED <<prog, halted>>

Illegal ==
  /\ ~halted
  /\ ~isLegal(inst)
  /\ pc' = 0
  /\ UNCHANGED <<prog, regs, mem, halted>>

Halt ==
  /\ ~halted
  /\ isHalt(inst)
  /\ halted' = TRUE
  /\ pc' = 0
  /\ UNCHANGED <<prog, regs, mem>>

Next == Execute \/ Illegal \/ Halt

Spec == Init /\ [][Next]_vars
=============================================================================

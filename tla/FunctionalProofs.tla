-------------------------- MODULE FunctionalProofs --------------------------
(***************************************************************************)
(* Proofs about Functional.  No property of the data path is needed beyond *)
(* its types: simInstruction collects exactly the operands it reads.       *)
(***************************************************************************)
EXTENDS Functional, MachineProofs, TLAPS

-----------------------------------------------------------------------------
(* Type correctness. *)

\* simInstruction works on one well-formed struct throughout.
LEMMA StepTypes ==
  ASSUME TypeOK
  PROVE  /\ fetched \in Latch
         /\ simID(fetched, regs) \in Latch
         /\ simEX(simID(fetched, regs)) \in Latch
         /\ executed \in Latch
<1>1. fetched \in Latch
  BY IFType DEF TypeOK, fetched
<1>2. simID(fetched, regs) \in Latch
  BY <1>1, IDType DEF TypeOK
<1>3. simEX(simID(fetched, regs)) \in Latch
  BY <1>2, EXType
<1> QED BY <1>1, <1>2, <1>3, MEMType DEF TypeOK, executed

\* An instruction, or the stop, keeps the simulator's state well formed.
LEMMA FunctionalTypeStep == TypeOK /\ [Next]_vars => TypeOK'
<1> SUFFICES ASSUME TypeOK, [Next]_vars PROVE TypeOK'
  OBVIOUS
<1>1. CASE Simulate
  <2>1. regs' \in RegFile
    BY <1>1, StepTypes, WBType DEF Simulate, TypeOK
  <2>2. mem' \in Mems
    BY <1>1, StepTypes, MEMType DEF Simulate, TypeOK
  <2>3. PC' \in Word
    BY <1>1, StepTypes DEF Simulate, Latch
  <2>4. din' \in Nat /\ (Instructions # 0 => din' <= Instructions)
    BY <1>1, FunctionalTypes DEF Simulate, TypeOK, canRun
  <2> QED BY <1>1, <2>1, <2>2, <2>3, <2>4 DEF Simulate, TypeOK
<1>2. CASE Stop
  BY <1>2, MachineTypes, FunctionalTypes DEF Stop, TypeOK, canRun
<1>3. CASE UNCHANGED vars
  BY <1>3 DEF vars, TypeOK
<1> QED BY <1>1, <1>2, <1>3 DEF Next

\* The functional simulator keeps its registers, memory, PC and instruction
\* count within their types, for any data path and any program.
THEOREM FunctionalTypeCorrect == Spec => []TypeOK
<1>1. Init => TypeOK
  BY MachineTypes, FunctionalTypes DEF Init, TypeOK, RegFile
<1> QED BY <1>1, FunctionalTypeStep, PTL DEF Spec

-----------------------------------------------------------------------------
(* The refinement. *)

\* A legal word goes through decode with its operands and its next PC.
LEMMA Decoded ==
  ASSUME TypeOK, isLegal(fetched.instruction), ~isHalt(fetched.instruction)
  PROVE  LET l == simID(fetched, regs) IN
         /\ l.instruction = A!inst /\ l.PC = PC
         /\ l.op1Val = A!op1 /\ l.op2Val = A!op2
         /\ l.nextPC = NextPC(A!inst, PC, A!op1, A!op2)
<1>1. /\ fetched.instruction = A!inst /\ fetched.PC = PC
      /\ fetched.op1Val = 0 /\ fetched.op2Val = 0
  BY DEF fetched, simIF, Fresh, A!inst
<1>2. fetched.instruction \in Insts
  BY StepTypes DEF Latch
<1>3. /\ fetched.instruction.rs1 \in Reg
      /\ fetched.instruction.rs2 \in Reg
  BY <1>2, InstFields
<1>4. /\ A!op1 = IF readsRs1(A!inst) THEN readReg(regs, A!inst.rs1) ELSE 0
      /\ A!op2 = IF readsRs2(A!inst) THEN readReg(regs, A!inst.rs2) ELSE 0
  BY <1>1, <1>3 DEF A!op1, A!op2, archRegs, A!readsRs1, A!readsRs2, readsRs1, readsRs2
<1> QED BY <1>1, <1>4, StepTypes
        DEF simID, simOperandCollection, simNextPCResolution, Latch

\* One simInstruction is one instruction of the architecture.
LEMMA SimulateStep ==
  ASSUME TypeOK, Simulate
  PROVE  A!Execute
<1> DEFINE d == simID(fetched, regs)
           i == A!inst
<1>1. /\ isLegal(fetched.instruction) /\ ~isHalt(fetched.instruction)
      /\ fetched.instruction = i /\ status = "SUCCESS"
  BY DEF Simulate, canRun, fetched, simIF, Fresh, A!inst
<1>2. /\ d \in Latch /\ d.instruction = i /\ d.PC = PC
      /\ d.op1Val = A!op1 /\ d.op2Val = A!op2
      /\ d.nextPC = NextPC(i, PC, A!op1, A!op2)
  BY <1>1, Decoded, StepTypes
<1>3. i \in Insts /\ i.rd \in Reg
  BY <1>2, InstFields DEF Latch
<1>4. /\ simEX(d) \in Latch
      /\ simEX(d).instruction = i /\ simEX(d).op2Val = A!op2
      /\ simEX(d).nextPC = d.nextPC
      /\ doesArithLogic(i) => simEX(d).arithResult = ArithLogic(i, PC, A!op1, A!op2)
      /\ readsMem(i) \/ writesMem(i) => simEX(d).memAddress = A!address
  <2>1. simEX(d) \in Latch
    BY <1>2, EXType
  <2> HIDE DEF d
  <2> QED BY <1>2, <2>1 DEF simEX, Latch, A!address
<1>5. /\ executed \in Latch
      /\ executed.instruction = i /\ executed.op2Val = A!op2
      /\ executed.nextPC = d.nextPC
      /\ executed.arithResult = simEX(d).arithResult
      /\ executed.memAddress = simEX(d).memAddress
      /\ readsMem(i) => executed.memResult = MemGet(mem, i, A!address)
  BY <1>4, StepTypes DEF executed, simMEM, Latch
<1>6. writesRd(i) => Result(executed) = A!result
  BY <1>4, <1>5
     DEF Result, A!result, writesRd, doesArithLogic, readsMem, A!readsMem
<1>7. archRegs' = IF writesRd(i) /\ i.rd # 0
                    THEN [archRegs EXCEPT ![i.rd] = A!result] ELSE archRegs
  <2>1. regs' = simWB(executed, regs)
    BY DEF Simulate
  <2>2. ASSUME NEW r \in Reg
        PROVE  readReg(simWB(executed, regs), r) =
                 IF writesRd(i) /\ i.rd # 0 /\ i.rd = r
                   THEN A!result ELSE readReg(regs, r)
    BY <1>5, <1>6, CommitView DEF TypeOK
  <2> QED BY <1>3, <2>1, <2>2 DEF archRegs
<1>8. mem' = IF writesMem(i) THEN MemSet(mem, i, A!address, A!op2) ELSE mem
  BY <1>4, <1>5 DEF Simulate, simMEMStore
<1>9. PC' = NextPC(i, PC, A!op1, A!op2) /\ status' = status /\ prog' = prog
  BY <1>2, <1>5 DEF Simulate
<1> QED BY <1>1, <1>7, <1>8, <1>9
        DEF A!Execute, isLegal, isHalt, writesRd, writesMem, A!isLegal, A!isHalt,
            A!writesRd, A!writesMem

\* For every data path and every program, illegal words included, the
\* functional simulator is a run of the architecture.
THEOREM FunctionalRefinement == Spec => ImplementsIsa
<1>1. Init => A!Init
  BY MachineTypes DEF Init, A!Init, archRegs, readReg
<1>2. TypeOK /\ [Next]_vars => [A!Next]_(A!vars)
  <2> SUFFICES ASSUME TypeOK, [Next]_vars
               PROVE  A!Next \/ UNCHANGED A!vars
    OBVIOUS
  <2>1. CASE Simulate
    BY <2>1, SimulateStep DEF A!Next
  <2>2. CASE Stop
    BY <2>2 DEF Stop, canRun, A!Next, A!Illegal, A!Halt, archRegs, fetched, simIF,
                Fresh, A!inst, isHalt, isLegal, A!isHalt, A!isLegal, readReg
  <2>3. CASE UNCHANGED vars
    BY <2>3 DEF vars, A!vars, archRegs, readReg
  <2> QED BY <2>1, <2>2, <2>3 DEF Next
<1> QED BY <1>1, <1>2, FunctionalTypeCorrect, PTL DEF Spec, ImplementsIsa, A!Spec
=============================================================================

--------------------------- MODULE PipelineProofs ---------------------------
(***************************************************************************)
(* Proofs about Pipeline: the parts of the invariant, in the order in      *)
(* which each needs the ones before it, the properties that follow from    *)
(* it, and the refinement of Isa.                                          *)
(***************************************************************************)
EXTENDS PipelineInv, MachineProofs, DatapathLaws, TLAPS

-----------------------------------------------------------------------------
(* Type correctness. *)

\* The bubble of nop() is a well-formed struct.
LEMMA NopType == nop \in Latch
BY FreshType, MachineTypes DEF nop

\* WB and MEM compute well-formed values from well-formed latches.
LEMMA BackTypes ==
  ASSUME TypeOK
  PROVE  /\ newRegs \in RegFile
         /\ newMem \in Latch
         /\ simMEMStore(toMEM, mem) \in Mems
<1>1. newRegs \in RegFile
  BY WBType DEF TypeOK, newRegs
<1>2. toMEM \in Latch
  BY DEF TypeOK, toMEM, Latch
<1> QED BY <1>1, <1>2, MEMType DEF TypeOK, newMem

\* The bypasses replace operands by words.
LEMMA BypassedType ==
  ASSUME TypeOK, NEW l \in Latch
  PROVE  bypassed(l) \in Latch
<1>1. ASSUME NEW r, NEW old \in Word
      PROVE  bypass(r, old) \in Word
  BY <1>1, BackTypes, ResultType DEF TypeOK, bypass
<1>2. /\ bypass(l.instruction.rs1, l.op1Val) \in Word
      /\ bypass(l.instruction.rs2, l.op2Val) \in Word
  BY <1>1 DEF Latch
<1> QED BY <1>2 DEF bypassed, Latch

\* What a cycle computes from well-formed latches is well formed.
LEMMA CycleTypes ==
  ASSUME TypeOK
  PROVE  /\ newRegs \in RegFile
         /\ newMem \in Latch
         /\ simMEMStore(toMEM, mem) \in Mems
         /\ newEX \in Latch
         /\ resolved \in Latch
<1>1. newEX \in Latch
  BY BypassedType, NopType, EXType DEF TypeOK, newEX
<1>2. decoded \in Latch
  BY BackTypes, IDType DEF TypeOK, decoded
<1>3. resolved \in Latch
  BY <1>2, BypassedType, NextPCType DEF resolved
<1> QED BY <1>1, <1>3, BackTypes

\* The initial pipeline is well formed.
LEMMA InitType == Init => TypeOK
BY NopType, MachineTypes, PipelineTypes DEF Init, TypeOK, RegFile

\* A cycle keeps the pipeline well formed.
LEMMA TypeStep == TypeOK /\ [Next]_vars => TypeOK'
<1> SUFFICES ASSUME TypeOK, [Next]_vars PROVE TypeOK'
  OBVIOUS
<1>1. ASSUME BackEnd
      PROVE  /\ prog' \in [Word -> Insts]
             /\ regs' \in RegFile
             /\ mem' \in Mems
             /\ exInst' \in Latch /\ memInst' \in Latch /\ wbInst' \in Latch
             /\ cycleCount' \in Nat
             /\ Cycles # 0 => cycleCount' <= Cycles
             /\ status' \in {"SUCCESS", "HALT"}
  BY <1>1, CycleTypes, PipelineTypes DEF BackEnd, TypeOK, canRun
<1>2. CASE LoadUseStall
  BY <1>1, <1>2 DEF LoadUseStall, TypeOK
<1>3. CASE BranchStall
  BY <1>1, <1>3, NopType DEF BranchStall, TypeOK
<1>4. CASE Flush
  <2>1. resolved.nextPC \in Word
    BY CycleTypes DEF Latch
  <2> QED BY <1>1, <1>4, <2>1, NopType, CycleTypes DEF Flush, TypeOK
<1>5. CASE Advance
  BY <1>1, <1>5, IFType, CycleTypes, MachineTypes DEF Advance, TypeOK
<1>6. CASE UNCHANGED vars
  BY <1>6 DEF vars, latches, TypeOK
<1> QED BY <1>2, <1>3, <1>4, <1>5, <1>6 DEF Next

\* Every cycle of runCycles keeps the latches, registers, memory and counters
\* within their types, for any data path and any program.
THEOREM TypeCorrect == Spec => []TypeOK
BY InitType, TypeStep, PTL DEF Spec

-----------------------------------------------------------------------------
(* What the stages leave alone. *)

Same(l, m) ==
  l.fetched = m.fetched /\ l.PC = m.PC /\ l.instruction = m.instruction

\* Every stage passes on where the instruction came from; EX and MEM also
\* keep the next PC, and MEM all that EX computed.
LEMMA Passed ==
  ASSUME TypeOK
  PROVE  /\ Same(newMem, exInst)
         /\ newMem.arithResult = exInst.arithResult
         /\ stall => newEX = nop
         /\ ~stall => /\ Same(newEX, idInst)
                      /\ newEX.nextPC = idInst.nextPC
         /\ Same(resolved, ifInst)
<1>1. /\ toMEM \in Latch
      /\ Same(toMEM, exInst)
      /\ toMEM.arithResult = exInst.arithResult
  BY DEF TypeOK, toMEM, Latch, Same
<1>2. Same(newMem, toMEM) /\ newMem.arithResult = toMEM.arithResult
  BY <1>1 DEF newMem, simMEM, Latch, Same
<1>3. ASSUME NEW l \in Latch
      PROVE  Same(bypassed(l), l) /\ bypassed(l).nextPC = l.nextPC
  BY DEF bypassed, Latch, Same
<1>4. ASSUME ~stall
      PROVE  Same(newEX, idInst) /\ newEX.nextPC = idInst.nextPC
  <2>1. newEX = simEX(bypassed(idInst))
    BY <1>4 DEF newEX
  <2>2. bypassed(idInst) = [idInst EXCEPT !.op1Val = bypassed(idInst).op1Val,
                                          !.op2Val = bypassed(idInst).op2Val]
    BY DEF bypassed, TypeOK, Latch
  <2>3. /\ Same(simEX(bypassed(idInst)), bypassed(idInst))
        /\ simEX(bypassed(idInst)).nextPC = bypassed(idInst).nextPC
    BY <2>2 DEF simEX, Same, TypeOK, Latch
  <2> QED BY <2>1, <2>3, <1>3 DEF Same, TypeOK
<1>5. Same(resolved, ifInst)
  <2>1. decoded \in Latch /\ Same(decoded, ifInst)
    <3>1. decoded \in Latch
      BY CycleTypes, IDType DEF TypeOK, decoded
    <3>2. Same(simOperandCollection(ifInst, newRegs), ifInst)
      BY DEF simOperandCollection, Same, TypeOK, Latch
    <3> QED BY <3>1, <3>2 DEF decoded, simID, simNextPCResolution, simOperandCollection, Same, TypeOK, Latch
  <2> QED BY <2>1, <1>3 DEF resolved, bypassed, simNextPCResolution, Same, Latch
<1>6. stall => newEX = nop
  BY DEF newEX
<1> QED BY <1>1, <1>2, <1>4, <1>5, <1>6 DEF Same

-----------------------------------------------------------------------------
(* Where the instruction in IF leads. *)

\* A bubble entering ID never redirects the fetch and never waits.
LEMMA BubbleFallsThrough ==
  ASSUME IInv, ~ifInst.fetched
  PROVE  ~flush /\ ~branchStall
<1>1. ifInst.instruction = NopWord /\ ifInst \in Latch
  BY DEF IInv, Origin, inFlight, TypeOK
<1> DEFINE l == simOperandCollection(ifInst, newRegs)
<1>2. l \in Latch /\ l.instruction = NopWord /\ l.PC = ifInst.PC
  <2>1. l \in Latch
    BY <1>1, OperandsType, CycleTypes DEF IInv
  <2>2. l.instruction = NopWord /\ l.PC = ifInst.PC
    BY <1>1 DEF simOperandCollection, Latch
  <2> QED BY <2>1, <2>2
<1>3. resolved = simNextPCResolution(l)
  BY <1>1 DEF resolved, decoded, simID, isLegal, isHalt, controlOpcode, NopWord
<1>4. resolved.nextPC = NextPC(l.instruction, l.PC, l.op1Val, l.op2Val)
  <2> HIDE DEF l
  <2> QED BY <1>2, <1>3 DEF simNextPCResolution, Latch
<1>5. resolved.nextPC = Plus4(ifInst.PC)
  <2> HIDE DEF l
  <2>1. NopWord \in Insts /\ NopWord.op \notin {"BRANCH", "JALR", "JAL"}
    BY MachineTypes DEF NopWord
  <2>2. /\ l.PC \in Word /\ l.op1Val \in Word /\ l.op2Val \in Word
    BY <1>2 DEF Latch
  <2> QED BY <1>2, <1>4, <2>1, <2>2, StraightLine DEF goesStraight
<1> QED BY <1>1, <1>5 DEF flush, branchStall, controlOpcode, NopWord

\* The halt word, and an illegal one that is not a branch, leave ID as they
\* entered it, with nextPC 0.
LEMMA StoppedInID ==
  ASSUME IInv,
         ~isLegal(ifInst.instruction) \/ isHalt(ifInst.instruction),
         ~controlOpcode(ifInst.instruction)
  PROVE  resolved = ifInst /\ resolved.nextPC = 0
BY DEF resolved, decoded, simID, IInv, FreshIF, Fresh

\* The fetch is redirected when the halt word enters ID.
LEMMA HaltFlushes ==
  ASSUME IInv, isHalt(ifInst.instruction)
  PROVE  flush
<1>1. ifInst.fetched /\ ifInst.instruction = prog[ifInst.PC] /\ ifInst.PC \in Word
  BY DEF IInv, Origin, inFlight, isHalt, NopWord, TypeOK, Latch
<1>2. Plus4(ifInst.PC) # 0
  BY <1>1 DEF IInv, HaltNotLast
<1> QED BY <1>2, StoppedInID DEF flush, isHalt, controlOpcode

-----------------------------------------------------------------------------
(* The invariant, part by part. *)

\* The latches trade places but hold what was fetched or a bubble.
LEMMA OriginStep ==
  ASSUME IInv, Next
  PROVE  Origin' /\ FreshIF' /\ HaltNotLast'
<1>1. BackEnd
  BY DEF Next, LoadUseStall, BranchStall, Flush, Advance
<1>2. prog' = prog
  BY <1>1 DEF BackEnd
<1> DEFINE Ok(l) == IF l.fetched THEN l.instruction = prog[l.PC]
                                 ELSE l.instruction = NopWord /\ l.PC = 0
<1>3. Ok(nop)
  BY DEF nop, Fresh
<1>4. /\ Ok(ifInst) /\ Ok(idInst) /\ Ok(exInst) /\ Ok(memInst) /\ Ok(wbInst)
  BY DEF IInv, Origin, inFlight
<1>5. ASSUME NEW l, NEW m, Same(l, m), Ok(m)
      PROVE  Ok(l)
  BY <1>5 DEF Same
<1>6. Ok(wbInst') /\ Ok(memInst') /\ Ok(exInst')
  <2>1. Ok(newMem)
    BY <1>4, <1>5, Passed DEF IInv
  <2>2. Ok(newEX)
    <3>1. CASE stall
      BY <3>1, <1>3, Passed DEF IInv
    <3>2. CASE ~stall
      BY <3>2, <1>4, <1>5, Passed DEF IInv
    <3> QED BY <3>1, <3>2
  <2> QED BY <1>1, <1>4, <2>1, <2>2 DEF BackEnd
<1>7. Ok(idInst')
  <2>1. Ok(resolved)
    BY <1>4, <1>5, Passed DEF IInv
  <2> QED BY <1>3, <1>4, <2>1 DEF Next, LoadUseStall, BranchStall, Flush, Advance
<1>8. Ok(ifInst')
  <2>1. Ok(simIF(prog, PC))
    BY DEF simIF, Fresh
  <2> QED BY <1>3, <1>4, <2>1 DEF Next, LoadUseStall, BranchStall, Flush, Advance
<1>9. Origin'
  BY <1>2, <1>6, <1>7, <1>8 DEF Origin, inFlight
<1>10. FreshIF'
  BY DEF IInv, FreshIF, Next, LoadUseStall, BranchStall, Flush, Advance,
         nop, simIF, Fresh
<1> QED BY <1>2, <1>9, <1>10 DEF IInv, HaltNotLast

\* Whether the cycle stalls, squashes or advances, the latches stay on one path.
LEMMA OrderStep ==
  ASSUME IInv, Next
  PROVE  ProgramOrder'
<1>1. BackEnd /\ TypeOK /\ ProgramOrder
  BY DEF Next, LoadUseStall, BranchStall, Flush, Advance, IInv
<1>2. ~nop.fetched
  BY DEF nop, Fresh
<1>3. exInst' = newEX
  BY <1>1 DEF BackEnd
<1>4. CASE LoadUseStall
  BY <1>1, <1>2, <1>3, <1>4, Passed DEF LoadUseStall, ProgramOrder, afterEX, afterID
<1>5. CASE BranchStall
  <2>1. ifInst.fetched
    BY <1>5, BubbleFallsThrough DEF BranchStall
  <2>2. ~stall
    BY <1>5 DEF BranchStall, branchStall
  <2> QED BY <1>1, <1>2, <1>3, <1>5, <2>1, <2>2, Passed
          DEF BranchStall, ProgramOrder, afterEX, afterID, Same
<1>6. CASE Flush
  <2>1. ifInst.fetched
    BY <1>6, BubbleFallsThrough DEF Flush
  <2>2. idInst'.PC = ifInst.PC /\ idInst'.fetched /\ idInst'.nextPC = PC'
    BY <1>6, <2>1, <1>1, Passed DEF Flush, Same
  <2>3. ~ifInst'.fetched /\ ~stall
    BY <1>6, <1>2 DEF Flush
  <2> QED BY <1>1, <1>3, <2>1, <2>2, <2>3, Passed
          DEF ProgramOrder, afterEX, afterID, Same
<1>7. CASE Advance
  <2>1. /\ ifInst'.fetched /\ ifInst'.PC = PC /\ PC' = Plus4(PC) /\ ~stall
    BY <1>7 DEF Advance, simIF, Fresh
  <2>2. /\ idInst'.PC = ifInst.PC /\ idInst'.fetched = ifInst.fetched
        /\ ifInst.fetched => idInst'.nextPC = PC
    BY <1>7, <1>1, Passed DEF Advance, Same, flush, ProgramOrder
  <2> QED BY <1>1, <1>3, <2>1, <2>2, Passed
          DEF ProgramOrder, afterEX, afterID, Same
<1> QED BY <1>4, <1>5, <1>6, <1>7 DEF Next

\* What ID and EX wait for: never a branch, and never behind a bubble.
LEMMA StallFacts ==
  ASSUME IInv
  PROVE  /\ stall => loadUse /\ ~controlOpcode(idInst.instruction) /\ exInst.fetched
         /\ ~storeForward
<1>1. ASSUME controlOpcode(idInst.instruction)
      PROVE  ~loadUse /\ ~arithBranch /\ ~loadBranch
  BY <1>1 DEF IInv, BranchReady, loadUse, arithBranch, loadBranch, names,
              hazard, readsMem, writesRd
<1>2. ASSUME loadUse PROVE exInst.fetched
  BY <1>2 DEF loadUse, IInv, Origin, inFlight, readsMem, NopWord
<1>3. ~storeForward
  BY DEF IInv, LoadGap, storeForward, names
<1> QED BY <1>1, <1>2, <1>3 DEF stall, arithBranch, loadBranch

\* A branch does not wait for bubbles.
LEMMA BranchStallFacts ==
  ASSUME IInv, ~exInst.fetched, ~idInst.fetched
  PROVE  ~branchStall
<1>1. newEX.instruction = NopWord
  BY Passed DEF IInv, Origin, inFlight, Same, nop, Fresh
<1>2. newMem.instruction = NopWord
  BY Passed DEF IInv, Origin, inFlight, Same
<1> QED BY <1>1, <1>2 DEF branchStall, waitsFor, hazard, writesRd, NopWord

\* A branch only leaves IF with its producers out of EX and, if loads, of MEM.
LEMMA BranchReadyStep ==
  ASSUME IInv, Next
  PROVE  BranchReady'
<1>1. BackEnd /\ TypeOK
  BY DEF Next, LoadUseStall, BranchStall, Flush, Advance, IInv
<1>2. CASE LoadUseStall
  <2>1. ~controlOpcode(idInst'.instruction)
    BY <1>2, StallFacts DEF LoadUseStall
  <2> QED BY <2>1 DEF BranchReady
<1>3. CASE BranchStall
  <2>1. ~controlOpcode(idInst'.instruction)
    BY <1>3 DEF BranchStall, nop, Fresh, NopWord, controlOpcode
  <2> QED BY <2>1 DEF BranchReady
<1>4. CASE Flush \/ Advance
  <2>1. ~stall /\ ~branchStall /\ idInst' = resolved
    BY <1>4 DEF Flush, Advance
  <2>2. idInst'.instruction = ifInst.instruction
    BY <1>1, <2>1, Passed DEF Same
  <2>3. exInst' = newEX /\ memInst' = newMem
    BY <1>1 DEF BackEnd
  <2> QED BY <2>1, <2>2, <2>3 DEF BranchReady, branchStall, waitsFor, hazard
<1> QED BY <1>2, <1>3, <1>4 DEF Next

\* The load-use stall puts a bubble behind a load whose register is named.
LEMMA LoadGapStep ==
  ASSUME IInv, Next
  PROVE  LoadGap'
<1>1. BackEnd /\ TypeOK
  BY DEF Next, LoadUseStall, BranchStall, Flush, Advance, IInv
<1>2. memInst'.instruction = exInst.instruction /\ exInst' = newEX
  BY <1>1, Passed DEF BackEnd, Same
<1>3. CASE stall
  <2>1. exInst'.instruction = NopWord
    BY <1>1, <1>2, <1>3, Passed DEF nop, Fresh
  <2> QED BY <2>1 DEF LoadGap, names, NopWord
<1>4. CASE ~stall
  <2>1. exInst'.instruction = idInst.instruction
    BY <1>1, <1>2, <1>4, Passed DEF Same
  <2> QED BY <1>2, <1>4, <2>1 DEF LoadGap, names, stall, loadUse
<1> QED BY <1>3, <1>4

\* The halt word is followed by bubbles until it stops the run.
LEMMA HaltDrainsStep ==
  ASSUME IInv, Next
  PROVE  HaltDrains'
<1>1. BackEnd /\ TypeOK /\ HaltDrains
  BY DEF Next, LoadUseStall, BranchStall, Flush, Advance, IInv
<1>2. /\ exInst' = newEX /\ memInst' = newMem /\ wbInst' = memInst
      /\ status' = IF isHalt(memInst.instruction) THEN "HALT" ELSE "SUCCESS"
  BY <1>1 DEF BackEnd
<1>3. ~nop.fetched /\ ~isHalt(nop.instruction)
  BY DEF nop, Fresh, NopWord, isHalt
<1>4. isHalt(idInst'.instruction) => ~ifInst'.fetched
  <2>1. CASE LoadUseStall
    BY <1>1, <2>1 DEF LoadUseStall, HaltDrains
  <2>2. CASE BranchStall
    BY <1>3, <2>2 DEF BranchStall
  <2>3. CASE Flush
    BY <1>3, <2>3 DEF Flush
  <2>4. CASE Advance
    BY <1>1, <2>4, HaltFlushes, Passed DEF Advance, Same
  <2> QED BY <2>1, <2>2, <2>3, <2>4 DEF Next
<1>5. isHalt(exInst'.instruction) => ~idInst'.fetched
  <2>1. CASE stall
    BY <1>1, <1>2, <1>3, <2>1, Passed
  <2>2. CASE ~stall
    <3>1. isHalt(exInst'.instruction) => ~ifInst.fetched
      BY <1>1, <1>2, <2>2, Passed DEF HaltDrains, Same
    <3>2. idInst'.fetched => ifInst.fetched
      BY <1>1, <1>3, <2>2, Passed
         DEF Next, LoadUseStall, BranchStall, Flush, Advance, Same
    <3> QED BY <3>1, <3>2
  <2> QED BY <2>1, <2>2
<1>6. isHalt(memInst'.instruction) => ~exInst'.fetched
  BY <1>1, <1>2, <1>3, Passed DEF HaltDrains, Same
<1>7. /\ status' = "HALT" <=> isHalt(wbInst'.instruction)
      /\ status' = "HALT" => ~memInst'.fetched
  BY <1>1, <1>2, Passed DEF HaltDrains, Same
<1> QED BY <1>4, <1>5, <1>6, <1>7 DEF HaltDrains

\* simWB leaves in the register file what the bypass from WB would supply.
LEMMA DoneWrittenStep ==
  ASSUME IInv, Next
  PROVE  DoneWritten'
<1>1. BackEnd /\ TypeOK
  BY DEF Next, LoadUseStall, BranchStall, Flush, Advance, IInv
<1>2. wbInst' = memInst /\ regs' = newRegs
  BY <1>1 DEF BackEnd
<1>3. ASSUME NEW r \in Reg, hazard(memInst, r)
      PROVE  newRegs[r] = Result(memInst)
  BY <1>1, <1>3 DEF newRegs, simWB, hazard, TypeOK, RegFile
<1> QED BY <1>2, <1>3 DEF DoneWritten, hazard, Result

-----------------------------------------------------------------------------
(* The values.  nextRegs is the register file with the instruction in EX     *)
(* written back too, what archRegs shows after the cycle.                    *)

nextRegs == simWB(newMem, newRegs)

after1(i) == IF readsRs1(i) THEN readReg(nextRegs, i.rs1) ELSE 0
after2(i) == IF readsRs2(i) THEN readReg(nextRegs, i.rs2) ELSE 0

leadsAfter(l) ==
  IF ~isLegal(l.instruction) \/ isHalt(l.instruction)
    THEN 0
    ELSE NextPC(l.instruction, l.PC, after1(l.instruction), after2(l.instruction))

\* What a register shows once an instruction is written back: the result the
\* bypass takes from it if it writes that register, the old value if not.
LEMMA WBView ==
  ASSUME NEW l \in Latch, NEW rf \in RegFile, NEW r \in Reg
  PROVE  readReg(simWB(l, rf), r) =
           IF hazard(l, r) THEN Result(l) ELSE readReg(rf, r)
BY CommitView DEF hazard

\* nextRegs is a register file, so the operands read from it are words.
LEMMA NextRegsType ==
  ASSUME IInv, NEW i \in Insts
  PROVE  /\ nextRegs \in RegFile
         /\ after1(i) \in Word /\ after2(i) \in Word
<1>1. nextRegs \in RegFile
  BY CycleTypes, WBType DEF IInv, nextRegs
<1>2. readReg(nextRegs, i.rs1) \in Word /\ readReg(nextRegs, i.rs2) \in Word
  BY <1>1, InstFields, ReadType
<1> QED BY <1>1, <1>2, MachineTypes DEF after1, after2

\* The three bypasses together give an operand the value the program state has
\* after the instruction in EX, provided the latched value is good when none of
\* them applies.
LEMMA BypassValue ==
  ASSUME IInv, NEW r \in Reg, NEW old,
         ~hazard(newMem, r) /\ ~hazard(memInst, r) /\ ~hazard(wbInst, r)
           => old = readReg(regs, r)
  PROVE  bypass(r, old) = readReg(nextRegs, r)
<1>1. TypeOK /\ newMem \in Latch /\ newRegs \in RegFile
  BY CycleTypes DEF IInv
<1>2. readReg(nextRegs, r) =
        IF hazard(newMem, r) THEN Result(newMem) ELSE readReg(newRegs, r)
  BY <1>1, WBView DEF nextRegs
<1>3. readReg(newRegs, r) =
        IF hazard(memInst, r) THEN Result(memInst) ELSE readReg(regs, r)
  BY <1>1, WBView DEF newRegs, TypeOK
<1>4. hazard(wbInst, r) => readReg(regs, r) = Result(wbInst)
  BY DEF IInv, DoneWritten, hazard, readReg
<1> QED BY <1>2, <1>3, <1>4 DEF bypass

\* The operand register fields and latched values of the instruction in ID,
\* after the bypasses: the operands it has in the program state.
LEMMA BypassedInID ==
  ASSUME IInv
  PROVE  /\ bypassed(idInst) \in Latch
         /\ Same(bypassed(idInst), idInst)
         /\ readsRs1(idInst.instruction) =>
              bypassed(idInst).op1Val = after1(idInst.instruction)
         /\ readsRs2(idInst.instruction) =>
              bypassed(idInst).op2Val = after2(idInst.instruction)
<1> DEFINE i == idInst.instruction
<1>1. TypeOK /\ idInst \in Latch /\ i \in Insts /\ i.rs1 \in Reg /\ i.rs2 \in Reg
  BY InstFields DEF IInv, TypeOK, Latch
<1>2. readsRs1(i) => bypass(i.rs1, idInst.op1Val) = after1(i)
  BY <1>1, BypassValue DEF IInv, OperandsInID, upToDate, after1
<1>3. readsRs2(i) => bypass(i.rs2, idInst.op2Val) = after2(i)
  BY <1>1, BypassValue DEF IInv, OperandsInID, upToDate, after2
<1>4. /\ bypassed(idInst).op1Val = bypass(i.rs1, idInst.op1Val)
      /\ bypassed(idInst).op2Val = bypass(i.rs2, idInst.op2Val)
      /\ Same(bypassed(idInst), idInst)
  BY <1>1 DEF bypassed, Latch, Same
<1>5. bypassed(idInst) \in Latch
  BY <1>1, BypassedType
<1> QED BY <1>2, <1>3, <1>4, <1>5

\* An operand the instruction does not read may hold anything.
LEMMA OperandsUsed ==
  ASSUME NEW i \in Insts, NEW pc \in Word,
         NEW a \in Word, NEW b \in Word, NEW c \in Word, NEW d \in Word,
         readsRs1(i) => a = c, readsRs2(i) => b = d
  PROVE  /\ doesArithLogic(i) => ArithLogic(i, pc, a, b) = ArithLogic(i, pc, c, d)
         /\ NextPC(i, pc, a, b) = NextPC(i, pc, c, d)
<1>0. 0 \in Word
  BY MachineTypes
<1>1. /\ doesArithLogic(i) => ArithLogic(i, pc, a, b) = ArithLogic(i, pc, c, b)
      /\ NextPC(i, pc, a, b) = NextPC(i, pc, c, b)
  <2>1. CASE readsRs1(i)
    BY <2>1
  <2>2. CASE ~readsRs1(i)
    BY <2>2, UnusedOperands DEF ignoresUnused
  <2> QED BY <2>1, <2>2
<1>2. /\ doesArithLogic(i) => ArithLogic(i, pc, c, b) = ArithLogic(i, pc, c, d)
      /\ NextPC(i, pc, c, b) = NextPC(i, pc, c, d)
  <2>1. CASE readsRs2(i)
    BY <2>1
  <2>2. CASE ~readsRs2(i)
    BY <2>2, UnusedOperands DEF ignoresUnused
  <2> QED BY <2>1, <2>2
<1> QED BY <1>1, <1>2

\* Only branches and JALR look at the registers to find the next PC.
LEMMA NextPCIndependent ==
  ASSUME NEW i \in Insts, NEW pc \in Word, ~controlOpcode(i),
         NEW a \in Word, NEW b \in Word, NEW c \in Word, NEW d \in Word
  PROVE  NextPC(i, pc, a, b) = NextPC(i, pc, c, d)
<1>1. CASE i.op = "JAL"
  BY <1>1, OperandsUsed DEF readsRs1, readsRs2
<1>2. CASE i.op # "JAL"
  BY <1>2, StraightLine DEF controlOpcode, goesStraight
<1> QED BY <1>1, <1>2

\* The operands of the instruction ID has just decoded: the registers as this
\* cycle's write-back left them, or, for a branch, the bypassed values, which
\* are those of the program state after the instruction in EX.
LEMMA ResolvedOperands ==
  ASSUME IInv, isLegal(ifInst.instruction), ~isHalt(ifInst.instruction)
  PROVE  LET i == ifInst.instruction IN
         /\ resolved \in Latch
         /\ resolved.nextPC = NextPC(i, ifInst.PC, resolved.op1Val, resolved.op2Val)
         /\ ~controlOpcode(i) =>
              /\ readsRs1(i) => resolved.op1Val = readReg(newRegs, i.rs1)
              /\ readsRs2(i) => resolved.op2Val = readReg(newRegs, i.rs2)
         /\ controlOpcode(i) =>
              /\ readsRs1(i) => resolved.op1Val = after1(i)
              /\ readsRs2(i) => resolved.op2Val = after2(i)
<1> DEFINE i == ifInst.instruction
           c == simOperandCollection(ifInst, newRegs)
           n == simNextPCResolution(c)
           b == bypassed(n)
<1>1. /\ TypeOK /\ ifInst \in Latch /\ newRegs \in RegFile /\ resolved \in Latch
      /\ i \in Insts /\ i.rs1 \in Reg /\ i.rs2 \in Reg
  BY CycleTypes, InstFields DEF IInv, TypeOK, Latch
<1>2. decoded = n
  BY DEF decoded, simID
<1>3. /\ c \in Latch /\ Same(c, ifInst)
      /\ readsRs1(i) => c.op1Val = readReg(newRegs, i.rs1)
      /\ readsRs2(i) => c.op2Val = readReg(newRegs, i.rs2)
  <2>1. c \in Latch
    BY <1>1, OperandsType
  <2> QED BY <1>1, <2>1 DEF simOperandCollection, Same, Latch
<1>4. /\ n \in Latch /\ Same(n, c) /\ n.op1Val = c.op1Val /\ n.op2Val = c.op2Val
      /\ n.nextPC = NextPC(c.instruction, c.PC, c.op1Val, c.op2Val)
  <2> HIDE DEF c
  <2>1. n \in Latch
    BY <1>3, NextPCType
  <2> QED BY <1>3, <2>1 DEF simNextPCResolution, Same, Latch
<1>5. CASE ~controlOpcode(i)
  <2>1. resolved = n
    BY <1>2, <1>5 DEF resolved
  <2> HIDE DEF c, n
  <2> QED BY <1>1, <1>3, <1>4, <1>5, <2>1 DEF Same
<1>6. CASE controlOpcode(i)
  <2>1. resolved = simNextPCResolution(b)
    BY <1>2, <1>6 DEF resolved
  <2> HIDE DEF c, n
  <2>2. /\ b \in Latch /\ Same(b, n)
        /\ b.op1Val = bypass(i.rs1, n.op1Val)
        /\ b.op2Val = bypass(i.rs2, n.op2Val)
    <3>1. n.instruction = i
      BY <1>3, <1>4 DEF Same
    <3>2. newMem \in Latch /\ memInst \in Latch /\ wbInst \in Latch
      BY <1>1, CycleTypes DEF TypeOK
    <3>3. /\ Result(newMem) \in Word /\ Result(memInst) \in Word
          /\ Result(wbInst) \in Word
      BY <3>2, ResultType
    <3> QED BY <1>4, <3>1, <3>3 DEF bypassed, bypass, Latch, Same
  <2> HIDE DEF b
  <2>3. /\ resolved.op1Val = b.op1Val /\ resolved.op2Val = b.op2Val
        /\ resolved.nextPC = NextPC(b.instruction, b.PC, b.op1Val, b.op2Val)
    BY <2>1, <2>2 DEF simNextPCResolution, Latch
  <2>4. ASSUME NEW r \in Reg
        PROVE  bypass(r, readReg(newRegs, r)) = readReg(nextRegs, r)
    <3>1. readReg(newRegs, r) =
            IF hazard(memInst, r) THEN Result(memInst) ELSE readReg(regs, r)
      BY <1>1, WBView DEF newRegs, TypeOK
    <3> QED BY <3>1, BypassValue
  <2>5. /\ readsRs1(i) => b.op1Val = after1(i)
        /\ readsRs2(i) => b.op2Val = after2(i)
    BY <1>1, <1>3, <1>4, <2>2, <2>4 DEF after1, after2
  <2>6. b.instruction = i /\ b.PC = ifInst.PC
    BY <1>3, <1>4, <2>2 DEF Same
  <2> QED BY <1>1, <1>6, <2>3, <2>5, <2>6
<1> QED BY <1>5, <1>6

\* The operands that wait in ID stay up to date through a stall, and those
\* read by the instruction that enters ID are.
LEMMA OperandsStep ==
  ASSUME IInv, Next
  PROVE  OperandsInID'
<1>1. BackEnd /\ TypeOK
  BY DEF Next, LoadUseStall, BranchStall, Flush, Advance, IInv
<1>2. /\ regs' = newRegs /\ wbInst' = memInst /\ memInst' = newMem
      /\ exInst' = newEX
  BY <1>1 DEF BackEnd
<1>3. newMem \in Latch /\ newRegs \in RegFile
  BY <1>1, CycleTypes
<1>4. ASSUME NEW r \in Reg
      PROVE  readReg(newRegs, r) =
               IF hazard(memInst, r) THEN Result(memInst) ELSE readReg(regs, r)
  BY <1>1, WBView DEF newRegs, TypeOK
<1>5. CASE LoadUseStall
  <2>1. exInst.fetched /\ ~exInst'.fetched /\ idInst' = idInst
    BY <1>1, <1>2, <1>5, StallFacts, Passed DEF LoadUseStall, nop, Fresh
  <2>2. idInst.instruction.rs1 \in Reg /\ idInst.instruction.rs2 \in Reg
    BY <1>1, InstFields DEF TypeOK, Latch
  <2>3. ASSUME NEW r \in Reg, NEW val, upToDate(r, val)
        PROVE  upToDate(r, val)'
    BY <1>2, <1>4, <2>1, <2>3 DEF upToDate, readReg, hazard
  <2> QED BY <2>1, <2>2, <2>3 DEF IInv, OperandsInID
<1>6. CASE BranchStall
  BY <1>6 DEF BranchStall, OperandsInID, nop, Fresh, NopWord, readsRs1, readsRs2
<1>7. CASE Flush \/ Advance
  <2> DEFINE i == ifInst.instruction
  <2>1. idInst' = resolved /\ resolved.instruction = i
    BY <1>1, <1>7, Passed DEF Flush, Advance, Same
  <2>2. i \in Insts /\ i.rs1 \in Reg /\ i.rs2 \in Reg
    BY <1>1, InstFields DEF TypeOK, Latch
  <2>3. CASE ~isLegal(i) \/ isHalt(i)
    BY <2>1, <2>3 DEF OperandsInID, isLegal, isHalt, readsRs1, readsRs2
  <2>4. CASE isLegal(i) /\ ~isHalt(i)
    <3> DEFINE good(r, val) ==
          ~hazard(memInst', r) /\ (exInst'.fetched \/ ~hazard(wbInst', r))
            => val = readReg(regs', r)
    <3>1. ASSUME NEW r \in Reg, NEW val,
                 val = readReg(newRegs, r) \/ val = readReg(nextRegs, r)
          PROVE  good(r, val)
      <4>1. readReg(nextRegs, r) =
              IF hazard(newMem, r) THEN Result(newMem) ELSE readReg(newRegs, r)
        BY <1>3, WBView DEF nextRegs
      <4> QED BY <1>2, <3>1, <4>1
    <3> HIDE DEF good
    <3>2. readsRs1(i) => good(i.rs1, resolved.op1Val)
      BY <2>2, <2>4, <3>1, ResolvedOperands DEF after1
    <3>3. readsRs2(i) => good(i.rs2, resolved.op2Val)
      BY <2>2, <2>4, <3>1, ResolvedOperands DEF after2
    <3> QED BY <2>1, <3>2, <3>3
            DEF OperandsInID, upToDate, good, hazard, readReg, readsRs1, readsRs2
  <2> QED BY <2>3, <2>4
<1> QED BY <1>5, <1>6, <1>7 DEF Next

\* The program state after the cycle shows nextRegs.
LEMMA NextView ==
  ASSUME TypeOK, BackEnd, NEW l
  PROVE  /\ archRegs' = [r \in Reg |-> readReg(nextRegs, r)]
         /\ l.instruction \in Insts => leadsTo(l)' = leadsAfter(l)
<1>1. archRegs' = [r \in Reg |-> readReg(nextRegs, r)]
  BY DEF BackEnd, archRegs, newRegs, nextRegs, readReg, simWB, Result
<1>2. ASSUME NEW i \in Insts
      PROVE  value1(i)' = after1(i) /\ value2(i)' = after2(i)
  BY <1>1, InstFields DEF value1, value2, after1, after2
<1>3. l.instruction \in Insts => leadsTo(l)' = leadsAfter(l)
  BY <1>2 DEF leadsTo, leadsAfter
<1> QED BY <1>1, <1>3

\* Where ID resolved an instruction to lead is where it leads once EX has gone
\* through MEM: a branch does not depend on EX, and the others on no register.
LEMMA ResolvedStep ==
  ASSUME IInv, Next
  PROVE  ResolvedInID'
<1>1. BackEnd /\ TypeOK
  BY DEF Next, LoadUseStall, BranchStall, Flush, Advance, IInv
<1>2. CASE LoadUseStall
  <2>1. idInst' = idInst /\ ~controlOpcode(idInst.instruction)
    BY <1>2, StallFacts DEF LoadUseStall
  <2>2. idInst.instruction \in Insts /\ idInst.PC \in Word
    BY <1>1 DEF TypeOK, Latch
  <2>3. ASSUME NEW i \in Insts
        PROVE  value1(i) \in Word /\ value2(i) \in Word
    BY CycleTypes, ReadType, InstFields, MachineTypes, <1>1
       DEF value1, value2, archRegs
  <2>4. leadsTo(idInst) = leadsAfter(idInst)
    BY <2>1, <2>2, <2>3, NextRegsType, NextPCIndependent DEF leadsTo, leadsAfter
  <2> QED BY <1>1, <2>1, <2>2, <2>4, NextView DEF IInv, ResolvedInID
<1>3. CASE BranchStall
  BY <1>3 DEF BranchStall, ResolvedInID, nop, Fresh
<1>4. CASE Flush \/ Advance
  <2> DEFINE i == ifInst.instruction
  <2>1. /\ idInst' = resolved
        /\ resolved.instruction = i /\ resolved.PC = ifInst.PC
        /\ resolved \in Latch
    BY <1>1, <1>4, Passed, CycleTypes DEF Flush, Advance, Same
  <2>2. i \in Insts /\ ifInst.PC \in Word
    BY <1>1 DEF TypeOK, Latch
  <2>3. ASSUME i.op # "ILLEGAL_BRANCH"
        PROVE  resolved.nextPC = leadsAfter(resolved)
    <3>1. CASE ~isLegal(i) \/ isHalt(i)
      BY <2>1, <2>3, <3>1, StoppedInID
         DEF leadsAfter, controlOpcode, isLegal, isHalt
    <3>2. CASE isLegal(i) /\ ~isHalt(i)
      <4>1. resolved.nextPC = NextPC(i, ifInst.PC, resolved.op1Val, resolved.op2Val)
        BY <3>2, ResolvedOperands
      <4>2. /\ resolved.op1Val \in Word /\ resolved.op2Val \in Word
            /\ after1(i) \in Word /\ after2(i) \in Word
        BY <2>1, <2>2, NextRegsType DEF Latch
      <4>3. CASE controlOpcode(i)
        <5>1. /\ readsRs1(i) => resolved.op1Val = after1(i)
              /\ readsRs2(i) => resolved.op2Val = after2(i)
          BY <3>2, <4>3, ResolvedOperands
        <5> QED BY <2>1, <2>2, <3>2, <4>1, <4>2, <5>1, OperandsUsed DEF leadsAfter
      <4>4. CASE ~controlOpcode(i)
        BY <2>1, <2>2, <3>2, <4>1, <4>2, <4>4, NextPCIndependent DEF leadsAfter
      <4> QED BY <4>3, <4>4
    <3> QED BY <3>1, <3>2
  <2> QED BY <1>1, <2>1, <2>2, <2>3, NextView DEF ResolvedInID
<1> QED BY <1>2, <1>3, <1>4 DEF Next

\* EX computes on the bypassed operands what the instruction computes in the
\* program state.
LEMMA ExecutedStep ==
  ASSUME IInv, Next
  PROVE  ExecutedInEX'
<1>1. BackEnd /\ TypeOK
  BY DEF Next, LoadUseStall, BranchStall, Flush, Advance, IInv
<1>2. exInst' = newEX
  BY <1>1 DEF BackEnd
<1>3. CASE stall
  BY <1>1, <1>2, <1>3, Passed DEF ExecutedInEX, nop, Fresh
<1>4. CASE ~stall
  <2> DEFINE i == idInst.instruction
             b == bypassed(idInst)
  <2>1. /\ i \in Insts /\ i.rs1 \in Reg /\ i.rs2 \in Reg /\ idInst.PC \in Word
    BY <1>1, InstFields DEF TypeOK, Latch
  <2>2. /\ b \in Latch /\ b.instruction = i /\ b.PC = idInst.PC
        /\ readsRs1(i) => b.op1Val = after1(i)
        /\ readsRs2(i) => b.op2Val = after2(i)
    BY BypassedInID DEF Same
  <2>3. /\ newEX.instruction = i /\ newEX.PC = idInst.PC
        /\ newEX.fetched = idInst.fetched /\ newEX.nextPC = idInst.nextPC
    BY <1>1, <1>4, Passed DEF Same
  <2>4. newEX = simEX(b)
    BY <1>4 DEF newEX
  <2> HIDE DEF b
  <2>5. /\ doesArithLogic(i) =>
             newEX.arithResult = ArithLogic(i, idInst.PC, b.op1Val, b.op2Val)
        /\ readsMem(i) \/ writesMem(i) => newEX.memAddress = AddrGen(i, b.op1Val)
        /\ newEX.op2Val = b.op2Val
    BY <2>2, <2>4 DEF simEX, Latch
  <2>6. /\ b.op1Val \in Word /\ b.op2Val \in Word
        /\ after1(i) \in Word /\ after2(i) \in Word
    BY <2>1, <2>2, NextRegsType DEF Latch
  <2>7. doesArithLogic(i) =>
          newEX.arithResult = ArithLogic(i, idInst.PC, after1(i), after2(i))
    BY <2>1, <2>2, <2>5, <2>6, OperandsUsed
  <2>8. /\ readsMem(i) \/ writesMem(i) => newEX.memAddress = AddrGen(i, after1(i))
        /\ writesMem(i) => newEX.op2Val = after2(i)
    BY <2>2, <2>5 DEF readsMem, writesMem, readsRs1, readsRs2
  <2>9. idInst.fetched /\ i.op # "ILLEGAL_BRANCH" => newEX.nextPC = leadsAfter(newEX)
    <3>1. CASE controlOpcode(i)
      <4>1. ASSUME NEW r \in {i.rs1, i.rs2}
            PROVE  readReg(nextRegs, r) = readReg(newRegs, r)
        <5>1. ~hazard(newMem, r)
          BY <1>1, <3>1, Passed DEF IInv, BranchReady, hazard, Same
        <5>2. newMem \in Latch /\ newRegs \in RegFile /\ r \in Reg
          BY <1>1, <2>1, CycleTypes
        <5> QED BY <5>1, <5>2, WBView DEF nextRegs
      <4>2. value1(i) = after1(i) /\ value2(i) = after2(i)
        BY <2>1, <4>1 DEF value1, value2, after1, after2, archRegs
      <4> QED BY <2>3, <4>2 DEF leadsTo, leadsAfter, IInv, ResolvedInID
    <3>2. CASE ~controlOpcode(i)
      <4>1. value1(i) \in Word /\ value2(i) \in Word
        BY <1>1, <2>1, CycleTypes, ReadType, MachineTypes
           DEF value1, value2, archRegs
      <4> QED BY <2>1, <2>3, <2>6, <3>2, <4>1, NextPCIndependent
              DEF leadsTo, leadsAfter, IInv, ResolvedInID
    <3> QED BY <3>1, <3>2
  <2>10. ASSUME NEW j \in Insts
         PROVE  value1(j)' = after1(j) /\ value2(j)' = after2(j)
    BY <1>1, NextView, InstFields DEF value1, value2, after1, after2
  <2> QED BY <1>1, <1>2, <2>1, <2>3, <2>7, <2>8, <2>9, <2>10, NextView
          DEF ExecutedInEX
<1> QED BY <1>3, <1>4

-----------------------------------------------------------------------------
(* The theorems. *)

\* Every cycle of runCycles keeps every latch, operand and result what the
\* program makes it, for any data path and any program: the inductive invariant.
THEOREM Invariance == Spec => []IInv
<1>1. Init => IInv
  <2> SUFFICES ASSUME Init PROVE IInv
    OBVIOUS
  <2>1. TypeOK
    BY InitType
  <2>2. HaltNotLast
    BY HaltBelowTop DEF Init, HaltNotLast
  <2>3. Origin /\ FreshIF
    BY DEF Init, Origin, FreshIF, inFlight, nop, Fresh
  <2>4. ProgramOrder /\ BranchReady /\ LoadGap /\ HaltDrains /\ DoneWritten
    BY DEF Init, ProgramOrder, BranchReady, LoadGap, HaltDrains, DoneWritten,
           nop, Fresh, NopWord, hazard, writesRd, readsMem, isHalt, controlOpcode
  <2>5. OperandsInID /\ ResolvedInID /\ ExecutedInEX
    BY DEF Init, OperandsInID, ResolvedInID, ExecutedInEX,
           nop, Fresh, NopWord, readsRs1, readsRs2
  <2> QED BY <2>1, <2>2, <2>3, <2>4, <2>5 DEF IInv
<1>2. IInv /\ [Next]_vars => IInv'
  <2> SUFFICES ASSUME IInv, [Next]_vars PROVE IInv'
    OBVIOUS
  <2>1. CASE Next
    <3>1. TypeOK'
      BY <2>1, TypeStep DEF IInv
    <3> QED BY <2>1, <3>1, OriginStep, OrderStep, BranchReadyStep, LoadGapStep,
               HaltDrainsStep, DoneWrittenStep, OperandsStep, ResolvedStep,
               ExecutedStep
            DEF IInv
  <2>2. CASE UNCHANGED vars
    <3>1. TypeOK'
      BY <2>2, TypeStep DEF IInv
    <3>2. HaltNotLast' /\ Origin' /\ FreshIF'
      BY <2>2 DEF vars, latches, IInv, HaltNotLast, Origin, FreshIF, inFlight
    <3>3. ProgramOrder' /\ HaltDrains'
      BY <2>2 DEF vars, latches, IInv, ProgramOrder, HaltDrains, afterID, afterEX
    <3>4. BranchReady' /\ LoadGap' /\ DoneWritten'
      BY <2>2 DEF vars, latches, IInv, BranchReady, LoadGap, DoneWritten,
                  hazard, names, Result
    <3>5. OperandsInID'
      BY <2>2 DEF vars, latches, IInv, OperandsInID, upToDate, hazard, readReg
    <3>6. archRegs' = archRegs
      BY <2>2 DEF vars, latches, archRegs, newRegs, simWB, Result, readReg
    <3>7. ResolvedInID' /\ ExecutedInEX'
      BY <2>2, <3>6 DEF vars, latches, IInv, ResolvedInID, ExecutedInEX,
                        leadsTo, value1, value2
    <3> QED BY <3>1, <3>2, <3>3, <3>4, <3>5, <3>7 DEF IInv
  <2> QED BY <2>1, <2>2
<1> QED BY <1>1, <1>2, PTL DEF Spec

\* No wrong-path instruction enters ID, whatever is held, squashed or bubbled.
THEOREM Ordered == Spec => []ProgramOrder
<1>1. IInv => ProgramOrder
  BY DEF IInv
<1> QED BY <1>1, Invariance, PTL

\* On every program the run ends with the write-back of the halt word, and no
\* instruction behind it has then changed a register or the memory.
THEOREM HaltsPrecisely == Spec => PreciseHalt
<1>1. ASSUME IInv, Next
      PROVE  /\ ~isHalt(wbInst.instruction)
             /\ status' = "HALT" <=> isHalt(memInst.instruction)
             /\ isHalt(memInst.instruction) => UNCHANGED <<regs, mem>>
  <2>1. BackEnd
    BY <1>1 DEF Next, LoadUseStall, BranchStall, Flush, Advance
  <2>2. ~isHalt(wbInst.instruction)
    BY <1>1, <2>1 DEF BackEnd, canRun, IInv, HaltDrains
  <2>3. status' = "HALT" <=> isHalt(memInst.instruction)
    BY <2>1 DEF BackEnd
  <2>4. ASSUME isHalt(memInst.instruction)
        PROVE  UNCHANGED <<regs, mem>>
    <3>1. exInst.instruction = NopWord
      BY <1>1, <2>4 DEF IInv, HaltDrains, Origin, inFlight
    <3>2. toMEM.instruction = NopWord
      BY <3>1 DEF toMEM, storeForward, writesMem, NopWord
    <3>3. mem' = mem
      BY <2>1, <3>2 DEF BackEnd, simMEMStore, writesMem, NopWord
    <3>4. regs' = regs
      BY <2>1, <2>4 DEF BackEnd, newRegs, simWB, writesRd, isHalt
    <3> QED BY <3>3, <3>4
  <2> QED BY <2>2, <2>3, <2>4
<1>2. IInv /\ [Next]_vars =>
        [ /\ ~isHalt(wbInst.instruction)
          /\ status' = "HALT" <=> isHalt(memInst.instruction)
          /\ isHalt(memInst.instruction) => UNCHANGED <<regs, mem>> ]_vars
  BY <1>1
<1> QED BY <1>2, Invariance, PTL DEF Spec, PreciseHalt

\* The branch stalls of cycle.cpp:92-103 and the store forwarding of
\* cycle.cpp:116-120 are unreachable on every program.
THEOREM HazardLogicDead == Spec => []DeadHazardLogic
<1>1. IInv => DeadHazardLogic
  BY StallFacts DEF DeadHazardLogic
<1> QED BY <1>1, Invariance, PTL

\* A load-use stall lasts one cycle and a branch waits two at most.
THEOREM StallsBounded == Spec => BoundedStalls
<1>1. IInv /\ ~exInst.fetched => ~stall
  BY StallFacts
<1>2. IInv /\ ~exInst.fetched /\ ~idInst.fetched => ~branchStall
  BY BranchStallFacts
<1>3. (IInv /\ ~exInst.fetched => ~stall)'
  BY <1>1, PTL
<1>4. (IInv /\ ~exInst.fetched /\ ~idInst.fetched => ~branchStall)'
  BY <1>2, PTL
<1>5. ASSUME IInv, IInv', LoadUseStall
      PROVE  ~stall'
  <2>1. ~exInst'.fetched
    BY <1>5, Passed DEF LoadUseStall, BackEnd, IInv, nop, Fresh
  <2> QED BY <1>3, <1>5, <2>1
<1>6. ASSUME IInv, IInv', BranchStall, ~idInst.fetched
      PROVE  ~branchStall'
  <2>1. ~exInst'.fetched /\ ~idInst'.fetched
    BY <1>6, Passed DEF BranchStall, branchStall, BackEnd, IInv, nop, Fresh, Same
  <2> QED BY <1>4, <1>6, <2>1
<1>7. IInv /\ IInv' /\ [Next]_vars =>
        [ /\ LoadUseStall => ~stall'
          /\ BranchStall /\ ~idInst.fetched => ~branchStall' ]_vars
  BY <1>5, <1>6
<1> QED BY <1>7, Invariance, PTL DEF Spec, BoundedStalls

-----------------------------------------------------------------------------
(* The refinement. *)

\* The illegal words cycle.cpp does not take for legal ones.
NoIllegalBranch == \A a \in Word : prog[a].op # "ILLEGAL_BRANCH"

\* Isa reads an instruction word as cycle.cpp does.
LEMMA SameFlags ==
  ASSUME NEW i
  PROVE  /\ A!isHalt(i) <=> isHalt(i)
         /\ A!isLegal(i) <=> isLegal(i)
         /\ A!readsMem(i) <=> readsMem(i)
         /\ A!writesMem(i) <=> writesMem(i)
         /\ A!writesRd(i) <=> writesRd(i)
         /\ A!readsRs1(i) <=> readsRs1(i)
         /\ A!readsRs2(i) <=> readsRs2(i)
BY DEF A!isHalt, isHalt, A!isLegal, isLegal, A!readsMem, readsMem,
       A!writesMem, writesMem, A!writesRd, writesRd,
       A!readsRs1, readsRs1, A!readsRs2, readsRs2

\* A cycle makes the instruction that was in EX the last one to have taken
\* effect; the next one is what followed it, whichever latch that is in.
LEMMA NextArchPC ==
  ASSUME IInv, Next
  PROVE  archPC' = afterEX
<1>1. BackEnd /\ TypeOK /\ ProgramOrder
  BY DEF Next, LoadUseStall, BranchStall, Flush, Advance, IInv
<1>2. exInst' = newEX /\ ~nop.fetched
  BY <1>1 DEF BackEnd, nop, Fresh
<1>3. CASE LoadUseStall
  BY <1>1, <1>2, <1>3, Passed DEF LoadUseStall, archPC, afterEX, afterID
<1>4. CASE BranchStall
  BY <1>1, <1>2, <1>4, Passed, BubbleFallsThrough
     DEF BranchStall, branchStall, archPC, afterEX, afterID, Same
<1>5. CASE Flush
  <2>1. ifInst.fetched /\ idInst'.fetched /\ idInst'.PC = ifInst.PC /\ ~stall
    BY <1>1, <1>5, Passed, BubbleFallsThrough DEF Flush, Same
  <2> QED BY <1>1, <1>2, <2>1, Passed DEF archPC, afterEX, afterID, Same
<1>6. CASE Advance
  <2>1. /\ ifInst'.fetched /\ ifInst'.PC = PC /\ ~stall
        /\ idInst'.fetched = ifInst.fetched /\ idInst'.PC = ifInst.PC
    BY <1>1, <1>6, Passed DEF Advance, simIF, Fresh, Same
  <2> QED BY <1>1, <1>2, <2>1, Passed DEF archPC, afterEX, afterID, Same
<1> QED BY <1>3, <1>4, <1>5, <1>6 DEF Next

\* A bubble in EX leaves the program state alone.
LEMMA BubbleStutters ==
  ASSUME IInv, Next, ~exInst.fetched
  PROVE  UNCHANGED A!vars
<1>1. BackEnd /\ TypeOK
  BY DEF Next, LoadUseStall, BranchStall, Flush, Advance, IInv
<1>2. exInst.instruction = NopWord /\ newMem.instruction = NopWord
  BY <1>1, Passed DEF IInv, Origin, inFlight, Same
<1>3. archRegs' = archRegs
  BY <1>1, <1>2, NextView DEF nextRegs, simWB, archRegs, writesRd, NopWord
<1>4. mem' = mem
  BY <1>1, <1>2, StallFacts
     DEF BackEnd, toMEM, simMEMStore, writesMem, NopWord
<1>5. archPC' = archPC
  BY NextArchPC DEF archPC
<1>6. archHalted' = archHalted
  <2>1. status # "HALT"
    BY <1>1 DEF BackEnd, canRun
  <2>2. archHalted' <=> archHalted
    BY <1>1, <1>2, <2>1 DEF BackEnd, archHalted, isHalt, NopWord
  <2> QED BY <2>2 DEF archHalted
<1> QED BY <1>1, <1>3, <1>4, <1>5, <1>6 DEF BackEnd, A!vars

\* An instruction in EX takes effect as the architecture has it.
LEMMA InstructionStep ==
  ASSUME IInv, NoIllegalBranch, Next, exInst.fetched
  PROVE  A!Next
<1> DEFINE i == exInst.instruction
<1>1. BackEnd /\ TypeOK /\ ProgramOrder /\ HaltDrains
  BY DEF Next, LoadUseStall, BranchStall, Flush, Advance, IInv
<1>2. /\ i \in Insts /\ i.rd \in Reg /\ i.rs1 \in Reg /\ i.rs2 \in Reg
      /\ exInst.PC \in Word
  BY <1>1, InstFields DEF TypeOK, Latch
<1>3. /\ archPC = exInst.PC /\ A!inst = i /\ i.op # "ILLEGAL_BRANCH"
  BY <1>2 DEF archPC, A!inst, IInv, Origin, inFlight, NoIllegalBranch
<1>4. archPC' = leadsTo(exInst)
  BY <1>1, <1>3, NextArchPC DEF IInv, ExecutedInEX, ProgramOrder
<1>5. /\ ~archHalted
      /\ archHalted' <=> isHalt(i)
  <2>1. ~isHalt(memInst.instruction) /\ status # "HALT"
    BY <1>1 DEF HaltDrains, BackEnd, canRun
  <2>2. memInst'.instruction = i
    BY <1>1, Passed DEF BackEnd, Same
  <2> QED BY <1>1, <2>1, <2>2 DEF BackEnd, archHalted
<1>6. A!op1 = value1(i) /\ A!op2 = value2(i)
  BY <1>3, SameFlags DEF A!op1, A!op2, value1, value2
<1>7. toMEM = exInst
  BY StallFacts DEF toMEM
<1>8. mem' = IF writesMem(i) THEN MemSet(mem, i, A!address, A!op2) ELSE mem
  BY <1>1, <1>3, <1>6, <1>7
     DEF BackEnd, simMEMStore, A!address, IInv, ExecutedInEX
<1>9. archRegs' = IF writesRd(i) /\ i.rd # 0
                    THEN [archRegs EXCEPT ![i.rd] = A!result] ELSE archRegs
  <2>1. newMem.instruction = i /\ newMem \in Latch /\ newRegs \in RegFile
    BY <1>1, Passed, CycleTypes DEF Same
  <2>2. writesRd(i) => Result(newMem) = A!result
    <3>1. CASE readsMem(i)
      <4>1. newMem.memResult = MemGet(mem, i, exInst.memAddress)
        BY <1>1, <1>7, <3>1 DEF newMem, simMEM, TypeOK, Latch
      <4>2. exInst.memAddress = A!address
        BY <1>3, <1>6, <3>1 DEF A!address, IInv, ExecutedInEX
      <4> QED BY <1>3, <2>1, <3>1, <4>1, <4>2, SameFlags DEF Result, A!result
    <3>2. CASE ~readsMem(i) /\ writesRd(i)
      <4>1. newMem.arithResult = exInst.arithResult
        BY <1>1, Passed
      <4>2. exInst.arithResult = ArithLogic(i, exInst.PC, value1(i), value2(i))
        BY <3>2 DEF IInv, ExecutedInEX, doesArithLogic, writesRd, readsMem
      <4> QED BY <1>3, <1>6, <2>1, <3>2, <4>1, <4>2, SameFlags
              DEF Result, A!result
    <3> QED BY <3>1, <3>2
  <2>3. ASSUME NEW r \in Reg
        PROVE  readReg(nextRegs, r) =
                 IF writesRd(i) /\ i.rd # 0 /\ i.rd = r
                   THEN A!result ELSE readReg(newRegs, r)
    BY <2>1, <2>2, WBView DEF nextRegs, hazard
  <2>4. archRegs' = [r \in Reg |-> readReg(nextRegs, r)]
    BY <1>1, NextView
  <2> QED BY <1>2, <2>3, <2>4 DEF archRegs
<1>10. prog' = prog
  BY <1>1 DEF BackEnd
<1>11. CASE isLegal(i) /\ ~isHalt(i)
  <2>1. archPC' = NextPC(i, archPC, A!op1, A!op2)
    BY <1>3, <1>4, <1>6, <1>11 DEF leadsTo
  <2>2. archHalted' = archHalted
    BY <1>5, <1>11 DEF archHalted
  <2>3. A!Execute
    BY <1>3, <1>5, <1>8, <1>9, <1>10, <1>11, <2>1, <2>2,
       SameFlags DEF A!Execute
  <2> QED BY <2>3 DEF A!Next
<1>12. CASE ~isLegal(i) \/ isHalt(i)
  <2>1. archPC' = 0
    BY <1>4, <1>12 DEF leadsTo
  <2>2. archRegs' = archRegs /\ mem' = mem
    BY <1>8, <1>9, <1>12 DEF isLegal, isHalt, writesRd, writesMem
  <2>3. CASE isHalt(i)
    <3>1. archHalted' = TRUE
      BY <1>5, <2>3 DEF archHalted
    <3> QED BY <1>3, <1>5, <1>10, <2>1, <2>2, <2>3, <3>1,
            SameFlags DEF A!Halt, A!Next
  <2>4. CASE ~isLegal(i) /\ ~isHalt(i)
    <3>1. archHalted' = archHalted
      BY <1>5, <2>4 DEF archHalted
    <3> QED BY <1>3, <1>5, <1>10, <2>1, <2>2, <2>4, <3>1,
            SameFlags DEF A!Illegal, A!Next
  <2> QED BY <1>12, <2>3, <2>4
<1> QED BY <1>11, <1>12

\* For every data path and every program without an illegal funct3 under
\* OP_BRANCH, the pipelined simulator executes the program's instructions one
\* by one, in order, on the values the functional simulator gives them.
THEOREM Refinement ==
  ASSUME \A p \in Programs, a \in Word : p[a].op # "ILLEGAL_BRANCH"
  PROVE  Spec => ImplementsIsa
<1>1. Init => A!Init
  <2> SUFFICES ASSUME Init PROVE A!Init
    OBVIOUS
  <2>1. archRegs = [r \in Reg |-> 0]
    BY DEF Init, archRegs, newRegs, simWB, nop, Fresh, NopWord, writesRd, readReg
  <2>2. archPC = 0 /\ archHalted = FALSE
    BY DEF Init, archPC, afterEX, afterID, archHalted, nop, Fresh, NopWord, isHalt
  <2> QED BY <2>1, <2>2, MachineTypes DEF Init, A!Init
<1>2. Init => NoIllegalBranch
  BY DEF Init, NoIllegalBranch
<1>3. NoIllegalBranch /\ [Next]_vars => NoIllegalBranch'
  BY DEF NoIllegalBranch, Next, LoadUseStall, BranchStall, Flush, Advance,
         BackEnd, vars
<1>4. IInv /\ NoIllegalBranch /\ [Next]_vars => [A!Next]_(A!vars)
  <2> SUFFICES ASSUME IInv, NoIllegalBranch, [Next]_vars
               PROVE  A!Next \/ UNCHANGED A!vars
    OBVIOUS
  <2>1. CASE Next
    BY <2>1, BubbleStutters, InstructionStep
  <2>2. CASE UNCHANGED vars
    BY <2>2 DEF vars, latches, A!vars, archRegs, newRegs, simWB, Result, readReg,
                archPC, afterEX, afterID, archHalted
  <2> QED BY <2>1, <2>2
<1> QED BY <1>1, <1>2, <1>3, <1>4, Invariance, PTL DEF Spec, ImplementsIsa, A!Spec
=============================================================================

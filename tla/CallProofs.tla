----------------------------- MODULE CallProofs -----------------------------
(***************************************************************************)
(* Proofs about PipeState.  A cycle of a call is a cycle of Pipeline, so   *)
(* the invariant of PipelineInv holds throughout; what a call leaves       *)
(* follows from its local count and the status of the last cycle.          *)
(***************************************************************************)
EXTENDS PipeState, PipelineProofs

\* A step of a call is a cycle of the pipeline or leaves it alone.
LEMMA CallStep == [CallNext]_callVars => [Next]_vars
BY DEF CallNext, Cycle, Return, runCycles, callVars, vars, latches

\* Splitting the cycles into calls hides nothing and forbids nothing.
THEOREM CallsImplement == CallSpec => Spec
<1>1. CallInit => Init
  BY DEF CallInit
<1> QED BY <1>1, CallStep, PTL DEF CallSpec, Spec

\* what a cycle does besides
LEMMA CycleFacts ==
  ASSUME TypeOK, Cycle
  PROVE  /\ BackEnd /\ goesOn
         /\ cycleCount \in Nat /\ cycleCount' = cycleCount + 1
         /\ memInst' = newMem /\ exInst' = newEX /\ wbInst' = memInst
         /\ call' = [call EXCEPT !.count = @ + 1]
BY DEF Cycle, Next, LoadUseStall, BranchStall, Flush, Advance, BackEnd, TypeOK

-----------------------------------------------------------------------------
\* the fields of a call
LEMMA CallFields ==
  ASSUME CallTypeOK
  PROVE  /\ call \in [on : BOOLEAN, cycles : Asked \cup {0}, count : Nat]
         /\ call.on \in BOOLEAN /\ call.count \in Nat /\ call.cycles \in Nat
         /\ call.cycles = 0 \/ call.count <= call.cycles
<1>1. /\ call \in [on : BOOLEAN, cycles : Asked \cup {0}, count : Nat]
      /\ call.cycles = 0 \/ call.count <= call.cycles
  BY DEF CallTypeOK
<1>2. call.on \in BOOLEAN /\ call.count \in Nat /\ call.cycles \in Asked \cup {0}
  BY <1>1
<1>3. Asked \cup {0} \subseteq Nat
  BY CallTypes
<1>4. call.cycles \in Nat
  BY <1>2, <1>3
<1> QED BY <1>1, <1>2, <1>4

\* A call keeps the types of what it counts, returns and dumps.
LEMMA CallTypeStep ==
  ASSUME TypeOK, TypeOK', CallTypeOK, [CallNext]_callVars
  PROVE  CallTypeOK'
<1> DEFINE Labels == \A s \in {ifStatus, idStatus, exStatus, memStatus, wbStatus} :
                       s \in StageStatus
           Calls  == /\ call \in [on : BOOLEAN, cycles : Asked \cup {0}, count : Nat]
                     /\ call.cycles = 0 \/ call.count <= call.cycles
                     /\ returned \in {"SUCCESS", "HALT"}
<1>1. Labels /\ Calls
  BY DEF CallTypeOK
<1>2. CASE Cycle
  <2>1. Labels'
    <3>1. \A l : statusOf(l) \in StageStatus
      BY DEF statusOf, StageStatus
    <3>2. /\ ifStatus' \in StageStatus /\ idStatus' \in StageStatus
          /\ exStatus' \in StageStatus /\ memStatus' \in StageStatus
          /\ wbStatus' \in StageStatus
      <4>1. "BUBBLE" \in StageStatus /\ "NORMAL" \in StageStatus
        BY DEF StageStatus
      <4> QED BY <1>1, <1>2, <3>1, <4>1 DEF Cycle, nextIdStatus
    <3> QED BY <3>2
  <2>2. Calls'
    <3>1. call' = [call EXCEPT !.count = @ + 1] /\ returned' = returned
          /\ (call.cycles = 0 \/ call.count < call.cycles)
      BY <1>2 DEF Cycle, goesOn
    <3>2. call.cycles \in Nat /\ call.count \in Nat
      BY CallFields
    <3> QED BY <1>1, <3>1, <3>2
  <2> QED BY <2>1, <2>2 DEF CallTypeOK
<1>3. CASE Return
  BY <1>1, <1>3 DEF Return, statuses, CallTypeOK, TypeOK
<1>4. ASSUME NEW n \in Asked, runCycles(n)
      PROVE  CallTypeOK'
  <2>1. Calls'
    BY <1>1, <1>4, CallTypes DEF runCycles
  <2> QED BY <1>1, <1>4, <2>1 DEF runCycles, statuses, CallTypeOK
<1>5. CASE UNCHANGED callVars
  BY <1>1, <1>5 DEF callVars, statuses, CallTypeOK
<1> QED BY <1>2, <1>3, <1>4, <1>5 DEF CallNext

\* No call runs more cycles than asked, and what it keeps is of its type
\* (cycle.cpp:63-75).
THEOREM CallTypeCorrect == CallSpec => []CallTypeOK
<1>1. TypeOK /\ CallInit => CallTypeOK
  BY CallTypes DEF CallInit, CallTypeOK, NotRunning, StageStatus
<1>2. TypeOK /\ TypeOK' /\ CallTypeOK /\ [CallNext]_callVars => CallTypeOK'
  BY CallTypeStep
<1> QED BY <1>1, <1>2, CallsImplement, TypeCorrect, PTL DEF CallSpec

-----------------------------------------------------------------------------
\* The label of a latch says what is in it.
Labelled(l, s) ==
  /\ ~l.fetched => s # "NORMAL"
  /\ l.fetched => \/ s = "NORMAL"
                  \/ s = "BUBBLE" /\ l.instruction.op \in {"NOP", "HALT"}

\* What exactly the code labels: a latch as Labelled has it, IF always normal
\* with an instruction, and idle only before the first cycle.
LabelInv ==
  /\ \A p \in { <<ifInst, ifStatus>>, <<idInst, idStatus>>,
                <<exInst, exStatus>>, <<memInst, memStatus>> } :
       /\ Labelled(p[1], p[2])
       /\ p[2] = "IDLE" => cycleCount = 0
  /\ ifInst.fetched => ifStatus = "NORMAL"

\* Nothing is in flight before the first cycle.
Begun == cycleCount = 0 => ~exInst.fetched

\* A label taken from the latch itself is right and never idle.
LEMMA StatusOfLabels ==
  ASSUME NEW l, ~l.fetched => l.instruction = NopWord
  PROVE  Labelled(l, statusOf(l)) /\ statusOf(l) # "IDLE"
BY DEF Labelled, statusOf, NopWord

\* An iteration labels each stage as what it comes to hold.
LEMMA StatusStep ==
  ASSUME IInv, IInv', Begun, LabelInv, [CallNext]_callVars
  PROVE  LabelInv' /\ Begun'
<1>1. /\ Labelled(ifInst, ifStatus) /\ Labelled(idInst, idStatus)
      /\ Labelled(exInst, exStatus) /\ Labelled(memInst, memStatus)
      /\ \A s \in {ifStatus, idStatus, exStatus, memStatus} : s = "IDLE" => cycleCount = 0
      /\ ifInst.fetched => ifStatus = "NORMAL"
  BY DEF LabelInv, Labelled
<1>2. CASE Cycle
  <2>1. cycleCount \in Nat /\ cycleCount' = cycleCount + 1 /\ cycleCount' # 0
        /\ memInst' = newMem /\ exInst' = newEX
    BY <1>2, CycleFacts DEF IInv
  <2>2. /\ ~nop.fetched /\ nop.instruction = NopWord
        /\ ~newMem.fetched => newMem.instruction = NopWord
        /\ ~newEX.fetched => newEX.instruction = NopWord
    BY <2>1 DEF IInv, Origin, inFlight, nop, Fresh
  <2>3. /\ memStatus' = statusOf(newMem)
        /\ exStatus' = IF stall THEN "BUBBLE" ELSE statusOf(newEX)
        /\ idStatus' = IF stall THEN idStatus
                       ELSE IF branchStall THEN "BUBBLE" ELSE statusOf(resolved)
        /\ ifStatus' = IF stall \/ branchStall THEN ifStatus
                       ELSE IF flush THEN "BUBBLE" ELSE "NORMAL"
    BY <1>2 DEF Cycle, nextIdStatus
  <2>4. Labelled(memInst', memStatus') /\ memStatus' # "IDLE"
    BY <2>1, <2>2, <2>3, StatusOfLabels
  <2>5. Labelled(exInst', exStatus') /\ exStatus' # "IDLE"
    <3>1. CASE stall
      <4>1. newEX = nop
        BY <3>1 DEF newEX
      <4> QED BY <2>1, <2>2, <2>3, <3>1, <4>1 DEF Labelled
    <3>2. CASE ~stall
      BY <2>1, <2>2, <2>3, <3>2, StatusOfLabels
    <3> QED BY <3>1, <3>2
  <2>6. /\ Labelled(idInst', idStatus') /\ idStatus' # "IDLE"
        /\ Labelled(ifInst', ifStatus') /\ ifStatus' # "IDLE"
        /\ ifInst'.fetched => ifStatus' = "NORMAL"
    <3>1. CASE LoadUseStall
      <4>1. stall /\ idInst' = idInst /\ ifInst' = ifInst
        BY <3>1 DEF LoadUseStall
      <4>2. cycleCount # 0
        BY <4>1, StallFacts DEF Begun
      <4> QED BY <1>1, <2>3, <4>1, <4>2
    <3>2. CASE BranchStall
      <4>1. branchStall /\ ~stall /\ idInst' = nop /\ ifInst' = ifInst
        BY <3>2 DEF BranchStall, branchStall
      <4>2. ifInst.fetched
        BY <4>1, BubbleFallsThrough
      <4> QED BY <1>1, <2>2, <2>3, <4>1, <4>2 DEF Labelled
    <3>3. CASE Flush \/ Advance
      <4>1. ~stall /\ ~branchStall /\ idInst' = resolved
        BY <3>3 DEF Flush, Advance
      <4>2. ~resolved.fetched => resolved.instruction = NopWord
        BY <4>1 DEF IInv, Origin, inFlight
      <4>3. Labelled(idInst', idStatus') /\ idStatus' # "IDLE"
        BY <2>3, <4>1, <4>2, StatusOfLabels
      <4>4. CASE Flush
        BY <2>2, <2>3, <4>1, <4>3, <4>4 DEF Flush, Labelled
      <4>5. CASE Advance
        <5>1. ~flush /\ ifInst'.fetched
          BY <4>5 DEF Advance, simIF, Fresh
        <5> QED BY <2>3, <4>1, <4>3, <5>1 DEF Labelled
      <4> QED BY <3>3, <4>4, <4>5
    <3> QED BY <1>2, <3>1, <3>2, <3>3 DEF Cycle, Next
  <2> QED BY <2>1, <2>4, <2>5, <2>6 DEF LabelInv, Labelled, Begun
<1>3. CASE \/ Return \/ UNCHANGED callVars
           \/ \E n \in Asked : runCycles(n)
  <2>1. UNCHANGED <<ifInst, idInst, exInst, memInst, cycleCount,
                    ifStatus, idStatus, exStatus, memStatus>>
    BY <1>3 DEF Return, runCycles, callVars, statuses, vars, latches
  <2> QED BY <2>1 DEF LabelInv, Begun
<1> QED BY <1>2, <1>3 DEF CallNext

\* Whatever is held, squashed or split into calls, a NOP the pipeline made is
\* never shown up to MEM as an instruction, nor an instruction of the program,
\* other than its halt word or nop, as such a NOP (cycle.cpp:107-274).
THEOREM NopsAreLabelled == CallSpec => []NopsLabelled
<1>1. CallInit => LabelInv /\ Begun
  BY DEF CallInit, Init, nop, Fresh, LabelInv, Labelled, Begun
<1>2. IInv /\ IInv' /\ Begun /\ LabelInv /\ [CallNext]_callVars
        => LabelInv' /\ Begun'
  BY StatusStep
<1>3. CallSpec => [](LabelInv /\ Begun)
  BY <1>1, <1>2, CallsImplement, Invariance, PTL DEF CallSpec
<1>4. LabelInv => NopsLabelled
  BY DEF LabelInv, Labelled, NopsLabelled
<1> QED BY <1>3, <1>4, PTL

-----------------------------------------------------------------------------
\* The call that is running has run count cycles since it began, and it began
\* with a program that had not halted.
CallRunning ==
  /\ from \in Nat
  /\ ~call.on => returned = status
  /\ call.on => cycleCount = from + call.count /\ (call.count = 0 => status # "HALT")

\* An iteration keeps count of the call it belongs to.
LEMMA KeptStep ==
  ASSUME IInv, IInv', CallTypeOK, CallRunning, CallKept, [CallNext]_callVars
  PROVE  CallRunning' /\ CallKept'
<1>1. /\ call.on \in BOOLEAN /\ call.count \in Nat /\ call.cycles \in Nat
      /\ call.cycles = 0 \/ call.count <= call.cycles
      /\ cycleCount \in Nat
      /\ call \in [on : BOOLEAN, cycles : Asked \cup {0}, count : Nat]
  BY CallFields DEF CallTypeOK, TypeOK
<1>2. CASE Cycle
  <2>1. /\ call.on /\ cycleCount' = cycleCount + 1 /\ from' = from
        /\ call' = [call EXCEPT !.count = @ + 1]
    BY <1>2, CycleFacts DEF IInv, goesOn, Cycle
  <2>2. call'.on = call.on /\ call'.count = call.count + 1
    BY <1>1, <2>1
  <2> QED BY <1>1, <2>1, <2>2 DEF CallRunning, CallKept
<1>3. CASE Return
  <2>1. /\ call.on /\ ~goesOn /\ returned' = status /\ status' = status
        /\ cycleCount' = cycleCount /\ from' = from
        /\ call' = [call EXCEPT !.on = FALSE]
        /\ dump'.cycle = cycleCount - 1
        /\ dump'.words[4] = wbInst.instruction
    BY <1>3 DEF Return, vars, lastCycle
  <2>2. ~call'.on /\ call'.cycles = call.cycles /\ call'.count = call.count
    BY <1>1, <2>1
  <2>3. status = "HALT" \/ (call.cycles # 0 /\ call.count = call.cycles)
    BY <1>1, <2>1 DEF goesOn
  <2>4. call.count # 0 /\ cycleCount = from + call.count /\ from \in Nat
    BY <1>1, <2>1, <2>3 DEF CallRunning
  <2>5. status = "HALT" => isHalt(wbInst.instruction)
    BY DEF IInv, HaltDrains
  <2>6. CallRunning'
    BY <2>1, <2>2, <2>4 DEF CallRunning
  <2>7. CallKept'
    BY <1>1, <2>1, <2>2, <2>3, <2>4, <2>5 DEF CallKept
  <2> QED BY <2>6, <2>7
<1>4. ASSUME NEW n \in Asked, runCycles(n)
      PROVE  CallRunning' /\ CallKept'
  <2>1. /\ ~call.on /\ returned # "HALT" /\ status' = status
        /\ call'.on /\ call'.count = 0 /\ from' = cycleCount
        /\ cycleCount' = cycleCount
    BY <1>4 DEF runCycles, vars
  <2> QED BY <1>1, <2>1 DEF CallRunning, CallKept
<1>5. CASE UNCHANGED callVars
  BY <1>5 DEF callVars, vars, CallRunning, CallKept
<1> QED BY <1>2, <1>3, <1>4, <1>5 DEF CallNext

\* A call ends after the cycles it was asked for, or earlier with HALT, having
\* dumped the last cycle it ran (cycle.cpp:66-75, 276-293).
THEOREM CallsKept == CallSpec => []CallKept
<1>1. CallInit => CallRunning /\ CallKept
  BY DEF CallInit, Init, NotRunning, CallRunning, CallKept
<1>2. IInv /\ IInv' /\ CallTypeOK /\ CallRunning /\ CallKept /\ [CallNext]_callVars
        => CallRunning' /\ CallKept'
  BY KeptStep
<1>3. CallSpec => [](CallRunning /\ CallKept)
  BY <1>1, <1>2, CallsImplement, CallTypeCorrect, Invariance, PTL DEF CallSpec
<1> QED BY <1>3, PTL
=============================================================================

------------------------------ MODULE PipeState ------------------------------
(***************************************************************************)
(* What a user of cycle.cpp sees of the pipeline: runCycles called with a  *)
(* number of cycles, the status kept for every stage, and the state dumped *)
(* at the end of each call.  A cycle is a step of Pipeline, whose own      *)
(* Cycles only bounds the model here: beyond it nothing moves.             *)
(***************************************************************************)
EXTENDS Pipeline

CONSTANT Asked   \* the numbers of cycles runCycles is called with

ASSUME CallTypes == Asked \subseteq Nat

VARIABLES
  ifStatus, idStatus, exStatus, memStatus, wbStatus,
  call,       \* the parameter and the local count of the call that is running
  from,       \* history: cycleCount when that call began
  returned,   \* what the latest call returned
  dump        \* what it passed to dumpPipeState

statuses == <<ifStatus, idStatus, exStatus, memStatus, wbStatus>>
callVars == <<vars, statuses, call, from, returned, dump>>

StageStatus == {"NORMAL", "BUBBLE", "IDLE"}   \* the ones cycle.cpp sets

NotRunning == [on |-> FALSE, cycles |-> 0, count |-> 0]

NoDump == [cycle |-> 0, ifPC |-> 0,
           words |-> <<NopWord, NopWord, NopWord, NopWord>>,
           statuses |-> <<"IDLE", "IDLE", "IDLE", "IDLE", "IDLE">>]

CallInit ==
  /\ Init
  /\ ifStatus = "IDLE" /\ idStatus = "IDLE" /\ exStatus = "IDLE"
  /\ memStatus = "IDLE" /\ wbStatus = "IDLE"
  /\ call = NotRunning
  /\ from = 0
  /\ returned = "SUCCESS"
  /\ dump = NoDump

\* the two drivers and runTillHalt do not call again after HALT
runCycles(n) ==
  /\ ~call.on /\ returned # "HALT"
  /\ call' = [on |-> TRUE, cycles |-> n, count |-> 0]
  /\ from' = cycleCount
  /\ UNCHANGED <<vars, statuses, returned, dump>>

\* mutant: the count tested after it has passed the parameter
goesOn_OneMore ==
  /\ call.on /\ status # "HALT"
  /\ call.cycles = 0 \/ call.count <= call.cycles

\* mutant: the count tested after it has been incremented
goesOn_OneLess ==
  /\ call.on /\ status # "HALT"
  /\ call.cycles = 0 \/ call.count + 1 < call.cycles

\* while (cycles == 0 || count < cycles), left by the break on HALT
goesOn ==
  /\ call.on /\ status # "HALT"
  /\ call.cycles = 0 \/ call.count < call.cycles

\* isNop || isHalt
statusOf(l) == IF l.instruction.op \in {"NOP", "HALT"} THEN "BUBBLE" ELSE "NORMAL"

\* mutant: a branch held in IF leaves ID its status
nextIdStatus_Held ==
  IF stall \/ branchStall THEN idStatus ELSE statusOf(resolved)

nextIdStatus ==
  IF stall THEN idStatus ELSE IF branchStall THEN "BUBBLE" ELSE statusOf(resolved)

Cycle ==
  /\ goesOn
  /\ Next
  /\ wbStatus' = "NORMAL"
  /\ memStatus' = statusOf(newMem)
  /\ exStatus' = IF stall THEN "BUBBLE" ELSE statusOf(newEX)
  /\ idStatus' = nextIdStatus
  /\ ifStatus' = IF stall \/ branchStall THEN ifStatus
                 ELSE IF flush THEN "BUBBLE" ELSE "NORMAL"
  /\ call' = [call EXCEPT !.count = @ + 1]
  /\ UNCHANGED <<from, returned, dump>>

\* mutant: the counter as it is at the end of the cycle
lastCycle_Counter == cycleCount

\* pipeState.cycle, taken before the increment
lastCycle == cycleCount - 1

Return ==
  /\ call.on /\ ~goesOn
  /\ dump' = [cycle |-> lastCycle, ifPC |-> ifInst.PC,
              words |-> << idInst.instruction, exInst.instruction,
                           memInst.instruction, wbInst.instruction >>,
              statuses |-> statuses]
  /\ returned' = status
  /\ call' = [call EXCEPT !.on = FALSE]
  /\ UNCHANGED <<vars, statuses, from>>

CallNext == Cycle \/ Return \/ \E n \in Asked : runCycles(n)

CallSpec == CallInit /\ [][CallNext]_callVars

\* The loop in runTillHalt calls runCycles as long as it does not return HALT,
\* and so would any caller that wants the program to finish.
LiveCalls == CallSpec /\ WF_callVars(CallNext)

-----------------------------------------------------------------------------
\* The call and what it leaves are of the types the code declares; no call
\* runs more cycles than asked.
CallTypeOK ==
  /\ TypeOK
  /\ \A s \in {ifStatus, idStatus, exStatus, memStatus, wbStatus} : s \in StageStatus
  /\ call \in [on : BOOLEAN, cycles : Asked \cup {0}, count : Nat]
  /\ call.cycles = 0 \/ call.count <= call.cycles
  /\ returned \in {"SUCCESS", "HALT"}

\* "NOPs are accompanied by a reason" (project2.txt:471-472), and instructions
\* are not: after any sequence of holds, squashes and calls, no bubble or
\* squashed instruction up to MEM is labelled as a normal one, and no
\* instruction of the program as a bubble or an idle stage.  Left out is where
\* the code does not do what is asked: which of the reasons a NOP has, WB,
\* the label of the halt word and of the program's own nop, and speculation.
NopsLabelled ==
  \A p \in { <<ifInst, ifStatus>>, <<idInst, idStatus>>,
             <<exInst, exStatus>>, <<memInst, memStatus>> } :
    IF p[1].fetched
      THEN p[1].instruction.op \notin {"NOP", "HALT"} => p[2] \notin {"BUBBLE", "IDLE"}
      ELSE p[2] # "NORMAL"

\* A call returns after the cycles it was asked for, or earlier with HALT,
\* having dumped the last cycle it ran (project2.txt:482-495): calls of any
\* sizes dump cycles in increasing order and none that did not take place.
CallKept ==
  dump # NoDump /\ ~call.on =>
    /\ dump.cycle = cycleCount - 1 /\ dump.cycle >= from
    /\ returned = "SUCCESS" => call.cycles # 0 /\ cycleCount = from + call.cycles
    /\ returned = "HALT" => /\ isHalt(dump.words[4])
                            /\ call.cycles # 0 => cycleCount <= from + call.cycles

\* runTillHalt returns (project2.txt:161-164, 496-498): a program that reaches
\* the halt word has it pass through WB, whatever holds the instructions before
\* it and however the cycles are split into calls.
Halts == <>(returned = "HALT")
=============================================================================

---------------------------- MODULE TimingProofs ----------------------------
(***************************************************************************)
(* Proofs about PipelineTiming.  Every TimedNext step is a step of         *)
(* Pipeline, so its theorems carry over; the accounting then follows from  *)
(* where each action moves the bubbles.                                    *)
(***************************************************************************)
EXTENDS PipelineTiming, PipelineProofs

\* A step that records the history is a cycle of the pipeline.
LEMMA TimedStep == [TimedNext]_timedVars => [Next]_vars
BY DEF TimedNext, Bubble, Next, timedVars, vars, latches

\* A timed run is a run of the pipeline, so what is proved of Pipeline holds of
\* it.  (That the history variables rule no run out is not stated here.)
THEOREM TimedImplements == TimedSpec => Spec
<1>1. TimedInit => Init
  BY DEF TimedInit
<1> QED BY <1>1, TimedStep, PTL DEF TimedSpec, Spec

\* The counters of the history are numbers.
HistoryOK == retired \in Nat /\ lost \in Nat

\* A cycle adds at most one to each counter of the history.
LEMMA HistoryStep ==
  ASSUME HistoryOK, [TimedNext]_timedVars
  PROVE  HistoryOK'
BY DEF HistoryOK, TimedNext, timedVars

\* Each latch takes its place in the next one, or a bubble does.
LEMMA BubblesMove ==
  ASSUME TypeOK, BackEnd
  PROVE  /\ empty(memInst)' = empty(exInst)
         /\ empty(exInst)' = (IF stall THEN 1 ELSE empty(idInst))
         /\ empty(resolved) = empty(ifInst)
         /\ empty(nop) = 1
         /\ cycleCount' = cycleCount + 1
<1>1. memInst' = newMem /\ exInst' = newEX /\ cycleCount' = cycleCount + 1
  BY DEF BackEnd
<1>2. nop.fetched = FALSE
  BY DEF nop, Fresh
<1> QED BY <1>1, <1>2, Passed DEF empty, Same

\* A cycle retires the instruction in MEM, if there is one, and loses the
\* cycle if it makes a bubble, never both or neither without a trace: the
\* account stays balanced.
LEMMA AccountStep ==
  ASSUME TypeOK, HistoryOK, CycleAccounting, TimedNext
  PROVE  CycleAccounting'
<1>1. BackEnd /\ retired' = retired + 1 - empty(memInst)
  BY DEF TimedNext, Bubble, LoadUseStall, BranchStall, Flush, Advance, HistoryOK, empty
<1>2. /\ empty(ifInst) \in 0..1 /\ empty(idInst) \in 0..1
      /\ empty(exInst) \in 0..1 /\ empty(memInst) \in 0..1
      /\ retired \in Nat /\ lost \in Nat /\ cycleCount \in Nat
  BY DEF empty, HistoryOK, TypeOK
<1>3. CASE LoadUseStall
  <2>1. empty(ifInst)' = empty(ifInst) /\ empty(idInst)' = empty(idInst)
    BY <1>3 DEF LoadUseStall, empty
  <2>2. empty(exInst)' = 1 /\ lost' = lost + 1
    BY <1>1, <1>3, BubblesMove DEF LoadUseStall, Advance, TimedNext
  <2> QED BY <1>1, <1>2, <2>1, <2>2, BubblesMove DEF CycleAccounting
<1>4. CASE BranchStall
  <2>1. empty(ifInst)' = empty(ifInst) /\ empty(idInst)' = 1
    BY <1>1, <1>4, BubblesMove DEF BranchStall, empty
  <2>2. empty(exInst)' = empty(idInst) /\ lost' = lost + 1
    BY <1>1, <1>4, BubblesMove DEF BranchStall, branchStall, Advance, TimedNext
  <2> QED BY <1>1, <1>2, <2>1, <2>2, BubblesMove DEF CycleAccounting
<1>5. CASE Flush
  <2>1. empty(ifInst)' = 1 /\ empty(idInst)' = empty(ifInst)
    BY <1>1, <1>5, BubblesMove DEF Flush, empty
  <2>2. empty(exInst)' = empty(idInst) /\ lost' = lost + 1
    BY <1>1, <1>5, BubblesMove DEF Flush, Advance, TimedNext
  <2> QED BY <1>1, <1>2, <2>1, <2>2, BubblesMove DEF CycleAccounting
<1>6. CASE Advance
  <2>1. empty(ifInst)' = 0 /\ empty(idInst)' = empty(ifInst)
    BY <1>1, <1>6, BubblesMove DEF Advance, empty, simIF, Fresh
  <2>2. empty(exInst)' = empty(idInst) /\ lost' = lost
    BY <1>1, <1>6, BubblesMove
       DEF Advance, Bubble, LoadUseStall, BranchStall, Flush, TimedNext
  <2> QED BY <1>1, <1>2, <2>1, <2>2, BubblesMove DEF CycleAccounting
<1> QED BY <1>3, <1>4, <1>5, <1>6 DEF TimedNext, Bubble

\* On every run cycleCount is four, less the latches still empty, plus the
\* instructions completed and the cycles in which a bubble was made: no cycle
\* of cycle.cpp is lost twice, and no instruction is dropped or doubled
\* between IF and WB.
THEOREM CyclesAccounted == TimedSpec => []CycleAccounting
<1>1. TimedInit => HistoryOK /\ CycleAccounting
  BY DEF TimedInit, Init, HistoryOK, CycleAccounting, empty, nop, Fresh
<1>2. TypeOK /\ HistoryOK /\ CycleAccounting /\ [TimedNext]_timedVars
        => HistoryOK' /\ CycleAccounting'
  <2>1. TypeOK /\ HistoryOK /\ CycleAccounting /\ TimedNext
          => HistoryOK' /\ CycleAccounting'
    BY AccountStep, HistoryStep
  <2>2. HistoryOK /\ CycleAccounting /\ UNCHANGED timedVars
          => HistoryOK' /\ CycleAccounting'
    BY DEF timedVars, vars, latches, HistoryOK, CycleAccounting, empty
  <2> QED BY <2>1, <2>2
<1> QED BY <1>1, <1>2, TimedImplements, TypeCorrect, PTL DEF TimedSpec

-----------------------------------------------------------------------------
(***************************************************************************)
(* OnTime.  What waits, in ID or behind a bubble, waits for its latest     *)
(* constraint and not a cycle longer: that is kept from cycle to cycle.    *)
(***************************************************************************)

\* the code's own condition: i names the register q sets, used or not
waitsOn(i, q) ==
  /\ writesRd(q.instruction)
  /\ q.instruction.rd \in {i.rs1, i.rs2} \ {0}

\* the cycle an instruction may follow q, and the one its result is there for i
after(q) == q.at + (IF q.redirects THEN 2 ELSE 1)
ready(i, q) == q.at + latency(i, q)

\* x is the cycle that instruction i is due in, given the issues p and q.
Meets(p, q, i, x) ==
  /\ after(q) <= x
  /\ waitsOn(i, p) => ready(i, p) <= x
  /\ waitsOn(i, q) => ready(i, q) <= x
  /\ \/ after(q) = x
     \/ waitsOn(i, p) /\ ready(i, p) = x
     \/ waitsOn(i, q) /\ ready(i, q) = x

\* The last issue is in EX, or it is old enough to bind nobody.
LastIssue ==
  /\ issued \in Issue \X Issue
  /\ exInst.fetched => /\ issued[2].instruction = exInst.instruction
                       /\ issued[2].at = cycleCount - 1
  /\ ~exInst.fetched => \/ issued[2].at <= cycleCount - 2
                        \/ ~writesRd(issued[2].instruction)

\* IF is empty behind an instruction that redirects the fetch, and at the
\* start, and only then.
FetchGap ==
  /\ ifInst.fetched /\ idInst.fetched => idInst.nextPC = Plus4(idInst.PC)
  /\ ~ifInst.fetched =>
       \/ idInst.fetched /\ idInst.nextPC # Plus4(idInst.PC)
       \/ cycleCount = 0 /\ ~idInst.fetched /\ ~exInst.fetched
            /\ issued = <<NoIssue(0), NoIssue(1)>>

\* The instruction in ID enters EX now, or after the load-use stall.
DueInID ==
  idInst.fetched =>
    Meets(issued[1], issued[2], idInst.instruction,
          cycleCount + (IF stall THEN 1 ELSE 0))

\* The one in IF, if a bubble goes before it, a cycle later, or after the one
\* cycle a branch still waits.
DueInIF ==
  ifInst.fetched /\ ~idInst.fetched =>
    Meets(issued[1], issued[2], ifInst.instruction,
          cycleCount + 1 + (IF branchStall THEN 1 ELSE 0))

TInv == LastIssue /\ FetchGap /\ DueInID /\ DueInIF

\* Latencies are from one to three cycles.
LEMMA Latencies ==
  ASSUME NEW i, NEW q \in Issue
  PROVE  /\ after(q) = q.at + (IF q.redirects THEN 2 ELSE 1)
         /\ after(q) \in Nat
         /\ ready(i, q) = q.at + (IF readsMem(q.instruction) THEN 2 ELSE 1)
                               + (IF controlOpcode(i) THEN 1 ELSE 0)
         /\ ready(i, q) \in Nat
<1>1. q.at \in Nat
  BY DEF Issue
<1> QED BY <1>1 DEF after, ready, latency

\* The code waits for what an instruction depends on, and for what it only
\* names.
LEMMA NamedOrUsed ==
  ASSUME NEW i, NEW q
  PROVE  waitsOn(i, q) <=> dependsOn(i, q) \/ onlyNames(i, q)
BY DEF waitsOn, dependsOn, onlyNames, hasResult, usesBeforeMEM

\* What Meets says is what the latest of the constraints is.
LEMMA MeetsLatest ==
  ASSUME issued \in Issue \X Issue, NEW i, NEW x \in Nat,
         Meets(issued[1], issued[2], i, x)
  PROVE  x = latest(documented(i) \cup undocumented(i))
<1> DEFINE S == documented(i) \cup undocumented(i)
<1>1. /\ after(issued[2]) \in Nat
      /\ ready(i, issued[1]) \in Nat /\ ready(i, issued[2]) \in Nat
  BY Latencies
<1>2. S = {after(issued[2])} \cup { ready(i, r) : r \in
                          { q \in {issued[1], issued[2]} : waitsOn(i, q) } }
  BY NamedOrUsed DEF documented, undocumented, after, ready
<1>3. S \subseteq Nat /\ x \in S
  BY <1>1, <1>2 DEF Meets
<1>4. \A d \in S : d <= x
  BY <1>2 DEF Meets
<1>5. \A c \in S : (\A d \in S : d <= c) => c = x
  BY <1>3, <1>4
<1> HIDE DEF S
<1>6. latest(S) = x
  BY <1>3, <1>4, <1>5 DEF latest
<1> QED BY <1>6 DEF S

\* What one cycle does to the instructions the rules are about.
LEMMA TimedFacts ==
  ASSUME IInv, TInv, TimedNext
  PROVE  /\ cycleCount \in Nat /\ cycleCount' = cycleCount + 1
         /\ exInst' = newEX
         /\ newEX.fetched <=> ~stall /\ idInst.fetched
         /\ newEX.fetched => /\ newEX.instruction = idInst.instruction
                             /\ newEX.PC = idInst.PC /\ newEX.nextPC = idInst.nextPC
         /\ ~newEX.fetched => issued' = issued
         /\ newEX.fetched =>
              issued' = << issued[2],
                           [instruction |-> idInst.instruction,
                            redirects |-> idInst.nextPC # Plus4(idInst.PC),
                            at |-> cycleCount] >>
         /\ resolved.fetched = ifInst.fetched
         /\ resolved.instruction = ifInst.instruction /\ resolved.PC = ifInst.PC
         /\ stall => exInst.fetched /\ idInst.fetched /\ loadUse
<1>1. TypeOK /\ BackEnd
  BY DEF IInv, TimedNext, Bubble, LoadUseStall, BranchStall, Flush, Advance
<1>2. cycleCount \in Nat /\ cycleCount' = cycleCount + 1 /\ exInst' = newEX
  BY <1>1 DEF BackEnd, TypeOK
<1>3. stall => newEX.fetched = FALSE
  BY <1>1, Passed DEF nop, Fresh
<1>4. ~stall => Same(newEX, idInst) /\ newEX.nextPC = idInst.nextPC
  BY <1>1, Passed
<1>5. Same(resolved, ifInst)
  BY <1>1, Passed
<1>6. issued' = IF newEX.fetched
                  THEN << issued[2],
                          [instruction |-> newEX.instruction,
                           redirects |-> newEX.nextPC # Plus4(newEX.PC),
                           at |-> cycleCount] >>
                  ELSE issued
  BY DEF TimedNext
<1>7. stall => exInst.fetched /\ loadUse
  BY StallFacts
<1>8. stall => idInst.fetched
  <2> SUFFICES ASSUME stall, ~idInst.fetched PROVE FALSE
    OBVIOUS
  <2>1. idInst.instruction = NopWord
    BY DEF IInv, Origin, inFlight
  <2> QED BY <1>7, <2>1 DEF loadUse, names, NopWord
<1> QED BY <1>2, <1>3, <1>4, <1>5, <1>6, <1>7, <1>8 DEF Same

\* The stall conditions in the terms of the rules.
LEMMA StallIs ==
  IInv => /\ stall <=> readsMem(exInst.instruction) /\ waitsOn(idInst.instruction, exInst)
          /\ stall => exInst.fetched /\ idInst.fetched /\ ~controlOpcode(idInst.instruction)
<1> SUFFICES ASSUME IInv
             PROVE /\ stall <=> readsMem(exInst.instruction)
                                  /\ waitsOn(idInst.instruction, exInst)
                   /\ stall => exInst.fetched /\ idInst.fetched
                                /\ ~controlOpcode(idInst.instruction)
  OBVIOUS
<1>1. loadUse <=> readsMem(exInst.instruction) /\ waitsOn(idInst.instruction, exInst)
  BY DEF loadUse, names, waitsOn, readsMem, writesRd
<1>2. loadUse => idInst.fetched
  <2> SUFFICES ASSUME loadUse, ~idInst.fetched PROVE FALSE
    OBVIOUS
  <2>1. idInst.instruction = NopWord
    BY DEF IInv, Origin, inFlight
  <2> QED BY <2>1 DEF loadUse, names, NopWord
<1> QED BY <1>1, <1>2, StallFacts DEF stall

\* With a bubble in ID, a branch waits exactly for a load in EX that it needs.
LEMMA BranchStallIs ==
  IInv /\ ~idInst.fetched =>
    (branchStall <=> /\ controlOpcode(ifInst.instruction)
                     /\ readsMem(exInst.instruction)
                     /\ waitsOn(ifInst.instruction, exInst))
<1> SUFFICES ASSUME IInv, ~idInst.fetched
             PROVE branchStall <=> /\ controlOpcode(ifInst.instruction)
                                   /\ readsMem(exInst.instruction)
                                   /\ waitsOn(ifInst.instruction, exInst)
  OBVIOUS
<1>1. ~stall
  BY StallIs
<1>2. newEX.instruction = NopWord /\ newMem.instruction = exInst.instruction
  BY <1>1, Passed DEF IInv, Origin, inFlight, Same
<1>3. ~waitsFor(newEX)
  BY <1>2 DEF waitsFor, hazard, writesRd, NopWord
<1>4. waitsFor(newMem) <=> waitsOn(ifInst.instruction, exInst)
  BY <1>2 DEF waitsFor, hazard, waitsOn
<1> QED BY <1>1, <1>2, <1>3, <1>4 DEF branchStall

\* An issue recorded is one.
LEMMA IssueType ==
  ASSUME NEW i \in Insts, NEW r \in BOOLEAN, NEW n \in Nat
  PROVE  [instruction |-> i, redirects |-> r, at |-> n] \in Issue
BY DEF Issue

\* A cycle keeps track of the last issue.
LEMMA LastIssueStep ==
  ASSUME IInv, TInv, TimedNext
  PROVE  LastIssue'
<1>1. issued' \in Issue \X Issue
  <2>1. idInst.instruction \in Insts /\ cycleCount \in Nat
    BY DEF IInv, TypeOK, Latch
  <2> DEFINE r == idInst.nextPC # Plus4(idInst.PC)
             q == [instruction |-> idInst.instruction, redirects |-> r, at |-> cycleCount]
  <2>2. q \in Issue
    <3>1. r \in BOOLEAN
      OBVIOUS
    <3> HIDE DEF r
    <3> QED BY <2>1, <3>1, IssueType
  <2>3. issued' = issued \/ issued' = <<issued[2], q>>
    BY TimedFacts
  <2> HIDE DEF q
  <2> QED BY <2>2, <2>3 DEF TInv, LastIssue
<1>2. CASE newEX.fetched
  BY <1>1, <1>2, TimedFacts DEF LastIssue
<1>3. CASE ~newEX.fetched
  <2>1. issued' = issued /\ ~exInst'.fetched /\ cycleCount \in Nat
        /\ cycleCount' = cycleCount + 1
    BY <1>3, TimedFacts
  <2>2. issued[2].at \in Nat
    BY DEF TInv, LastIssue, Issue
  <2> QED BY <1>1, <2>1, <2>2 DEF TInv, LastIssue
<1> QED BY <1>2, <1>3

\* A cycle leaves IF empty only behind a redirect.
LEMMA FetchGapStep ==
  ASSUME IInv, TInv, TimedNext
  PROVE  FetchGap'
<1>1. ~nop.fetched
  BY DEF nop, Fresh
<1>2. /\ cycleCount' # 0
      /\ resolved.fetched = ifInst.fetched /\ resolved.PC = ifInst.PC
  BY TimedFacts
<1>3. CASE LoadUseStall
  <2>1. idInst.fetched
    BY <1>3, TimedFacts DEF LoadUseStall
  <2> QED BY <1>3, <2>1 DEF LoadUseStall, TInv, FetchGap
<1>4. CASE BranchStall
  <2>1. ifInst.fetched
    BY <1>4, BubbleFallsThrough DEF BranchStall
  <2> QED BY <1>1, <1>4, <2>1 DEF BranchStall, FetchGap
<1>5. CASE Flush
  <2>1. ifInst.fetched
    BY <1>5, BubbleFallsThrough DEF Flush
  <2> QED BY <1>1, <1>2, <1>5, <2>1 DEF Flush, flush, FetchGap
<1>6. CASE Advance
  BY <1>2, <1>6 DEF Advance, flush, FetchGap, simIF, Fresh
<1> QED BY <1>3, <1>4, <1>5, <1>6 DEF TimedNext, Bubble

\* An instruction that leaves IF right behind another is due in the next
\* cycle, or the one after if it needs a load that went before it.
LEMMA DueBehind ==
  ASSUME IInv, TInv, NEW i \in Insts, NEW q \in Issue,
         q.at = cycleCount,
         controlOpcode(i) => /\ ~waitsOn(i, q)
                             /\ ~(readsMem(exInst.instruction) /\ waitsOn(i, exInst)),
         ~q.redirects
  PROVE  Meets(issued[2], q, i,
               cycleCount + 1
                 + (IF readsMem(q.instruction) /\ waitsOn(i, q) THEN 1 ELSE 0))
<1> DEFINE p == issued[2]
           x == cycleCount + 1
                  + (IF readsMem(q.instruction) /\ waitsOn(i, q) THEN 1 ELSE 0)
<1>1. p \in Issue /\ p.at \in Nat /\ cycleCount \in Nat
  BY DEF TInv, LastIssue, Issue, IInv, TypeOK
<1>2. waitsOn(i, p) => ready(i, p) <= cycleCount + 1
  <2>1. ready(i, p) = p.at + (IF readsMem(p.instruction) THEN 2 ELSE 1)
                           + (IF controlOpcode(i) THEN 1 ELSE 0)
    BY <1>1, Latencies
  <2>2. CASE exInst.fetched
    <3>1. p.at = cycleCount - 1 /\ p.instruction = exInst.instruction
      BY <2>2 DEF TInv, LastIssue
    <3>2. waitsOn(i, p) <=> waitsOn(i, exInst)
      BY <3>1 DEF waitsOn
    <3> QED BY <1>1, <2>1, <3>1, <3>2
  <2>3. CASE ~exInst.fetched
    <3>1. p.at <= cycleCount - 2 \/ ~writesRd(p.instruction)
      BY <2>3 DEF TInv, LastIssue
    <3> HIDE DEF p
    <3> QED BY <1>1, <2>1, <3>1 DEF waitsOn
  <2> QED BY <2>2, <2>3
<1>3. after(q) = cycleCount + 1
  BY <1>1, Latencies
<1>4. waitsOn(i, q) => ready(i, q) = x
  BY <1>1, Latencies
<1>5. x \in Nat /\ x >= cycleCount + 1 /\ ready(i, p) \in Nat
      /\ (~waitsOn(i, q) => x = cycleCount + 1)
      /\ (x = cycleCount + 1 \/ waitsOn(i, q))
  BY <1>1, Latencies
<1> HIDE DEF p, x
<1>6. Meets(p, q, i, x)
  BY <1>1, <1>2, <1>3, <1>4, <1>5 DEF Meets
<1> QED BY <1>6 DEF p, x

\* What Meets says of the cycle after this one, with nothing new in EX.
LEMMA MeetsKept ==
  ASSUME NEW i, NEW x, issued' = issued
  PROVE  Meets(issued'[1], issued'[2], i, x) = Meets(issued[1], issued[2], i, x)
OBVIOUS

\* What comes to wait in ID enters EX in the cycle it is due.
LEMMA DueInIDStep ==
  ASSUME IInv, IInv', TInv, TimedNext
  PROVE  DueInID'
<1> SUFFICES ASSUME idInst'.fetched
             PROVE  Meets(issued'[1], issued'[2], idInst'.instruction,
                          cycleCount' + (IF stall' THEN 1 ELSE 0))
  BY DEF DueInID
<1>1. /\ stall' <=> readsMem(exInst'.instruction)
                    /\ waitsOn(idInst'.instruction, exInst')
      /\ stall' => exInst'.fetched
  <2>1. (IInv => /\ stall <=> readsMem(exInst.instruction)
                              /\ waitsOn(idInst.instruction, exInst)
                 /\ stall => exInst.fetched)'
    BY StallIs, PTL
  <2> QED BY <2>1 DEF waitsOn
<1>2. cycleCount \in Nat /\ cycleCount' = cycleCount + 1 /\ exInst' = newEX
  BY TimedFacts
<1>3. CASE LoadUseStall
  <2>1. stall /\ idInst' = idInst /\ ~newEX.fetched /\ issued' = issued
    BY <1>3, TimedFacts DEF LoadUseStall
  <2>2. Meets(issued[1], issued[2], idInst.instruction, cycleCount + 1)
    BY <1>2, <2>1 DEF TInv, DueInID
  <2>3. ~stall'
    BY <1>1, <1>2, <2>1
  <2> QED BY <1>2, <2>1, <2>2, <2>3
<1>4. CASE BranchStall
  BY <1>4 DEF BranchStall, nop, Fresh
<1>5. CASE Flush \/ Advance
  <2> DEFINE i == ifInst.instruction
  <2>1. /\ ~stall /\ ~branchStall /\ idInst' = resolved
        /\ ifInst.fetched /\ idInst'.instruction = i
    BY <1>5, TimedFacts DEF Flush, Advance
  <2>2. i \in Insts
    BY DEF IInv, TypeOK, Latch
  <2>3. CASE idInst.fetched
    <3> DEFINE q == [instruction |-> idInst.instruction,
                     redirects |-> idInst.nextPC # Plus4(idInst.PC),
                     at |-> cycleCount]
    <3>1. newEX.fetched /\ newEX.instruction = idInst.instruction
          /\ issued' = <<issued[2], q>>
      BY <2>1, <2>3, TimedFacts
    <3>2. ~q.redirects /\ q.at = cycleCount /\ q.instruction = newEX.instruction
      BY <2>1, <2>3, <3>1 DEF TInv, FetchGap
    <3>3. q \in Issue
      <4>1. LastIssue'
        BY LastIssueStep
      <4> QED BY <3>1, <4>1 DEF LastIssue
    <3> HIDE DEF q
    <3>4. controlOpcode(i) => /\ ~waitsOn(i, q)
                              /\ ~(readsMem(exInst.instruction) /\ waitsOn(i, exInst))
      <4>1. newMem.instruction = exInst.instruction
        BY Passed DEF IInv, Same
      <4> QED BY <2>1, <3>2, <4>1 DEF branchStall, waitsFor, hazard, waitsOn
    <3>5. Meets(issued[2], q, i,
                cycleCount + 1
                  + (IF readsMem(q.instruction) /\ waitsOn(i, q) THEN 1 ELSE 0))
      BY <2>2, <3>2, <3>3, <3>4, DueBehind
    <3>6. stall' <=> readsMem(q.instruction) /\ waitsOn(i, q)
      BY <1>1, <1>2, <2>1, <3>2 DEF waitsOn
    <3>7. issued'[1] = issued[2] /\ issued'[2] = q
      BY <3>1
    <3> HIDE DEF i
    <3> QED BY <1>2, <2>1, <3>5, <3>6, <3>7
  <2>4. CASE ~idInst.fetched
    <3>1. issued' = issued /\ ~newEX.fetched
      BY <2>4, TimedFacts
    <3>2. Meets(issued[1], issued[2], i, cycleCount + 1)
      BY <1>2, <2>1, <2>4 DEF TInv, DueInIF
    <3>3. ~stall'
      BY <1>1, <1>2, <3>1
    <3> QED BY <1>2, <2>1, <3>1, <3>2, <3>3
  <2> QED BY <2>3, <2>4
<1> QED BY <1>3, <1>4, <1>5 DEF TimedNext, Bubble

\* An instruction in IF with q just gone into EX and a bubble following it:
\* the fetch was redirected, or it is a branch that waited this cycle.
LEMMA DueApart ==
  ASSUME IInv, TInv, NEW i \in Insts, NEW q \in Issue,
         q.at = cycleCount, issued[2].at <= cycleCount - 1,
         \/ q.redirects
         \/ /\ controlOpcode(i)
            /\ \/ waitsOn(i, q)
               \/ readsMem(exInst.instruction) /\ waitsOn(i, exInst) /\ exInst.fetched
  PROVE  Meets(issued[2], q, i,
               cycleCount + 2
                 + (IF /\ controlOpcode(i)
                       /\ readsMem(q.instruction) /\ waitsOn(i, q) THEN 1 ELSE 0))
<1> DEFINE p == issued[2]
           x == cycleCount + 2
                  + (IF /\ controlOpcode(i)
                        /\ readsMem(q.instruction) /\ waitsOn(i, q) THEN 1 ELSE 0)
<1>1. p \in Issue /\ p.at \in Nat /\ cycleCount \in Nat
  BY DEF TInv, LastIssue, Issue, IInv, TypeOK
<1>2. /\ after(q) \in Nat /\ after(q) <= cycleCount + 2
      /\ q.redirects => after(q) = cycleCount + 2
  BY <1>1, Latencies
<1>3. /\ ready(i, q) \in Nat /\ (waitsOn(i, q) => ready(i, q) <= x)
      /\ waitsOn(i, q) /\ controlOpcode(i) => ready(i, q) = x
  BY <1>1, Latencies
<1>4. ready(i, p) \in Nat /\ ready(i, p) <= cycleCount + 2
  BY <1>1, Latencies
<1>5. readsMem(exInst.instruction) /\ waitsOn(i, exInst) /\ exInst.fetched
        /\ controlOpcode(i) => waitsOn(i, p) /\ ready(i, p) = cycleCount + 2
  <2> SUFFICES ASSUME readsMem(exInst.instruction), waitsOn(i, exInst),
                      exInst.fetched, controlOpcode(i)
               PROVE  waitsOn(i, p) /\ ready(i, p) = cycleCount + 2
    OBVIOUS
  <2>1. p.at = cycleCount - 1 /\ p.instruction = exInst.instruction
    BY DEF TInv, LastIssue
  <2>2. waitsOn(i, p)
    BY <2>1 DEF waitsOn
  <2>3. ready(i, p) = p.at + 2 + 1
    BY <1>1, <2>1, Latencies
  <2> QED BY <1>1, <2>1, <2>2, <2>3
<1>6. x \in Nat /\ x >= cycleCount + 2
      /\ (~(waitsOn(i, q) /\ controlOpcode(i)) => x = cycleCount + 2)
  <2>1. x = cycleCount + 2 \/ x = cycleCount + 3
    BY <1>1
  <2>2. ~(waitsOn(i, q) /\ controlOpcode(i)) => x = cycleCount + 2
    BY <1>1
  <2> HIDE DEF x
  <2> QED BY <1>1, <2>1, <2>2
<1> HIDE DEF p, x
<1>7. Meets(p, q, i, x)
  <2>1. after(q) <= x /\ ready(i, p) <= x
    BY <1>1, <1>2, <1>4, <1>6
  <2>2. CASE waitsOn(i, q) /\ controlOpcode(i)
    BY <1>3, <2>1, <2>2 DEF Meets
  <2>3. CASE ~(waitsOn(i, q) /\ controlOpcode(i))
    <3>1. x = cycleCount + 2
      BY <1>6, <2>3
    <3>2. after(q) = x \/ (waitsOn(i, p) /\ ready(i, p) = x)
      BY <1>2, <1>5, <2>3, <3>1
    <3> QED BY <1>3, <2>1, <3>2 DEF Meets
  <2> QED BY <2>2, <2>3
<1> QED BY <1>7 DEF p, x

\* What comes to wait in IF, with no instruction before it, does too.
LEMMA DueInIFStep ==
  ASSUME IInv, IInv', TInv, TimedNext
  PROVE  DueInIF'
<1> SUFFICES ASSUME ifInst'.fetched, ~idInst'.fetched
             PROVE  Meets(issued'[1], issued'[2], ifInst'.instruction,
                          cycleCount' + 1 + (IF branchStall' THEN 1 ELSE 0))
  BY DEF DueInIF
<1> DEFINE i == ifInst'.instruction
<1>1. branchStall' <=> /\ controlOpcode(i)
                       /\ readsMem(exInst'.instruction) /\ waitsOn(i, exInst')
  <2>1. (IInv /\ ~idInst.fetched =>
          (branchStall <=> /\ controlOpcode(ifInst.instruction)
                           /\ readsMem(exInst.instruction)
                           /\ waitsOn(ifInst.instruction, exInst)))'
    BY BranchStallIs, PTL
  <2> QED BY <2>1 DEF waitsOn
<1>2. ~exInst'.fetched => ~branchStall'
  BY <1>1 DEF IInv, Origin, inFlight, readsMem, NopWord
<1>3. cycleCount \in Nat /\ cycleCount' = cycleCount + 1 /\ exInst' = newEX
  BY TimedFacts
<1>4. i \in Insts
  BY DEF IInv, TypeOK, Latch
<1>5. ASSUME idInst.fetched, ~stall,
             \/ idInst.nextPC # Plus4(idInst.PC)
             \/ BranchStall
      PROVE  Meets(issued'[1], issued'[2], i,
                   cycleCount' + 1 + (IF branchStall' THEN 1 ELSE 0))
  <2> DEFINE q == [instruction |-> idInst.instruction,
                   redirects |-> idInst.nextPC # Plus4(idInst.PC),
                   at |-> cycleCount]
  <2>1. newEX.fetched /\ newEX.instruction = idInst.instruction
        /\ issued' = <<issued[2], q>>
    BY <1>5, TimedFacts
  <2>2. /\ q.redirects <=> idInst.nextPC # Plus4(idInst.PC)
        /\ q.at = cycleCount /\ q.instruction = newEX.instruction
    BY <2>1
  <2>3. q \in Issue
    <3>1. LastIssue'
      BY LastIssueStep
    <3> QED BY <2>1, <3>1 DEF LastIssue
  <2> HIDE DEF q
  <2>4. issued[2].at <= cycleCount - 1
    <3>1. Meets(issued[1], issued[2], idInst.instruction, cycleCount)
      BY <1>3, <1>5 DEF TInv, DueInID
    <3>2. issued[2] \in Issue /\ issued[2].at \in Nat
      BY DEF TInv, LastIssue, Issue
    <3>3. after(issued[2]) <= cycleCount /\ after(issued[2]) >= issued[2].at + 1
      BY <3>1, <3>2, Latencies DEF Meets
    <3> QED BY <1>3, <3>2, <3>3, Latencies
  <2>5. BranchStall =>
          /\ controlOpcode(i)
          /\ \/ waitsOn(i, q)
             \/ readsMem(exInst.instruction) /\ waitsOn(i, exInst) /\ exInst.fetched
    <3> SUFFICES ASSUME BranchStall
                 PROVE  /\ controlOpcode(i)
                        /\ \/ waitsOn(i, q)
                           \/ /\ readsMem(exInst.instruction) /\ waitsOn(i, exInst)
                              /\ exInst.fetched
      OBVIOUS
    <3>1. branchStall /\ i = ifInst.instruction
      BY DEF BranchStall
    <3>2. newMem.instruction = exInst.instruction
      BY Passed DEF IInv, Same
    <3>3. readsMem(exInst.instruction) => exInst.fetched
      BY DEF IInv, Origin, inFlight, readsMem, NopWord
    <3> QED BY <2>2, <3>1, <3>2, <3>3 DEF branchStall, waitsFor, hazard, waitsOn
  <2>6. Meets(issued[2], q, i,
              cycleCount + 2
                + (IF /\ controlOpcode(i)
                      /\ readsMem(q.instruction) /\ waitsOn(i, q) THEN 1 ELSE 0))
    BY <1>4, <1>5, <2>2, <2>3, <2>4, <2>5, DueApart
  <2>7. branchStall' <=> controlOpcode(i) /\ readsMem(q.instruction) /\ waitsOn(i, q)
    BY <1>1, <1>3, <2>2 DEF waitsOn
  <2>8. issued'[1] = issued[2] /\ issued'[2] = q
    BY <2>1
  <2> HIDE DEF i
  <2> QED BY <1>3, <2>6, <2>7, <2>8
<1>6. CASE LoadUseStall
  BY <1>6, TimedFacts DEF LoadUseStall
<1>7. CASE BranchStall
  <2>1. branchStall /\ ~stall /\ ifInst' = ifInst
    BY <1>7 DEF BranchStall, branchStall
  <2>2. CASE idInst.fetched
    BY <1>5, <1>7, <2>1, <2>2
  <2>3. CASE ~idInst.fetched
    <3>1. issued' = issued /\ ~newEX.fetched
      BY <2>3, TimedFacts
    <3>2. Meets(issued[1], issued[2], i, cycleCount + 1 + 1)
      BY <2>1, <2>3 DEF TInv, DueInIF
    <3>3. ~branchStall'
      BY <1>2, <1>3, <3>1
    <3> QED BY <1>3, <3>1, <3>2, <3>3
  <2> QED BY <2>2, <2>3
<1>8. CASE Flush
  BY <1>8 DEF Flush, nop, Fresh
<1>9. CASE Advance
  <2>1. ~stall /\ ~ifInst.fetched
    BY <1>9, TimedFacts DEF Advance
  <2>2. CASE idInst.fetched /\ idInst.nextPC # Plus4(idInst.PC)
    BY <1>5, <2>1, <2>2
  <2>3. CASE /\ cycleCount = 0 /\ ~idInst.fetched
             /\ issued = <<NoIssue(0), NoIssue(1)>>
    <3>1. issued' = issued /\ ~newEX.fetched
      BY <2>3, TimedFacts
    <3>2. ~branchStall'
      BY <1>2, <1>3, <3>1
    <3>3. ~waitsOn(i, NoIssue(0)) /\ ~waitsOn(i, NoIssue(1))
      BY DEF waitsOn, NoIssue, writesRd, NopWord
    <3>4. after(NoIssue(1)) = 2
      BY DEF after, NoIssue
    <3>5. Meets(issued'[1], issued'[2], i, 2)
      BY <2>3, <3>1, <3>3, <3>4 DEF Meets
    <3> QED BY <1>3, <2>3, <3>2, <3>5
  <2> QED BY <2>1, <2>2, <2>3 DEF TInv, FetchGap
<1> QED BY <1>6, <1>7, <1>8, <1>9 DEF TimedNext, Bubble

\* On every program an instruction enters EX no earlier than the documented
\* rules let it, and later only where it names, without using it before MEM, a
\* register that one of the last two sets, by what using it would cost
\* (cycle.cpp:77-103, 190-275).
THEOREM IssuesOnTime == TimedSpec => []OnTime
<1>1. TimedInit => TInv
  <2> SUFFICES ASSUME TimedInit PROVE TInv
    OBVIOUS
  <2>1. ~ifInst.fetched /\ ~idInst.fetched /\ ~exInst.fetched /\ cycleCount = 0
        /\ issued = <<NoIssue(0), NoIssue(1)>>
    BY DEF TimedInit, Init, nop, Fresh
  <2>2. NoIssue(0) \in Issue /\ NoIssue(1) \in Issue /\ ~writesRd(NoIssue(1).instruction)
    BY MachineTypes DEF NoIssue, Issue, writesRd, NopWord
  <2> QED BY <2>1, <2>2 DEF TInv, LastIssue, FetchGap, DueInID, DueInIF
<1>2. IInv /\ IInv' /\ TInv /\ [TimedNext]_timedVars => TInv'
  <2>1. ASSUME IInv, IInv', TInv, TimedNext PROVE TInv'
    BY <2>1, LastIssueStep, FetchGapStep, DueInIDStep, DueInIFStep DEF TInv
  <2>2. ASSUME IInv, IInv', TInv, UNCHANGED timedVars PROVE TInv'
    <3>1. UNCHANGED <<ifInst, idInst, exInst, cycleCount, issued>>
      BY <2>2 DEF timedVars, vars, latches
    <3>2. (IInv => (stall <=> /\ readsMem(exInst.instruction)
                              /\ waitsOn(idInst.instruction, exInst)))'
      BY StallIs, PTL
    <3>3. stall' <=> stall
      BY <2>2, <3>1, <3>2, StallIs
    <3>4. (IInv /\ ~idInst.fetched =>
            (branchStall <=> /\ controlOpcode(ifInst.instruction)
                             /\ readsMem(exInst.instruction)
                             /\ waitsOn(ifInst.instruction, exInst)))'
      BY BranchStallIs, PTL
    <3>5. ~idInst.fetched => (branchStall' <=> branchStall)
      BY <2>2, <3>1, <3>4, BranchStallIs
    <3>6. LastIssue' /\ FetchGap'
      BY <2>2, <3>1 DEF TInv, LastIssue, FetchGap
    <3>7. DueInID'
      BY <2>2, <3>1, <3>3 DEF TInv, DueInID
    <3>8. DueInIF'
      BY <2>2, <3>1, <3>5 DEF TInv, DueInIF
    <3> QED BY <3>6, <3>7, <3>8 DEF TInv
  <2> QED BY <2>1, <2>2
<1>3. IInv /\ TInv => OnTime
  <2> SUFFICES ASSUME IInv, TInv, newEX.fetched
               PROVE  cycleCount = latest(documented(newEX.instruction)
                                            \cup undocumented(newEX.instruction))
    BY DEF OnTime
  <2>1. ~stall /\ idInst.fetched /\ newEX.instruction = idInst.instruction
    <3>1. ~nop.fetched
      BY DEF nop, Fresh
    <3>2. ~stall
      BY <3>1, Passed DEF IInv
    <3> QED BY <3>2, Passed DEF IInv, Same
  <2>2. cycleCount \in Nat
    BY DEF IInv, TypeOK
  <2>3. Meets(issued[1], issued[2], newEX.instruction, cycleCount)
    BY <2>1, <2>2 DEF TInv, DueInID
  <2>4. issued \in Issue \X Issue
    BY DEF TInv, LastIssue
  <2> QED BY <2>2, <2>3, <2>4, MeetsLatest
<1> QED BY <1>1, <1>2, <1>3, TimedImplements, Invariance, PTL DEF TimedSpec
=============================================================================

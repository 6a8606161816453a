--------------------------- MODULE PipelineTiming ---------------------------
(***************************************************************************)
(* When the pipeline of cycle.cpp does things, told in terms of            *)
(* instructions and not of latches, next to the rules of project2.txt.     *)
(* Three history variables record what the code does not keep: how many    *)
(* instructions have taken effect, how many cycles went into a bubble, and *)
(* the last two instructions that entered EX with the cycle they did.      *)
(***************************************************************************)
EXTENDS Pipeline

VARIABLES
  retired,    \* instructions that have completed WB
  lost,       \* cycles in which a stall or a squash put a bubble in a latch
  issued      \* the last two instructions to enter EX, the older one first

timedVars == <<vars, retired, lost, issued>>

Issue == [instruction : Insts, redirects : BOOLEAN, at : Nat]

\* before the first instruction: two that depend on nothing, the younger in
\* the cycle before the first instruction could enter EX
NoIssue(n) == [instruction |-> NopWord, redirects |-> FALSE, at |-> n]

TimedInit ==
  /\ Init
  /\ retired = 0
  /\ lost = 0
  /\ issued = <<NoIssue(0), NoIssue(1)>>

Bubble == LoadUseStall \/ BranchStall \/ Flush

TimedNext ==
  /\ \/ Bubble /\ lost' = lost + 1
     \/ Advance /\ UNCHANGED lost
  /\ retired' = retired + IF memInst.fetched THEN 1 ELSE 0
  /\ issued' = IF newEX.fetched
                 THEN << issued[2],
                         [instruction |-> newEX.instruction,
                          redirects |-> newEX.nextPC # Plus4(newEX.PC),
                          at |-> cycleCount] >>
                 ELSE issued

TimedSpec == TimedInit /\ [][TimedNext]_timedVars

-----------------------------------------------------------------------------
(***************************************************************************)
(* The cycles instruction i may not enter EX before, given an issue p, as  *)
(* project2.txt:48-131 has it: one after its predecessor, one more if that *)
(* one redirects the fetch; two after a load it uses; and, when it is a    *)
(* branch, two after any instruction whose result it uses and three after  *)
(* a load.  A store has its data forwarded in MEM and does not wait for it.*)
(***************************************************************************)
\* i uses register r before it is in MEM
usesBeforeMEM(i, r) ==
  \/ readsRs1(i) /\ i.rs1 = r
  \/ readsRs2(i) /\ i.rs2 = r /\ ~writesMem(i)

hasResult(p) == writesRd(p.instruction) /\ p.instruction.rd # 0

dependsOn(i, p) == hasResult(p) /\ usesBeforeMEM(i, p.instruction.rd)

latency(i, p) ==
  (IF readsMem(p.instruction) THEN 2 ELSE 1)
    + (IF controlOpcode(i) THEN 1 ELSE 0)

documented(i) ==
  { issued[2].at + (IF issued[2].redirects THEN 2 ELSE 1) }
    \cup { p.at + latency(i, p) : p \in { q \in {issued[1], issued[2]} : dependsOn(i, q) } }

(***************************************************************************)
(* The cycles the code has it wait for besides: cycle.cpp:86 and 193-196   *)
(* compare the fields rs1 and rs2 of every word.  The field may be part of *)
(* an immediate (or of the halt word, or of an illegal one), or name the   *)
(* data of a store.                                                        *)
(***************************************************************************)
onlyNames(i, p) ==
  /\ hasResult(p)
  /\ p.instruction.rd \in {i.rs1, i.rs2}
  /\ ~usesBeforeMEM(i, p.instruction.rd)

undocumented(i) ==
  { p.at + latency(i, p) : p \in { q \in {issued[1], issued[2]} : onlyNames(i, q) } }

latest(S) == CHOOSE c \in S : \A d \in S : d <= c

\* No instruction enters EX before the documented rules let it: one cycle for
\* a load-use dependence, one for arithmetic-branch, two for load-branch, one
\* for a taken branch or a jump, overlapping where the bubbles of one cover
\* another.  It enters in the very cycle they give, unless it only names a
\* register that one of the last two instructions sets; then it waits as if it
\* used it and never longer.
OnTime ==
  canRun /\ newEX.fetched =>
    cycleCount = latest(documented(newEX.instruction) \cup undocumented(newEX.instruction))

empty(l) == IF l.fetched THEN 0 ELSE 1

\* The cycle count decomposes: past the four cycles that fill the pipeline,
\* each cycle completes an instruction or is one that a bubble was made in.
CycleAccounting ==
  cycleCount + empty(ifInst) + empty(idInst) + empty(exInst) + empty(memInst)
    = retired + lost + 4

\* "One-cycle load-use stall" (project2.txt:82-86), and from a load to the data
\* input of a store none (48-61): ID waits for a load in EX only with an
\* instruction that uses what is loaded before it is in MEM.
StallsForUse ==
  stall => usesBeforeMEM(idInst.instruction, exInst.instruction.rd)

\* "the number of dynamic instructions executed" (project2.txt:344-345): what
\* getDin() returns at the halt should be the instructions that completed.
DinCountsInstructions == status = "HALT" => din = retired
=============================================================================

---------------------------- MODULE DatapathLaws ----------------------------
(***************************************************************************)
(* What the pipeline relies on beyond the types: simArithLogic and         *)
(* simNextPCResolution ignore an operand the instruction does not read     *)
(* (the bypasses fill it in from whatever the unused field names), only    *)
(* branches and jumps leave the straight line, and no binary has its halt  *)
(* word where the next address wraps to 0 (the memory has 64 KB).          *)
(***************************************************************************)
EXTENDS Machine

ignoresUnused(i) ==
  \A pc, a, b \in Word :
    /\ ~readsRs1(i) =>
         /\ doesArithLogic(i) => ArithLogic(i, pc, a, b) = ArithLogic(i, pc, 0, b)
         /\ NextPC(i, pc, a, b) = NextPC(i, pc, 0, b)
    /\ ~readsRs2(i) =>
         /\ doesArithLogic(i) => ArithLogic(i, pc, a, b) = ArithLogic(i, pc, a, 0)
         /\ NextPC(i, pc, a, b) = NextPC(i, pc, a, 0)

goesStraight(i) ==
  i.op \notin {"BRANCH", "JALR", "JAL"} =>
    \A pc, a, b \in Word : NextPC(i, pc, a, b) = Plus4(pc)

ASSUME UnusedOperands == \A i \in Insts : ignoresUnused(i)
ASSUME StraightLine == \A i \in Insts : goesStraight(i)
ASSUME HaltBelowTop ==
  \A p \in Programs, a \in Word : isHalt(p[a]) => Plus4(a) # 0
=============================================================================

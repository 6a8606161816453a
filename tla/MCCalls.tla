------------------------------- MODULE MCCalls -------------------------------
(***************************************************************************)
(* PipeState on those programs of Binaries that halt: the functional steps *)
(* of Machine, run on the program alone, say which.                        *)
(***************************************************************************)
EXTENDS PipeState, PipelineInv, Binaries, SequencesExt

CONSTANT MaxSteps   \* the halting programs take at most this many instructions

stops(p, s) == isHalt(p[s.pc]) \/ ~isLegal(p[s.pc])

\* the next instruction, until the program stops
step(p, s) ==
  LET l == simMEM(simEX(simID(simIF(p, s.pc), s.regs)), s.mem)
  IN  IF stops(p, s)
        THEN s
        ELSE [regs |-> simWB(l, s.regs), mem |-> simMEMStore(l, s.mem),
              pc |-> l.nextPC]

reached(p, m) ==
  FoldLeft(LAMBDA s, k : step(p, s),
           [regs |-> [r \in Reg |-> 0], mem |-> m, pc |-> 0],
           [k \in 1 .. MaxSteps |-> k])

\* one word of a kind for arithmetic and stores: nothing that writes register
\* 0 or is illegal, which pipe_core has
CallAlphabet ==
  { i \in Alphabet : /\ isLegal(i) /\ i.fn # "SUB"
                     /\ writesMem(i) => i.fn = "H"
                     /\ i.op = "INTIMM" => i.rd = 1 }

\* the programs whose last word is the halt word, whether or not
\* they reach it there
MCClosedPrograms ==
  { Load([s EXCEPT ![Length] = HaltWord]) : s \in [1 .. Length -> CallAlphabet] }

MCHaltingPrograms ==
  { p \in MCClosedPrograms :
      \E m \in MCInitMems : isHalt(p[reached(p, m).pc]) }

\* runTillHalt's single cycles, a number that ends within a stall or at the
\* halt or beyond it, and 0, to run until the halt
MCAsked == {0, 1, 3}
=============================================================================

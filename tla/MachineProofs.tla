---------------------------- MODULE MachineProofs ----------------------------
(***************************************************************************)
(* Lemmas about the stage functions of Machine, which the proofs about     *)
(* both simulators use: they return latches, memories and register files,  *)
(* whatever the data path, and a write-back shows in one register.         *)
(***************************************************************************)
EXTENDS Machine, TLAPS

-----------------------------------------------------------------------------
(* The stage functions keep to their types. *)

\* nop() and simIF make well-formed structs, a bubble and a fetched word.
LEMMA FreshType ==
  ASSUME NEW f \in BOOLEAN, NEW pc \in Word, NEW i \in Insts
  PROVE  Fresh(f, pc, i) \in Latch
BY MachineTypes DEF Fresh, Latch

\* Fetching from a loaded program gives a well-formed struct.
LEMMA IFType ==
  ASSUME NEW p \in [Word -> Insts], NEW pc \in Word
  PROVE  simIF(p, pc) \in Latch
BY FreshType DEF simIF

\* A latch's word has register fields.
LEMMA InstFields ==
  ASSUME NEW i \in Insts
  PROVE  i.rd \in Reg /\ i.rs1 \in Reg /\ i.rs2 \in Reg
BY MachineTypes DEF InstWord

\* Reading a register, x0 included, gives a word.
LEMMA ReadType ==
  ASSUME NEW rf \in RegFile, NEW r \in Reg
  PROVE  readReg(rf, r) \in Word
BY MachineTypes DEF RegFile, readReg

\* Resolving the next PC keeps a struct well formed.
LEMMA NextPCType ==
  ASSUME NEW l \in Latch
  PROVE  simNextPCResolution(l) \in Latch
BY DatapathTypes DEF Latch, simNextPCResolution, wellTyped

\* Collecting the operands keeps a struct well formed.
LEMMA OperandsType ==
  ASSUME NEW l \in Latch, NEW rf \in RegFile
  PROVE  simOperandCollection(l, rf) \in Latch
<1>1. l.instruction \in Insts
  BY DEF Latch
<1>2. /\ readReg(rf, l.instruction.rs1) \in Word
      /\ readReg(rf, l.instruction.rs2) \in Word
  BY <1>1, InstFields, ReadType
<1> QED BY <1>2 DEF simOperandCollection, Latch

\* Decoding keeps a struct well formed, on every path out of simID.
LEMMA IDType ==
  ASSUME NEW l \in Latch, NEW rf \in RegFile
  PROVE  simID(l, rf) \in Latch
BY OperandsType, NextPCType DEF simID

\* The EX stage keeps a struct well formed.
LEMMA EXType ==
  ASSUME NEW l \in Latch
  PROVE  simEX(l) \in Latch
BY DatapathTypes DEF Latch, simEX, wellTyped

\* The MEM stage keeps a struct well formed.
LEMMA MEMType ==
  ASSUME NEW l \in Latch, NEW m \in Mems
  PROVE  simMEM(l, m) \in Latch /\ simMEMStore(l, m) \in Mems
BY DatapathTypes DEF Latch, simMEM, simMEMStore, wellTyped

\* What an instruction leaves for its register is a word.
LEMMA ResultType ==
  ASSUME NEW l \in Latch
  PROVE  Result(l) \in Word
BY DEF Latch, Result

\* Writing back keeps the register file well formed.
LEMMA WBType ==
  ASSUME NEW l \in Latch, NEW rf \in RegFile
  PROVE  simWB(l, rf) \in RegFile
BY ResultType, InstFields DEF Latch, RegFile, simWB

-----------------------------------------------------------------------------
(* What a write-back changes. *)

\* A register shows the result of the instruction written back, if that is its
\* destination, and what it did before if not; x0 shows 0 in either case.
LEMMA CommitView ==
  ASSUME NEW l \in Latch, NEW rf \in RegFile, NEW r \in Reg
  PROVE  readReg(simWB(l, rf), r) =
           IF writesRd(l.instruction) /\ l.instruction.rd # 0 /\ l.instruction.rd = r
             THEN Result(l) ELSE readReg(rf, r)
<1>1. l.instruction \in Insts /\ l.instruction.rd \in Reg
  BY InstFields DEF Latch
<1> QED BY <1>1 DEF simWB, readReg, RegFile
=============================================================================

------------------------------ MODULE PositPE ------------------------------
(***************************************************************************)
(* The processing element: class Posit of POSIT.scala, a pipeline of three *)
(* registers (init, exec, result) around the arithmetic cores.  One step   *)
(* of PEClock is one rising edge of the clock.                             *)
(*                                                                         *)
(* A stage holds an operation or None; None stands for a stage whose valid *)
(* bit is 0, whatever its data registers still hold.  The cores are known  *)
(* by what they compute, Apply, and by the clocks they take from the pulse *)
(* on their valid input to the pulse on their valid output, Latency.       *)
(***************************************************************************)
EXTENDS Integers

CONSTANTS
  NumFPGAEntries,   \* Parameter.scala: entries of the reorder buffer
  NumOperand,       \* Parameter.scala: operands of a request
  Values,           \* what an operand or a result can hold
  Insts,            \* the instructions that are issued
  Apply(_, _),      \* the result of an instruction on its operands
  Latency,          \* the latencies a core can have, for each instruction
  None              \* an empty stage, no request, no response

Entries == 0 .. NumFPGAEntries - 1
Operands == 0 .. NumOperand - 1
Arguments == [Operands -> Values]

ASSUME EntriesAssumption == NumFPGAEntries \in Nat \ {0}
ASSUME OperandAssumption == NumOperand \in Nat \ {0}
ASSUME ApplyAssumption ==
  \A inst \in Insts, args \in Arguments : Apply(inst, args) \in Values
ASSUME LatencyAssumption ==
  Latency \in [Insts -> (SUBSET Nat) \ {{}}]

\* PositRequest with the index that travels beside it, and PositResult.
Operation == [idx : Entries, inst : Insts, args : Arguments]
Outcome == [idx : Entries, out : Values]

ASSUME NoneAssumption == None \notin Operation \cup Outcome

VARIABLES
  peInit,        \* init_valid, init_inst, init_num1..3, init_idx
  peExec,        \* exec_valid, exec_inst, exec_num1..3, exec_idx
  peDispatched,  \* the core has been given the operation in exec
  peCore,        \* clocks until the core raises its valid output, 0 if idle
  peResult       \* result_valid, result_out, result_idx

peVars == <<peInit, peExec, peDispatched, peCore, peResult>>

PETypeOK ==
  /\ peInit \in Operation \cup {None}
  /\ peExec \in Operation \cup {None}
  /\ peDispatched \in BOOLEAN
  /\ peCore \in Nat
  /\ peResult \in Outcome \cup {None}

PEInit ==
  /\ peInit = None
  /\ peExec = None
  /\ peDispatched = FALSE
  /\ peCore = 0
  /\ peResult = None

\* io.request.ready
PERequestReady_Always == TRUE
PERequestReady == peInit = None

\* The operation in init moves to exec on this clock.
LoadsExec == peResult = None /\ peExec = None /\ peInit # None

\* The valid input of the core is high on this clock.
CoreStarts == peExec # None /\ ~peDispatched

\* new_result_valid, when the core that starts on this clock has latency l:
\* mul and cmp answer in the clock in which they start, the others later.
NewResultValid(l) == (CoreStarts /\ l = 0) \/ peCore = 1

ResultOf(op) == [idx |-> op.idx, out |-> Apply(op.inst, op.args)]

\* The latencies to choose from: that of the core that starts, if one does.
CoreLatencies == IF CoreStarts THEN Latency[peExec.inst] ELSE {0}

NextInit(request) ==
  IF request # None /\ PERequestReady THEN request
  ELSE IF LoadsExec THEN None
  ELSE peInit

NextExec_NoClear(l) == IF LoadsExec THEN peInit ELSE peExec
NextExec(l) ==
  IF LoadsExec THEN peInit
  ELSE IF NewResultValid(l) THEN None
  ELSE peExec

NextDispatched_Unset(l) == FALSE
NextDispatched_Stuck(l) == peDispatched \/ peExec # None
NextDispatched(l) ==
  IF NewResultValid(l) THEN FALSE ELSE peDispatched \/ peExec # None

NextCore_Underflow(l) == IF CoreStarts THEN l ELSE peCore - 1
NextCore(l) ==
  IF CoreStarts THEN l
  ELSE IF peCore > 0 THEN peCore - 1 ELSE 0

\* The result register is written only while io.result.ready is high.
NextResult(resultReady, l) ==
  IF resultReady
  THEN IF NewResultValid(l) THEN ResultOf(peExec) ELSE None
  ELSE peResult

\* One clock of the element: request is the operation offered to it or None,
\* resultReady is io.result.ready.
PEClock(request, resultReady) ==
  \E l \in CoreLatencies :
    /\ peInit' = NextInit(request)
    /\ peExec' = NextExec(l)
    /\ peDispatched' = NextDispatched(l)
    /\ peCore' = NextCore(l)
    /\ peResult' = NextResult(resultReady, l)
=============================================================================

--------------------------- MODULE PositPE_proofs ---------------------------
(***************************************************************************)
(* What one clock of the processing element preserves, for every input.    *)
(* The modules that put the element into an environment cite these lemmas. *)
(***************************************************************************)
EXTENDS PositPE, TLAPS

\* The stages of the element are consistent with one another: exec and result
\* are never both full, and a core counts only for an operation in exec.
PEInv ==
  /\ PETypeOK
  /\ peResult = None \/ peExec = None
  /\ peExec = None => ~peDispatched
  /\ CoreStarts => peCore = 0
  /\ peCore > 0 => peExec # None /\ peDispatched

LEMMA PEInvInit == PEInit => PEInv
<1> SUFFICES ASSUME PEInit PROVE PEInv
  OBVIOUS
<1>1. PETypeOK
  BY DEF PEInit, PETypeOK
<1>2. ~CoreStarts /\ ~(peCore > 0) /\ peResult = None /\ ~peDispatched
  BY DEF PEInit, CoreStarts
<1> QED
  BY <1>1, <1>2 DEF PEInv

\* The latency drawn on a clock is a number of clocks.
LEMMA CoreLatencyIsNat ==
  ASSUME PETypeOK, NEW l \in CoreLatencies
  PROVE  l \in Nat
<1>1. CASE CoreStarts
  <2>1. peExec.inst \in Insts
    BY <1>1 DEF PETypeOK, CoreStarts, Operation
  <2>2. Latency[peExec.inst] \subseteq Nat
    BY <2>1, LatencyAssumption
  <2> QED
    BY <1>1, <2>2 DEF CoreLatencies
<1>2. CASE ~CoreStarts
  BY <1>2 DEF CoreLatencies
<1> QED
  BY <1>1, <1>2

\* The result of an operation is an outcome under the same index.
LEMMA ResultOfType ==
  ASSUME NEW op \in Operation
  PROVE  ResultOf(op) \in Outcome
  BY ApplyAssumption DEF ResultOf, Operation, Outcome

\* A new result belongs to an operation in exec.
LEMMA NewResultHasOperation ==
  ASSUME PEInv, NEW l, NewResultValid(l)
  PROVE  peExec \in Operation /\ peExec # None
  BY DEF PEInv, PETypeOK, NewResultValid, CoreStarts

LEMMA PEInvStep ==
  ASSUME PEInv, NEW request \in Operation \cup {None},
         NEW resultReady \in BOOLEAN, PEClock(request, resultReady)
  PROVE  PEInv'
<1>1. PICK l \in CoreLatencies :
        /\ peInit' = NextInit(request)
        /\ peExec' = NextExec(l)
        /\ peDispatched' = NextDispatched(l)
        /\ peCore' = NextCore(l)
        /\ peResult' = NextResult(resultReady, l)
  BY DEF PEClock
<1>2. l \in Nat
  BY CoreLatencyIsNat DEF PEInv
<1>3. PETypeOK'
  <2>1. peInit' \in Operation \cup {None}
    BY <1>1 DEF NextInit, PEInv, PETypeOK
  <2>2. peExec' \in Operation \cup {None}
    BY <1>1 DEF NextExec, PEInv, PETypeOK
  <2>3. peDispatched' \in BOOLEAN
    BY <1>1 DEF NextDispatched, PEInv, PETypeOK
  <2>4. peCore' \in Nat
    BY <1>1, <1>2 DEF NextCore, PEInv, PETypeOK
  <2>5. peResult' \in Outcome \cup {None}
    BY <1>1, NewResultHasOperation, ResultOfType DEF NextResult, PEInv, PETypeOK
  <2> QED
    BY <2>1, <2>2, <2>3, <2>4, <2>5 DEF PETypeOK
<1>4. (peResult = None \/ peExec = None)'
  BY <1>1 DEF PEInv, NextResult, NextExec, LoadsExec, NewResultValid, CoreStarts
<1>5. (peExec = None => ~peDispatched)'
  BY <1>1 DEF PEInv, NextDispatched, NextExec, LoadsExec, NewResultValid, CoreStarts
<1>6. (CoreStarts => peCore = 0)'
  <2> SUFFICES ASSUME peExec' # None, ~peDispatched' PROVE peCore' = 0
    BY DEF CoreStarts
  <2>1. ~NewResultValid(l)
    BY <1>1 DEF PEInv, NextExec, LoadsExec, NewResultValid, CoreStarts
  <2>2. peExec = None
    BY <1>1, <2>1 DEF NextDispatched
  <2>3. ~CoreStarts /\ ~(peCore > 0)
    BY <2>2 DEF PEInv, CoreStarts
  <2> QED
    BY <1>1, <2>3 DEF NextCore
<1>7. (peCore > 0 => peExec # None /\ peDispatched)'
  <2> SUFFICES ASSUME peCore' > 0 PROVE peExec' # None /\ peDispatched'
    OBVIOUS
  <2>1. peCore \in Nat
    BY DEF PEInv, PETypeOK
  <2>2. CASE CoreStarts
    <3>1. peCore' = l /\ peCore = 0
      BY <1>1, <2>2 DEF NextCore, PEInv
    <3>2. ~NewResultValid(l) /\ peExec # None
      BY <3>1, <2>2 DEF NewResultValid, CoreStarts
    <3> QED
      BY <1>1, <3>2 DEF NextExec, NextDispatched, LoadsExec
  <2>3. CASE ~CoreStarts
    <3>1. peCore > 1
      <4>1. peCore' = (IF peCore > 0 THEN peCore - 1 ELSE 0)
        BY <1>1, <2>3 DEF NextCore
      <4> QED
        BY <4>1, <2>1
    <3>2. ~NewResultValid(l) /\ peExec # None
      BY <3>1, <2>1, <2>3 DEF NewResultValid, PEInv
    <3> QED
      BY <1>1, <3>2 DEF NextExec, NextDispatched, LoadsExec
  <2> QED
    BY <2>2, <2>3
<1> QED
  BY <1>3, <1>4, <1>5, <1>6, <1>7 DEF PEInv
=============================================================================

------------------------ MODULE PositPECheck_proofs ------------------------
(***************************************************************************)
(* The processing element in its environment: its invariants hold with or  *)
(* without back-pressure, and without it the element is a queue.           *)
(***************************************************************************)
EXTENDS PositPECheck, PositPE_proofs, SequenceTheorems

\* A step of the environment is a clock with a legal request and ready level.
LEMMA NextIsClock ==
  ASSUME Next
  PROVE  \E request \in Operation \cup {None}, ready \in ReadyLevels :
           /\ request = None \/ PERequestReady
           /\ Clock(request, ready)
  BY DEF Next, Offer, NoOffer

LEMMA InvStep ==
  ASSUME PEInv, [Next]_vars
  PROVE  PEInv'
<1>1. CASE Next
  <2>1. PICK request \in Operation \cup {None}, ready \in ReadyLevels :
          Clock(request, ready)
    BY <1>1, NextIsClock
  <2>2. ready \in BOOLEAN
    BY DEF ReadyLevels
  <2> QED
    BY <2>1, <2>2, PEInvStep DEF Clock
<1>2. CASE UNCHANGED vars
  BY <1>2 DEF vars, peVars, PEInv, PETypeOK, CoreStarts
<1> QED
  BY <1>1, <1>2

\* PEInv holds in every reachable state.
THEOREM Invariant == Spec => []PEInv
<1>1. Init => PEInv
  BY PEInvInit DEF Init
<1> QED
  BY <1>1, InvStep, PTL DEF Spec

\* The registers of the element keep their types.
THEOREM TypeCorrect == Spec => []PETypeOK
<1>1. PEInv => PETypeOK
  BY DEF PEInv
<1> QED
  BY <1>1, Invariant, PTL

\* A new result never finds the result register full (POSIT.scala L110-122).
THEOREM ResultRegisterIsFree == Spec => []ResultRegisterFree
<1>1. PEInv => ResultRegisterFree
  BY DEF PEInv, ResultRegisterFree
<1> QED
  BY <1>1, Invariant, PTL

\* A core is started once for each operation (POSIT.scala L124-128).
THEOREM CoreIsStartedOnce == Spec => []CoreStartsOnce
<1>1. PEInv => CoreStartsOnce
  BY DEF PEInv, CoreStartsOnce
<1> QED
  BY <1>1, Invariant, PTL

-----------------------------------------------------------------------------
(* Without back-pressure the element is a queue.                           *)

\* The operations in the stages are outcomes to come.
LEMMA HeldType ==
  ASSUME PETypeOK
  PROVE  /\ Stage(peResult) \in Seq(Outcome)
         /\ Pending(peExec) \in Seq(Outcome)
         /\ Pending(peInit) \in Seq(Outcome)
  BY ResultOfType DEF PETypeOK, Stage, Pending

LEMMA FifoStep ==
  ASSUME Backpressure = FALSE, PEInv, Next
  PROVE  Fifo!FifoNext
<1>1. PICK request \in Operation \cup {None}, ready \in ReadyLevels :
        /\ request = None \/ PERequestReady
        /\ Clock(request, ready)
  BY NextIsClock
<1>2. ready = TRUE
  BY DEF ReadyLevels
<1>3. PICK l \in CoreLatencies :
        /\ peInit' = NextInit(request)
        /\ peExec' = NextExec(l)
        /\ peResult' = NextResult(TRUE, l)
  BY <1>1, <1>2 DEF Clock, PEClock
<1>4. delivered' = peResult
  BY <1>1, <1>2 DEF Clock
<1> DEFINE enters == Pending(request)
           I == Pending(peInit)
           E == Pending(peExec)
<1>5. /\ enters \in {<<>>} \cup {<<r>> : r \in Outcome}
      /\ enters \in Seq(Outcome) /\ I \in Seq(Outcome) /\ E \in Seq(Outcome)
  BY ResultOfType, HeldType DEF Pending, PEInv
<1>6. LoadsExec => enters = <<>> /\ Pending(peInit') = <<>> /\ peExec' = peInit
  BY <1>1, <1>3 DEF LoadsExec, PERequestReady, NextInit, NextExec, Pending
<1>7. ~LoadsExec => Pending(peInit') = I \o enters
  <2>1. CASE request = None
    <3>1. ~LoadsExec => peInit' = peInit
      BY <1>3, <2>1 DEF NextInit
    <3>2. enters = <<>>
      BY <2>1 DEF Pending
    <3> QED
      BY <3>1, <3>2, <1>5, ConcatEmptySeq
  <2>2. CASE request # None
    <3>1. I = <<>> /\ peInit' = request
      BY <1>1, <1>3, <2>2 DEF Pending, PERequestReady, NextInit
    <3> QED
      BY <3>1, <1>5, ConcatEmptySeq
  <2> QED
    BY <2>1, <2>2
<1> HIDE DEF enters, I, E
<1>8. CASE peResult # None
  <2>1. ~LoadsExec /\ E = <<>> /\ peExec = None
    BY <1>8 DEF LoadsExec, PEInv, E, Pending
  <2>2. ~NewResultValid(l)
    BY <2>1 DEF PEInv, NewResultValid, CoreStarts
  <2>3. peExec' = None /\ peResult' = None
    BY <1>3, <2>1, <2>2 DEF NextExec, NextResult
  <2>4. Held' = I \o enters
    <3>1. Held' = <<>> \o <<>> \o (I \o enters)
      BY <2>1, <2>3, <1>7 DEF Held, Stage, Pending
    <3> QED
      BY <3>1, <1>5, ConcatEmptySeq, ConcatProperties
  <2>5. Held = <<peResult>> \o I
    <3>1. Held = <<peResult>> \o <<>> \o I
      BY <1>8, <2>1 DEF Held, Stage, E, I
    <3> QED
      BY <3>1
  <2>6. Held # <<>> /\ Head(Held) = peResult /\ Tail(Held) = I
    BY <2>5, <1>5
  <2> QED
    BY <2>4, <2>6, <1>4, <1>5 DEF Fifo!FifoNext
<1>9. CASE peResult = None
  <2>1. Held = E \o I
    <3>1. Held = <<>> \o E \o I
      BY <1>9 DEF Held, Stage, E, I
    <3> QED
      BY <3>1, <1>5, ConcatEmptySeq
  <2>2. Held' = Held \o enters
    <3>1. CASE NewResultValid(l)
      <4>1. peExec # None /\ ~LoadsExec
        BY <3>1, NewResultHasOperation DEF LoadsExec
      <4>2. peResult' = ResultOf(peExec) /\ peExec' = None
        BY <1>3, <3>1, <4>1 DEF NextResult, NextExec
      <4>3. peResult' # None
        BY <4>2, <3>1, NewResultHasOperation, ResultOfType, NoneAssumption
      <4>4. Held' = E \o <<>> \o (I \o enters)
        BY <4>1, <4>2, <4>3, <1>7 DEF Held, Stage, Pending, E
      <4> QED
        BY <4>4, <2>1, <1>5, ConcatEmptySeq, ConcatAssociative
    <3>2. CASE ~NewResultValid(l) /\ LoadsExec
      <4>1. peResult' = None /\ E = <<>>
        BY <1>3, <3>2 DEF NextResult, LoadsExec, E, Pending
      <4>2. Held' = <<>> \o I \o <<>>
        BY <4>1, <3>2, <1>6 DEF Held, Stage, I
      <4> QED
        BY <4>1, <4>2, <3>2, <1>6, <2>1, <1>5, ConcatEmptySeq
    <3>3. CASE ~NewResultValid(l) /\ ~LoadsExec
      <4>1. peResult' = None /\ peExec' = peExec
        BY <1>3, <3>3 DEF NextResult, NextExec
      <4>2. Held' = <<>> \o E \o (I \o enters)
        BY <4>1, <3>3, <1>7 DEF Held, Stage, E
      <4> QED
        BY <4>2, <2>1, <1>5, ConcatEmptySeq, ConcatAssociative
    <3> QED
      BY <3>1, <3>2, <3>3
  <2> QED
    BY <2>2, <1>4, <1>5, <1>9 DEF Fifo!FifoNext
<1> QED
  BY <1>8, <1>9

\* While io.result.ready stays high the element implements a queue: no
\* accepted operation is lost, repeated, overtaken or mixed with another.
\* POSIT_Locality relies on it when it marks entries as dispatched.
THEOREM ElementIsFifo ==
  ASSUME Backpressure = FALSE
  PROVE  Spec => ImplementsFifo
<1>1. Init => Fifo!FifoInit
  BY DEF Init, PEInit, Fifo!FifoInit, Held, Stage, Pending
<1>2. PEInv /\ [Next]_vars => [Fifo!FifoNext]_<<Held, delivered>>
  <2>1. UNCHANGED vars => UNCHANGED <<Held, delivered>>
    BY DEF vars, peVars, Held, Stage, Pending
  <2> QED
    BY <2>1, FifoStep
<1> QED
  BY <1>1, <1>2, Invariant, PTL DEF Spec, ImplementsFifo, Fifo!FifoSpec
=============================================================================

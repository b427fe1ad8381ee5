---------------------------- MODULE PositPECheck ----------------------------
(***************************************************************************)
(* The processing element in an environment that offers it any operation   *)
(* at any clock and takes its results as POSIT_Locality does: io.result    *)
(* .ready is wired to io.mem_write.ready, which the shell drives with the  *)
(* negation of c1TxAlmFull.  Backpressure says whether that signal is ever *)
(* raised.                                                                 *)
(***************************************************************************)
EXTENDS PositPE, Sequences

CONSTANT Backpressure
ASSUME BackpressureAssumption == Backpressure \in BOOLEAN

VARIABLE delivered   \* the result handed over on the last clock, or None
vars == <<peVars, delivered>>

ReadyLevels == IF Backpressure THEN BOOLEAN ELSE {TRUE}

Init == PEInit /\ delivered = None

Clock(request, resultReady) ==
  /\ PEClock(request, resultReady)
  /\ delivered' = IF resultReady THEN peResult ELSE None

\* The user offers an operation only to an element that is ready for it.
Offer ==
  /\ PERequestReady
  /\ \E op \in Operation, ready \in ReadyLevels : Clock(op, ready)
NoOffer == \E ready \in ReadyLevels : Clock(None, ready)

Next == Offer \/ NoOffer
Spec == Init /\ [][Next]_vars
FairSpec == Spec /\ WF_vars(Next)

\* The queue that the three stages make up, oldest operation first.
Stage(s) == IF s = None THEN <<>> ELSE <<s>>
Pending(s) == IF s = None THEN <<>> ELSE <<ResultOf(s)>>
Held == Stage(peResult) \o Pending(peExec) \o Pending(peInit)

Fifo == INSTANCE OperationFifo
          WITH queue <- Held, Results <- Outcome

\* Every accepted operation leaves once, in order, with its own result: the
\* element is a queue.  It is what POSIT_Locality.scala L11 assumes of it
\* ("a perfectly wrapped blackbox").
ImplementsFifo == Fifo!FifoSpec

\* exec and result are never both occupied, so a new result cannot find the
\* result register full: POSIT.scala loads exec only when both are empty.
ResultRegisterFree == peResult = None \/ peExec = None

\* The pulse that starts a core never meets a core still counting: the single
\* dispatched bit of POSIT.scala L124-128 is enough to start it exactly once.
CoreStartsOnce ==
  /\ CoreStarts => peCore = 0
  /\ peCore > 0 => peExec # None /\ peDispatched

\* An element that holds operations hands one over in the end; with the order
\* of ImplementsFifo, every accepted operation comes out.
EventuallyDelivered == Held # <<>> ~> delivered # None
=============================================================================

--------------------------- MODULE DispatchArbiter ---------------------------
(***************************************************************************)
(* The combinational arbiter of DispatchArbiter.scala.  POSIT_Locality     *)
(* uses it twice: to choose the reorder-buffer entry that is dispatched to *)
(* the processing element, and to choose the operand whose cacheline is    *)
(* fetched.  The vector of valid bits is the set of the positions whose    *)
(* bit is 1.                                                               *)
(*                                                                         *)
(* In this and the other modules a definition whose name ends in _<Fault>  *)
(* is a faulty variant of the one that follows it, a bug that the code     *)
(* might have had.  No specification uses it: it serves to see that the    *)
(* properties tell the two apart.                                          *)
(***************************************************************************)
EXTENDS Integers

Positions(numBits) == 0 .. numBits - 1

\* The masks afterPriority and beforePriority of the two halves.
AfterPriority_Strict(validity, priority) == {i \in validity : i > priority}
AfterPriority(validity, priority) == {i \in validity : i >= priority}
BeforePriority(validity, priority) == {i \in validity : i < priority}

\* hasChosen: some position of either half is valid.
HasChosen(validity) == validity # {}

\* The position that a chain of last-connect assignments from numBits-2 down
\* to 0 leaves: the lowest member of the half, and numBits-1 (the default of
\* the wire) when no lower position is in it.
LastConnect(half, numBits) ==
  LET below == {i \in half : i <= numBits - 2}
  IN  CHOOSE i \in below \cup {numBits - 1} :
        \A j \in below : i <= j

Chosen(validity, priority, numBits) ==
  IF AfterPriority(validity, priority) # {}
  THEN LastConnect(AfterPriority(validity, priority), numBits)
  ELSE LastConnect(BeforePriority(validity, priority), numBits)

\* What a grant should be, without the masks: the positions are visited in a
\* circle that starts at the priority position, and the scan meets a requester
\* c with no other before it.
MetBefore(i, c, priority) ==
  IF (i >= priority) = (c >= priority) THEN i < c ELSE i >= priority
FirstInRotation(c, validity, priority) ==
  c \in validity /\ \A i \in validity : ~MetBefore(i, c, priority)
=============================================================================

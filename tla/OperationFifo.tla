--------------------------- MODULE OperationFifo ---------------------------
(***************************************************************************)
(* What the processing element promises its user: it is a queue.  Every    *)
(* operation it accepts leaves once, in the order of acceptance, with the  *)
(* result of its instruction on its own operands and under its own index.  *)
(***************************************************************************)
EXTENDS Sequences

CONSTANTS Results, None

VARIABLES
  queue,      \* results of the accepted operations, oldest first
  delivered   \* the result taken on the last clock, or None

FifoInit == queue = <<>> /\ delivered = None

\* On one clock the oldest result may leave and a new operation may enter.
FifoNext ==
  \E enters \in {<<>>} \cup {<<r>> : r \in Results} :
    \/ /\ queue' = queue \o enters
       /\ delivered' = None
    \/ /\ queue # <<>>
       /\ queue' = Tail(queue) \o enters
       /\ delivered' = Head(queue)

FifoSpec == FifoInit /\ [][FifoNext]_<<queue, delivered>>
=============================================================================

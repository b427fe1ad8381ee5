---------------------------- MODULE PositSystem ----------------------------
(***************************************************************************)
(* The accelerator core between its two neighbours: the host program that  *)
(* issues requests, and the memory that both share over CCI-P.             *)
(*                                                                         *)
(* The host follows the protocol of Hardposit::compute (hardposit.cpp      *)
(* L192-357): slots in round-robin order, operands written to the ring one *)
(* after another and before the request, a request only for a slot whose   *)
(* previous result has been seen.  The core only sees this protocol; the   *)
(* objects of the library are the matter of another module.                *)
(*                                                                         *)
(* The fabric delivers control-register writes in order and everything     *)
(* else in any order: a read samples memory at any time between its        *)
(* request and its response, responses overtake each other, and so do      *)
(* writes to different slots.                                              *)
(***************************************************************************)
EXTENDS PositLocality, Sequences, SequencesExt, FiniteSets

CONSTANTS
  Ternary,        \* the instructions with all operands (FMA); the others
                  \* leave the last one out
  Backpressure,   \* whether the shell ever reports c1TxAlmFull
  MaxCsr,         \* bound on the requests under way to the core
  MaxWrites       \* bound on the writes under way to one slot

ASSUME BackpressureAssumption == Backpressure \in BOOLEAN
ASSUME TernaryAssumption == Ternary \subseteq Insts

VARIABLES
  \* host
  slot,        \* global_counter % NUM_FPGA_ENTRIES
  ringPtr,     \* req_q_pointer, modulo two turns of the ring
  building,    \* the operands of the compute() under way
  goal,        \* history: instruction and operand values meant for each slot,
               \* None before its first request
  \* shared memory
  ring,        \* the operand ring
  shown,       \* result buffer: None while the flags of the slot are 0
  \* fabric
  csr,         \* requests under way, oldest first
  reads,       \* tags of the read requests that have not sampled memory
  responses,   \* responses under way
  writes       \* result writes under way, for each slot

hostVars == <<slot, ringPtr, building, goal>>
memVars == <<ring, shown>>
fabricVars == <<csr, reads, responses, writes>>
vars == <<localityVars, hostVars, memVars, fabricVars>>

RingTurns == 2 * NumOperandEntries
Address(ptr) == ptr % NumOperandEntries
IdBit(ptr) == (ptr \div NumOperandEntries) % 2

\* An operand of a request and the value the host means by it.
Meant == [operand : RequestOperands, value : Values]
Goals == [inst : Insts, args : Arguments]
GoalResult(e) == Apply(goal[e].inst, goal[e].args)

ASSUME NoneIsApart ==
  /\ None \notin Values \cup Goals \cup Requests
  /\ \A t \in Tags : None \notin ResponsesFor(t)

\* The ring has room for the operands of a request in every slot and of the one
\* being built: 32 positions for 8 slots of 3 operands (config.h L13-16).
ASSUME RingRoomAssumption == NumOperandEntries >= NumOperand * (NumFPGAEntries + 1)

TypeOK ==
  /\ LocalityTypeOK
  /\ slot \in Entries
  /\ ringPtr \in 0 .. RingTurns - 1
  /\ building \in Seq(Meant) /\ Len(building) <= NumOperand
  /\ goal \in [Entries -> Goals \cup {None}]
  /\ ring \in [Addresses -> Cells]
  /\ shown \in [Entries -> Values \cup {None}]
  /\ csr \in Seq(Requests)
  /\ reads \subseteq Tags
  /\ \A r \in responses : \E t \in Tags : r \in ResponsesFor(t)
  /\ writes \in [Entries -> Seq(Values)]

Init ==
  /\ LocalityInit
  /\ slot = 0
  /\ ringPtr = 0
  /\ building = <<>>
  /\ goal = [e \in Entries |-> None]
  /\ ring = [a \in Addresses |-> [val |-> Zero, id |-> 0, v |-> 0]]
  /\ shown = [e \in Entries |-> None]
  /\ csr = <<>>
  /\ reads = {}
  /\ responses = {}
  /\ writes = [e \in Entries |-> <<>>]

-----------------------------------------------------------------------------
(* The host: one compute() after another.                                  *)

\* The operands still to be given; the instruction is fixed with the last.
Arity(i) == IF i \in Ternary THEN NumOperand ELSE NumOperand - 1
OperandDue == Len(building) < NumOperand /\ \E i \in Insts : Len(building) < Arity(i)

\* The operand's value is written to the ring, at req_q_pointer.
PutOperand_Ahead(v) ==
  /\ OperandDue
  /\ ring' = [ring EXCEPT
       ![Address(ringPtr + 1)] = [val |-> v, id |-> IdBit(ringPtr), v |-> 1]]
  /\ building' = Append(building,
       [operand |-> [mode |-> 2 + IdBit(ringPtr), value |-> Address(ringPtr)],
        value |-> v])
  /\ ringPtr' = (ringPtr + 1) % RingTurns
  /\ UNCHANGED <<localityVars, slot, goal, shown, fabricVars>>
PutOperand(v) ==
  /\ OperandDue
  /\ ring' = [ring EXCEPT
       ![Address(ringPtr)] = [val |-> v, id |-> IdBit(ringPtr), v |-> 1]]
  /\ building' = Append(building,
       [operand |-> [mode |-> 2 + IdBit(ringPtr), value |-> Address(ringPtr)],
        value |-> v])
  /\ ringPtr' = (ringPtr + 1) % RingTurns
  /\ UNCHANGED <<localityVars, slot, goal, shown, fabricVars>>

\* The operand is the result of an earlier request, still in the buffer of
\* the accelerator (in_fpga); never that of the slot about to be reused.
NameEntry(k) ==
  /\ OperandDue
  /\ k # slot /\ goal[k] # None
  /\ building' = Append(building,
       [operand |-> [mode |-> 1, value |-> k], value |-> GoalResult(k)])
  /\ UNCHANGED <<localityVars, slot, ringPtr, goal, memVars, fabricVars>>

\* get_val_at_slot has seen the previous result of the slot; its flags are
\* cleared and the request goes out as one control-register write.
Submit(i) ==
  /\ Len(building) = Arity(i)
  /\ goal[slot] = None \/ shown[slot] # None
  /\ Len(csr) < MaxCsr
  /\ LET given(o) == o < Len(building)
     IN  /\ csr' = Append(csr,
              [wr_addr |-> slot, inst |-> i,
               operands |-> [o \in Operands |->
                 IF given(o) THEN building[o + 1].operand ELSE ZeroOperand]])
         /\ goal' = [goal EXCEPT ![slot] =
              [inst |-> i,
               args |-> [o \in Operands |->
                 IF given(o) THEN building[o + 1].value ELSE Zero]]]
  /\ shown' = [shown EXCEPT ![slot] = None]
  /\ slot' = (slot + 1) % NumFPGAEntries
  /\ building' = <<>>
  /\ UNCHANGED <<localityVars, ringPtr, ring, reads, responses, writes>>

HostStep ==
  \/ \E v \in Values : PutOperand(v)
  \/ \E k \in Entries : NameEntry(k)
  \/ \E i \in Insts : Submit(i)

-----------------------------------------------------------------------------
(* The fabric.                                                             *)

\* The read of tag t takes its copy of the cacheline.
Sample(t) ==
  /\ t \in reads
  /\ reads' = reads \ {t}
  /\ responses' = responses \cup {Response(t, ring)}
  /\ UNCHANGED <<localityVars, hostVars, memVars, csr, writes>>

\* A result write reaches the buffer of the host.
DeliverWrite(e) ==
  /\ \E n \in 1 .. Len(writes[e]) :
       /\ shown' = [shown EXCEPT ![e] = writes[e][n]]
       /\ writes' = [writes EXCEPT ![e] = RemoveAt(@, n)]
  /\ UNCHANGED <<localityVars, hostVars, ring, csr, reads, responses>>

-----------------------------------------------------------------------------
(* The clock of the core, with what arrives and leaves on it.              *)

ReadyLevels ==
  IF Backpressure /\ Len(writes[wbCntr]) < MaxWrites THEN BOOLEAN ELSE {TRUE}

Clock(request, response) ==
  \E writeReady \in ReadyLevels :
    /\ LocalityClock(request, writeReady, response)
    /\ csr' = IF request = None THEN csr ELSE Tail(csr)
    /\ reads' = IF FetchValid THEN reads \cup {FetchTag(writeReady)} ELSE reads
    /\ responses' = responses \ {response}
    /\ writes' = IF WriteValid
                 THEN [writes EXCEPT ![wbCntr] = Append(@, result[wbCntr])]
                 ELSE writes
    /\ UNCHANGED <<hostVars, memVars>>

\* A control-register write reaches the core on this clock, or none does.
ArrivingRequests == {None} \cup (IF csr = <<>> THEN {} ELSE {Head(csr)})

Tick == \E request \in ArrivingRequests, response \in responses \cup {None} :
          Clock(request, response)

Next ==
  \/ HostStep
  \/ \E t \in Tags : Sample(t)
  \/ \E e \in Entries : DeliverWrite(e)
  \/ Tick

Spec == Init /\ [][Next]_vars

\* The clock keeps running and the fabric loses nothing: what is under way
\* arrives.  Nothing obliges the host to issue another request.
TakeRequest ==
  /\ csr # <<>>
  /\ \E response \in responses \cup {None} : Clock(Head(csr), response)
TakeResponse(t) ==
  \E response \in responses :
    /\ response.tag = t
    /\ \E request \in ArrivingRequests : Clock(request, response)

Fairness ==
  /\ WF_vars(Tick)
  /\ WF_vars(TakeRequest)
  /\ \A t \in Tags : WF_vars(Sample(t)) /\ WF_vars(TakeResponse(t))
  /\ \A e \in Entries : WF_vars(DeliverWrite(e))

FairSpec == Spec /\ Fairness

-----------------------------------------------------------------------------
(* Properties.                                                             *)

\* The request of slot e has not shown its result yet.
Outstanding(e) == goal[e] # None /\ shown[e] = None

\* The accelerator is a set of futures (ResultSlots): every request shows,
\* once, the result of its own instruction on the values the host meant,
\* whatever the order in which memory answers, operands are forwarded,
\* entries are dispatched and writes arrive.
Futures == INSTANCE ResultSlots
  WITH pending <- [e \in Entries |-> IF Outstanding(e) THEN GoalResult(e) ELSE None],
       published <- shown
ImplementsResultSlots == Futures!SlotsSpec

\* The core is asked only for entries that are free: POSIT_Locality.scala
\* drops any other request without telling the host (L21-24), and Posit.sv
\* does not look at io.request.ready.
NoRequestDropped ==
  \A n \in 1 .. Len(csr) :
    \A e \in Entries : csr[n].wr_addr = e => RequestReady(e)

\* reg_infetch_cacheline is exact: a cacheline is in it if and only if one
\* read of it is under way, and never two.
InfetchExact ==
  /\ infetch = {CachelineOfTag(t) : t \in reads}
               \cup {CachelineOfTag(r.tag) : r \in responses}
  /\ Cardinality(infetch) = Cardinality(reads) + Cardinality(responses)

\* A read under way has somebody waiting for it, so at most one read is wasted
\* on any operand and a cacheline is not overwritten twice while it is read.
ReadHasReader ==
  \A l \in infetch :
    \E s \in Slots : /\ OperandAt(s).mode \in {2, 3}
                    /\ CachelineOf(OperandAt(s).value) = l

\* Both arbiters grant the first in rotation from their priority position, and
\* nobody who did not ask: the default of the chain of connections and a vector
\* of valid bits whose priority is a single bit (POSIT_Locality.scala L81) still
\* make a circle.
GrantsInRotation ==
  \A writeReady \in BOOLEAN :
    /\ HasChosen(WaitingForDispatch) =>
         FirstInRotation(DispatchEntry(writeReady), WaitingForDispatch,
                         Priority(writeReady))
    /\ FetchValid =>
         FirstInRotation(FetchPosition(FetchSlot(writeReady)),
                         {FetchPosition(s) : s \in WaitingToBeFetched},
                         Priority(writeReady))

\* What waits in the ring is what the host meant: the position that an operand
\* of an entry, of a request under way or of the one being built names still holds its own value under
\* its own id bit (the ring has room for one more request than the buffer).
RingHolds(op, meant) ==
  op.mode \in {2, 3} =>
    ring[op.value] = [val |-> meant, id |-> op.mode - 2, v |-> 1]
RingKeepsOperands ==
  /\ \A e \in Entries, o \in Operands :
       operands[e][o].mode # 0 => RingHolds(operands[e][o], goal[e].args[o])
  /\ \A n \in 1 .. Len(csr), o \in Operands :
       RingHolds(csr[n].operands[o], goal[csr[n].wr_addr].args[o])
  /\ \A n \in 1 .. Len(building) :
       RingHolds(building[n].operand, building[n].value)

\* A request is written to the host once: only one write of its result is under
\* way at a time, and none is after the host has seen it.  The test counts a
\* result for every clock with io.mem_write.valid (PositLocalitySpec.scala
\* L72-75).
OneWritePerRequest ==
  \A e \in Entries :
    /\ Len(writes[e]) <= 1
    /\ writes[e] # <<>> => Outstanding(e)

\* Every request shows its result in the end, if the host does nothing else.
EventuallyShown == \A e \in Entries : Outstanding(e) ~> shown[e] # None
=============================================================================

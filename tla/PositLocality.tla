--------------------------- MODULE PositLocality ---------------------------
(***************************************************************************)
(* The accelerator core: class POSIT_Locality of POSIT_Locality.scala, the *)
(* reorder buffer with its write-back, dispatch, operand forwarding and    *)
(* operand fetch, around one processing element (PositPE).                 *)
(*                                                                         *)
(* One step of LocalityClock is one rising edge of the clock: every block  *)
(* of the source reads the registers and wires of the ending clock period  *)
(* and writes the registers of the next one.  Where several `when' blocks  *)
(* assign a register, the last connection of the source text wins.         *)
(***************************************************************************)
EXTENDS PositPE, DispatchArbiter

CONSTANTS
  Coalesce,                 \* the Boolean parameter of the class
  NumOperandEntries,        \* Parameter.scala: positions of the operand ring
  NumOperandPerCacheline    \* Parameter.scala: positions in one cacheline

ASSUME CoalesceAssumption == Coalesce \in BOOLEAN
ASSUME RingAssumption ==
  /\ NumOperandEntries \in Nat \ {0}
  /\ NumOperandPerCacheline \in Nat \ {0}

\* An operand position of the host's ring, its cacheline and its neighbours.
\* In the source the cacheline is one-hot in bits 13..BitsForOffset of the
\* operand; here it is a number.
Addresses == 0 .. NumOperandEntries - 1
CachelineOf(addr) == addr \div NumOperandPerCacheline
Cachelines == {CachelineOf(a) : a \in Addresses}
AddressesIn(line) == {a \in Addresses : CachelineOf(a) = line}

\* One operand position in memory: its value, its id bit, its valid bit.
Cells == [val : Values, id : {0, 1}, v : {0, 1}]

\* An operand is a value once its mode is 0; with mode 1 it names an entry of
\* the reorder buffer; with mode 2 or 3 it is a position of the ring and the
\* low bit of the mode is the id bit expected there.
Immediate == [mode : {0}, value : Values]
Reference == [mode : {1}, value : Entries]
Memory == [mode : {2, 3}, value : Addresses]
RequestOperands == Immediate \cup Reference \cup Memory

\* PositLocalityTopRequest.
Requests == [wr_addr : Entries, inst : Insts,
             operands : [Operands -> RequestOperands]]

\* The tag of a read request: the cacheline, or the whole position.
TagOf(addr) == IF Coalesce THEN CachelineOf(addr) ELSE addr
Tags == {TagOf(a) : a \in Addresses}
CachelineOfTag(tag) == IF Coalesce THEN tag ELSE CachelineOf(tag)

\* A read response: a tag and the cells of the cacheline it stands for.
Response(tag, cells) ==
  [tag |-> tag, data |-> [a \in AddressesIn(CachelineOfTag(tag)) |-> cells[a]]]
ResponsesFor(tag) ==
  [tag : {tag}, data : [AddressesIn(CachelineOfTag(tag)) -> Cells]]

VARIABLES
  valid, completed, dispatched, written,   \* the flags of the entries
  inst, operands, result,                  \* request and result of the entries
  wbCntr,                                  \* the write-back counter
  infetch                                  \* reg_infetch_cacheline, as a set

rbVars == <<valid, completed, dispatched, written, inst, operands, result,
            wbCntr, infetch>>
localityVars == <<rbVars, peVars>>

LocalityTypeOK ==
  /\ valid \in [Entries -> BOOLEAN]
  /\ completed \in [Entries -> BOOLEAN]
  /\ dispatched \in [Entries -> BOOLEAN]
  /\ written \in [Entries -> BOOLEAN]
  /\ inst \in [Entries -> Insts]
  /\ operands \in [Entries -> [Operands -> RequestOperands]]
  /\ result \in [Entries -> Values]
  /\ wbCntr \in Entries
  /\ infetch \subseteq Cachelines
  /\ PETypeOK

CONSTANTS Zero, AnyInst   \* what the registers hold after reset
ASSUME ResetAssumption == Zero \in Values /\ AnyInst \in Insts
ZeroOperand == [mode |-> 0, value |-> Zero]

LocalityInit ==
  /\ valid = [e \in Entries |-> FALSE]
  /\ completed = [e \in Entries |-> FALSE]
  /\ dispatched = [e \in Entries |-> FALSE]
  /\ written = [e \in Entries |-> FALSE]
  /\ inst = [e \in Entries |-> AnyInst]
  /\ operands = [e \in Entries |-> [o \in Operands |-> ZeroOperand]]
  /\ result = [e \in Entries |-> Zero]
  /\ wbCntr = 0
  /\ infetch = {}
  /\ PEInit

-----------------------------------------------------------------------------
(* Wires.                                                                  *)

\* io.request.ready, for the entry that a request names.
RequestReady_NoReuse(e) == ~valid[e]
RequestReady(e) == written[e] \/ ~valid[e]

\* new_input_log, for entry e: a request for an entry that is not free is
\* ignored.
Accepts(request, e) ==
  request # None /\ request.wr_addr = e /\ RequestReady(e)

\* io.mem_write.valid: it does not depend on io.mem_write.ready.
WriteValid_Rewrites == completed[wbCntr]
WriteValid == completed[wbCntr] /\ ~written[wbCntr]

\* wbCountOn
WritesBack(writeReady) == writeReady /\ WriteValid

\* io.priority of both arbiters is this one bit, not the write-back counter.
Priority(writeReady) == IF WritesBack(writeReady) THEN 1 ELSE 0

\* waitingForDispatchVec and the entry the arbiter chooses.
OperandsValid(e) == \A o \in Operands : operands[e][o].mode = 0
WaitingForDispatch ==
  {e \in Entries : OperandsValid(e) /\ valid[e] /\ ~dispatched[e]}
DispatchEntry(writeReady) ==
  Chosen(WaitingForDispatch, Priority(writeReady), NumFPGAEntries)

\* Entry e is given to the processing element on this clock.
Dispatches(writeReady, e) ==
  /\ HasChosen(WaitingForDispatch)
  /\ DispatchEntry(writeReady) = e
  /\ PERequestReady

PERequest(writeReady) ==
  IF HasChosen(WaitingForDispatch) /\ PERequestReady
  THEN LET e == DispatchEntry(writeReady)
       IN  [idx |-> e, inst |-> inst[e],
            args |-> [o \in Operands |-> operands[e][o].value]]
  ELSE None

\* The processing element hands over the result of entry e.
Completes(writeReady, e) ==
  writeReady /\ peResult # None /\ peResult.idx = e

\* An operand that names an entry takes its result once that is completed.
Forwards_Early(op) == op.mode = 1 /\ dispatched[op.value]
Forwards(op) == op.mode = 1 /\ completed[op.value]

\* A response satisfies an operand when tag, valid bit and id bit agree.
Satisfies_AnyId(response, op) ==
  /\ response # None
  /\ op.mode \in {2, 3}
  /\ TagOf(op.value) = response.tag
  /\ response.data[op.value].v = 1
Satisfies(response, op) ==
  /\ response # None
  /\ op.mode \in {2, 3}
  /\ TagOf(op.value) = response.tag
  /\ response.data[op.value].v = 1
  /\ response.data[op.value].id = op.mode - 2

\* waitingToBeFetched: operands in memory whose cacheline is not on its way.
Slots == Entries \X Operands
OperandAt(s) == operands[s[1]][s[2]]
WaitingToBeFetched_Refetch ==
  {s \in Slots : valid[s[1]] /\ OperandAt(s).mode \in {2, 3}}
WaitingToBeFetched ==
  {s \in Slots : /\ valid[s[1]]
                 /\ OperandAt(s).mode \in {2, 3}
                 /\ CachelineOf(OperandAt(s).value) \notin infetch}

\* The position of a slot in the vector of the fetch arbiter, and its choice.
FetchPosition(s) == s[1] * NumOperand + s[2]
FetchSlot(writeReady) ==
  CHOOSE s \in WaitingToBeFetched :
    FetchPosition(s) = Chosen({FetchPosition(w) : w \in WaitingToBeFetched},
                              Priority(writeReady),
                              NumFPGAEntries * NumOperand)

\* io.mem_read.req_valid (the filter of L185 repeats the last condition of
\* waitingToBeFetched, so it never holds a request back) and req_tag.
FetchValid == WaitingToBeFetched # {}
FetchAddress(writeReady) == OperandAt(FetchSlot(writeReady)).value
FetchTag(writeReady) == TagOf(FetchAddress(writeReady))

-----------------------------------------------------------------------------
(* Registers: what each holds after the edge.                              *)

NextValid(request) ==
  [e \in Entries |-> valid[e] \/ Accepts(request, e)]

NextCompleted(request, writeReady) ==
  [e \in Entries |->
     \/ Completes(writeReady, e)
     \/ completed[e] /\ ~Accepts(request, e)]

NextWritten_NoReset(request, writeReady) ==
  [e \in Entries |-> written[e] \/ (WritesBack(writeReady) /\ e = wbCntr)]
NextWritten(request, writeReady) ==
  [e \in Entries |->
     \/ WritesBack(writeReady) /\ e = wbCntr
     \/ written[e] /\ ~Accepts(request, e)]

NextDispatchedFlag_NoReset(request, writeReady) ==
  [e \in Entries |-> dispatched[e] \/ Dispatches(writeReady, e)]
NextDispatchedFlag(request, writeReady) ==
  [e \in Entries |->
     ~Accepts(request, e) /\ (dispatched[e] \/ Dispatches(writeReady, e))]

NextInst(request) ==
  [e \in Entries |-> IF Accepts(request, e) THEN request.inst ELSE inst[e]]

NextOperand(request, response, e, o) ==
  LET op == operands[e][o]
  IN  IF Satisfies(response, op)
      THEN [mode |-> 0, value |-> response.data[op.value].val]
      ELSE IF Forwards(op)
      THEN [mode |-> 0, value |-> result[op.value]]
      ELSE IF Accepts(request, e)
      THEN request.operands[o]
      ELSE op

NextOperands(request, response) ==
  [e \in Entries |->
     [o \in Operands |-> NextOperand(request, response, e, o)]]

NextResultField(request, writeReady) ==
  [e \in Entries |-> IF Completes(writeReady, e) THEN peResult.out
                     ELSE IF Accepts(request, e) THEN Zero
                     ELSE result[e]]

NextWbCntr_NoWrap(writeReady) ==
  IF WritesBack(writeReady) THEN wbCntr + 1 ELSE wbCntr
NextWbCntr(writeReady) ==
  IF WritesBack(writeReady) THEN (wbCntr + 1) % NumFPGAEntries ELSE wbCntr

\* The cacheline of the response leaves the set, that of the new request
\* enters it; when they are the same it stays.
NextInfetch_NoUnset(writeReady, response) ==
  infetch \cup (IF FetchValid THEN {CachelineOf(FetchAddress(writeReady))} ELSE {})
NextInfetch(writeReady, response) ==
  (infetch \ (IF response # None THEN {CachelineOfTag(response.tag)} ELSE {}))
  \cup (IF FetchValid THEN {CachelineOf(FetchAddress(writeReady))} ELSE {})

\* One clock: request is io.request.bits while io.request.valid or None,
\* writeReady is io.mem_write.ready, response is a read response or None.
LocalityClock(request, writeReady, response) ==
  /\ valid' = NextValid(request)
  /\ completed' = NextCompleted(request, writeReady)
  /\ written' = NextWritten(request, writeReady)
  /\ dispatched' = NextDispatchedFlag(request, writeReady)
  /\ inst' = NextInst(request)
  /\ operands' = NextOperands(request, response)
  /\ result' = NextResultField(request, writeReady)
  /\ wbCntr' = NextWbCntr(writeReady)
  /\ infetch' = NextInfetch(writeReady, response)
  /\ PEClock(PERequest(writeReady), writeReady)

-----------------------------------------------------------------------------
(* Properties of the core alone.                                           *)

\* An entry runs through its life in one order: a written entry is completed,
\* a completed one was dispatched, a dispatched one has all its operands.
\* POSIT_Locality.scala rests on it: L25-39 let a request overwrite the entry
\* while the forwarding and fetch loops below assign the same operands.
EntryLifeCycle ==
  \A e \in Entries :
    /\ written[e] => completed[e]
    /\ completed[e] => dispatched[e]
    /\ dispatched[e] => valid[e] /\ OperandsValid(e)

\* The processing element holds exactly the entries that were dispatched and
\* are not completed, each of them once: no entry is dispatched twice or
\* forgotten, and no result meets an entry that a new request has taken.
HeldBy(stage, e) == stage # None /\ stage.idx = e
HeldInPE(e) == HeldBy(peInit, e) \/ HeldBy(peExec, e) \/ HeldBy(peResult, e)
HeldOnce(e) ==
  /\ ~ (HeldBy(peInit, e) /\ HeldBy(peExec, e))
  /\ ~ (HeldBy(peInit, e) /\ HeldBy(peResult, e))
  /\ ~ (HeldBy(peExec, e) /\ HeldBy(peResult, e))
DispatchedIsHeld ==
  \A e \in Entries :
    /\ HeldInPE(e) <=> dispatched[e] /\ ~completed[e]
    /\ HeldOnce(e)
=============================================================================

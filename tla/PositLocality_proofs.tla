------------------------ MODULE PositLocality_proofs ------------------------
(***************************************************************************)
(* What one clock of the accelerator core preserves, for every number of   *)
(* entries and operands, every ring, every instruction and latency, and    *)
(* every typed input: the types, the life cycle of an entry and the        *)
(* agreement of the reorder buffer with the processing element.            *)
(***************************************************************************)
EXTENDS PositLocality, PositPE_proofs, WellFoundedInduction

-----------------------------------------------------------------------------
(* The arbiter chooses a requester, for every width and every input.       *)

\* A set of natural numbers with a member has a least one.
LEMMA LeastMember ==
  ASSUME NEW S, S \subseteq Nat, S # {}
  PROVE  \E x \in S : \A y \in S : x <= y
<1> DEFINE R == OpToRel(<, Nat)
<1>1. IsWellFoundedOn(R, Nat)
  BY NatLessThanWellFounded
<1>2. \A x, y \in Nat : ~ (<<y, x>> \in R) => x <= y
  BY DEF OpToRel
<1> HIDE DEF R
<1>3. PICK x \in S : \A y \in S : ~ (<<y, x>> \in R)
  BY <1>1, WFMin
<1>4. \A y \in S : x <= y
  BY <1>2, <1>3
<1> QED
  BY <1>4

\* The last connection of the chain in DispatchArbiter.scala L32-39 leaves the
\* lowest member of a half that has one.
LEMMA LastConnectIsLeast ==
  ASSUME NEW numBits \in Nat \ {0}, NEW half, half \subseteq Positions(numBits),
         half # {}
  PROVE  /\ LastConnect(half, numBits) \in half
         /\ \A j \in half : LastConnect(half, numBits) <= j
<1> DEFINE below == {i \in half : i <= numBits - 2}
           c == LastConnect(half, numBits)
<1>1. \A i \in half : i \in Nat /\ (i \in below \/ i = numBits - 1)
  BY DEF Positions
<1>2. PICK x \in half : \A y \in half : x <= y
  BY <1>1, LeastMember
<1>3. \E i \in below \cup {numBits - 1} : \A j \in below : i <= j
  BY <1>1, <1>2
<1>4. c \in below \cup {numBits - 1} /\ \A j \in below : c <= j
  BY <1>3 DEF LastConnect
<1>5. numBits - 1 \notin below /\ numBits - 1 \in Int
  OBVIOUS
<1>6. \A j \in below : j \in Nat /\ j < numBits - 1
  BY <1>1
<1> HIDE DEF c
<1>7. c \in half
  <2> HIDE DEF below
  <2>1. CASE c \in below
    BY <2>1 DEF below
  <2>2. CASE c = numBits - 1
    <3>1. below = {}
      BY <2>2, <1>4, <1>6
    <3> QED
      BY <3>1, <2>2, <1>1, <1>2
  <2> QED
    BY <2>1, <2>2, <1>4
<1>8. \A j \in half : c <= j
  <2> TAKE j \in half
  <2>1. CASE j \in below
    BY <2>1, <1>4
  <2>2. CASE j = numBits - 1
    BY <2>2, <1>7, <1>1, <1>6
  <2> QED
    BY <2>1, <2>2, <1>1
<1> QED
  BY <1>7, <1>8 DEF c

\* Whatever the inputs, the arbiter grants a position that asked for it: a
\* defect here would dispatch an entry that is not ready or fetch a cacheline
\* nobody waits for.
THEOREM ChosenIsValid ==
  ASSUME NEW numBits \in Nat \ {0}, NEW validity \in SUBSET Positions(numBits),
         NEW priority \in Int, HasChosen(validity)
  PROVE  Chosen(validity, priority, numBits) \in validity
<1> DEFINE after == AfterPriority(validity, priority)
           before == BeforePriority(validity, priority)
<1>1. after \subseteq Positions(numBits) /\ before \subseteq Positions(numBits)
  BY DEF AfterPriority, BeforePriority
<1>2. after \subseteq validity /\ before \subseteq validity
  BY DEF AfterPriority, BeforePriority
<1>3. after # {} \/ before # {}
  <2>1. PICK i \in validity : TRUE
    BY DEF HasChosen
  <2>2. i \in Int
    BY DEF Positions
  <2>3. i \in after \/ i \in before
    BY <2>2 DEF AfterPriority, BeforePriority
  <2> QED
    BY <2>3
<1>4. CASE after # {}
  BY <1>1, <1>2, <1>4, LastConnectIsLeast DEF Chosen
<1>5. CASE after = {}
  BY <1>1, <1>2, <1>3, <1>5, LastConnectIsLeast DEF Chosen
<1> QED
  BY <1>4, <1>5

\* The two halves of the masks, in their order.
LEMMA NoneIsMetBefore ==
  ASSUME NEW numBits \in Nat \ {0}, NEW validity \in SUBSET Positions(numBits),
         NEW priority \in Int, NEW i \in validity
  PROVE  LET c == Chosen(validity, priority, numBits)
         IN  IF i >= priority THEN priority <= c /\ c <= i
             ELSE c >= priority \/ c <= i
<1> DEFINE after == AfterPriority(validity, priority)
           before == BeforePriority(validity, priority)
           c == Chosen(validity, priority, numBits)
<1>1. after \subseteq Positions(numBits) /\ before \subseteq Positions(numBits)
  BY DEF AfterPriority, BeforePriority
<1>2. CASE after # {}
  <2>1. c \in after /\ \A j \in after : c <= j
    BY <1>1, <1>2, LastConnectIsLeast DEF Chosen
  <2> QED
    BY <2>1 DEF AfterPriority, Positions
<1>3. CASE after = {}
  <2>1. i \in before
    BY <1>3 DEF AfterPriority, BeforePriority, Positions
  <2>2. c \in before /\ \A j \in before : c <= j
    BY <1>1, <1>3, <2>1, LastConnectIsLeast DEF Chosen
  <2> QED
    BY <1>3, <2>1, <2>2 DEF AfterPriority, BeforePriority, Positions
<1> QED
  BY <1>2, <1>3

\* The grant goes to the requester met first when the positions are visited
\* cyclically from the priority position.
THEOREM ChosenIsFirst ==
  ASSUME NEW numBits \in Nat \ {0}, NEW validity \in SUBSET Positions(numBits),
         NEW priority \in Int, HasChosen(validity)
  PROVE  FirstInRotation(Chosen(validity, priority, numBits), validity, priority)
<1> DEFINE c == Chosen(validity, priority, numBits)
<1>1. c \in validity
  BY ChosenIsValid
<1> HIDE DEF c
<1>0. validity \subseteq Int
  BY DEF Positions
<1>2. ASSUME NEW i \in validity
      PROVE  ~MetBefore(i, c, priority)
  <2>1. IF i >= priority THEN priority <= c /\ c <= i ELSE c >= priority \/ c <= i
    BY NoneIsMetBefore DEF c
  <2>2. i \in Int /\ c \in Int
    BY <1>1, <1>0
  <2> QED
    BY <2>1, <2>2 DEF MetBefore
<1> QED
  BY <1>1, <1>2 DEF FirstInRotation, c

-----------------------------------------------------------------------------
(* The accelerator core.                                                   *)

\* What can stand on io.mem_read when its response is valid, or no response.
Responses == UNION {ResponsesFor(t) : t \in Tags}

-----------------------------------------------------------------------------
(* Wires.                                                                  *)

LEMMA PriorityIsInt ==
  ASSUME NEW writeReady
  PROVE  Priority(writeReady) \in Int
  BY DEF Priority

\* An operand whose mode is 0 is a value.
LEMMA ModeZeroIsValue ==
  ASSUME NEW op \in RequestOperands
  PROVE  /\ op.mode = 0 => op.value \in Values
         /\ op.mode = 1 => op.value \in Entries
         /\ op.mode \in {2, 3} => op.value \in Addresses
         /\ op.mode \in {0, 1, 2, 3}
  BY DEF RequestOperands, Immediate, Reference, Memory

\* The arbiter grants an entry that waits for dispatch.
LEMMA DispatchEntryWaits ==
  ASSUME NEW writeReady, HasChosen(WaitingForDispatch)
  PROVE  DispatchEntry(writeReady) \in WaitingForDispatch
<1>1. WaitingForDispatch \in SUBSET Positions(NumFPGAEntries)
  BY DEF WaitingForDispatch, Positions, Entries
<1> QED
  BY <1>1, PriorityIsInt, ChosenIsValid, EntriesAssumption DEF DispatchEntry

\* What the element is offered is an operation: all operands have become values.
LEMMA PERequestType ==
  ASSUME LocalityTypeOK, NEW writeReady
  PROVE  PERequest(writeReady) \in Operation \cup {None}
<1>1. CASE HasChosen(WaitingForDispatch) /\ PERequestReady
  <2> DEFINE e == DispatchEntry(writeReady)
             args == [o \in Operands |-> operands[e][o].value]
  <2>1. e \in Entries /\ OperandsValid(e)
    BY <1>1, DispatchEntryWaits DEF WaitingForDispatch
  <2>2. inst[e] \in Insts
    BY <2>1 DEF LocalityTypeOK
  <2>3. args \in Arguments
    <3>1. \A o \in Operands : operands[e][o] \in RequestOperands
      BY <2>1 DEF LocalityTypeOK
    <3>2. \A o \in Operands : operands[e][o].mode = 0
      BY <2>1 DEF OperandsValid
    <3>3. \A o \in Operands : operands[e][o].value \in Values
      BY <3>1, <3>2, ModeZeroIsValue
    <3> QED
      BY <3>3 DEF Arguments
  <2>4. PERequest(writeReady) = [idx |-> e, inst |-> inst[e], args |-> args]
    BY <1>1 DEF PERequest
  <2> QED
    BY <2>1, <2>2, <2>3, <2>4 DEF Operation
<1>2. CASE ~(HasChosen(WaitingForDispatch) /\ PERequestReady)
  BY <1>2 DEF PERequest
<1> QED
  BY <1>1, <1>2

\* The positions of two operands in the vector of the fetch arbiter fit in it.
LEMMA FetchPositionFits ==
  ASSUME NEW s \in Slots
  PROVE  FetchPosition(s) \in Positions(NumFPGAEntries * NumOperand)
<1>1. PICK i \in Entries, j \in Operands : s = <<i, j>>
  BY DEF Slots
<1>2. /\ i \in Nat /\ i <= NumFPGAEntries - 1
      /\ j \in Nat /\ j <= NumOperand - 1
  BY <1>1, EntriesAssumption, OperandAssumption DEF Entries, Operands
<1>3. i * NumOperand <= (NumFPGAEntries - 1) * NumOperand
  BY <1>2, EntriesAssumption, OperandAssumption
<1>4. (NumFPGAEntries - 1) * NumOperand = NumFPGAEntries * NumOperand - NumOperand
  BY EntriesAssumption, OperandAssumption
<1>5. i * NumOperand \in Nat /\ NumFPGAEntries * NumOperand \in Nat
  BY <1>2, EntriesAssumption, OperandAssumption
<1>6. i * NumOperand + j \in 0 .. NumFPGAEntries * NumOperand - 1
  BY <1>2, <1>3, <1>4, <1>5, OperandAssumption
<1> QED
  BY <1>1, <1>6 DEF FetchPosition, Positions

\* The fetch arbiter grants an operand that waits for its cacheline.
LEMMA FetchSlotWaits ==
  ASSUME NEW writeReady, FetchValid
  PROVE  FetchSlot(writeReady) \in WaitingToBeFetched
<1> DEFINE asked == {FetchPosition(w) : w \in WaitingToBeFetched}
           width == NumFPGAEntries * NumOperand
           granted == Chosen(asked, Priority(writeReady), width)
<1>1. WaitingToBeFetched \subseteq Slots
  BY DEF WaitingToBeFetched
<1>2. asked \in SUBSET Positions(width)
  BY <1>1, FetchPositionFits
<1>3. HasChosen(asked)
  BY DEF FetchValid, HasChosen
<1>4. width \in Nat \ {0}
  BY EntriesAssumption, OperandAssumption
<1>5. granted \in asked
  <2> HIDE DEF asked, width
  <2> QED
    BY <1>2, <1>3, <1>4, PriorityIsInt, ChosenIsValid
<1>6. \E s \in WaitingToBeFetched : FetchPosition(s) = granted
  BY <1>5
<1> QED
  BY <1>6 DEF FetchSlot

\* The address that is fetched is one of the ring.
LEMMA FetchAddressType ==
  ASSUME LocalityTypeOK, NEW writeReady, FetchValid
  PROVE  /\ FetchAddress(writeReady) \in Addresses
         /\ FetchTag(writeReady) \in Tags
         /\ CachelineOf(FetchAddress(writeReady)) \notin infetch
<1> DEFINE s == FetchSlot(writeReady)
<1>1. s \in Slots /\ OperandAt(s).mode \in {2, 3}
      /\ CachelineOf(OperandAt(s).value) \notin infetch
  BY FetchSlotWaits DEF WaitingToBeFetched
<1>2. OperandAt(s) \in RequestOperands
  <2>1. s[1] \in Entries /\ s[2] \in Operands
    BY <1>1 DEF Slots
  <2> QED
    BY <2>1 DEF OperandAt, LocalityTypeOK
<1>3. OperandAt(s).value \in Addresses
  BY <1>1, <1>2, ModeZeroIsValue
<1> QED
  BY <1>1, <1>3 DEF FetchAddress, FetchTag, Tags

-----------------------------------------------------------------------------
(* Types.                                                                  *)

\* A response that satisfies an operand carries the cell of its address.
LEMMA SatisfiedByItsCell ==
  ASSUME NEW response \in Responses \cup {None}, NEW op \in RequestOperands,
         Satisfies(response, op)
  PROVE  /\ op.value \in Addresses
         /\ response.data[op.value] \in Cells
<1>1. op.value \in Addresses
  BY ModeZeroIsValue DEF Satisfies
<1>2. PICK t \in Tags : response \in ResponsesFor(t)
  BY DEF Satisfies, Responses
<1>3. response.tag = t
  BY <1>2 DEF ResponsesFor
<1>4. t = TagOf(op.value)
  BY <1>3 DEF Satisfies
<1>5. op.value \in AddressesIn(CachelineOfTag(t))
  BY <1>1, <1>4 DEF AddressesIn, CachelineOfTag, TagOf
<1>6. response.data \in [AddressesIn(CachelineOfTag(t)) -> Cells]
  BY <1>2 DEF ResponsesFor
<1> QED
  BY <1>1, <1>5, <1>6

LEMMA NextOperandType ==
  ASSUME LocalityTypeOK, NEW request \in Requests \cup {None},
         NEW response \in Responses \cup {None},
         NEW e \in Entries, NEW o \in Operands
  PROVE  NextOperand(request, response, e, o) \in RequestOperands
<1> DEFINE op == operands[e][o]
<1>1. op \in RequestOperands
  BY DEF LocalityTypeOK
<1> HIDE DEF op
<1>2. CASE Satisfies(response, op)
  <2>1. response.data[op.value].val \in Values
    BY <1>1, <1>2, SatisfiedByItsCell DEF Cells
  <2> QED
    BY <1>2, <2>1 DEF NextOperand, RequestOperands, Immediate, op
<1>3. CASE ~Satisfies(response, op) /\ Forwards(op)
  <2>1. op.value \in Entries
    BY <1>1, <1>3, ModeZeroIsValue DEF Forwards
  <2>2. result[op.value] \in Values
    BY <2>1 DEF LocalityTypeOK
  <2> QED
    BY <1>3, <2>2 DEF NextOperand, RequestOperands, Immediate, op
<1>4. CASE ~Satisfies(response, op) /\ ~Forwards(op) /\ Accepts(request, e)
  <2>1. request \in Requests
    BY <1>4 DEF Accepts
  <2>2. request.operands[o] \in RequestOperands
    BY <2>1 DEF Requests
  <2> QED
    BY <1>4, <2>2 DEF NextOperand, op
<1>5. CASE ~Satisfies(response, op) /\ ~Forwards(op) /\ ~Accepts(request, e)
  BY <1>5, <1>1 DEF NextOperand, op
<1> QED
  BY <1>2, <1>3, <1>4, <1>5

\* A cacheline of a tag is a cacheline of the ring.
LEMMA TagHasCacheline ==
  ASSUME NEW a \in Addresses
  PROVE  CachelineOfTag(TagOf(a)) = CachelineOf(a) /\ CachelineOf(a) \in Cachelines
  BY DEF CachelineOfTag, TagOf, Cachelines

LEMMA LocalityTypeInit == LocalityInit => LocalityTypeOK
<1> SUFFICES ASSUME LocalityInit PROVE LocalityTypeOK
  OBVIOUS
<1>1. ZeroOperand \in RequestOperands
  BY ResetAssumption DEF ZeroOperand, RequestOperands, Immediate
<1>2. 0 \in Entries
  BY EntriesAssumption DEF Entries
<1>3. PETypeOK
  BY PEInvInit DEF LocalityInit, PEInv
<1> QED
  BY <1>1, <1>2, <1>3, ResetAssumption DEF LocalityInit, LocalityTypeOK

LEMMA LocalityTypeStep ==
  ASSUME LocalityTypeOK, PEInv, NEW request \in Requests \cup {None},
         NEW writeReady \in BOOLEAN, NEW response \in Responses \cup {None},
         LocalityClock(request, writeReady, response)
  PROVE  LocalityTypeOK' /\ PEInv'
<1> USE DEF LocalityClock
<1>1. valid' \in [Entries -> BOOLEAN]
  BY DEF NextValid, LocalityTypeOK, Accepts
<1>2. completed' \in [Entries -> BOOLEAN]
  BY DEF NextCompleted, LocalityTypeOK, Accepts, Completes
<1>3. dispatched' \in [Entries -> BOOLEAN]
  BY DEF NextDispatchedFlag, LocalityTypeOK, Accepts, Dispatches
<1>4. written' \in [Entries -> BOOLEAN]
  BY DEF NextWritten, LocalityTypeOK, Accepts, WritesBack
<1>5. inst' \in [Entries -> Insts]
  BY DEF NextInst, LocalityTypeOK, Accepts, Requests
<1>6. operands' \in [Entries -> [Operands -> RequestOperands]]
  BY NextOperandType DEF NextOperands
<1>7. result' \in [Entries -> Values]
  <2>1. \A e \in Entries : Completes(writeReady, e) => peResult.out \in Values
    BY DEF Completes, PEInv, PETypeOK, Outcome
  <2> QED
    BY <2>1, ResetAssumption DEF NextResultField, LocalityTypeOK
<1>8. wbCntr' \in Entries
  <2>1. wbCntr \in Nat
    BY EntriesAssumption DEF LocalityTypeOK, Entries
  <2>2. (wbCntr + 1) % NumFPGAEntries \in 0 .. NumFPGAEntries - 1
    BY <2>1, EntriesAssumption
  <2> QED
    BY <2>2 DEF NextWbCntr, LocalityTypeOK, Entries
<1>9. infetch' \subseteq Cachelines
  <2>1. FetchValid => CachelineOf(FetchAddress(writeReady)) \in Cachelines
    BY FetchAddressType, TagHasCacheline
  <2> QED
    BY <2>1 DEF NextInfetch, LocalityTypeOK
<1>10. PEInv'
  BY PERequestType, PEInvStep
<1> QED
  BY <1>1, <1>2, <1>3, <1>4, <1>5, <1>6, <1>7, <1>8, <1>9, <1>10
  DEF LocalityTypeOK, PEInv

-----------------------------------------------------------------------------
(* The life of an entry.                                                   *)

\* What the element holds was dispatched and is not completed, and no entry is
\* in two of its stages.
StagesMatch ==
  \A e \in Entries : /\ HeldInPE(e) => dispatched[e] /\ ~completed[e]
                     /\ HeldOnce(e)

\* The inductive invariant of the core alone.
CoreInv ==
  /\ LocalityTypeOK
  /\ PEInv
  /\ EntryLifeCycle
  /\ StagesMatch

LEMMA CoreInvInit == LocalityInit => CoreInv /\ DispatchedIsHeld
<1> SUFFICES ASSUME LocalityInit PROVE CoreInv /\ DispatchedIsHeld
  OBVIOUS
<1>1. LocalityTypeOK /\ PEInv
  BY LocalityTypeInit, PEInvInit DEF LocalityInit
<1>2. EntryLifeCycle
  BY DEF LocalityInit, EntryLifeCycle
<1>3. \A e \in Entries : ~HeldInPE(e) /\ HeldOnce(e) /\ ~dispatched[e]
  BY DEF LocalityInit, PEInit, HeldInPE, HeldBy, HeldOnce
<1> QED
  BY <1>1, <1>2, <1>3 DEF CoreInv, StagesMatch, DispatchedIsHeld

\* A request is accepted only for an entry that has finished its life: none of
\* its operands waits, the element does not hold it, and it is not written back
\* in the same clock.
LEMMA AcceptedIsIdle ==
  ASSUME CoreInv, NEW request, NEW e \in Entries, Accepts(request, e),
         NEW writeReady
  PROVE  /\ ~HeldInPE(e)
         /\ ~Completes(writeReady, e)
         /\ e \notin WaitingForDispatch
         /\ ~(WritesBack(writeReady) /\ e = wbCntr)
<1>1. written[e] \/ ~valid[e]
  BY DEF Accepts, RequestReady
<1>2. completed[e] \/ ~dispatched[e]
  BY <1>1 DEF CoreInv, EntryLifeCycle
<1>3. ~HeldInPE(e)
  BY <1>2 DEF CoreInv, StagesMatch
<1>4. ~Completes(writeReady, e)
  BY <1>3 DEF Completes, HeldInPE, HeldBy
<1>5. e \notin WaitingForDispatch
  BY <1>1 DEF CoreInv, EntryLifeCycle, WaitingForDispatch
<1>6. ~(WritesBack(writeReady) /\ e = wbCntr)
  BY <1>1 DEF CoreInv, EntryLifeCycle, WritesBack, WriteValid
<1> QED
  BY <1>3, <1>4, <1>5, <1>6

\* An entry that completes is held by the element in its last stage only.
LEMMA CompletingIsHeld ==
  ASSUME CoreInv, NEW writeReady, NEW e \in Entries, Completes(writeReady, e)
  PROVE  /\ HeldBy(peResult, e) /\ ~HeldBy(peInit, e) /\ ~HeldBy(peExec, e)
         /\ dispatched[e] /\ ~completed[e]
  BY DEF Completes, CoreInv, StagesMatch, HeldInPE, HeldOnce, HeldBy

\* An entry that is dispatched waits, and is not in the element yet.
LEMMA DispatchedWaits ==
  ASSUME CoreInv, NEW writeReady, NEW e \in Entries, Dispatches(writeReady, e)
  PROVE  /\ e \in WaitingForDispatch
         /\ ~dispatched[e] /\ ~completed[e] /\ ~HeldInPE(e)
<1>1. e \in WaitingForDispatch
  BY DispatchEntryWaits DEF Dispatches
<1> QED
  BY <1>1 DEF WaitingForDispatch, CoreInv, EntryLifeCycle, StagesMatch

\* The operation offered to the element carries the index of the entry that is
\* dispatched.
LEMMA RequestIsDispatch ==
  ASSUME LocalityTypeOK, NEW writeReady, NEW e \in Entries
  PROVE  Dispatches(writeReady, e)
           <=> /\ PERequest(writeReady) # None
               /\ PERequestReady
               /\ PERequest(writeReady).idx = e
<1>1. CASE HasChosen(WaitingForDispatch) /\ PERequestReady
  <2>1. PERequest(writeReady) # None
    <3> DEFINE c == DispatchEntry(writeReady)
               op == [idx |-> c, inst |-> inst[c],
                      args |-> [o \in Operands |-> operands[c][o].value]]
    <3>1. PERequest(writeReady) = op
      BY <1>1 DEF PERequest
    <3>2. op \in Operation
      <4>1. c \in Entries /\ OperandsValid(c)
        BY <1>1, DispatchEntryWaits DEF WaitingForDispatch
      <4>2. inst[c] \in Insts
        BY <4>1 DEF LocalityTypeOK
      <4>3. \A o \in Operands : operands[c][o].value \in Values
        BY <4>1, ModeZeroIsValue DEF LocalityTypeOK, OperandsValid
      <4> QED
        BY <4>1, <4>2, <4>3 DEF Operation, Arguments
    <3> QED
      BY <3>1, <3>2, NoneAssumption
  <2>2. PERequest(writeReady).idx = DispatchEntry(writeReady)
    BY <1>1 DEF PERequest
  <2> QED
    BY <1>1, <2>1, <2>2 DEF Dispatches
<1>2. CASE ~(HasChosen(WaitingForDispatch) /\ PERequestReady)
  BY <1>2 DEF PERequest, Dispatches
<1> QED
  BY <1>1, <1>2

LEMMA EntryLifeCycleStep ==
  ASSUME CoreInv, NEW request \in Requests \cup {None},
         NEW writeReady \in BOOLEAN, NEW response \in Responses \cup {None},
         LocalityClock(request, writeReady, response)
  PROVE  EntryLifeCycle'
<1> SUFFICES ASSUME NEW e \in Entries
             PROVE  /\ written'[e] => completed'[e]
                    /\ completed'[e] => dispatched'[e]
                    /\ dispatched'[e] => valid'[e] /\ OperandsValid(e)'
  BY DEF EntryLifeCycle
<1>1. written'[e] => completed'[e]
  <2>1. written'[e] <=> \/ WritesBack(writeReady) /\ e = wbCntr
                        \/ written[e] /\ ~Accepts(request, e)
    BY DEF LocalityClock, NextWritten
  <2>2. completed'[e] <=> \/ Completes(writeReady, e)
                          \/ completed[e] /\ ~Accepts(request, e)
    BY DEF LocalityClock, NextCompleted
  <2>3. WritesBack(writeReady) /\ e = wbCntr => completed[e]
    BY DEF WritesBack, WriteValid
  <2> QED
    BY <2>1, <2>2, <2>3, AcceptedIsIdle DEF CoreInv, EntryLifeCycle
<1>2. completed'[e] => dispatched'[e]
  <2>1. completed'[e] <=> \/ Completes(writeReady, e)
                          \/ completed[e] /\ ~Accepts(request, e)
    BY DEF LocalityClock, NextCompleted
  <2>2. dispatched'[e] <=> /\ ~Accepts(request, e)
                           /\ dispatched[e] \/ Dispatches(writeReady, e)
    BY DEF LocalityClock, NextDispatchedFlag
  <2> QED
    BY <2>1, <2>2, AcceptedIsIdle, CompletingIsHeld DEF CoreInv, EntryLifeCycle
<1>3. dispatched'[e] => valid'[e] /\ OperandsValid(e)'
  <2> SUFFICES ASSUME dispatched'[e] PROVE valid'[e] /\ OperandsValid(e)'
    OBVIOUS
  <2>1. ~Accepts(request, e) /\ (dispatched[e] \/ Dispatches(writeReady, e))
    BY DEF LocalityClock, NextDispatchedFlag
  <2>2. valid[e] /\ OperandsValid(e)
    BY <2>1, DispatchedWaits DEF CoreInv, EntryLifeCycle, WaitingForDispatch
  <2>3. valid'[e]
    BY <2>2 DEF LocalityClock, NextValid
  <2>4. \A o \in Operands : operands'[e][o] = operands[e][o]
    <3> TAKE o \in Operands
    <3>1. operands'[e][o] = NextOperand(request, response, e, o)
      BY DEF LocalityClock, NextOperands
    <3>2. operands[e][o].mode = 0
      BY <2>2 DEF OperandsValid
    <3> QED
      BY <2>1, <3>1, <3>2 DEF NextOperand, Satisfies, Forwards
  <2> QED
    BY <2>2, <2>3, <2>4 DEF OperandsValid
<1> QED
  BY <1>1, <1>2, <1>3

\* How an entry moves through the stages of the element in one clock: where it
\* can come from, and that it leaves no stage without entering the next.
LEMMA StagesMove ==
  ASSUME PEInv, NEW request \in Operation \cup {None},
         NEW resultReady \in BOOLEAN, PEClock(request, resultReady), NEW e
  PROVE  LET enters == request # None /\ PERequestReady /\ request.idx = e
         IN  /\ HeldBy(peInit', e) => enters \/ (HeldBy(peInit, e) /\ ~LoadsExec)
             /\ HeldBy(peExec', e) =>
                  \/ HeldBy(peInit, e) /\ LoadsExec
                  \/ HeldBy(peExec, e) /\ ~HeldBy(peResult', e)
             /\ HeldBy(peResult', e) =>
                  \/ HeldBy(peExec, e)
                  \/ HeldBy(peResult, e) /\ ~resultReady
             /\ enters => HeldBy(peInit', e)
             /\ HeldBy(peInit, e) => HeldBy(peInit', e) \/ HeldBy(peExec', e)
             /\ HeldBy(peExec, e) /\ resultReady =>
                  HeldBy(peExec', e) \/ HeldBy(peResult', e)
<1> DEFINE enters == request # None /\ PERequestReady /\ request.idx = e
<1>1. PICK l \in CoreLatencies :
        /\ peInit' = NextInit(request)
        /\ peExec' = NextExec(l)
        /\ peDispatched' = NextDispatched(l)
        /\ peCore' = NextCore(l)
        /\ peResult' = NextResult(resultReady, l)
  BY DEF PEClock
<1>2. NewResultValid(l) => peExec # None
  BY NewResultHasOperation
<1>3. peExec # None => peResult = None /\ ~LoadsExec
  BY DEF PEInv, LoadsExec
<1>4. peExec # None => ResultOf(peExec) # None /\ ResultOf(peExec).idx = peExec.idx
  <2> SUFFICES ASSUME peExec # None
               PROVE ResultOf(peExec) # None /\ ResultOf(peExec).idx = peExec.idx
    OBVIOUS
  <2>1. ResultOf(peExec) \in Outcome
    BY ResultOfType DEF PEInv, PETypeOK
  <2> QED
    BY <2>1, NoneAssumption DEF ResultOf
<1>5. HeldBy(peInit', e) => enters \/ (HeldBy(peInit, e) /\ ~LoadsExec)
  <2>1. CASE request # None /\ PERequestReady
    BY <1>1, <2>1 DEF NextInit, HeldBy
  <2>2. CASE ~(request # None /\ PERequestReady)
    BY <1>1, <2>2 DEF NextInit, HeldBy
  <2> QED
    BY <2>1, <2>2
<1>6. HeldBy(peExec', e) =>
        \/ HeldBy(peInit, e) /\ LoadsExec
        \/ HeldBy(peExec, e) /\ ~HeldBy(peResult', e)
  <2>1. CASE LoadsExec
    BY <1>1, <2>1 DEF NextExec, HeldBy
  <2>2. CASE ~LoadsExec
    BY <1>1, <1>2, <1>3, <2>2 DEF NextExec, NextResult, HeldBy
  <2> QED
    BY <2>1, <2>2
<1>7. HeldBy(peResult', e) =>
        HeldBy(peExec, e) \/ (HeldBy(peResult, e) /\ ~resultReady)
  <2>1. CASE resultReady
    BY <1>1, <1>2, <1>4, <2>1 DEF NextResult, HeldBy
  <2>2. CASE ~resultReady
    BY <1>1, <2>2 DEF NextResult, HeldBy
  <2> QED
    BY <2>1, <2>2
<1>8. enters => HeldBy(peInit', e)
  BY <1>1 DEF NextInit, HeldBy
<1>9. HeldBy(peInit, e) => HeldBy(peInit', e) \/ HeldBy(peExec', e)
  BY <1>1 DEF NextInit, NextExec, HeldBy, PERequestReady
<1>10. HeldBy(peExec, e) /\ resultReady =>
         HeldBy(peExec', e) \/ HeldBy(peResult', e)
  BY <1>1, <1>3, <1>4 DEF NextExec, NextResult, HeldBy
<1> QED
  BY <1>5, <1>6, <1>7, <1>8, <1>9, <1>10

LEMMA StagesMatchStep ==
  ASSUME CoreInv, NEW request \in Requests \cup {None},
         NEW writeReady \in BOOLEAN, NEW response \in Responses \cup {None},
         LocalityClock(request, writeReady, response)
  PROVE  StagesMatch'
<1> DEFINE op == PERequest(writeReady)
<1>1. PEClock(op, writeReady) /\ op \in Operation \cup {None}
  BY PERequestType DEF LocalityClock, CoreInv
<1> SUFFICES ASSUME NEW e \in Entries
             PROVE  /\ HeldInPE(e)' => dispatched'[e] /\ ~completed'[e]
                    /\ HeldOnce(e)'
  BY DEF StagesMatch
<1> DEFINE enters == op # None /\ PERequestReady /\ op.idx = e
<1>2. /\ HeldBy(peInit', e) => enters \/ (HeldBy(peInit, e) /\ ~LoadsExec)
      /\ HeldBy(peExec', e) =>
           \/ HeldBy(peInit, e) /\ LoadsExec
           \/ HeldBy(peExec, e) /\ ~HeldBy(peResult', e)
      /\ HeldBy(peResult', e) =>
           \/ HeldBy(peExec, e)
           \/ HeldBy(peResult, e) /\ ~writeReady
  <2> HIDE DEF op
  <2> QED
    BY <1>1, StagesMove DEF CoreInv
<1>3. enters <=> Dispatches(writeReady, e)
  BY RequestIsDispatch DEF CoreInv
<1>4. enters => ~HeldInPE(e) /\ e \in WaitingForDispatch
  BY <1>3, DispatchedWaits
<1> HIDE DEF op, enters
<1>5. ~ (HeldBy(peInit, e) /\ HeldBy(peExec, e))
      /\ ~ (HeldBy(peInit, e) /\ HeldBy(peResult, e))
      /\ ~ (HeldBy(peExec, e) /\ HeldBy(peResult, e))
  BY DEF CoreInv, StagesMatch, HeldOnce
<1>6. HeldOnce(e)'
  <2>1. ~ (HeldBy(peInit', e) /\ HeldBy(peExec', e))
    BY <1>2, <1>4, <1>5 DEF HeldInPE
  <2>2. ~ (HeldBy(peInit', e) /\ HeldBy(peResult', e))
    BY <1>2, <1>4, <1>5 DEF HeldInPE
  <2>3. ~ (HeldBy(peExec', e) /\ HeldBy(peResult', e))
    BY <1>2, <1>5 DEF LoadsExec, HeldBy
  <2> QED
    BY <2>1, <2>2, <2>3 DEF HeldOnce, HeldBy
<1>7. HeldInPE(e)' =>
        \/ Dispatches(writeReady, e)
        \/ HeldInPE(e) /\ ~Completes(writeReady, e)
  <2>1. HeldInPE(e)' =>
          \/ enters
          \/ HeldBy(peInit, e)
          \/ HeldBy(peExec, e)
          \/ HeldBy(peResult, e) /\ ~writeReady
    <3>1. HeldInPE(e)' <=> \/ HeldBy(peInit', e) \/ HeldBy(peExec', e)
                           \/ HeldBy(peResult', e)
      BY DEF HeldInPE, HeldBy
    <3> QED
      BY <1>2, <3>1
  <2>2. Completes(writeReady, e) => writeReady /\ HeldBy(peResult, e)
    BY DEF Completes, HeldBy
  <2> QED
    BY <2>1, <2>2, <1>3, <1>5 DEF HeldInPE
<1>8. HeldInPE(e)' => dispatched'[e] /\ ~completed'[e]
  <2> SUFFICES ASSUME HeldInPE(e)' PROVE dispatched'[e] /\ ~completed'[e]
    OBVIOUS
  <2>1. dispatched'[e] <=> /\ ~Accepts(request, e)
                           /\ dispatched[e] \/ Dispatches(writeReady, e)
    BY DEF LocalityClock, NextDispatchedFlag
  <2>2. completed'[e] <=> \/ Completes(writeReady, e)
                          \/ completed[e] /\ ~Accepts(request, e)
    BY DEF LocalityClock, NextCompleted
  <2>3. CASE Dispatches(writeReady, e)
    <3>1. ~Accepts(request, e) /\ ~completed[e] /\ ~Completes(writeReady, e)
      BY <2>3, DispatchedWaits, AcceptedIsIdle, CompletingIsHeld
    <3> QED
      BY <2>1, <2>2, <2>3, <3>1
  <2>4. CASE HeldInPE(e) /\ ~Completes(writeReady, e)
    <3>1. ~Accepts(request, e) /\ dispatched[e] /\ ~completed[e]
      BY <2>4, AcceptedIsIdle DEF CoreInv, StagesMatch
    <3> QED
      BY <2>1, <2>2, <2>4, <3>1
  <2> QED
    BY <1>7, <2>3, <2>4
<1> QED
  BY <1>6, <1>8

\* The invariant of the core is preserved by every clock with a typed input.
LEMMA CoreInvStep ==
  ASSUME CoreInv, NEW request \in Requests \cup {None},
         NEW writeReady \in BOOLEAN, NEW response \in Responses \cup {None},
         LocalityClock(request, writeReady, response)
  PROVE  CoreInv'
<1>1. LocalityTypeOK' /\ PEInv'
  BY LocalityTypeStep DEF CoreInv
<1>2. EntryLifeCycle'
  BY EntryLifeCycleStep
<1>3. StagesMatch'
  BY StagesMatchStep
<1> QED
  BY <1>1, <1>2, <1>3 DEF CoreInv

\* If the shell always takes results, no dispatched entry is forgotten: it stays
\* in the element until it completes.
LEMMA DispatchedIsHeldStep ==
  ASSUME CoreInv, DispatchedIsHeld, NEW request \in Requests \cup {None},
         NEW response \in Responses \cup {None},
         LocalityClock(request, TRUE, response)
  PROVE  DispatchedIsHeld'
<1> DEFINE op == PERequest(TRUE)
<1>1. PEClock(op, TRUE) /\ op \in Operation \cup {None}
  BY PERequestType DEF LocalityClock, CoreInv
<1>2. StagesMatch'
  BY StagesMatchStep
<1> SUFFICES ASSUME NEW e \in Entries, dispatched'[e], ~completed'[e]
             PROVE  HeldInPE(e)'
  BY <1>2 DEF StagesMatch, DispatchedIsHeld
<1> DEFINE enters == op # None /\ PERequestReady /\ op.idx = e
<1>3. /\ enters => HeldBy(peInit', e)
      /\ HeldBy(peInit, e) => HeldBy(peInit', e) \/ HeldBy(peExec', e)
      /\ HeldBy(peExec, e) => HeldBy(peExec', e) \/ HeldBy(peResult', e)
  <2> HIDE DEF op
  <2> QED
    BY <1>1, StagesMove DEF CoreInv
<1>4. enters <=> Dispatches(TRUE, e)
  BY RequestIsDispatch DEF CoreInv
<1>5. ~Accepts(request, e) /\ (dispatched[e] \/ Dispatches(TRUE, e))
  BY DEF LocalityClock, NextDispatchedFlag
<1>6. ~completed[e] /\ ~Completes(TRUE, e)
  BY <1>5 DEF LocalityClock, NextCompleted
<1> HIDE DEF op, enters
<1>7. CASE Dispatches(TRUE, e)
  BY <1>3, <1>4, <1>7 DEF HeldInPE, HeldBy
<1>8. CASE dispatched[e]
  <2>1. HeldInPE(e)
    BY <1>6, <1>8 DEF DispatchedIsHeld
  <2>2. ~HeldBy(peResult, e)
    BY <1>6 DEF Completes, HeldBy
  <2> QED
    BY <1>3, <2>1, <2>2 DEF HeldInPE, HeldBy
<1> QED
  BY <1>5, <1>7, <1>8
=============================================================================

------------------------- MODULE PositSystem_proofs -------------------------
(***************************************************************************)
(* Theorems about the accelerator between host and memory, for every       *)
(* number of entries and operands, every ring and every instruction set.   *)
(***************************************************************************)
EXTENDS PositSystemInv, PositLocality_proofs, SequenceTheorems, FiniteSetTheorems

\* The types and the invariant of the core hold together: the core relies on
\* typed requests and responses, its neighbours on the tags the core issues.
SystemInv == TypeOK /\ CoreInv

-----------------------------------------------------------------------------
(* Lemmas.                                                                 *)

LEMMA RemoveAtType ==
  ASSUME NEW S, NEW seq \in Seq(S), NEW n \in 1 .. Len(seq)
  PROVE  RemoveAt(seq, n) \in Seq(S)
  BY DEF RemoveAt

LEMMA GoalResultType ==
  ASSUME NEW e \in Entries, goal[e] \in Goals
  PROVE  GoalResult(e) \in Values
  BY ApplyAssumption DEF GoalResult, Goals

LEMMA AddressType ==
  ASSUME NEW ptr \in 0 .. RingTurns - 1
  PROVE  /\ Address(ptr) \in Addresses
         /\ IdBit(ptr) \in {0, 1}
         /\ (ptr + 1) % RingTurns \in 0 .. RingTurns - 1
<1> DEFINE n == NumOperandEntries
<1>1. n \in Nat \ {0}
  BY RingAssumption
<1>2. ptr \in Nat /\ RingTurns \in Nat \ {0}
  BY <1>1 DEF RingTurns
<1>3. ptr % n \in 0 .. n - 1
  BY <1>1, <1>2
<1>4. ptr \div n \in Int
  BY <1>1, <1>2
<1>5. (ptr \div n) % 2 \in {0, 1}
  BY <1>4
<1>6. (ptr + 1) % RingTurns \in 0 .. RingTurns - 1
  BY <1>2
<1> QED
  BY <1>3, <1>5, <1>6 DEF Address, Addresses, IdBit

\* The core does not change while only the host or the fabric moves.
LEMMA CoreInvStutter ==
  ASSUME UNCHANGED localityVars
  PROVE  /\ CoreInv => CoreInv'
         /\ DispatchedIsHeld => DispatchedIsHeld'
<1> USE DEF localityVars, rbVars, peVars
<1>1. CoreInv => CoreInv'
  BY DEF CoreInv, LocalityTypeOK, PEInv, PETypeOK, CoreStarts, EntryLifeCycle,
         OperandsValid, StagesMatch, HeldInPE, HeldBy, HeldOnce
<1>2. DispatchedIsHeld => DispatchedIsHeld'
  BY DEF DispatchedIsHeld, HeldInPE, HeldBy, HeldOnce
<1> QED
  BY <1>1, <1>2

\* What reaches the core on a clock is typed.
LEMMA InputsTyped ==
  ASSUME TypeOK, NEW request \in ArrivingRequests,
         NEW response \in responses \cup {None}
  PROVE  /\ request \in Requests \cup {None}
         /\ response \in Responses \cup {None}
<1>1. csr # <<>> => Head(csr) \in Requests
  BY HeadTailProperties DEF TypeOK
<1>2. \A r \in responses : r \in Responses
  BY DEF TypeOK, Responses
<1> QED
  BY <1>1, <1>2 DEF ArrivingRequests

-----------------------------------------------------------------------------
(* The invariant.                                                          *)

LEMMA SystemInvInit == Init => SystemInv /\ DispatchedIsHeld
<1> SUFFICES ASSUME Init PROVE SystemInv /\ DispatchedIsHeld
  OBVIOUS
<1>1. CoreInv /\ DispatchedIsHeld
  BY CoreInvInit DEF Init
<1>2. 0 \in Entries /\ 0 \in 0 .. RingTurns - 1 /\ 0 <= NumOperand
  BY EntriesAssumption, RingAssumption, OperandAssumption DEF Entries, RingTurns
<1>3. [val |-> Zero, id |-> 0, v |-> 0] \in Cells
  BY ResetAssumption DEF Cells
<1>4. TypeOK
  BY <1>1, <1>2, <1>3, EmptySeq DEF TypeOK, Init, CoreInv
<1> QED
  BY <1>1, <1>4 DEF SystemInv

LEMMA PutOperandType ==
  ASSUME TypeOK, LocalityTypeOK', NEW v \in Values, PutOperand(v)
  PROVE  TypeOK'
<1> USE DEF PutOperand, fabricVars, TypeOK
<1>1. Address(ringPtr) \in Addresses /\ IdBit(ringPtr) \in {0, 1}
      /\ ringPtr' \in 0 .. RingTurns - 1
  BY AddressType
<1>2. ring' \in [Addresses -> Cells]
  BY <1>1 DEF Cells
<1>3. building' \in Seq(Meant) /\ Len(building') <= NumOperand
  <2> DEFINE given == [operand |-> [mode |-> 2 + IdBit(ringPtr),
                                    value |-> Address(ringPtr)],
                       value |-> v]
  <2>1. given \in Meant
    BY <1>1 DEF Meant, RequestOperands, Memory
  <2>2. building' = Append(building, given) /\ Len(building) < NumOperand
    BY DEF OperandDue
  <2> HIDE DEF given
  <2> QED
    BY <2>1, <2>2, AppendProperties, LenProperties, OperandAssumption
<1> QED
  BY <1>1, <1>2, <1>3

LEMMA NameEntryType ==
  ASSUME TypeOK, LocalityTypeOK', NEW k \in Entries, NameEntry(k)
  PROVE  TypeOK'
<1> USE DEF NameEntry, fabricVars, memVars, TypeOK
<1>1. GoalResult(k) \in Values
  BY GoalResultType
<1>2. building' \in Seq(Meant) /\ Len(building') <= NumOperand
  <2> DEFINE given == [operand |-> [mode |-> 1, value |-> k],
                       value |-> GoalResult(k)]
  <2>1. given \in Meant
    BY <1>1 DEF Meant, RequestOperands, Reference
  <2>2. building' = Append(building, given) /\ Len(building) < NumOperand
    BY DEF OperandDue
  <2> HIDE DEF given
  <2> QED
    BY <2>1, <2>2, AppendProperties, LenProperties, OperandAssumption
<1> QED
  BY <1>2

LEMMA SubmitType ==
  ASSUME TypeOK, LocalityTypeOK', NEW i \in Insts, Submit(i)
  PROVE  TypeOK'
<1> USE DEF Submit, TypeOK
<1> DEFINE given(o) == o < Len(building)
           ops == [o \in Operands |->
                     IF given(o) THEN building[o + 1].operand ELSE ZeroOperand]
           args == [o \in Operands |->
                      IF given(o) THEN building[o + 1].value ELSE Zero]
           req == [wr_addr |-> slot, inst |-> i, operands |-> ops]
<1>1. \A o \in Operands : given(o) => building[o + 1] \in Meant
  <2> TAKE o \in Operands
  <2> HAVE given(o)
  <2>1. o + 1 \in 1 .. Len(building)
    BY LenProperties, OperandAssumption DEF Operands
  <2> QED
    BY <2>1, ElementOfSeq
<1>2. ZeroOperand \in RequestOperands /\ Zero \in Values
  BY ResetAssumption DEF ZeroOperand, RequestOperands, Immediate
<1>3. ops \in [Operands -> RequestOperands]
  <2>1. \A o \in Operands :
          (IF given(o) THEN building[o + 1].operand ELSE ZeroOperand)
            \in RequestOperands
    BY <1>1, <1>2 DEF Meant
  <2> HIDE DEF given
  <2> QED
    BY <2>1
<1>4. args \in Arguments
  <2>1. \A o \in Operands :
          (IF given(o) THEN building[o + 1].value ELSE Zero) \in Values
    BY <1>1, <1>2 DEF Meant
  <2> HIDE DEF given
  <2> QED
    BY <2>1 DEF Arguments
<1>5. csr' = Append(csr, req) /\ goal' = [goal EXCEPT ![slot] = [inst |-> i, args |-> args]]
  OBVIOUS
<1> HIDE DEF ops, args
<1>6. csr' \in Seq(Requests)
  <2>1. req \in Requests
    BY <1>3 DEF Requests
  <2> HIDE DEF req
  <2> QED
    BY <2>1, <1>5, AppendProperties
<1>7. goal' \in [Entries -> Goals \cup {None}]
  <2>1. [inst |-> i, args |-> args] \in Goals
    BY <1>4 DEF Goals
  <2> QED
    BY <2>1, <1>5
<1>8. slot' \in Entries
  <2>1. slot \in Nat
    BY EntriesAssumption DEF Entries
  <2>2. (slot + 1) % NumFPGAEntries \in 0 .. NumFPGAEntries - 1
    BY <2>1, EntriesAssumption
  <2> QED
    BY <2>2 DEF Entries
<1>9. building' \in Seq(Meant) /\ Len(building') <= NumOperand
  BY EmptySeq, OperandAssumption
<1>10. shown' \in [Entries -> Values \cup {None}]
  OBVIOUS
<1> QED
  BY <1>6, <1>7, <1>8, <1>9, <1>10

LEMMA SampleType ==
  ASSUME TypeOK, LocalityTypeOK', NEW t \in Tags, Sample(t)
  PROVE  TypeOK'
<1> USE DEF Sample, hostVars, memVars, TypeOK
<1>1. Response(t, ring) \in ResponsesFor(t)
  <2>1. \A a \in AddressesIn(CachelineOfTag(t)) : ring[a] \in Cells
    BY DEF AddressesIn
  <2> QED
    BY <2>1 DEF Response, ResponsesFor
<1>2. \A r \in responses' : \E u \in Tags : r \in ResponsesFor(u)
  BY <1>1
<1> QED
  BY <1>2

LEMMA DeliverWriteType ==
  ASSUME TypeOK, LocalityTypeOK', NEW e \in Entries, DeliverWrite(e)
  PROVE  TypeOK'
<1> USE DEF DeliverWrite, hostVars, TypeOK
<1>1. PICK n \in 1 .. Len(writes[e]) :
        /\ shown' = [shown EXCEPT ![e] = writes[e][n]]
        /\ writes' = [writes EXCEPT ![e] = RemoveAt(writes[e], n)]
  OBVIOUS
<1>2. writes[e] \in Seq(Values)
  OBVIOUS
<1>3. writes[e][n] \in Values
  BY <1>2, ElementOfSeq
<1>4. RemoveAt(writes[e], n) \in Seq(Values)
  BY <1>2, RemoveAtType
<1> QED
  BY <1>1, <1>3, <1>4

LEMMA ClockType ==
  ASSUME TypeOK, LocalityTypeOK', NEW request \in ArrivingRequests,
         NEW response \in responses \cup {None}, Clock(request, response)
  PROVE  TypeOK'
<1> USE DEF TypeOK, hostVars, memVars
<1>1. PICK writeReady \in ReadyLevels :
        /\ csr' = IF request = None THEN csr ELSE Tail(csr)
        /\ reads' = IF FetchValid THEN reads \cup {FetchTag(writeReady)} ELSE reads
        /\ responses' = responses \ {response}
        /\ writes' = IF WriteValid
                     THEN [writes EXCEPT ![wbCntr] = Append(@, result[wbCntr])]
                     ELSE writes
        /\ UNCHANGED <<hostVars, memVars>>
  BY DEF Clock
<1>2. csr' \in Seq(Requests)
  <2>1. request # None => csr # <<>>
    BY DEF ArrivingRequests
  <2> QED
    BY <1>1, <2>1, HeadTailProperties
<1>3. reads' \subseteq Tags
  BY <1>1, FetchAddressType
<1>4. writes' \in [Entries -> Seq(Values)]
  <2>1. wbCntr \in Entries /\ result[wbCntr] \in Values
    BY DEF LocalityTypeOK
  <2>2. Append(writes[wbCntr], result[wbCntr]) \in Seq(Values)
    BY <2>1, AppendProperties
  <2> QED
    BY <1>1, <2>1, <2>2
<1> QED
  BY <1>1, <1>2, <1>3, <1>4

LEMMA SystemInvStep ==
  ASSUME SystemInv, [Next]_vars
  PROVE  SystemInv' /\ (~Backpressure /\ DispatchedIsHeld => DispatchedIsHeld')
<1>1. CASE Tick
  <2>1. PICK request \in ArrivingRequests, response \in responses \cup {None} :
          Clock(request, response)
    BY <1>1 DEF Tick
  <2>2. PICK writeReady \in ReadyLevels :
          LocalityClock(request, writeReady, response)
    BY <2>1 DEF Clock
  <2>3. /\ request \in Requests \cup {None}
        /\ response \in Responses \cup {None}
        /\ writeReady \in BOOLEAN
        /\ ~Backpressure => writeReady = TRUE
    BY InputsTyped DEF SystemInv, ReadyLevels
  <2>4. CoreInv'
    BY <2>2, <2>3, CoreInvStep DEF SystemInv
  <2>5. TypeOK'
    BY <2>1, <2>4, ClockType DEF SystemInv, CoreInv
  <2>6. ~Backpressure /\ DispatchedIsHeld => DispatchedIsHeld'
    BY <2>2, <2>3, DispatchedIsHeldStep DEF SystemInv
  <2> QED
    BY <2>4, <2>5, <2>6 DEF SystemInv
<1>2. ASSUME UNCHANGED localityVars,
             CoreInv' => TypeOK'
      PROVE  SystemInv' /\ (~Backpressure /\ DispatchedIsHeld => DispatchedIsHeld')
  BY <1>2, CoreInvStutter DEF SystemInv
<1>3. ASSUME NEW v \in Values, PutOperand(v)
      PROVE  SystemInv' /\ (~Backpressure /\ DispatchedIsHeld => DispatchedIsHeld')
  <2>1. UNCHANGED localityVars
    BY <1>3 DEF PutOperand
  <2>2. CoreInv' => TypeOK'
    BY <1>3, PutOperandType DEF SystemInv, CoreInv
  <2> QED
    BY <2>1, <2>2, <1>2
<1>4. ASSUME NEW k \in Entries, NameEntry(k)
      PROVE  SystemInv' /\ (~Backpressure /\ DispatchedIsHeld => DispatchedIsHeld')
  <2>1. UNCHANGED localityVars
    BY <1>4 DEF NameEntry
  <2>2. CoreInv' => TypeOK'
    BY <1>4, NameEntryType DEF SystemInv, CoreInv
  <2> QED
    BY <2>1, <2>2, <1>2
<1>5. ASSUME NEW i \in Insts, Submit(i)
      PROVE  SystemInv' /\ (~Backpressure /\ DispatchedIsHeld => DispatchedIsHeld')
  <2>1. UNCHANGED localityVars
    BY <1>5 DEF Submit
  <2>2. CoreInv' => TypeOK'
    BY <1>5, SubmitType DEF SystemInv, CoreInv
  <2> QED
    BY <2>1, <2>2, <1>2
<1>6. ASSUME NEW t \in Tags, Sample(t)
      PROVE  SystemInv' /\ (~Backpressure /\ DispatchedIsHeld => DispatchedIsHeld')
  <2>1. UNCHANGED localityVars
    BY <1>6 DEF Sample
  <2>2. CoreInv' => TypeOK'
    BY <1>6, SampleType DEF SystemInv, CoreInv
  <2> QED
    BY <2>1, <2>2, <1>2
<1>7. ASSUME NEW e \in Entries, DeliverWrite(e)
      PROVE  SystemInv' /\ (~Backpressure /\ DispatchedIsHeld => DispatchedIsHeld')
  <2>1. UNCHANGED localityVars
    BY <1>7 DEF DeliverWrite
  <2>2. CoreInv' => TypeOK'
    BY <1>7, DeliverWriteType DEF SystemInv, CoreInv
  <2> QED
    BY <2>1, <2>2, <1>2
<1>8. CASE UNCHANGED vars
  <2>1. UNCHANGED localityVars
    BY <1>8 DEF vars
  <2>2. CoreInv' => TypeOK'
    BY <1>8 DEF vars, hostVars, memVars, fabricVars, SystemInv, TypeOK, CoreInv
  <2> QED
    BY <2>1, <2>2, <1>2
<1> QED
  BY <1>1, <1>3, <1>4, <1>5, <1>6, <1>7, <1>8 DEF Next, HostStep

LEMMA SystemInvariant == Spec => []SystemInv
<1>1. SystemInv /\ [Next]_vars => SystemInv'
  BY SystemInvStep
<1> QED
  BY SystemInvInit, <1>1, PTL DEF Spec

\* The types of the whole system: in particular the write-back counter stays an
\* entry, a tag that comes back is one that the core can have issued, and an
\* operand that is forwarded or fetched is replaced by a value.
THEOREM SystemTypeCorrect == Spec => []TypeOK
<1>1. SystemInv => TypeOK
  BY DEF SystemInv
<1> QED
  BY SystemInvariant, <1>1, PTL

\* Every entry runs through its life in order, whatever arrives when, also under
\* back-pressure (POSIT_Locality.scala L25-39, L43-57, L84-111).
THEOREM EntriesLiveInOrder == Spec => []EntryLifeCycle
<1>1. SystemInv => EntryLifeCycle
  BY DEF SystemInv, CoreInv
<1> QED
  BY SystemInvariant, <1>1, PTL

\* As long as the shell takes results, the processing element holds exactly the
\* entries that are dispatched and not completed (POSIT_Locality.scala L84-111).
THEOREM DispatchedAreHeld ==
  ASSUME Backpressure = FALSE
  PROVE  Spec => []DispatchedIsHeld
<1>1. SystemInv /\ DispatchedIsHeld /\ [Next]_vars => DispatchedIsHeld'
  BY SystemInvStep
<1> QED
  BY SystemInvInit, SystemInvariant, <1>1, PTL DEF Spec

\* Both arbiters grant the first requester in rotation, for every number of
\* entries and operands (DispatchArbiter.scala, POSIT_Locality.scala L59-82,
\* L172-174).
THEOREM GrantsAreInRotation == Spec => []GrantsInRotation
<1>1. ASSUME NEW writeReady \in BOOLEAN, HasChosen(WaitingForDispatch)
      PROVE  FirstInRotation(DispatchEntry(writeReady), WaitingForDispatch,
                             Priority(writeReady))
  <2>1. WaitingForDispatch \in SUBSET Positions(NumFPGAEntries)
    BY DEF WaitingForDispatch, Positions, Entries
  <2> QED
    BY <1>1, <2>1, PriorityIsInt, ChosenIsFirst, EntriesAssumption DEF DispatchEntry
<1>2. ASSUME NEW writeReady \in BOOLEAN, FetchValid
      PROVE  FirstInRotation(FetchPosition(FetchSlot(writeReady)),
                             {FetchPosition(s) : s \in WaitingToBeFetched},
                             Priority(writeReady))
  <2> DEFINE asked == {FetchPosition(s) : s \in WaitingToBeFetched}
             width == NumFPGAEntries * NumOperand
             granted == Chosen(asked, Priority(writeReady), width)
  <2>1. asked \in SUBSET Positions(width)
    BY FetchPositionFits DEF WaitingToBeFetched
  <2>2. HasChosen(asked)
    BY <1>2 DEF FetchValid, HasChosen
  <2>3. width \in Nat \ {0}
    BY EntriesAssumption, OperandAssumption
  <2>4. FirstInRotation(granted, asked, Priority(writeReady))
    <3> HIDE DEF asked, width
    <3> QED
      BY <2>1, <2>2, <2>3, PriorityIsInt, ChosenIsFirst
  <2>5. granted \in asked
    BY <2>4 DEF FirstInRotation
  <2>6. FetchPosition(FetchSlot(writeReady)) = granted
    BY <2>5 DEF FetchSlot
  <2> QED
    BY <2>4, <2>6
<1>3. GrantsInRotation
  BY <1>1, <1>2 DEF GrantsInRotation
<1> QED
  BY <1>3, PTL

-----------------------------------------------------------------------------
(* Where the request of a slot is.                                         *)

\* A clock with a request, a response, or neither, while results are taken.
ClockEffect(request, response) ==
  /\ request \in ArrivingRequests /\ response \in responses \cup {None}
  /\ LocalityClock(request, TRUE, response)
  /\ csr' = IF request = None THEN csr ELSE Tail(csr)
  /\ reads' = IF FetchValid THEN reads \cup {FetchTag(TRUE)} ELSE reads
  /\ responses' = responses \ {response}
  /\ writes' = IF WriteValid
               THEN [writes EXCEPT ![wbCntr] = Append(@, result[wbCntr])]
               ELSE writes
  /\ UNCHANGED <<slot, ringPtr, building, goal, ring, shown>>

LEMMA ClockHasEffect ==
  ASSUME Backpressure = FALSE, Tick
  PROVE  \E request, response : ClockEffect(request, response)
<1>1. PICK request \in ArrivingRequests, response \in responses \cup {None} :
        Clock(request, response)
  BY DEF Tick
<1>2. ClockEffect(request, response)
  BY <1>1 DEF Clock, ReadyLevels, hostVars, memVars, ClockEffect
<1> QED
  BY <1>2

\* The request that arrives in a clock is the oldest one.
LEMMA CsrMoves ==
  ASSUME TypeOK, NEW request, NEW response, ClockEffect(request, response)
  PROVE  /\ request = None => csr' = csr
         /\ request # None =>
              /\ 1 \in 1 .. Len(csr) /\ request = csr[1] /\ request \in Requests
              /\ Len(csr') = Len(csr) - 1
              /\ \A n \in 1 .. Len(csr') : n + 1 \in 1 .. Len(csr) /\ csr'[n] = csr[n+1]
         /\ Len(csr) \in Nat /\ Len(csr') \in Nat
<1>1. csr \in Seq(Requests) /\ Len(csr) \in Nat
  BY LenProperties DEF TypeOK
<1>2. CASE request = None
  BY <1>1, <1>2 DEF ClockEffect
<1>3. CASE request # None
  <2>1. csr # <<>> /\ request = Head(csr) /\ csr' = Tail(csr)
    BY <1>3 DEF ClockEffect, ArrivingRequests
  <2>2. /\ Head(csr) \in Requests /\ Tail(csr) \in Seq(Requests)
        /\ Len(Tail(csr)) = Len(csr) - 1
        /\ \A n \in 1 .. Len(Tail(csr)) : Tail(csr)[n] = csr[n+1]
    BY <1>1, <2>1, HeadTailProperties
  <2>3. Len(csr') = Len(csr) - 1 /\ Len(csr') \in Nat
    BY <2>1, <2>2, LenProperties
  <2>4. Head(csr) = csr[1]
    BY <1>1, <2>1
  <2>5. \A n \in 1 .. Len(csr') : n + 1 \in 1 .. Len(csr) /\ csr'[n] = csr[n+1]
    BY <1>1, <2>1, <2>2, <2>3
  <2>6. 1 \in 1 .. Len(csr)
    BY <1>1, <2>3
  <2> QED
    BY <1>1, <1>3, <2>1, <2>2, <2>3, <2>4, <2>5, <2>6
<1> QED
  BY <1>2, <1>3

\* Arrives(e): the request that arrives is for slot e.
Arrives(request, e) == request # None /\ request.wr_addr = e

LEMMA ArrivingIsInCsr ==
  ASSUME TypeOK, PlacesInv, NEW request, NEW response, ClockEffect(request, response)
  PROVE  \A e \in Entries :
           /\ Arrives(request, e) => InCsr(e)
           /\ InCsr(e)' <=> InCsr(e) /\ ~Arrives(request, e)
<1> SUFFICES ASSUME NEW e \in Entries
             PROVE  /\ Arrives(request, e) => InCsr(e)
                    /\ InCsr(e)' <=> InCsr(e) /\ ~Arrives(request, e)
  OBVIOUS
<1>1. CASE request = None
  BY <1>1, CsrMoves DEF InCsr, Arrives
<1>2. CASE request # None
  <2>1. /\ 1 \in 1 .. Len(csr) /\ request = csr[1]
        /\ Len(csr') = Len(csr) - 1 /\ Len(csr) \in Nat
        /\ \A n \in 1 .. Len(csr') : n + 1 \in 1 .. Len(csr) /\ csr'[n] = csr[n+1]
    BY <1>2, CsrMoves
  <2>2. Arrives(request, e) => InCsr(e)
    BY <1>2, <2>1 DEF Arrives, InCsr
  <2>3. ASSUME InCsr(e)' PROVE InCsr(e) /\ ~Arrives(request, e)
    <3>1. PICK n \in 1 .. Len(csr') : csr'[n].wr_addr = e
      BY <2>3 DEF InCsr
    <3>2. n + 1 \in 1 .. Len(csr) /\ csr[n+1].wr_addr = e /\ n + 1 # 1
      BY <2>1, <3>1
    <3>3. InCsr(e)
      BY <3>2 DEF InCsr
    <3>4. csr[1].wr_addr # e
      BY <2>1, <3>2 DEF PlacesInv
    <3> QED
      BY <2>1, <3>3, <3>4 DEF Arrives
  <2>4. ASSUME InCsr(e), ~Arrives(request, e) PROVE InCsr(e)'
    <3>1. PICK n \in 1 .. Len(csr) : csr[n].wr_addr = e
      BY <2>4 DEF InCsr
    <3>2. n # 1
      BY <1>2, <2>1, <2>4, <3>1 DEF Arrives
    <3>3. n - 1 \in 1 .. Len(csr') /\ csr'[n-1] = csr[n]
      BY <2>1, <3>2
    <3> QED
      BY <3>1, <3>3 DEF InCsr
  <2> QED
    BY <2>2, <2>3, <2>4
<1> QED
  BY <1>1, <1>2

LEMMA ArrivingIsAccepted ==
  ASSUME TypeOK, PlacesInv, NEW request, NEW response, ClockEffect(request, response),
         NEW e \in Entries
  PROVE  Accepts(request, e) <=> Arrives(request, e)
<1>1. Arrives(request, e) => RequestReady(e)
  BY ArrivingIsInCsr DEF PlacesInv
<1> QED
  BY <1>1 DEF Accepts, Arrives

\* A free entry has no operand that waits.
LEMMA ReadyIsIdle ==
  ASSUME CoreInv, PlacesInv, NEW e \in Entries, RequestReady(e)
  PROVE  OperandsValid(e) /\ ~HeldInPE(e) /\ (completed[e] <=> valid[e])
  BY DEF RequestReady, PlacesInv, CoreInv, EntryLifeCycle, StagesMatch

\* What a clock does to an entry whose request arrives, and to any other.
LEMMA ArrivedEntry ==
  ASSUME SystemInv, PlacesInv, NEW request, NEW response, ClockEffect(request, response),
         NEW e \in Entries, Arrives(request, e)
  PROVE  /\ valid'[e] /\ ~completed'[e] /\ ~written'[e] /\ ~dispatched'[e]
         /\ inst'[e] = request.inst
         /\ \A o \in Operands : operands'[e][o] = request.operands[o]
         /\ ~(WriteValid /\ wbCntr = e)
<1>1. Accepts(request, e)
  BY ArrivingIsAccepted DEF SystemInv
<1>2. /\ ~Completes(TRUE, e) /\ ~(WritesBack(TRUE) /\ e = wbCntr)
  BY <1>1, AcceptedIsIdle DEF SystemInv
<1>3. OperandsValid(e)
  BY <1>1, ReadyIsIdle DEF SystemInv, Accepts
<1>4. /\ valid'[e] /\ ~completed'[e] /\ ~written'[e] /\ ~dispatched'[e]
      /\ inst'[e] = request.inst
  BY <1>1, <1>2 DEF ClockEffect, LocalityClock, NextValid, NextCompleted, NextWritten,
                    NextDispatchedFlag, NextInst
<1>5. \A o \in Operands : operands'[e][o] = NextOperand(request, response, e, o)
  BY DEF ClockEffect, LocalityClock, NextOperands
<1>6. \A o \in Operands : NextOperand(request, response, e, o) = request.operands[o]
  BY <1>1, <1>3 DEF NextOperand, Satisfies, Forwards, OperandsValid
<1> QED
  BY <1>2, <1>4, <1>5, <1>6 DEF WritesBack

LEMMA OtherEntry ==
  ASSUME SystemInv, PlacesInv, NEW request, NEW response, ClockEffect(request, response),
         NEW e \in Entries, ~Arrives(request, e)
  PROVE  /\ valid'[e] = valid[e] /\ inst'[e] = inst[e]
         /\ completed'[e] <=> completed[e] \/ Completes(TRUE, e)
         /\ written'[e] <=> written[e] \/ (WriteValid /\ e = wbCntr)
         /\ \A o \in Operands :
              operands'[e][o] =
                LET op == operands[e][o]
                IN  IF Satisfies(response, op)
                    THEN [mode |-> 0, value |-> response.data[op.value].val]
                    ELSE IF Forwards(op) THEN [mode |-> 0, value |-> result[op.value]]
                    ELSE op
         /\ result'[e] = IF Completes(TRUE, e) THEN peResult.out ELSE result[e]
<1>1. ~Accepts(request, e)
  BY ArrivingIsAccepted DEF SystemInv
<1>2. /\ valid'[e] = valid[e] /\ inst'[e] = inst[e]
      /\ completed'[e] <=> completed[e] \/ Completes(TRUE, e)
      /\ written'[e] <=> written[e] \/ (WriteValid /\ e = wbCntr)
  BY <1>1 DEF ClockEffect, LocalityClock, NextValid, NextCompleted, NextWritten, NextInst,
              WritesBack, SystemInv, TypeOK, LocalityTypeOK
<1>3. \A o \in Operands :
        operands'[e][o] =
          LET op == operands[e][o]
          IN  IF Satisfies(response, op)
              THEN [mode |-> 0, value |-> response.data[op.value].val]
              ELSE IF Forwards(op) THEN [mode |-> 0, value |-> result[op.value]]
              ELSE op
  BY <1>1 DEF ClockEffect, LocalityClock, NextOperands, NextOperand
<1>4. result'[e] = IF Completes(TRUE, e) THEN peResult.out ELSE result[e]
  BY <1>1 DEF ClockEffect, LocalityClock, NextResultField
<1> QED
  BY <1>2, <1>3, <1>4


\* Requests for one slot never overtake one another.
LEMMA CsrStaysUnique ==
  ASSUME TypeOK, PlacesInv, NEW request, NEW response, ClockEffect(request, response)
  PROVE  \A m, n \in 1 .. Len(csr') : csr'[m].wr_addr = csr'[n].wr_addr => m = n
<1>1. CASE request = None
  BY <1>1, CsrMoves DEF PlacesInv
<1>2. CASE request # None
  <2> SUFFICES ASSUME NEW m \in 1 .. Len(csr'), NEW n \in 1 .. Len(csr'),
                      csr'[m].wr_addr = csr'[n].wr_addr
               PROVE  m = n
    OBVIOUS
  <2>1. /\ m + 1 \in 1 .. Len(csr) /\ csr'[m] = csr[m+1]
        /\ n + 1 \in 1 .. Len(csr) /\ csr'[n] = csr[n+1]
    BY <1>2, CsrMoves
  <2>2. m + 1 = n + 1
    BY <2>1 DEF PlacesInv
  <2> QED
    BY <2>2
<1> QED
  BY <1>1, <1>2

\* A result on its way back was written by its entry, which is free from then on.
LEMMA WritesMove ==
  ASSUME SystemInv, NEW request, NEW response, ClockEffect(request, response),
         NEW e \in Entries
  PROVE  writes'[e] = IF WriteValid /\ wbCntr = e THEN Append(writes[e], result[e])
                                                 ELSE writes[e]
  BY DEF ClockEffect, SystemInv, TypeOK

LEMMA WritingIsNotReady ==
  ASSUME CoreInv, WriteValid
  PROVE  ~RequestReady(wbCntr) /\ completed[wbCntr]
<1>1. wbCntr \in Entries
  BY DEF CoreInv, LocalityTypeOK
<1> QED
  BY <1>1 DEF CoreInv, EntryLifeCycle, WriteValid, RequestReady

LEMMA PlacesClock ==
  ASSUME SystemInv, PlacesInv, NEW request, NEW response, ClockEffect(request, response)
  PROVE  PlacesInv'
<1> SUFFICES ASSUME NEW e \in Entries
             PROVE  /\ goal'[e] # None <=> InCsr(e)' \/ valid'[e]
                    /\ goal'[e] = None => shown'[e] = None
                    /\ InCsr(e)' => RequestReady(e)'
                    /\ InCsr(e)' \/ ~RequestReady(e)' \/ writes'[e] # <<>> => Outstanding(e)'
                    /\ InCsr(e)' \/ ~RequestReady(e)' => writes'[e] = <<>>
                    /\ Len(writes'[e]) <= 1
                    /\ ~valid'[e] => OperandsValid(e)'
  BY CsrStaysUnique DEF PlacesInv, SystemInv
<1>1. /\ Arrives(request, e) => InCsr(e)
      /\ InCsr(e)' <=> InCsr(e) /\ ~Arrives(request, e)
  BY ArrivingIsInCsr DEF SystemInv
<1>2. /\ Outstanding(e)' <=> Outstanding(e)
      /\ goal' = goal /\ shown' = shown
  BY DEF ClockEffect, Outstanding
<1>3. writes[e] \in Seq(Values)
  BY DEF SystemInv, TypeOK
<1>4. CASE Arrives(request, e)
  <2>1. /\ valid'[e] /\ ~written'[e] /\ ~(WriteValid /\ wbCntr = e)
    BY <1>4, ArrivedEntry
  <2>2. writes'[e] = <<>>
    BY <1>1, <1>4, <2>1, WritesMove DEF PlacesInv
  <2> QED
    BY <1>1, <1>2, <1>4, <2>1, <2>2 DEF PlacesInv
<1>5. CASE ~Arrives(request, e)
  <2>1. /\ valid'[e] = valid[e]
        /\ written'[e] <=> written[e] \/ (WriteValid /\ e = wbCntr)
    BY <1>5, OtherEntry
  <2>2. /\ RequestReady(e) => RequestReady(e)'
        /\ ~RequestReady(e)' => ~RequestReady(e) /\ ~(WriteValid /\ e = wbCntr)
        /\ WriteValid /\ e = wbCntr => ~RequestReady(e)
    BY <2>1, WritingIsNotReady DEF RequestReady, SystemInv
  <2>3. ~valid'[e] => OperandsValid(e)'
    <3> SUFFICES ASSUME ~valid[e], NEW o \in Operands PROVE operands'[e][o].mode = 0
      BY <2>1 DEF OperandsValid
    <3>1. operands[e][o].mode = 0
      BY DEF PlacesInv, OperandsValid
    <3>2. ~Satisfies(response, operands[e][o]) /\ ~Forwards(operands[e][o])
      BY <3>1 DEF Satisfies, Forwards
    <3>3. operands'[e][o] = operands[e][o]
      BY <1>5, <3>2, OtherEntry
    <3> QED
      BY <3>1, <3>3
  <2>4. CASE WriteValid /\ e = wbCntr
    <3>1. writes[e] = <<>> /\ ~InCsr(e) /\ Outstanding(e)
      BY <2>2, <2>4 DEF PlacesInv
    <3>2. writes'[e] = Append(<<>>, result[e])
      BY <2>4, <3>1, WritesMove
    <3>3. Len(writes'[e]) = 1
      BY <3>2
    <3> QED
      BY <1>1, <1>2, <2>1, <2>2, <2>3, <2>4, <3>1, <3>3 DEF PlacesInv
  <2>5. CASE ~(WriteValid /\ e = wbCntr)
    <3>1. writes'[e] = writes[e]
      BY <2>5, WritesMove
    <3> QED
      BY <1>1, <1>2, <1>5, <2>1, <2>2, <2>3, <3>1 DEF PlacesInv
  <2> QED
    BY <2>4, <2>5
<1> QED
  BY <1>4, <1>5

\* The host takes a slot whose result it has seen: nothing of it is left.
LEMMA SubmitTakesFreeSlot ==
  ASSUME PlacesInv, NEW i, Submit(i), slot \in Entries
  PROVE  /\ ~Outstanding(slot) /\ ~InCsr(slot) /\ RequestReady(slot)
         /\ writes[slot] = <<>>
  BY DEF PlacesInv, Submit, Outstanding

\* The request that goes out, and where it goes.
Submitted(i) ==
  [wr_addr |-> slot, inst |-> i,
   operands |-> [o \in Operands |->
     IF o < Len(building) THEN building[o + 1].operand ELSE ZeroOperand]]

LEMMA CsrGrows ==
  ASSUME TypeOK, TypeOK', NEW i \in Insts, Submit(i)
  PROVE  /\ Len(csr) \in Nat /\ Len(csr') = Len(csr) + 1
         /\ \A n \in 1 .. Len(csr) : csr'[n] = csr[n]
         /\ csr'[Len(csr) + 1] = Submitted(i)
<1> DEFINE req == Submitted(i)
<1>1. csr \in Seq(Requests) /\ csr' \in Seq(Requests) /\ csr' = Append(csr, req)
  BY DEF TypeOK, Submit, Submitted
<1> HIDE DEF req
<1>2. Len(csr) \in Nat /\ Len(csr') = Len(csr) + 1
  BY <1>1, LenProperties
<1>3. /\ csr'[Len(csr) + 1] = req
      /\ \A n \in 1 .. Len(csr) : csr'[n] = csr[n]
  BY <1>1, <1>2
<1> QED
  BY <1>2, <1>3 DEF req

LEMMA SubmittedIsInCsr ==
  ASSUME TypeOK, TypeOK', NEW i \in Insts, Submit(i)
  PROVE  \A e : InCsr(e)' <=> InCsr(e) \/ e = slot
<1>1. /\ Len(csr) \in Nat /\ Len(csr') = Len(csr) + 1
      /\ \A n \in 1 .. Len(csr) : csr'[n] = csr[n]
      /\ csr'[Len(csr) + 1] = Submitted(i)
  BY CsrGrows
<1>5. Submitted(i).wr_addr = slot
  BY DEF Submitted
<1> TAKE e
<1>2. ASSUME InCsr(e)' PROVE InCsr(e) \/ e = slot
  <2>1. PICK n \in 1 .. Len(csr') : csr'[n].wr_addr = e
    BY <1>2 DEF InCsr
  <2>2. n \in 1 .. Len(csr) \/ n = Len(csr) + 1
    BY <1>1
  <2> QED
    BY <1>1, <1>5, <2>1, <2>2 DEF InCsr
<1>3. ASSUME InCsr(e) PROVE InCsr(e)'
  <2>1. PICK n \in 1 .. Len(csr) : csr[n].wr_addr = e
    BY <1>3 DEF InCsr
  <2>2. n \in 1 .. Len(csr') /\ csr'[n].wr_addr = e
    BY <1>1, <2>1
  <2> QED
    BY <2>2 DEF InCsr
<1>4. ASSUME e = slot PROVE InCsr(e)'
  <2>1. Len(csr) + 1 \in 1 .. Len(csr')
    BY <1>1
  <2>2. csr'[Len(csr) + 1].wr_addr = e
    BY <1>1, <1>4, <1>5
  <2> QED
    BY <2>1, <2>2 DEF InCsr
<1> QED
  BY <1>2, <1>3, <1>4

\* What the host means by the request that goes out.
LEMMA SubmittedGoal ==
  ASSUME TypeOK, TypeOK', NEW i \in Insts, Submit(i)
  PROVE  /\ slot \in Entries /\ goal'[slot] \in Goals /\ goal'[slot].inst = i
         /\ \A e \in Entries \ {slot} : goal'[e] = goal[e]
<1> DEFINE args == [o \in Operands |->
                      IF o < Len(building) THEN building[o + 1].value ELSE Zero]
<1>1. slot \in Entries /\ goal \in [Entries -> Goals \cup {None}]
  BY DEF TypeOK
<1>2. goal' = [goal EXCEPT ![slot] = [inst |-> i, args |-> args]]
  BY DEF Submit
<1>3. args \in Arguments
  <2>1. ASSUME NEW o \in Operands, o < Len(building)
        PROVE  building[o + 1].value \in Values
    <3>1. o + 1 \in 1 .. Len(building) /\ building \in Seq(Meant)
      BY <2>1, LenProperties, OperandAssumption DEF Operands, TypeOK
    <3>2. building[o + 1] \in Meant
      BY <3>1, ElementOfSeq
    <3> QED
      BY <3>2 DEF Meant
  <2> QED
    BY <2>1, ResetAssumption DEF Arguments
<1> HIDE DEF args
<1>4. goal'[slot] = [inst |-> i, args |-> args]
  BY <1>1, <1>2
<1> QED
  BY <1>1, <1>2, <1>3, <1>4 DEF Goals

LEMMA PlacesSubmit ==
  ASSUME SystemInv, TypeOK', PlacesInv, NEW i \in Insts, Submit(i)
  PROVE  PlacesInv'
<1>1. \A e : InCsr(e)' <=> InCsr(e) \/ e = slot
  BY SubmittedIsInCsr DEF SystemInv
<1>2. slot \in Entries
  BY DEF SystemInv, TypeOK
<1>3. /\ ~Outstanding(slot) /\ ~InCsr(slot) /\ RequestReady(slot)
      /\ writes[slot] = <<>>
  BY <1>2, SubmitTakesFreeSlot
<1>4. /\ valid' = valid /\ written' = written /\ operands' = operands
      /\ writes' = writes /\ shown' = [shown EXCEPT ![slot] = None]
  BY DEF Submit, localityVars, rbVars
<1>5. /\ \A e \in Entries : e # slot => goal'[e] = goal[e] /\ shown'[e] = shown[e]
      /\ goal'[slot] # None /\ shown'[slot] = None
  <2>1. \A e \in Entries : e # slot => goal'[e] = goal[e] /\ shown'[e] = shown[e]
    BY DEF Submit, SystemInv, TypeOK
  <2>2. shown'[slot] = None
    BY <1>2 DEF Submit, SystemInv, TypeOK
  <2>3. goal'[slot] \in Goals
    BY SubmittedGoal DEF SystemInv
  <2> QED
    BY <2>1, <2>2, <2>3, NoneIsApart
<1>6. \A m, n \in 1 .. Len(csr') : csr'[m].wr_addr = csr'[n].wr_addr => m = n
  <2>1. /\ Len(csr) \in Nat /\ Len(csr') = Len(csr) + 1
        /\ \A n \in 1 .. Len(csr) : csr'[n] = csr[n]
        /\ csr'[Len(csr) + 1] = Submitted(i)
    BY CsrGrows DEF SystemInv
  <2>5. Submitted(i).wr_addr = slot
    BY DEF Submitted
  <2>2. \A n \in 1 .. Len(csr) : csr[n].wr_addr # slot
    BY <1>3 DEF InCsr
  <2>3. \A m, n \in 1 .. Len(csr) : csr[m].wr_addr = csr[n].wr_addr => m = n
    BY DEF PlacesInv
  <2>4. \A n \in 1 .. Len(csr') : n \in 1 .. Len(csr) \/ n = Len(csr) + 1
    BY <2>1
  <2> QED
    BY <2>1, <2>2, <2>3, <2>4, <2>5
<1> SUFFICES ASSUME NEW e \in Entries
             PROVE  /\ goal'[e] # None <=> InCsr(e)' \/ valid'[e]
                    /\ goal'[e] = None => shown'[e] = None
                    /\ InCsr(e)' => RequestReady(e)'
                    /\ InCsr(e)' \/ ~RequestReady(e)' \/ writes'[e] # <<>> => Outstanding(e)'
                    /\ InCsr(e)' \/ ~RequestReady(e)' => writes'[e] = <<>>
                    /\ Len(writes'[e]) <= 1
                    /\ ~valid'[e] => OperandsValid(e)'
  BY <1>6 DEF PlacesInv
<1>7. /\ RequestReady(e)' <=> RequestReady(e)
      /\ OperandsValid(e)' <=> OperandsValid(e)
  BY <1>4 DEF RequestReady, OperandsValid
<1>8. CASE e = slot
  BY <1>1, <1>3, <1>4, <1>5, <1>7, <1>8 DEF PlacesInv, Outstanding
<1>9. CASE e # slot
  BY <1>1, <1>4, <1>5, <1>7, <1>9 DEF PlacesInv, Outstanding
<1> QED
  BY <1>8, <1>9

\* A result reaches the host while its request is outstanding.
LEMMA DeliveredIsOutstanding ==
  ASSUME SystemInv, PlacesInv, NEW e \in Entries, DeliverWrite(e)
  PROVE  /\ Outstanding(e) /\ ~InCsr(e) /\ RequestReady(e)
         /\ writes[e] # <<>> /\ shown'[e] = writes[e][1] /\ shown'[e] # None
         /\ writes'[e] = <<>>
         /\ \A f \in Entries \ {e} : shown'[f] = shown[f] /\ writes'[f] = writes[f]
<1>1. PICK n \in 1 .. Len(writes[e]) :
        /\ shown' = [shown EXCEPT ![e] = writes[e][n]]
        /\ writes' = [writes EXCEPT ![e] = RemoveAt(writes[e], n)]
  BY DEF DeliverWrite
<1>2. writes[e] \in Seq(Values)
  BY DEF SystemInv, TypeOK
<1>3. Len(writes[e]) \in Nat /\ Len(writes[e]) <= 1
  BY <1>2, LenProperties DEF PlacesInv
<1>4. n = 1 /\ Len(writes[e]) = 1 /\ writes[e] # <<>>
  <2>1. n = 1 /\ Len(writes[e]) = 1
    <3> DEFINE count == Len(writes[e])
    <3>1. n \in 1 .. count /\ count \in Nat /\ count <= 1
      BY <1>3
    <3> HIDE DEF count
    <3>2. n = 1 /\ count = 1
      BY <3>1
    <3> QED
      BY <3>2 DEF count
  <2>2. writes[e] # <<>>
    <3> SUFFICES ASSUME writes[e] = <<>> PROVE FALSE
      OBVIOUS
    <3>1. Len(<<>>) = 0
      OBVIOUS
    <3> QED
      BY <2>1, <3>1
  <2> QED
    BY <2>1, <2>2
<1>5. RemoveAt(writes[e], 1) = <<>>
  <2>1. RemoveAt(writes[e], 1) = <<>> \o <<>>
    BY <1>2, <1>4, SubSeqEmpty DEF RemoveAt
  <2> QED
    BY <2>1
<1>6. writes[e][1] \in Values
  BY <1>2, <1>4, ElementOfSeq
<1>7. /\ shown'[e] = writes[e][1] /\ writes'[e] = <<>>
      /\ \A f \in Entries \ {e} : shown'[f] = shown[f] /\ writes'[f] = writes[f]
  BY <1>1, <1>4, <1>5 DEF SystemInv, TypeOK
<1> QED
  BY <1>4, <1>6, <1>7, NoneIsApart DEF PlacesInv

LEMMA PlacesDeliver ==
  ASSUME SystemInv, PlacesInv, NEW e \in Entries, DeliverWrite(e)
  PROVE  PlacesInv'
<1>1. /\ Outstanding(e) /\ ~InCsr(e) /\ RequestReady(e)
      /\ writes'[e] = <<>>
      /\ \A f \in Entries \ {e} : shown'[f] = shown[f] /\ writes'[f] = writes[f]
  BY DeliveredIsOutstanding
<1>2. /\ valid' = valid /\ written' = written /\ operands' = operands
      /\ goal' = goal /\ csr' = csr
  BY DEF DeliverWrite, localityVars, rbVars, hostVars
<1>3. \A f \in Entries : /\ InCsr(f)' <=> InCsr(f)
                         /\ RequestReady(f)' <=> RequestReady(f)
                         /\ OperandsValid(f)' <=> OperandsValid(f)
  BY <1>2 DEF InCsr, RequestReady, OperandsValid
<1>4. Len(writes'[e]) <= 1
  BY <1>1
<1> QED
  BY <1>1, <1>2, <1>3, <1>4 DEF PlacesInv, Outstanding

\* The other steps leave all of it alone.
LEMMA PlacesStutter ==
  ASSUME PlacesInv, UNCHANGED <<valid, written, operands, goal, shown, csr, writes>>
  PROVE  PlacesInv'
  BY DEF PlacesInv, InCsr, RequestReady, OperandsValid, Outstanding

LEMMA PlacesStart == Init => PlacesInv
<1> SUFFICES ASSUME Init PROVE PlacesInv
  OBVIOUS
<1>1. csr = <<>> /\ Len(csr) = 0 /\ \A e : ~InCsr(e)
  BY DEF Init, InCsr
<1>2. \A e \in Entries :
        /\ ~valid[e] /\ OperandsValid(e) /\ RequestReady(e)
        /\ goal[e] = None /\ shown[e] = None /\ writes[e] = <<>> /\ Len(writes[e]) = 0
  BY DEF Init, LocalityInit, OperandsValid, RequestReady, ZeroOperand
<1> QED
  BY <1>1, <1>2 DEF PlacesInv

-----------------------------------------------------------------------------
(* The ring.                                                               *)

LEMMA SmallDivision ==
  ASSUME NEW n \in Nat \ {0}, NEW p \in 0 .. n - 1
  PROVE  /\ p % n = p /\ p \div n = 0
         /\ (p + n) % n = p /\ (p + n) \div n = 1
  OBVIOUS

\* The pointer is in its first turn of the ring or in its second.
LEMMA PointerTurns ==
  ASSUME NEW p \in Addresses
  PROVE  /\ Address(p) = p /\ IdBit(p) = 0
         /\ Address(p + NumOperandEntries) = p /\ IdBit(p + NumOperandEntries) = 1
<1>1. NumOperandEntries \in Nat \ {0} /\ p \in 0 .. NumOperandEntries - 1
  BY RingAssumption DEF Addresses
<1>2. 0 % 2 = 0 /\ 1 % 2 = 1
  OBVIOUS
<1> QED
  BY <1>1, <1>2, SmallDivision DEF Address, IdBit

\* The next position of the ring, and its id bit.
LEMMA PointerSteps ==
  ASSUME NEW ptr \in 0 .. RingTurns - 1
  PROVE  LET next == (ptr + 1) % RingTurns
         IN  IF Address(ptr) = NumOperandEntries - 1
             THEN Address(next) = 0 /\ IdBit(next) = 1 - IdBit(ptr)
             ELSE Address(next) = Address(ptr) + 1 /\ IdBit(next) = IdBit(ptr)
<1> DEFINE n == NumOperandEntries
<1>1. n \in Nat \ {0} /\ RingTurns = 2 * n
  BY RingAssumption DEF RingTurns
<1>2. \A p \in 0 .. n - 1 : /\ Address(p) = p /\ IdBit(p) = 0
                            /\ Address(p + n) = p /\ IdBit(p + n) = 1
  BY PointerTurns DEF Addresses
<1> HIDE DEF n
<1>3. ptr \in 0 .. 2 * n - 1
  BY <1>1
<1>4. ptr + 1 < 2 * n => (ptr + 1) % RingTurns = ptr + 1
  BY <1>1, <1>3, SmallDivision
<1>5. (2 * n) % RingTurns = 0
  BY <1>1, SmallDivision
<1>6. CASE ptr < n - 1
  <2>1. ptr \in 0 .. n - 1 /\ ptr + 1 \in 0 .. n - 1 /\ ptr + 1 < 2 * n
    BY <1>1, <1>3, <1>6
  <2> QED
    BY <1>1, <1>2, <1>4, <1>6, <2>1 DEF n
<1>7. CASE ptr = n - 1
  <2>1. n - 1 \in 0 .. n - 1 /\ 0 \in 0 .. n - 1 /\ n < 2 * n /\ ptr + 1 = 0 + n
    BY <1>1, <1>7
  <2> QED
    BY <1>1, <1>2, <1>4, <1>7, <2>1 DEF n
<1>8. CASE ptr >= n /\ ptr < 2 * n - 1
  <2>1. /\ ptr - n \in 0 .. n - 1 /\ ptr = (ptr - n) + n
        /\ ptr + 1 - n \in 0 .. n - 1 /\ ptr + 1 = (ptr + 1 - n) + n
        /\ ptr - n # n - 1 /\ ptr + 1 < 2 * n
    BY <1>1, <1>3, <1>8
  <2>2. Address(ptr) = ptr - n /\ IdBit(ptr) = 1
    BY <1>2, <2>1
  <2>3. Address(ptr + 1) = ptr + 1 - n /\ IdBit(ptr + 1) = 1
    BY <1>2, <2>1
  <2> QED
    BY <1>1, <1>3, <1>4, <2>1, <2>2, <2>3 DEF n
<1>9. CASE ptr = 2 * n - 1
  <2>1. n - 1 \in 0 .. n - 1 /\ 0 \in 0 .. n - 1 /\ ptr = (n - 1) + n /\ ptr + 1 = 2 * n
    BY <1>1, <1>9
  <2>2. Address(ptr) = n - 1 /\ IdBit(ptr) = 1
    BY <1>2, <2>1
  <2>3. (ptr + 1) % RingTurns = 0
    BY <1>5, <2>1
  <2>4. Address(0) = 0 /\ IdBit(0) = 0
    BY <1>2, <2>1
  <2> QED
    BY <2>2, <2>3, <2>4 DEF n
<1> QED
  BY <1>1, <1>3, <1>6, <1>7, <1>8, <1>9

\* The position of the pointer is the oldest one; it becomes the newest.
LEMMA AgesStep ==
  ASSUME NEW p \in Addresses, NEW a \in Addresses,
         NEW q \in Addresses,
         q = IF p = NumOperandEntries - 1 THEN 0 ELSE p + 1
  PROVE  /\ AgeAt(p, a) \in 0 .. NumOperandEntries - 1
         /\ a = p <=> AgeAt(p, a) = NumOperandEntries - 1
         /\ AgeAt(q, a) = IF a = p THEN 0 ELSE AgeAt(p, a) + 1
  BY RingAssumption DEF Addresses, AgeAt

LEMMA AgeType ==
  ASSUME NEW p \in Addresses, NEW a \in Addresses
  PROVE  AgeAt(p, a) \in 0 .. NumOperandEntries - 1
  BY RingAssumption DEF Addresses, AgeAt

LEMMA BackType ==
  ASSUME NEW s \in Entries, NEW e \in Entries
  PROVE  BackFrom(s, e) \in 0 .. NumFPGAEntries - 1
  BY EntriesAssumption DEF Entries, BackFrom

\* The slot to be used is the one used longest ago; it becomes the last one.
LEMMA BacksStep ==
  ASSUME NEW s \in Entries, NEW e \in Entries
  PROVE  LET t == (s + 1) % NumFPGAEntries
         IN  BackFrom(t, e) = IF e = s THEN 0 ELSE BackFrom(s, e) + 1
<1> DEFINE n == NumFPGAEntries
<1>1. n \in Nat \ {0} /\ s \in 0 .. n - 1 /\ e \in 0 .. n - 1
  BY EntriesAssumption DEF Entries
<1> HIDE DEF n
<1>2. CASE s = n - 1
  <2>1. (s + 1) % n = 0
    <3>1. 0 \in 0 .. n - 1 /\ s + 1 = 0 + n
      BY <1>1, <1>2
    <3> QED
      BY <1>1, <3>1, SmallDivision
  <2> QED
    BY <1>1, <1>2, <2>1 DEF BackFrom, n
<1>3. CASE s < n - 1
  <2>1. (s + 1) % n = s + 1
    BY <1>1, <1>3, SmallDivision
  <2> QED
    BY <1>1, <1>3, <2>1 DEF BackFrom, n
<1> QED
  BY <1>1, <1>2, <1>3

LEMMA RoomSteps ==
  ASSUME NEW back \in 0 .. NumFPGAEntries - 1, NEW given \in 0 .. NumOperand
  PROVE  /\ RoomFor(back, given) \in Nat
         /\ RoomFor(back, given + 1) = RoomFor(back, given) + 1
         /\ RoomFor(back, given) <= RoomFor(back + 1, 0)
         /\ RoomFor(0, 0) = NumOperand
         /\ given < NumOperand => RoomFor(back, given) <= NumOperandEntries - 1
<1> DEFINE m == NumOperand
           room == back * m
           all == NumFPGAEntries * m
<1>1. /\ m \in Nat \ {0} /\ back \in Nat /\ back + 1 <= NumFPGAEntries
      /\ given \in Nat /\ given <= m /\ NumFPGAEntries \in Nat /\ NumOperandEntries \in Nat
  BY EntriesAssumption, OperandAssumption, RingAssumption
<1>2. room \in Nat /\ all \in Nat /\ (back + 1) * m = room + m
  BY <1>1
<1>3. (back + 1 + 1) * m = room + m + m /\ (0 + 1) * m = m
  BY <1>1
<1>4. room + m <= all
  <2> DEFINE k == NumFPGAEntries - (back + 1)
             next == back + 1
  <2>1. k \in Nat /\ NumFPGAEntries = next + k /\ next \in Nat
    BY <1>1
  <2> HIDE DEF k
  <2>2. (next + k) * m = next * m + k * m
    <3> HIDE DEF next, m
    <3> QED
      BY <1>1, <2>1
  <2>3. k * m \in Nat
    BY <1>1, <2>1
  <2>4. all = (next + k) * m
    BY <2>1
  <2>5. next * m = room + m
    BY <1>2
  <2> DEFINE rest == k * m
             before == next * m
  <2>6. all = before + rest /\ before = room + m /\ rest \in Nat
    BY <2>2, <2>3, <2>4, <2>5
  <2> HIDE DEF rest, before, all, room
  <2> QED
    BY <1>1, <1>2, <2>6
<1>5. m * (NumFPGAEntries + 1) = all + m
  BY <1>1
<1>6. NumOperandEntries >= all + m
  BY <1>5, RingRoomAssumption
<1> HIDE DEF room, all
<1> QED
  BY <1>1, <1>2, <1>3, <1>4, <1>6 DEF RoomFor

-----------------------------------------------------------------------------
(* What the steps of the host and of the fabric keep.                      *)

\* The next position and the request it is in.
NextRoom(e) == RoomFor(BackFrom(slot', e), Len(building'))

\* A position no older than room is not written, and is no older than next then.
RingKeeps(room, next) ==
  \A a \in Addresses :
    Age(a) < room => ring'[a] = ring[a] /\ AgeAt(Address(ringPtr'), a) < next

RequestsKeep == \A e \in Entries : RingKeeps(Room(e), NextRoom(e))

LEMMA BuildingLength ==
  ASSUME TypeOK
  PROVE  /\ Len(building) \in 0 .. NumOperand /\ slot \in Entries
         /\ \A e \in Entries : BackFrom(slot, e) \in 0 .. NumFPGAEntries - 1
  BY LenProperties, OperandAssumption, BackType DEF TypeOK

LEMMA BuildingGrows ==
  ASSUME TypeOK, TypeOK', NEW given, building' = Append(building, given)
  PROVE  /\ Len(building) \in Nat /\ Len(building') = Len(building) + 1
         /\ \A n \in 1 .. Len(building) : building'[n] = building[n]
         /\ building'[Len(building) + 1] = given
<1>1. building \in Seq(Meant) /\ building' \in Seq(Meant)
  BY DEF TypeOK
<1>2. Len(building) \in Nat /\ Len(building') = Len(building) + 1
  BY <1>1, LenProperties
<1>3. /\ building'[Len(building) + 1] = given
      /\ \A n \in 1 .. Len(building) : building'[n] = building[n]
  BY <1>1, <1>2
<1> QED
  BY <1>2, <1>3

\* The position of the pointer is older than any operand that still counts.
LEMMA PutOperandRing ==
  ASSUME SystemInv, TypeOK', RingIds, NEW v \in Values, PutOperand(v)
  PROVE  /\ RingIds'
         /\ RequestsKeep
         /\ RingKeeps(Len(building), Len(building'))
         /\ Address(ringPtr) \in Addresses /\ IdBit(ringPtr) \in {0, 1}
         /\ ring'[Address(ringPtr)] = [val |-> v, id |-> IdBit(ringPtr), v |-> 1]
         /\ AgeAt(Address(ringPtr'), Address(ringPtr)) = 0
<1> DEFINE p == Address(ringPtr)
           q == Address(ringPtr')
<1>1. /\ TypeOK /\ ringPtr \in 0 .. RingTurns - 1 /\ ringPtr' \in 0 .. RingTurns - 1
      /\ ringPtr' = (ringPtr + 1) % RingTurns
      /\ ring \in [Addresses -> Cells]
  BY DEF SystemInv, TypeOK, PutOperand
<1>2. p \in Addresses /\ q \in Addresses /\ IdBit(ringPtr) \in {0, 1}
  BY <1>1, AddressType
<1>3. /\ q = IF p = NumOperandEntries - 1 THEN 0 ELSE p + 1
      /\ IdBit(ringPtr') = IF p = NumOperandEntries - 1 THEN 1 - IdBit(ringPtr)
                                                       ELSE IdBit(ringPtr)
  BY <1>1, PointerSteps
<1>4. /\ ring' = [ring EXCEPT ![p] = [val |-> v, id |-> IdBit(ringPtr), v |-> 1]]
      /\ slot' = slot
  BY DEF PutOperand
<1>5. /\ ring'[p] = [val |-> v, id |-> IdBit(ringPtr), v |-> 1]
      /\ \A a \in Addresses : a # p => ring'[a] = ring[a]
  BY <1>1, <1>2, <1>4
<1> HIDE DEF p, q
<1>6. \A a \in Addresses :
        /\ AgeAt(p, a) \in 0 .. NumOperandEntries - 1
        /\ a = p <=> AgeAt(p, a) = NumOperandEntries - 1
        /\ AgeAt(q, a) = IF a = p THEN 0 ELSE AgeAt(p, a) + 1
  BY <1>2, <1>3, AgesStep
<1>7. RingIds'
  <2> SUFFICES ASSUME NEW a \in Addresses, ring'[a].v = 1
               PROVE  ring'[a].id = IF a < q THEN IdBit(ringPtr')
                                             ELSE 1 - IdBit(ringPtr')
    BY DEF RingIds, q
  <2>1. p \in 0 .. NumOperandEntries - 1 /\ a \in 0 .. NumOperandEntries - 1
    BY <1>2 DEF Addresses
  <2>2. a # p => ring'[a].id = IF a < p THEN IdBit(ringPtr) ELSE 1 - IdBit(ringPtr)
    BY <1>5 DEF RingIds, p
  <2>3. a = p => ring'[a].id = IdBit(ringPtr)
    BY <1>5
  <2>4. NumOperandEntries \in Nat
    BY RingAssumption
  <2> DEFINE bit == IdBit(ringPtr)
             next == IdBit(ringPtr')
             id == ring'[a].id
  <2>5. /\ bit \in {0, 1}
        /\ a # p => id = IF a < p THEN bit ELSE 1 - bit
        /\ a = p => id = bit
        /\ next = IF p = NumOperandEntries - 1 THEN 1 - bit ELSE bit
    BY <1>2, <1>3, <2>2, <2>3
  <2> HIDE DEF bit, next, id
  <2>6. id = IF a < q THEN next ELSE 1 - next
    BY <1>3, <2>1, <2>4, <2>5
  <2> QED
    BY <2>6 DEF id, next
<1>8. /\ Len(building) \in Nat /\ Len(building') = Len(building) + 1
      /\ Len(building) < NumOperand
  BY <1>1, BuildingGrows DEF PutOperand, OperandDue
<1>9. ASSUME NEW room \in Nat, room <= NumOperandEntries - 1
      PROVE  RingKeeps(room, room + 1)
  <2> SUFFICES ASSUME NEW a \in Addresses, AgeAt(p, a) < room
               PROVE  ring'[a] = ring[a] /\ AgeAt(q, a) < room + 1
    BY DEF RingKeeps, Age, p, q
  <2>1. AgeAt(p, a) # NumOperandEntries - 1 /\ AgeAt(p, a) \in Nat
    BY <1>6, <1>9, RingAssumption
  <2>2. a # p /\ AgeAt(q, a) = AgeAt(p, a) + 1
    BY <1>6, <2>1
  <2> QED
    BY <1>5, <2>1, <2>2
<1>10. /\ slot \in Entries /\ Len(building) \in 0 .. NumOperand
       /\ \A e \in Entries : BackFrom(slot, e) \in 0 .. NumFPGAEntries - 1
  BY <1>1, BuildingLength
<1>11. RequestsKeep
  <2> SUFFICES ASSUME NEW e \in Entries PROVE RingKeeps(Room(e), NextRoom(e))
    BY DEF RequestsKeep
  <2>1. /\ Room(e) \in Nat /\ Room(e) <= NumOperandEntries - 1
        /\ NextRoom(e) = Room(e) + 1
    BY <1>4, <1>8, <1>10, RoomSteps DEF Room, NextRoom
  <2> QED
    BY <1>9, <2>1
<1>12. RingKeeps(Len(building), Len(building'))
  <2>1. Len(building) <= NumOperandEntries - 1
    <3>1. 0 \in 0 .. NumFPGAEntries - 1
      BY EntriesAssumption
    <3>2. RoomFor(0, Len(building)) <= NumOperandEntries - 1
      BY <1>8, <1>10, <3>1, RoomSteps
    <3>3. Len(building) <= RoomFor(0, Len(building))
      BY <1>8, OperandAssumption DEF RoomFor
    <3> QED
      BY <1>8, <3>2, <3>3, OperandAssumption, RingAssumption DEF RoomFor
  <2> QED
    BY <1>8, <1>9, <2>1
<1> QED
  BY <1>2, <1>5, <1>6, <1>7, <1>11, <1>12 DEF p, q

\* Naming an entry takes no room of the ring.
LEMMA NameEntryRing ==
  ASSUME SystemInv, TypeOK', RingIds, NEW k \in Entries, NameEntry(k)
  PROVE  /\ RingIds'
         /\ RequestsKeep
         /\ RingKeeps(Len(building), Len(building'))
<1>1. TypeOK /\ ring' = ring /\ ringPtr' = ringPtr /\ slot' = slot
  BY DEF SystemInv, NameEntry, memVars
<1>2. RingIds'
  BY <1>1 DEF RingIds
<1>3. Len(building) \in Nat /\ Len(building') = Len(building) + 1
  BY <1>1, BuildingGrows DEF NameEntry
<1>4. \A a \in Addresses : Age(a) \in Nat
  BY <1>1, AddressType, AgeType DEF Age, TypeOK
<1>5. ASSUME NEW room \in Nat PROVE RingKeeps(room, room + 1)
  BY <1>1, <1>4 DEF RingKeeps, Age
<1>6. RequestsKeep
  <2> SUFFICES ASSUME NEW e \in Entries PROVE RingKeeps(Room(e), NextRoom(e))
    BY DEF RequestsKeep
  <2>1. Room(e) \in Nat /\ NextRoom(e) = Room(e) + 1
    BY <1>1, <1>3, BuildingLength, RoomSteps DEF Room, NextRoom
  <2> QED
    BY <1>5, <2>1
<1> QED
  BY <1>2, <1>3, <1>5, <1>6

\* The requests of the other slots are one request older.
LEMMA SubmitRing ==
  ASSUME SystemInv, TypeOK', RingIds, NEW i \in Insts, Submit(i)
  PROVE  /\ RingIds'
         /\ \A e \in Entries \ {slot} : RingKeeps(Room(e), NextRoom(e))
         /\ RingKeeps(Len(building), NextRoom(slot))
         /\ Len(building') = 0
<1>1. /\ TypeOK /\ ring' = ring /\ ringPtr' = ringPtr
      /\ slot' = (slot + 1) % NumFPGAEntries
      /\ building' = <<>>
  BY DEF SystemInv, Submit
<1>2. RingIds'
  BY <1>1 DEF RingIds
<1>3. Len(building') = 0
  BY <1>1
<1>4. \A a \in Addresses : Age(a) \in Nat
  BY <1>1, AddressType, AgeType DEF Age, TypeOK
<1>5. ASSUME NEW room \in Nat, NEW next \in Nat, room <= next
      PROVE  RingKeeps(room, next)
  BY <1>1, <1>4, <1>5 DEF RingKeeps, Age
<1>6. /\ Len(building) \in 0 .. NumOperand /\ slot \in Entries
      /\ \A e \in Entries : BackFrom(slot, e) \in 0 .. NumFPGAEntries - 1
  BY <1>1, BuildingLength
<1>7. \A e \in Entries :
        BackFrom(slot', e) = IF e = slot THEN 0 ELSE BackFrom(slot, e) + 1
  BY <1>1, <1>6, BacksStep
<1>8. ASSUME NEW e \in Entries \ {slot} PROVE RingKeeps(Room(e), NextRoom(e))
  <2> DEFINE back == BackFrom(slot, e)
  <2>1. back \in 0 .. NumFPGAEntries - 1 /\ BackFrom(slot', e) = back + 1
    BY <1>6, <1>7
  <2>2. BackFrom(slot', e) \in 0 .. NumFPGAEntries - 1
    BY BuildingLength, BackType DEF TypeOK
  <2> HIDE DEF back
  <2>3. 0 \in 0 .. NumOperand
    BY OperandAssumption
  <2>4. /\ RoomFor(back, Len(building)) \in Nat /\ RoomFor(back + 1, 0) \in Nat
        /\ RoomFor(back, Len(building)) <= RoomFor(back + 1, 0)
    BY <1>6, <2>1, <2>2, <2>3, RoomSteps
  <2> QED
    BY <1>3, <1>5, <2>1, <2>4 DEF Room, NextRoom, back
<1>9. RingKeeps(Len(building), NextRoom(slot))
  <2>1. NextRoom(slot) = RoomFor(0, 0)
    BY <1>3, <1>6, <1>7 DEF NextRoom
  <2>2. 0 \in 0 .. NumFPGAEntries - 1 /\ 0 \in 0 .. NumOperand
    BY EntriesAssumption, OperandAssumption
  <2>3. RoomFor(0, 0) = NumOperand
    BY <2>2, RoomSteps
  <2>4. Len(building) \in Nat /\ Len(building) <= NumOperand /\ NumOperand \in Nat
    BY <1>6, OperandAssumption
  <2> QED
    BY <1>5, <2>1, <2>3, <2>4
<1> QED
  BY <1>2, <1>3, <1>8, <1>9

\* The other steps leave the ring and its pointer alone.
LEMMA RingRests ==
  ASSUME TypeOK, RingIds, UNCHANGED <<ring, ringPtr, slot, building>>
  PROVE  RingIds' /\ RequestsKeep /\ RingKeeps(Len(building), Len(building'))
  BY DEF RingIds, RequestsKeep, RingKeeps, Room, NextRoom, Age

-----------------------------------------------------------------------------
(* What operands stand for, while the core rests.                          *)

LEMMA RequestTypes ==
  ASSUME TypeOK
  PROVE  /\ \A n \in 1 .. Len(csr) :
              /\ csr[n] \in Requests /\ csr[n].wr_addr \in Entries
              /\ \A o \in Operands : csr[n].operands[o] \in RequestOperands
         /\ \A e \in Entries, o \in Operands : operands[e][o] \in RequestOperands
         /\ \A n \in 1 .. Len(building) :
              building[n] \in Meant /\ building[n].operand \in RequestOperands
<1>1. csr \in Seq(Requests) /\ building \in Seq(Meant)
  BY DEF TypeOK
<1>2. \A n \in 1 .. Len(csr) : csr[n] \in Requests
  BY <1>1, ElementOfSeq
<1>3. \A n \in 1 .. Len(building) : building[n] \in Meant
  BY <1>1, ElementOfSeq
<1>4. \A r \in Requests :
        r.wr_addr \in Entries /\ \A o \in Operands : r.operands[o] \in RequestOperands
  BY DEF Requests
<1>5. \A m \in Meant : m.operand \in RequestOperands
  BY DEF Meant
<1>6. \A e \in Entries, o \in Operands : operands[e][o] \in RequestOperands
  BY DEF TypeOK, LocalityTypeOK
<1> QED
  BY <1>2, <1>3, <1>4, <1>5, <1>6

\* Where an operand in the ring stands after a step that keeps its position.
LEMMA InRingKept ==
  ASSUME NEW room, NEW next, RingKeeps(room, next), NEW op \in RequestOperands,
         NEW meant, op.mode \in {2, 3}, RingHolds(op, meant), Age(op.value) < room
  PROVE  /\ ring'[op.value] = [val |-> meant, id |-> op.mode - 2, v |-> 1]
         /\ AgeAt(Address(ringPtr'), op.value) < next
  BY ModeZeroIsValue DEF RingKeeps, RingHolds

LEMMA RequestsStand ==
  ASSUME SystemInv, CsrInv, EntryInv, RequestsKeep,
         UNCHANGED <<localityVars, goal, csr>>
  PROVE  CsrInv' /\ EntryInv'
<1>1. /\ operands' = operands /\ valid' = valid /\ completed' = completed
      /\ result' = result /\ inst' = inst /\ goal' = goal /\ csr' = csr
  BY DEF localityVars, rbVars
<1>2. CsrInv'
  <2>1. ASSUME NEW n \in 1 .. Len(csr), NEW o \in Operands, csr[n].operands[o].mode \in {2, 3}
        PROVE  LET e == csr[n].wr_addr
                   op == csr[n].operands[o]
               IN  /\ ring'[op.value] = [val |-> goal[e].args[o], id |-> op.mode - 2, v |-> 1]
                   /\ AgeAt(Address(ringPtr'), op.value) < NextRoom(e)
    <3> DEFINE e == csr[n].wr_addr
               op == csr[n].operands[o]
    <3>1. e \in Entries /\ op \in RequestOperands
      BY RequestTypes DEF SystemInv
    <3>2. RingHolds(op, goal[e].args[o]) /\ Age(op.value) < Room(e)
      BY <2>1 DEF CsrInv, Stands
    <3>3. RingKeeps(Room(e), NextRoom(e)) /\ op.mode \in {2, 3}
      BY <2>1, <3>1 DEF RequestsKeep
    <3> HIDE DEF e, op
    <3>4. /\ ring'[op.value] = [val |-> goal[e].args[o], id |-> op.mode - 2, v |-> 1]
          /\ AgeAt(Address(ringPtr'), op.value) < NextRoom(e)
      BY <3>1, <3>2, <3>3, InRingKept
    <3> QED
      BY <3>4 DEF e, op
  <2>2. ASSUME NEW n \in 1 .. Len(csr)
        PROVE  LET e == csr[n].wr_addr
               IN  /\ csr[n].inst = goal[e].inst
                   /\ \A o \in Operands :
                        LET op == csr[n].operands[o]
                        IN  /\ op.mode = 0 => op.value = goal[e].args[o]
                            /\ op.mode = 1 =>
                                 /\ IF Follows(op.value, n)
                                    THEN completed[op.value] /\ result[op.value] = goal[e].args[o]
                                    ELSE /\ goal[op.value] # None
                                         /\ goal[e].args[o] = GoalResult(op.value)
                                 /\ op.value # e
    BY DEF CsrInv, Stands
  <2>3. \A x, n : /\ Follows(x, n)' <=> Follows(x, n)
                  /\ GoalResult(x)' = GoalResult(x)
    BY <1>1 DEF Follows, GoalResult
  <2>4. ASSUME NEW n \in 1 .. Len(csr), NEW o \in Operands
        PROVE  Stands(csr[n].operands[o], goal[csr[n].wr_addr].args[o],
                      Follows(csr[n].operands[o].value, n), Room(csr[n].wr_addr))'
    <3> DEFINE e == csr[n].wr_addr
               op == csr[n].operands[o]
    <3>1. /\ op' = op /\ e' = e /\ goal[e].args[o]' = goal[e].args[o]
          /\ Follows(op.value, n)' <=> Follows(op.value, n)
      BY <1>1, <2>3
    <3>2. op.mode \in {2, 3} =>
            /\ ring'[op.value] = [val |-> goal[e].args[o], id |-> op.mode - 2, v |-> 1]
            /\ AgeAt(Address(ringPtr'), op.value) < NextRoom(e)
      BY <2>1
    <3>3. /\ op.mode = 0 => op.value = goal[e].args[o]
          /\ op.mode = 1 =>
               IF Follows(op.value, n)
               THEN completed[op.value] /\ result[op.value] = goal[e].args[o]
               ELSE goal[op.value] # None /\ goal[e].args[o] = GoalResult(op.value)
      BY <2>2
    <3>4. (GoalResult(op.value)' = GoalResult(op.value)) /\ Room(e)' = NextRoom(e)
      BY <2>3, <3>1 DEF Room, NextRoom
    <3> HIDE DEF e, op
    <3>5. Stands(op, goal[e].args[o], Follows(op.value, n), Room(e))'
      BY <1>1, <3>1, <3>2, <3>3, <3>4 DEF Stands, RingHolds, Age
    <3> QED
      BY <3>5 DEF e, op
  <2> QED
    BY <1>1, <2>2, <2>4 DEF CsrInv
<1>3. EntryInv'
  <2> SUFFICES ASSUME NEW e \in Entries, HasGoal(e), NEW o \in Operands,
                      operands[e][o].mode \in {2, 3}
               PROVE  LET op == operands[e][o]
                      IN  /\ ring'[op.value]
                               = [val |-> goal[e].args[o], id |-> op.mode - 2, v |-> 1]
                          /\ AgeAt(Address(ringPtr'), op.value) < NextRoom(e)
    BY <1>1 DEF EntryInv, Stands, RingHolds, InCsr, HasGoal, Age, Room, NextRoom, GoalResult
  <2> DEFINE op == operands[e][o]
  <2>1. op \in RequestOperands
    BY RequestTypes DEF SystemInv
  <2>2. RingHolds(op, goal[e].args[o]) /\ Age(op.value) < Room(e)
    BY DEF EntryInv, Stands
  <2>3. RingKeeps(Room(e), NextRoom(e)) /\ op.mode \in {2, 3}
    BY DEF RequestsKeep
  <2> HIDE DEF op
  <2>4. /\ ring'[op.value] = [val |-> goal[e].args[o], id |-> op.mode - 2, v |-> 1]
        /\ AgeAt(Address(ringPtr'), op.value) < NextRoom(e)
    BY <2>1, <2>2, <2>3, InRingKept
  <2> QED
    BY <2>4 DEF op
<1> QED
  BY <1>2, <1>3

\* What an operand of the request being built has to be.
Built(n, op, meant) ==
  /\ op.mode = 0 => op.value = meant
  /\ op.mode = 1 => /\ goal'[op.value] # None
                    /\ meant = Apply(goal'[op.value].inst, goal'[op.value].args)
                    /\ op.value # slot'
  /\ op.mode \in {2, 3} =>
       /\ ring'[op.value] = [val |-> meant, id |-> op.mode - 2, v |-> 1]
       /\ AgeAt(Address(ringPtr'), op.value) < Len(building')

LEMMA BuiltAll ==
  (\A n \in 1 .. Len(building') : Built(n, building'[n].operand, building'[n].value))
    => BuildingInv'
  BY DEF Built, BuildingInv, Stands, RingHolds, Age, GoalResult

LEMMA BuiltKept ==
  ASSUME SystemInv, BuildingInv, RingKeeps(Len(building), Len(building')),
         UNCHANGED <<goal, slot>>
  PROVE  \A n \in 1 .. Len(building) :
           Built(n, building[n].operand, building[n].value)
<1> TAKE n \in 1 .. Len(building)
<1> DEFINE op == building[n].operand
           meant == building[n].value
<1>1. op \in RequestOperands
  BY RequestTypes DEF SystemInv
<1>2. Stands(op, meant, FALSE, Len(building)) /\ (op.mode = 1 => op.value # slot)
  BY DEF BuildingInv
<1> HIDE DEF op, meant
<1>3. op.mode \in {2, 3} =>
        /\ ring'[op.value] = [val |-> meant, id |-> op.mode - 2, v |-> 1]
        /\ AgeAt(Address(ringPtr'), op.value) < Len(building')
  BY <1>1, <1>2, InRingKept DEF Stands
<1>4. Built(n, op, meant)
  BY <1>2, <1>3 DEF Built, Stands, GoalResult
<1> QED
  BY <1>4 DEF op, meant

LEMMA PutOperandBuilds ==
  ASSUME SystemInv, TypeOK', RingIds, BuildingInv, NEW v \in Values, PutOperand(v)
  PROVE  BuildingInv'
<1> DEFINE given == [operand |-> [mode |-> 2 + IdBit(ringPtr),
                                  value |-> Address(ringPtr)],
                     value |-> v]
<1>1. building' = Append(building, given) /\ goal' = goal /\ slot' = slot
  BY DEF PutOperand
<1>2. /\ RingKeeps(Len(building), Len(building'))
      /\ Address(ringPtr) \in Addresses /\ IdBit(ringPtr) \in {0, 1}
      /\ ring'[Address(ringPtr)] = [val |-> v, id |-> IdBit(ringPtr), v |-> 1]
      /\ AgeAt(Address(ringPtr'), Address(ringPtr)) = 0
  BY PutOperandRing
<1> DEFINE last == Len(building) + 1
<1>3. Built(last, given.operand, given.value)
  <2>1. Len(building') > 0
    BY <1>1, BuildingGrows DEF SystemInv
  <2>2. given.operand.mode - 2 = IdBit(ringPtr) /\ given.operand.mode \in {2, 3}
    BY <1>2
  <2> QED
    BY <1>2, <2>1, <2>2 DEF Built
<1> HIDE DEF given
<1>4. /\ Len(building) \in Nat /\ Len(building') = Len(building) + 1
      /\ \A n \in 1 .. Len(building) : building'[n] = building[n]
      /\ building'[Len(building) + 1] = given
  BY <1>1, BuildingGrows DEF SystemInv
<1>5. \A n \in 1 .. Len(building) : Built(n, building[n].operand, building[n].value)
  BY <1>1, <1>2, BuiltKept
<1>6. \A n \in 1 .. Len(building') : n \in 1 .. Len(building) \/ n = last
  BY <1>4
<1>7. \A n \in 1 .. Len(building') : Built(n, building'[n].operand, building'[n].value)
  BY <1>3, <1>4, <1>5, <1>6
<1> QED
  BY <1>7, BuiltAll

LEMMA NameEntryBuilds ==
  ASSUME SystemInv, TypeOK', RingIds, BuildingInv, NEW k \in Entries, NameEntry(k)
  PROVE  BuildingInv'
<1> DEFINE given == [operand |-> [mode |-> 1, value |-> k], value |-> GoalResult(k)]
           last == Len(building) + 1
<1>1. /\ building' = Append(building, given) /\ goal' = goal /\ slot' = slot
      /\ k # slot /\ goal[k] # None
  BY DEF NameEntry
<1>2. Built(last, given.operand, given.value)
  BY <1>1 DEF Built, GoalResult
<1> HIDE DEF given
<1>3. /\ Len(building) \in Nat /\ Len(building') = Len(building) + 1
      /\ \A n \in 1 .. Len(building) : building'[n] = building[n]
      /\ building'[Len(building) + 1] = given
  BY <1>1, BuildingGrows DEF SystemInv
<1>4. \A n \in 1 .. Len(building) : Built(n, building[n].operand, building[n].value)
  BY <1>1, NameEntryRing, BuiltKept
<1>5. \A n \in 1 .. Len(building') : n \in 1 .. Len(building) \/ n = last
  BY <1>3
<1>6. \A n \in 1 .. Len(building') : Built(n, building'[n].operand, building'[n].value)
  BY <1>2, <1>3, <1>4, <1>5
<1> QED
  BY <1>6, BuiltAll

LEMMA BuildingRests ==
  ASSUME SystemInv, BuildingInv, RingIds, UNCHANGED <<ring, ringPtr, slot, building, goal>>
  PROVE  BuildingInv'
<1>1. RingKeeps(Len(building), Len(building'))
  BY RingRests DEF SystemInv
<1>2. \A n \in 1 .. Len(building') : Built(n, building'[n].operand, building'[n].value)
  BY <1>1, BuiltKept
<1> QED
  BY <1>2, BuiltAll

\* What an operand has to stand for after a step.
StandsNext(op, meant, newer, room) ==
  /\ op.mode = 0 => op.value = meant
  /\ op.mode = 1 =>
       IF newer THEN completed'[op.value] /\ result'[op.value] = meant
                ELSE /\ goal'[op.value] # None
                     /\ meant = Apply(goal'[op.value].inst, goal'[op.value].args)
  /\ op.mode \in {2, 3} =>
       /\ ring'[op.value] = [val |-> meant, id |-> op.mode - 2, v |-> 1]
       /\ AgeAt(Address(ringPtr'), op.value) < room
FollowsNext(e, n) == \E m \in 1 .. Len(csr') : m > n /\ csr'[m].wr_addr = e
InCsrNext(e) == \E n \in 1 .. Len(csr') : csr'[n].wr_addr = e

RequestStands(n) ==
  /\ csr'[n].inst = goal'[csr'[n].wr_addr].inst
  /\ \A o \in Operands :
       /\ StandsNext(csr'[n].operands[o], goal'[csr'[n].wr_addr].args[o],
                     FollowsNext(csr'[n].operands[o].value, n), NextRoom(csr'[n].wr_addr))
       /\ csr'[n].operands[o].mode = 1 => csr'[n].operands[o].value # csr'[n].wr_addr
EntryStands(e) ==
  /\ inst'[e] = goal'[e].inst
  /\ \A o \in Operands :
       StandsNext(operands'[e][o], goal'[e].args[o],
                  InCsrNext(operands'[e][o].value), NextRoom(e))

LEMMA AllStand ==
  /\ (\A n \in 1 .. Len(csr') : RequestStands(n)) => CsrInv'
  /\ (\A e \in Entries : valid'[e] /\ ~InCsrNext(e) => EntryStands(e)) => EntryInv'
<1>1. ASSUME \A n \in 1 .. Len(csr') : RequestStands(n) PROVE CsrInv'
  <2>1. \A n \in 1 .. Len(csr'), o \in Operands :
          StandsNext(csr'[n].operands[o], goal'[csr'[n].wr_addr].args[o],
                     FollowsNext(csr'[n].operands[o].value, n), NextRoom(csr'[n].wr_addr))
          => Stands(csr[n].operands[o], goal[csr[n].wr_addr].args[o],
                    Follows(csr[n].operands[o].value, n), Room(csr[n].wr_addr))'
    BY DEF StandsNext, Stands, RingHolds, Follows, FollowsNext, Age, Room, NextRoom,
           GoalResult
  <2> QED
    BY <1>1, <2>1 DEF CsrInv, RequestStands
<1>2. ASSUME \A e \in Entries : valid'[e] /\ ~InCsrNext(e) => EntryStands(e)
      PROVE  EntryInv'
  BY <1>2 DEF EntryInv, HasGoal, EntryStands, StandsNext, Stands, RingHolds, InCsr,
              InCsrNext, Age, Room, NextRoom, GoalResult
<1> QED
  BY <1>1, <1>2

\* The slot that is taken has the result of its last request in its entry.
LEMMA SubmittedSlotIsDone ==
  ASSUME SystemInv, PlacesInv, ResultInv, NEW i, Submit(i), slot \in Entries
  PROVE  goal[slot] # None => completed[slot] /\ result[slot] = GoalResult(slot)
<1>1. ~InCsr(slot) /\ RequestReady(slot)
  BY SubmitTakesFreeSlot
<1>2. ASSUME goal[slot] # None PROVE HasGoal(slot) /\ completed[slot]
  BY <1>1, <1>2 DEF PlacesInv, HasGoal, RequestReady, SystemInv, CoreInv, EntryLifeCycle
<1> QED
  BY <1>2 DEF ResultInv

LEMMA SubmitKeepsMeaning ==
  ASSUME SystemInv, TypeOK', PlacesInv, RingIds, ResultInv, NEW i \in Insts, Submit(i),
         NEW e \in Entries \ {slot}, NEW op \in RequestOperands, NEW meant,
         NEW newer \in BOOLEAN, Stands(op, meant, newer, Room(e)),
         op.mode = 1 /\ op.value = slot => ~newer
  PROVE  StandsNext(op, meant, newer \/ op.value = slot, NextRoom(e))
<1>1. RingKeeps(Room(e), NextRoom(e))
  BY SubmitRing
<1>2. slot \in Entries /\ goal \in [Entries -> Goals \cup {None}]
  BY DEF SystemInv, TypeOK
<1>3. goal[slot] # None => completed[slot] /\ result[slot] = GoalResult(slot)
  BY <1>2, SubmittedSlotIsDone
<1>4. completed' = completed /\ result' = result
  BY DEF Submit, localityVars, rbVars
<1>5. \A k \in Entries : k # slot => goal'[k] = goal[k]
  BY <1>2 DEF Submit
<1>6. /\ op.mode = 1 => op.value \in Entries
      /\ op.mode \in {0, 1, 2, 3}
  BY ModeZeroIsValue
<1>7. CASE op.mode = 0
  BY <1>7 DEF Stands, StandsNext
<1>8. CASE op.mode = 1
  <2>1. CASE op.value = slot
    BY <1>3, <1>4, <1>8, <2>1 DEF Stands, StandsNext
  <2>2. CASE op.value # slot
    BY <1>4, <1>5, <1>6, <1>8, <2>2 DEF Stands, StandsNext, GoalResult
  <2> QED
    BY <2>1, <2>2
<1>9. CASE op.mode \in {2, 3}
  <2>1. RingHolds(op, meant) /\ Age(op.value) < Room(e)
    BY <1>9 DEF Stands
  <2>2. /\ ring'[op.value] = [val |-> meant, id |-> op.mode - 2, v |-> 1]
        /\ AgeAt(Address(ringPtr'), op.value) < NextRoom(e)
    BY <1>1, <1>9, <2>1, InRingKept
  <2> QED
    BY <1>9, <2>2 DEF StandsNext
<1> QED
  BY <1>6, <1>7, <1>8, <1>9

LEMMA SubmitKeepsRequests ==
  ASSUME SystemInv, TypeOK', PlacesInv, RingIds, CsrInv, ResultInv,
         NEW i \in Insts, Submit(i), NEW n \in 1 .. Len(csr)
  PROVE  RequestStands(n)
<1> DEFINE e == csr[n].wr_addr
<1>1. e \in Entries \ {slot} /\ slot \in Entries /\ ~InCsr(slot)
  <2>1. slot \in Entries
    BY DEF SystemInv, TypeOK
  <2>2. ~InCsr(slot)
    BY <2>1, SubmitTakesFreeSlot
  <2> QED
    BY <2>1, <2>2, RequestTypes DEF InCsr, SystemInv
<1>2. /\ Len(csr) \in Nat /\ Len(csr') = Len(csr) + 1
      /\ \A m \in 1 .. Len(csr) : csr'[m] = csr[m]
      /\ csr'[Len(csr) + 1] = Submitted(i)
  BY CsrGrows DEF SystemInv
<1>3. Submitted(i).wr_addr = slot
  BY DEF Submitted
<1>4. goal'[e] = goal[e]
  BY <1>1 DEF Submit, SystemInv, TypeOK
<1>5. \A k : FollowsNext(k, n) <=> Follows(k, n) \/ k = slot
  <2> TAKE k
  <2>1. ASSUME FollowsNext(k, n) PROVE Follows(k, n) \/ k = slot
    <3>1. PICK m \in 1 .. Len(csr') : m > n /\ csr'[m].wr_addr = k
      BY <2>1 DEF FollowsNext
    <3>2. m \in 1 .. Len(csr) \/ m = Len(csr) + 1
      BY <1>2
    <3> QED
      BY <1>2, <1>3, <3>1, <3>2 DEF Follows
  <2>2. ASSUME Follows(k, n) PROVE FollowsNext(k, n)
    <3>1. PICK m \in 1 .. Len(csr) : m > n /\ csr[m].wr_addr = k
      BY <2>2 DEF Follows
    <3>2. m \in 1 .. Len(csr')
      BY <1>2
    <3> QED
      BY <1>2, <3>1, <3>2 DEF FollowsNext
  <2>3. ASSUME k = slot PROVE FollowsNext(k, n)
    <3>1. Len(csr) + 1 \in 1 .. Len(csr') /\ Len(csr) + 1 > n
      BY <1>2
    <3>2. csr'[Len(csr) + 1].wr_addr = k
      BY <1>2, <1>3, <2>3
    <3> QED
      BY <3>1, <3>2 DEF FollowsNext
  <2> QED
    BY <2>1, <2>2, <2>3
<1>6. ~Follows(slot, n)
  BY <1>1 DEF Follows, InCsr
<1>7. ASSUME NEW o \in Operands
      PROVE  /\ StandsNext(csr[n].operands[o], goal[e].args[o],
                           FollowsNext(csr[n].operands[o].value, n), NextRoom(e))
             /\ csr[n].operands[o].mode = 1 => csr[n].operands[o].value # e
  <2> DEFINE op == csr[n].operands[o]
             meant == goal[e].args[o]
             newer == Follows(op.value, n)
  <2>1. op \in RequestOperands
    BY RequestTypes DEF SystemInv
  <2>2. /\ Stands(op, meant, newer, Room(e))
        /\ op.mode = 1 => op.value # e
    BY DEF CsrInv
  <2>3. newer \in BOOLEAN
    BY DEF Follows
  <2>4. FollowsNext(op.value, n) = (newer \/ op.value = slot)
    BY <1>5 DEF Follows, FollowsNext
  <2>5. op.value = slot => ~newer
    BY <1>6
  <2> HIDE DEF op, meant, newer
  <2>6. StandsNext(op, meant, newer \/ op.value = slot, NextRoom(e))
    BY <1>1, <2>1, <2>2, <2>3, <2>5, SubmitKeepsMeaning
  <2>7. StandsNext(op, meant, FollowsNext(op.value, n), NextRoom(e))
    BY <2>4, <2>6
  <2> QED
    BY <2>2, <2>7 DEF op, meant
<1>8. csr'[n] = csr[n] /\ csr[n].inst = goal[e].inst
  BY <1>2 DEF CsrInv
<1> QED
  BY <1>4, <1>7, <1>8 DEF RequestStands

\* The new request means what the operands that were built mean.
LEMMA SubmittedStands ==
  ASSUME SystemInv, TypeOK', PlacesInv, RingIds, BuildingInv,
         NEW i \in Insts, Submit(i)
  PROVE  RequestStands(Len(csr) + 1)
<1> DEFINE last == Len(csr) + 1
           req == Submitted(i)
           given(o) == o < Len(building)
<1>1. /\ Len(csr) \in Nat /\ Len(csr') = last /\ csr'[last] = req
  BY CsrGrows DEF SystemInv
<1>2. slot \in Entries /\ goal \in [Entries -> Goals \cup {None}]
  BY DEF SystemInv, TypeOK
<1>3. /\ req.wr_addr = slot /\ req.inst = i
      /\ \A o \in Operands :
           req.operands[o] = IF given(o) THEN building[o + 1].operand ELSE ZeroOperand
  BY DEF Submitted
<1>4. /\ goal'[slot].inst = i
      /\ \A o \in Operands :
           goal'[slot].args[o] = IF given(o) THEN building[o + 1].value ELSE Zero
      /\ \A k \in Entries : k # slot => goal'[k] = goal[k]
  BY <1>2 DEF Submit
<1>5. \A k : ~FollowsNext(k, last)
  BY <1>1 DEF FollowsNext
<1>6. RingKeeps(Len(building), NextRoom(slot))
  BY SubmitRing
<1>7. ASSUME NEW o \in Operands
      PROVE  /\ StandsNext(req.operands[o], goal'[slot].args[o], FALSE, NextRoom(slot))
             /\ req.operands[o].mode = 1 => req.operands[o].value # slot
  <2>1. CASE ~given(o)
    <3>1. /\ req.operands[o] = ZeroOperand
          /\ goal'[slot].args[o] = Zero
      BY <1>3, <1>4, <2>1
    <3>2. ZeroOperand.mode = 0 /\ ZeroOperand.value = Zero
      BY DEF ZeroOperand
    <3> QED
      BY <3>1, <3>2 DEF StandsNext
  <2>2. CASE given(o)
    <3> DEFINE op == building[o + 1].operand
               meant == building[o + 1].value
    <3>1. req.operands[o] = op /\ goal'[slot].args[o] = meant
      BY <1>3, <1>4, <2>2
    <3>2. o + 1 \in 1 .. Len(building)
      BY <2>2, BuildingLength, OperandAssumption DEF Operands, SystemInv
    <3>3. op \in RequestOperands
      BY <3>2, RequestTypes DEF SystemInv
    <3>4. /\ Stands(op, meant, FALSE, Len(building))
          /\ op.mode = 1 => op.value # slot
      BY <3>2 DEF BuildingInv
    <3> HIDE DEF op, meant
    <3>5. op.mode = 1 => op.value \in Entries /\ goal'[op.value] = goal[op.value]
      BY <1>4, <3>3, <3>4, ModeZeroIsValue
    <3>6. op.mode \in {2, 3} =>
            /\ ring'[op.value] = [val |-> meant, id |-> op.mode - 2, v |-> 1]
            /\ AgeAt(Address(ringPtr'), op.value) < NextRoom(slot)
      BY <1>6, <3>3, <3>4, InRingKept DEF Stands
    <3>7. StandsNext(op, meant, FALSE, NextRoom(slot))
      BY <3>4, <3>5, <3>6 DEF Stands, StandsNext, GoalResult
    <3> QED
      BY <3>1, <3>4, <3>7
  <2> QED
    BY <2>1, <2>2
<1> HIDE DEF req, given
<1>8. csr'[last].wr_addr = slot /\ csr'[last].inst = i
      /\ \A o \in Operands : csr'[last].operands[o] = req.operands[o]
  BY <1>1, <1>3
<1>9. ASSUME NEW o \in Operands
      PROVE  StandsNext(csr'[last].operands[o], goal'[slot].args[o],
                        FollowsNext(csr'[last].operands[o].value, last), NextRoom(slot))
  <2>1. FollowsNext(csr'[last].operands[o].value, last) = FALSE
    BY <1>5 DEF FollowsNext
  <2> QED
    BY <1>7, <1>8, <2>1
<1> QED
  BY <1>4, <1>7, <1>8, <1>9 DEF RequestStands

LEMMA SubmitStands ==
  ASSUME SystemInv, TypeOK', PlacesInv, RingIds, BuildingInv, CsrInv, EntryInv, ResultInv,
         NEW i \in Insts, Submit(i)
  PROVE  BuildingInv' /\ CsrInv' /\ EntryInv'
<1>1. slot \in Entries
  BY DEF SystemInv, TypeOK
<1>2. CsrInv'
  <2>1. Len(csr) \in Nat /\ Len(csr') = Len(csr) + 1
    BY CsrGrows DEF SystemInv
  <2>2. \A n \in 1 .. Len(csr') : n \in 1 .. Len(csr) \/ n = Len(csr) + 1
    BY <2>1
  <2>3. \A n \in 1 .. Len(csr') : RequestStands(n)
    BY <2>2, SubmitKeepsRequests, SubmittedStands
  <2> QED
    BY <2>3, AllStand
<1>3. \A e : InCsrNext(e) <=> InCsr(e) \/ e = slot
  BY SubmittedIsInCsr DEF InCsrNext, InCsr, SystemInv
<1>4. ~InCsr(slot)
  BY <1>1, SubmitTakesFreeSlot
<1>5. ASSUME NEW e \in Entries, valid'[e] /\ ~InCsrNext(e) PROVE EntryStands(e)
  <2>1. HasGoal(e) /\ e # slot
    BY <1>3, <1>5 DEF HasGoal, Submit, localityVars, rbVars
  <2>2. inst' = inst /\ operands' = operands /\ goal'[e] = goal[e]
    BY <2>1 DEF Submit, localityVars, rbVars, SystemInv, TypeOK
  <2>3. ASSUME NEW o \in Operands
        PROVE  StandsNext(operands[e][o], goal[e].args[o],
                          InCsrNext(operands[e][o].value), NextRoom(e))
    <3> DEFINE op == operands[e][o]
               meant == goal[e].args[o]
               newer == InCsr(op.value)
    <3>1. op \in RequestOperands
      BY RequestTypes DEF SystemInv
    <3>2. Stands(op, meant, newer, Room(e))
      BY <2>1 DEF EntryInv
    <3>3. newer \in BOOLEAN
      BY DEF InCsr
    <3>4. InCsrNext(op.value) = (newer \/ op.value = slot)
      BY <1>3 DEF InCsr, InCsrNext
    <3>5. op.value = slot => ~newer
      BY <1>4
    <3> HIDE DEF op, meant, newer
    <3>6. StandsNext(op, meant, newer \/ op.value = slot, NextRoom(e))
      BY <2>1, <3>1, <3>2, <3>3, <3>5, SubmitKeepsMeaning
    <3>7. StandsNext(op, meant, InCsrNext(op.value), NextRoom(e))
      BY <3>4, <3>6
    <3> QED
      BY <3>7 DEF op, meant
  <2>4. inst[e] = goal[e].inst
    BY <2>1 DEF EntryInv
  <2> QED
    BY <2>2, <2>3, <2>4 DEF EntryStands
<1>6. EntryInv'
  BY <1>5, AllStand
<1>7. BuildingInv'
  <2>1. Len(building') = 0
    BY SubmitRing
  <2> QED
    BY <2>1, BuiltAll
<1> QED
  BY <1>2, <1>6, <1>7

-----------------------------------------------------------------------------
(* Results and reads, while the core rests.                                *)

\* What the stages of the element and the results mean depends on the requests
\* alone.
LEMMA ResultsRest ==
  ASSUME StageInv, ResultInv, UNCHANGED <<localityVars, goal, csr, writes, shown>>
  PROVE  StageInv' /\ ResultInv'
  BY DEF StageInv, ResultInv, localityVars, rbVars, peVars, HeldBy, HasGoal, InCsr, GoalResult

LEMMA ResultsSubmit ==
  ASSUME SystemInv, TypeOK', PlacesInv, StageInv, ResultInv, NEW i \in Insts, Submit(i)
  PROVE  StageInv' /\ ResultInv'
<1>1. slot \in Entries
  BY DEF SystemInv, TypeOK
<1>2. /\ ~InCsr(slot) /\ RequestReady(slot) /\ writes[slot] = <<>>
  BY <1>1, SubmitTakesFreeSlot
<1>3. /\ valid' = valid /\ completed' = completed /\ result' = result
      /\ peInit' = peInit /\ peExec' = peExec /\ peResult' = peResult
      /\ writes' = writes
  BY DEF Submit, localityVars, rbVars, peVars
<1>4. /\ \A e \in Entries \ {slot} : goal'[e] = goal[e] /\ shown'[e] = shown[e]
      /\ shown'[slot] = None
  BY <1>1 DEF Submit, SystemInv, TypeOK
<1>5. \A e : InCsr(e)' <=> InCsr(e) \/ e = slot
  BY SubmittedIsInCsr DEF SystemInv
<1>6. ~HeldInPE(slot)
  BY <1>1, <1>2, ReadyIsIdle DEF SystemInv
<1>7. StageInv'
  <2> SUFFICES ASSUME NEW e \in Entries
               PROVE  /\ HeldBy(peInit, e) => peInit.inst = goal'[e].inst /\ peInit.args = goal'[e].args
                      /\ HeldBy(peExec, e) => peExec.inst = goal'[e].inst /\ peExec.args = goal'[e].args
                      /\ HeldBy(peResult, e) => peResult.out = Apply(goal'[e].inst, goal'[e].args)
    BY <1>3 DEF StageInv, HeldBy, GoalResult
  <2>1. CASE e = slot
    BY <1>6, <2>1 DEF HeldInPE
  <2>2. CASE e # slot
    BY <1>4, <2>2 DEF StageInv, GoalResult
  <2> QED
    BY <2>1, <2>2
<1>8. ResultInv'
  <2> SUFFICES ASSUME NEW e \in Entries
               PROVE  /\ HasGoal(e)' /\ completed[e] =>
                           result[e] = Apply(goal'[e].inst, goal'[e].args)
                      /\ writes[e] # <<>> => writes[e][1] = Apply(goal'[e].inst, goal'[e].args)
                      /\ shown'[e] # None => shown'[e] = Apply(goal'[e].inst, goal'[e].args)
    BY <1>3 DEF ResultInv, HasGoal, GoalResult
  <2>1. HasGoal(e)' <=> HasGoal(e) /\ e # slot
    BY <1>3, <1>5 DEF HasGoal
  <2>2. CASE e = slot
    BY <1>2, <1>4, <2>1, <2>2
  <2>3. CASE e # slot
    BY <1>4, <2>1, <2>3 DEF ResultInv, GoalResult
  <2> QED
    BY <2>2, <2>3
<1> QED
  BY <1>7, <1>8

LEMMA ResultsDeliver ==
  ASSUME SystemInv, PlacesInv, StageInv, ResultInv, NEW e \in Entries, DeliverWrite(e)
  PROVE  StageInv' /\ ResultInv'
<1>1. /\ writes[e] # <<>> /\ shown'[e] = writes[e][1] /\ writes'[e] = <<>>
      /\ \A f \in Entries \ {e} : shown'[f] = shown[f] /\ writes'[f] = writes[f]
  BY DeliveredIsOutstanding
<1>2. /\ valid' = valid /\ completed' = completed /\ result' = result
      /\ peInit' = peInit /\ peExec' = peExec /\ peResult' = peResult
      /\ goal' = goal /\ csr' = csr
  BY DEF DeliverWrite, localityVars, rbVars, peVars, hostVars
<1>3. StageInv'
  BY <1>2 DEF StageInv, HeldBy, GoalResult
<1>4. ResultInv'
  <2> SUFFICES ASSUME NEW f \in Entries
               PROVE  /\ HasGoal(f) /\ completed[f] => result[f] = GoalResult(f)
                      /\ writes'[f] # <<>> => writes'[f][1] = GoalResult(f)
                      /\ shown'[f] # None => shown'[f] = GoalResult(f)
    BY <1>2 DEF ResultInv, HasGoal, InCsr, GoalResult
  <2>1. CASE f = e
    BY <1>1, <2>1 DEF ResultInv
  <2>2. CASE f # e
    BY <1>1, <2>2 DEF ResultInv
  <2> QED
    BY <2>1, <2>2
<1> QED
  BY <1>3, <1>4

\* An operand that waits belongs to the newest request of its slot.
LEMMA WaitingHasGoal ==
  ASSUME SystemInv, PlacesInv, NEW e \in Entries, NEW o \in Operands,
         operands[e][o].mode # 0
  PROVE  HasGoal(e) /\ ~RequestReady(e) /\ ~completed[e]
<1>1. ~OperandsValid(e)
  BY DEF OperandsValid
<1>2. ~written[e] /\ ~completed[e]
  BY <1>1 DEF SystemInv, CoreInv, EntryLifeCycle
<1>3. valid[e]
  BY <1>1 DEF PlacesInv
<1>4. ~RequestReady(e)
  BY <1>2, <1>3 DEF RequestReady
<1> QED
  BY <1>2, <1>3, <1>4 DEF PlacesInv, HasGoal

\* The operand that a slot of the fetch arbiter stands for.
LEMMA WaitingSlot ==
  ASSUME SystemInv, PlacesInv, EntryInv, NEW s \in Slots, OperandAt(s).mode \in {2, 3}
  PROVE  /\ s[1] \in Entries /\ s[2] \in Operands
         /\ OperandAt(s) \in RequestOperands /\ OperandAt(s).value \in Addresses
         /\ HasGoal(s[1]) /\ ~RequestReady(s[1])
         /\ RingHolds(OperandAt(s), goal[s[1]].args[s[2]])
         /\ Age(OperandAt(s).value) < Room(s[1])
<1>1. s[1] \in Entries /\ s[2] \in Operands
  BY DEF Slots
<1> DEFINE e == s[1]
           o == s[2]
<1>2. OperandAt(s) = operands[e][o]
  BY DEF OperandAt
<1> HIDE DEF e, o
<1>3. e \in Entries /\ o \in Operands /\ operands[e][o].mode \in {2, 3}
  BY <1>1, <1>2 DEF e, o
<1>4. operands[e][o] \in RequestOperands /\ operands[e][o].value \in Addresses
  BY <1>3, RequestTypes, ModeZeroIsValue DEF SystemInv
<1>5. HasGoal(e) /\ ~RequestReady(e)
  BY <1>3, WaitingHasGoal
<1>6. /\ RingHolds(operands[e][o], goal[e].args[o])
      /\ Age(operands[e][o].value) < Room(e)
  BY <1>3, <1>5 DEF EntryInv, Stands
<1> QED
  BY <1>2, <1>3, <1>4, <1>5, <1>6 DEF e, o

LEMMA ReadsRest ==
  ASSUME FetchInv, ReaderInv,
         UNCHANGED <<operands, infetch, reads, responses, ring, ringPtr>>
  PROVE  FetchInv' /\ ReaderInv'
  BY DEF FetchInv, ReaderInv, WaitsFor, OperandAt, Age

\* A position that is overwritten while it is read gets the other id bit, and
\* becomes newer than what the reader waits for.
LEMMA PutOperandReads ==
  ASSUME SystemInv, TypeOK', PlacesInv, RingIds, EntryInv, FetchInv, ReaderInv,
         NEW v \in Values, PutOperand(v)
  PROVE  FetchInv' /\ ReaderInv'
<1> DEFINE p == Address(ringPtr)
           q == Address(ringPtr')
<1>1. /\ operands' = operands /\ infetch' = infetch
      /\ reads' = reads /\ responses' = responses
      /\ ringPtr \in 0 .. RingTurns - 1 /\ ringPtr' \in 0 .. RingTurns - 1
      /\ ringPtr' = (ringPtr + 1) % RingTurns
      /\ ring \in [Addresses -> Cells]
  BY DEF PutOperand, localityVars, rbVars, fabricVars, SystemInv, TypeOK
<1>2. FetchInv'
  BY <1>1 DEF FetchInv
<1>3. p \in Addresses /\ q \in Addresses /\ IdBit(ringPtr) \in {0, 1}
  BY <1>1, AddressType
<1>4. q = IF p = NumOperandEntries - 1 THEN 0 ELSE p + 1
  BY <1>1, PointerSteps
<1>5. /\ ring'[p].id = IdBit(ringPtr)
      /\ \A a \in Addresses : a # p => ring'[a] = ring[a]
  BY <1>1, <1>3 DEF PutOperand
<1>6. ring[p].v = 0 \/ (ring[p].v = 1 /\ ring[p].id # IdBit(ringPtr))
  <2>1. ring[p] \in Cells
    BY <1>1, <1>3
  <2>2. ring[p].v \in {0, 1}
    BY <2>1 DEF Cells
  <2>3. p \in Int
    BY <1>3 DEF Addresses
  <2>4. ring[p].v = 1 => ring[p].id = 1 - IdBit(ringPtr)
    BY <1>3, <2>3 DEF RingIds
  <2>5. IdBit(ringPtr) # 1 - IdBit(ringPtr)
    BY <1>3
  <2> QED
    BY <2>2, <2>4, <2>5
<1> HIDE DEF p, q
<1>7. \A a \in Addresses :
        /\ AgeAt(p, a) \in 0 .. NumOperandEntries - 1
        /\ a = p <=> AgeAt(p, a) = NumOperandEntries - 1
        /\ AgeAt(q, a) = IF a = p THEN 0 ELSE AgeAt(p, a) + 1
  BY <1>3, <1>4, AgesStep
<1>8. ReaderInv'
  <2>1. \A t \in reads' : \E s \in Slots : WaitsFor(s, t)'
    BY <1>1 DEF ReaderInv, WaitsFor, OperandAt
  <2>2. ASSUME NEW r \in responses, NEW s \in Slots, WaitsFor(s, r.tag),
               NEW a \in AddressesIn(CachelineOfTag(r.tag)),
               \/ r.data[a].v = 0
               \/ r.data[a] = ring[a]
               \/ r.data[a].id # ring[a].id /\ AgeAt(p, a) < AgeAt(p, OperandAt(s).value)
        PROVE  \/ r.data[a].v = 0
               \/ r.data[a] = ring'[a]
               \/ /\ r.data[a].id # ring'[a].id
                  /\ AgeAt(q, a) < AgeAt(q, OperandAt(s).value)
    <3> DEFINE x == OperandAt(s).value
    <3>1. /\ x \in Addresses /\ AgeAt(p, x) < Room(s[1]) /\ s[1] \in Entries
      BY <2>2, WaitingSlot DEF WaitsFor, Age, p
    <3> HIDE DEF x
    <3>2. x # p /\ AgeAt(q, x) = AgeAt(p, x) + 1
      <4>1. RingKeeps(Room(s[1]), NextRoom(s[1]))
        BY <3>1, PutOperandRing DEF RequestsKeep
      <4>2. ring'[x] = ring[x] /\ AgeAt(q, x) < NextRoom(s[1])
        BY <3>1, <4>1 DEF RingKeeps, Age, p, q
      <4>3. Room(s[1]) <= NumOperandEntries - 1 /\ Room(s[1]) \in Nat
        <5>1. Len(building) < NumOperand
          BY DEF PutOperand, OperandDue
        <5> QED
          BY <3>1, <5>1, BuildingLength, RoomSteps DEF Room, SystemInv
      <4>4. AgeAt(p, x) # NumOperandEntries - 1
        BY <1>7, <3>1, <4>3, RingAssumption
      <4> QED
        BY <1>7, <3>1, <4>4
    <3>3. a \in Addresses
      BY DEF AddressesIn
    <3>4. AgeAt(p, a) \in Int /\ AgeAt(p, x) \in Nat
          /\ AgeAt(p, a) < NumOperandEntries /\ AgeAt(p, x) < NumOperandEntries
          /\ NumOperandEntries \in Nat
      BY <1>7, <3>1, <3>3, RingAssumption
    <3>5. CASE a = p
      <4>1. AgeAt(q, a) = 0 /\ AgeAt(q, a) < AgeAt(q, x)
        BY <1>7, <3>2, <3>3, <3>4, <3>5
      <4>2. ~(AgeAt(p, a) < AgeAt(p, x))
        BY <1>7, <3>3, <3>4, <3>5
      <4>3. r.data[a].v = 0 \/ r.data[a] = ring[a]
        BY <2>2, <4>2 DEF x
      <4>4. r.data[a].v = 0 \/ r.data[a].id # ring'[a].id
        BY <1>5, <1>6, <3>5, <4>3
      <4> QED
        BY <4>1, <4>4 DEF x
    <3>6. CASE a # p
      <4>1. ring'[a] = ring[a] /\ AgeAt(q, a) = AgeAt(p, a) + 1
        BY <1>5, <1>7, <3>3, <3>6
      <4>2. AgeAt(p, a) < AgeAt(p, x) => AgeAt(q, a) < AgeAt(q, x)
        BY <3>2, <3>4, <4>1
      <4> QED
        BY <2>2, <4>1, <4>2 DEF x
    <3> QED
      BY <3>5, <3>6
  <2>3. ASSUME NEW r \in responses
        PROVE  \E s \in Slots :
                 /\ WaitsFor(s, r.tag)
                 /\ \A a \in AddressesIn(CachelineOfTag(r.tag)) :
                      \/ r.data[a].v = 0
                      \/ r.data[a] = ring'[a]
                      \/ /\ r.data[a].id # ring'[a].id
                         /\ AgeAt(q, a) < AgeAt(q, OperandAt(s).value)
    <3>1. PICK s \in Slots :
            /\ WaitsFor(s, r.tag)
            /\ \A a \in AddressesIn(CachelineOfTag(r.tag)) :
                 \/ r.data[a].v = 0
                 \/ r.data[a] = ring[a]
                 \/ r.data[a].id # ring[a].id /\ AgeAt(p, a) < AgeAt(p, OperandAt(s).value)
      BY DEF ReaderInv, Age, p
    <3> QED
      BY <2>2, <3>1
  <2> QED
    BY <1>1, <2>1, <2>3 DEF ReaderInv, WaitsFor, OperandAt, Age, q
<1> QED
  BY <1>2, <1>8

\* The read becomes a response, with what the ring has now.
LEMMA SampleReads ==
  ASSUME SystemInv, FetchInv, ReaderInv, NEW t \in Tags, Sample(t)
  PROVE  FetchInv' /\ ReaderInv'
<1> DEFINE new == Response(t, ring)
<1>1. /\ t \in reads /\ reads' = reads \ {t} /\ responses' = responses \cup {new}
      /\ operands' = operands /\ infetch' = infetch /\ ring' = ring /\ ringPtr' = ringPtr
  BY DEF Sample, localityVars, rbVars, hostVars, memVars
<1>2. /\ new.tag = t
      /\ \A a \in AddressesIn(CachelineOfTag(t)) : new.data[a] = ring[a]
  BY DEF Response
<1> HIDE DEF new
<1>3. FetchInv'
  BY <1>1, <1>2 DEF FetchInv
<1>4. ReaderInv'
  <2>1. \A u \in reads' : \E s \in Slots : WaitsFor(s, u)'
    BY <1>1 DEF ReaderInv, WaitsFor, OperandAt
  <2>2. \E s \in Slots : WaitsFor(s, t)
    BY <1>1 DEF ReaderInv
  <2>3. ASSUME NEW r \in responses'
        PROVE  \E s \in Slots :
                 /\ WaitsFor(s, r.tag)
                 /\ \A a \in AddressesIn(CachelineOfTag(r.tag)) :
                      \/ r.data[a].v = 0
                      \/ r.data[a] = ring[a]
                      \/ /\ r.data[a].id # ring[a].id
                         /\ Age(a) < Age(OperandAt(s).value)
    <3>1. CASE r = new
      BY <1>2, <2>2, <3>1
    <3>2. CASE r # new
      BY <1>1, <3>2 DEF ReaderInv
    <3> QED
      BY <3>1, <3>2
  <2> QED
    BY <1>1, <2>1, <2>3 DEF ReaderInv, WaitsFor, OperandAt, Age
<1> QED
  BY <1>3, <1>4

-----------------------------------------------------------------------------
(* The clock.                                                              *)

\* A request on its way is one that was on its way, and what follows it has not
\* arrived.
LEMMA RequestComesFrom ==
  ASSUME TypeOK, PlacesInv, NEW request, NEW response, ClockEffect(request, response),
         NEW n \in 1 .. Len(csr')
  PROVE  \E m \in 1 .. Len(csr) :
           /\ csr'[n] = csr[m]
           /\ \A k : FollowsNext(k, n) <=> Follows(k, m)
           /\ \A k : Follows(k, m) => InCsr(k) /\ ~Arrives(request, k)
<1>1. CASE request = None
  BY <1>1, CsrMoves DEF FollowsNext, Follows, InCsr, Arrives
<1>2. CASE request # None
  <2>1. /\ 1 \in 1 .. Len(csr) /\ request = csr[1]
        /\ Len(csr') = Len(csr) - 1 /\ Len(csr) \in Nat
        /\ \A j \in 1 .. Len(csr') : j + 1 \in 1 .. Len(csr) /\ csr'[j] = csr[j+1]
    BY <1>2, CsrMoves
  <2> DEFINE m == n + 1
  <2>2. m \in 1 .. Len(csr) /\ csr'[n] = csr[m]
    BY <2>1
  <2>3. ASSUME NEW k, FollowsNext(k, n) PROVE Follows(k, m)
    <3>1. PICK j \in 1 .. Len(csr') : j > n /\ csr'[j].wr_addr = k
      BY <2>3 DEF FollowsNext
    <3>2. j + 1 \in 1 .. Len(csr) /\ csr'[j] = csr[j+1]
      BY <2>1
    <3>3. j \in Int /\ n \in Int
      OBVIOUS
    <3>4. j + 1 > m
      BY <3>1, <3>3
    <3>5. csr[j+1].wr_addr = k
      BY <3>1, <3>2
    <3> HIDE DEF m
    <3> QED
      BY <3>2, <3>4, <3>5 DEF Follows
  <2>4. ASSUME NEW k, Follows(k, m) PROVE FollowsNext(k, n) /\ InCsr(k) /\ ~Arrives(request, k)
    <3>1. PICK j \in 1 .. Len(csr) : j > m /\ csr[j].wr_addr = k
      BY <2>4 DEF Follows
    <3>2. j - 1 \in 1 .. Len(csr') /\ j - 1 > n /\ j # 1
      BY <2>1, <3>1
    <3>3. csr'[j-1] = csr[j]
      BY <2>1, <3>1, <3>2
    <3>4. FollowsNext(k, n)
      BY <3>1, <3>2, <3>3 DEF FollowsNext
    <3>5. csr[1].wr_addr # k
      BY <2>1, <3>1, <3>2 DEF PlacesInv
    <3>6. InCsr(k)
      BY <3>1 DEF InCsr
    <3> QED
      BY <2>1, <3>4, <3>5, <3>6 DEF Arrives
  <2> QED
    BY <2>2, <2>3, <2>4
<1> QED
  BY <1>1, <1>2

\* An entry that has its result keeps it until its next request arrives.
LEMMA DoneStays ==
  ASSUME SystemInv, PlacesInv, NEW request, NEW response, ClockEffect(request, response),
         NEW k \in Entries, ~Arrives(request, k), completed[k]
  PROVE  completed'[k] /\ result'[k] = result[k]
<1>1. ~Completes(TRUE, k)
  BY CompletingIsHeld DEF SystemInv
<1> QED
  BY <1>1, OtherEntry

LEMMA ClockKeepsMeaning ==
  ASSUME SystemInv, PlacesInv, NEW request, NEW response, ClockEffect(request, response),
         NEW op \in RequestOperands, NEW meant, NEW newer \in BOOLEAN, NEW e \in Entries,
         Stands(op, meant, newer, Room(e)),
         op.mode = 1 /\ newer => ~Arrives(request, op.value)
  PROVE  StandsNext(op, meant, newer, NextRoom(e))
<1>1. /\ ring' = ring /\ ringPtr' = ringPtr /\ slot' = slot /\ building' = building
      /\ goal' = goal
  BY DEF ClockEffect
<1>2. op.mode = 1 => op.value \in Entries
  BY ModeZeroIsValue
<1>3. op.mode = 1 /\ newer => completed'[op.value] /\ result'[op.value] = meant
  BY <1>2, DoneStays DEF Stands
<1> QED
  BY <1>1, <1>3 DEF Stands, StandsNext, RingHolds, Age, Room, NextRoom, GoalResult

LEMMA ClockRequests ==
  ASSUME SystemInv, PlacesInv, CsrInv, NEW request, NEW response,
         ClockEffect(request, response)
  PROVE  CsrInv'
<1> SUFFICES ASSUME NEW n \in 1 .. Len(csr') PROVE RequestStands(n)
  BY AllStand
<1>1. PICK m \in 1 .. Len(csr) :
        /\ csr'[n] = csr[m]
        /\ \A k : FollowsNext(k, n) <=> Follows(k, m)
        /\ \A k : Follows(k, m) => InCsr(k) /\ ~Arrives(request, k)
  BY RequestComesFrom DEF SystemInv
<1> DEFINE e == csr[m].wr_addr
<1>2. e \in Entries /\ goal' = goal
  BY RequestTypes DEF SystemInv, ClockEffect
<1>3. ASSUME NEW o \in Operands
      PROVE  /\ StandsNext(csr[m].operands[o], goal[e].args[o],
                           FollowsNext(csr[m].operands[o].value, n), NextRoom(e))
             /\ csr[m].operands[o].mode = 1 => csr[m].operands[o].value # e
  <2> DEFINE op == csr[m].operands[o]
             meant == goal[e].args[o]
             newer == Follows(op.value, m)
  <2>1. op \in RequestOperands
    BY RequestTypes DEF SystemInv
  <2>2. /\ Stands(op, meant, newer, Room(e))
        /\ op.mode = 1 => op.value # e
    BY DEF CsrInv
  <2>3. newer \in BOOLEAN
    BY DEF Follows
  <2>4. FollowsNext(op.value, n) = newer
    BY <1>1 DEF Follows, FollowsNext
  <2>5. newer => ~Arrives(request, op.value)
    BY <1>1
  <2> HIDE DEF op, meant, newer
  <2>6. StandsNext(op, meant, newer, NextRoom(e))
    BY <1>2, <2>1, <2>2, <2>3, <2>5, ClockKeepsMeaning
  <2>7. StandsNext(op, meant, FollowsNext(op.value, n), NextRoom(e))
    BY <2>4, <2>6
  <2> QED
    BY <2>2, <2>7 DEF op, meant
<1>4. csr[m].inst = goal[e].inst
  BY DEF CsrInv
<1> QED
  BY <1>1, <1>2, <1>3, <1>4 DEF RequestStands

\* A response brings an operand the value that was meant: what is stale in it has
\* not the id bit the operand waits for.
LEMMA SatisfiedByMeaning ==
  ASSUME SystemInv, PlacesInv, EntryInv, ReaderInv, NEW response \in responses \cup {None},
         NEW e \in Entries, NEW o \in Operands, Satisfies(response, operands[e][o])
  PROVE  response.data[operands[e][o].value].val = goal[e].args[o]
<1> DEFINE op == operands[e][o]
           a == op.value
           meant == goal[e].args[o]
<1>1. /\ response \in responses /\ op.mode \in {2, 3} /\ TagOf(a) = response.tag
      /\ response.data[a].v = 1 /\ response.data[a].id = op.mode - 2
  BY DEF Satisfies
<1>2. HasGoal(e)
  BY <1>1, WaitingHasGoal
<1>3. op \in RequestOperands /\ a \in Addresses
  BY <1>1, RequestTypes, ModeZeroIsValue DEF SystemInv
<1>4. ring[a] = [val |-> meant, id |-> op.mode - 2, v |-> 1]
  BY <1>1, <1>2 DEF EntryInv, Stands, RingHolds
<1>5. a \in AddressesIn(CachelineOfTag(response.tag))
  BY <1>1, <1>3, TagHasCacheline DEF AddressesIn
<1>6. PICK s \in Slots :
        /\ WaitsFor(s, response.tag)
        /\ \A b \in AddressesIn(CachelineOfTag(response.tag)) :
             \/ response.data[b].v = 0
             \/ response.data[b] = ring[b]
             \/ /\ response.data[b].id # ring[b].id
                /\ Age(b) < Age(OperandAt(s).value)
  BY <1>1 DEF ReaderInv
<1> HIDE DEF op, a, meant
<1>7. response.data[a] = ring[a]
  BY <1>1, <1>4, <1>5, <1>6
<1>8. response.data[a].val = meant
  BY <1>4, <1>7
<1> QED
  BY <1>8 DEF op, a, meant

\* An entry that a reference names, and that is completed, has the value meant.
LEMMA ForwardedIsMeant ==
  ASSUME SystemInv, PlacesInv, ResultInv, NEW op \in RequestOperands, NEW meant, NEW room,
         Stands(op, meant, InCsr(op.value), room), Forwards(op)
  PROVE  result[op.value] = meant
<1> DEFINE k == op.value
<1>1. k \in Entries /\ op.mode = 1 /\ completed[k]
  BY ModeZeroIsValue DEF Forwards
<1>2. CASE InCsr(k)
  BY <1>1, <1>2 DEF Stands
<1>3. CASE ~InCsr(k)
  <2>1. goal[k] # None /\ meant = GoalResult(k)
    BY <1>1, <1>3 DEF Stands
  <2>2. HasGoal(k)
    BY <1>1, <1>3, <2>1 DEF PlacesInv, HasGoal
  <2> QED
    BY <1>1, <2>1, <2>2 DEF ResultInv
<1> QED
  BY <1>2, <1>3

LEMMA ClockArrivedEntry ==
  ASSUME SystemInv, PlacesInv, CsrInv, NEW request, NEW response,
         ClockEffect(request, response), NEW e \in Entries, Arrives(request, e)
  PROVE  EntryStands(e)
<1>1. /\ 1 \in 1 .. Len(csr) /\ request = csr[1] /\ csr[1].wr_addr = e
      /\ Len(csr) \in Nat
  BY CsrMoves DEF Arrives, SystemInv
<1>2. /\ inst'[e] = request.inst
      /\ \A o \in Operands : operands'[e][o] = request.operands[o]
  BY ArrivedEntry
<1>3. goal' = goal
  BY DEF ClockEffect
<1>4. \A k \in Entries : k # e => (InCsrNext(k) <=> Follows(k, 1))
                                  /\ ~Arrives(request, k)
  <2> SUFFICES ASSUME NEW k \in Entries, k # e
               PROVE  (InCsrNext(k) <=> Follows(k, 1)) /\ ~Arrives(request, k)
    OBVIOUS
  <2>1. ~Arrives(request, k)
    BY <1>1 DEF Arrives
  <2>2. InCsrNext(k) <=> InCsr(k)
    BY <2>1, ArrivingIsInCsr DEF InCsr, InCsrNext, SystemInv
  <2>3. ASSUME InCsr(k) PROVE Follows(k, 1)
    <3>1. PICK j \in 1 .. Len(csr) : csr[j].wr_addr = k
      BY <2>3 DEF InCsr
    <3>2. j # 1
      BY <1>1, <3>1
    <3>3. j > 1
      BY <3>2
    <3> QED
      BY <3>1, <3>3 DEF Follows
  <2>4. Follows(k, 1) => InCsr(k)
    BY DEF Follows, InCsr
  <2> QED
    BY <2>1, <2>2, <2>3, <2>4
<1>5. ASSUME NEW o \in Operands
      PROVE  StandsNext(request.operands[o], goal[e].args[o],
                        InCsrNext(request.operands[o].value), NextRoom(e))
  <2> DEFINE op == request.operands[o]
             meant == goal[e].args[o]
             newer == Follows(op.value, 1)
  <2>1. op \in RequestOperands
    BY <1>1, RequestTypes DEF SystemInv
  <2>2. /\ Stands(op, meant, newer, Room(e))
        /\ op.mode = 1 => op.value # e
    BY <1>1 DEF CsrInv
  <2>3. newer \in BOOLEAN
    BY DEF Follows
  <2>4. op.mode = 1 => /\ InCsrNext(op.value) = newer
                       /\ ~Arrives(request, op.value)
    <3>1. op.mode = 1 => op.value \in Entries
      BY <2>1, ModeZeroIsValue
    <3> QED
      BY <1>4, <2>2, <3>1 DEF InCsrNext, Follows
  <2> HIDE DEF op, meant, newer
  <2>5. StandsNext(op, meant, newer, NextRoom(e))
    BY <2>1, <2>2, <2>3, <2>4, ClockKeepsMeaning
  <2>6. StandsNext(op, meant, InCsrNext(op.value), NextRoom(e))
    BY <2>4, <2>5 DEF StandsNext
  <2> QED
    BY <2>6 DEF op, meant
<1>6. request.inst = goal[e].inst
  BY <1>1 DEF CsrInv
<1> QED
  BY <1>2, <1>3, <1>5, <1>6 DEF EntryStands

LEMMA ClockOtherEntry ==
  ASSUME SystemInv, PlacesInv, EntryInv, ResultInv, ReaderInv, NEW request, NEW response,
         ClockEffect(request, response), NEW e \in Entries, ~Arrives(request, e), HasGoal(e)
  PROVE  EntryStands(e)
<1>1. /\ inst'[e] = inst[e] /\ goal' = goal /\ response \in responses \cup {None}
      /\ inst[e] = goal[e].inst
  BY OtherEntry DEF ClockEffect, EntryInv
<1>2. ASSUME NEW o \in Operands
      PROVE  StandsNext(operands'[e][o], goal[e].args[o],
                        InCsrNext(operands'[e][o].value), NextRoom(e))
  <2> DEFINE op == operands[e][o]
             next == operands'[e][o]
             meant == goal[e].args[o]
             newer == InCsr(op.value)
  <2>1. op \in RequestOperands
    BY RequestTypes DEF SystemInv
  <2>2. Stands(op, meant, newer, Room(e))
    BY DEF EntryInv
  <2>3. next = IF Satisfies(response, op)
               THEN [mode |-> 0, value |-> response.data[op.value].val]
               ELSE IF Forwards(op) THEN [mode |-> 0, value |-> result[op.value]]
               ELSE op
    BY OtherEntry
  <2>4. Satisfies(response, op) => response.data[op.value].val = meant
    BY <1>1, SatisfiedByMeaning
  <2>5. Forwards(op) => result[op.value] = meant
    BY <2>1, <2>2, ForwardedIsMeant
  <2>6. newer \in BOOLEAN
    BY DEF InCsr
  <2> HIDE DEF op, meant, newer, next
  <2>7. CASE Satisfies(response, op) \/ Forwards(op)
    <3>1. next = [mode |-> 0, value |-> meant]
      BY <2>3, <2>4, <2>5, <2>7
    <3>2. next.mode = 0 /\ next.value = meant
      BY <3>1
    <3>3. StandsNext(next, meant, InCsrNext(next.value), NextRoom(e))
      BY <3>2 DEF StandsNext
    <3> QED
      BY <3>3 DEF next, meant
  <2>8. CASE ~Satisfies(response, op) /\ ~Forwards(op)
    <3>1. next = op
      BY <2>3, <2>8
    <3>2. op.mode = 1 => op.value \in Entries /\ ~newer /\ ~InCsrNext(op.value)
      <4>1. op.mode = 1 => op.value \in Entries /\ ~completed[op.value]
        BY <2>1, <2>8, ModeZeroIsValue DEF Forwards
      <4>2. op.mode = 1 => ~newer
        BY <2>2, <4>1 DEF Stands
      <4>3. op.mode = 1 => ~InCsrNext(op.value)
        BY <4>1, <4>2, ArrivingIsInCsr DEF InCsrNext, InCsr, newer, SystemInv
      <4> QED
        BY <4>1, <4>2, <4>3
    <3>3. StandsNext(op, meant, newer, NextRoom(e))
      BY <2>1, <2>2, <2>6, <3>2, ClockKeepsMeaning
    <3>4. StandsNext(op, meant, InCsrNext(op.value), NextRoom(e))
      BY <3>2, <3>3 DEF StandsNext
    <3> QED
      BY <3>1, <3>4 DEF next, meant
  <2> QED
    BY <2>7, <2>8
<1> QED
  BY <1>1, <1>2 DEF EntryStands

LEMMA ClockEntries ==
  ASSUME SystemInv, PlacesInv, CsrInv, EntryInv, ResultInv, ReaderInv,
         NEW request, NEW response, ClockEffect(request, response)
  PROVE  EntryInv'
<1> SUFFICES ASSUME NEW e \in Entries, valid'[e], ~InCsrNext(e) PROVE EntryStands(e)
  BY AllStand
<1>1. CASE Arrives(request, e)
  BY <1>1, ClockArrivedEntry
<1>2. CASE ~Arrives(request, e)
  <2>1. valid[e]
    BY <1>2, OtherEntry
  <2>2. ~InCsr(e)
    BY <1>2, ArrivingIsInCsr DEF InCsrNext, InCsr, SystemInv
  <2> QED
    BY <1>2, <2>1, <2>2, ClockOtherEntry DEF HasGoal
<1> QED
  BY <1>1, <1>2

\* The operation that is dispatched is the one that was meant.
LEMMA DispatchedIsMeant ==
  ASSUME SystemInv, PlacesInv, EntryInv, NEW e \in Entries, Dispatches(TRUE, e)
  PROVE  /\ PERequest(TRUE).inst = goal[e].inst
         /\ PERequest(TRUE).args = goal[e].args
<1>1. e \in WaitingForDispatch /\ ~completed[e] /\ ~dispatched[e]
  BY DispatchedWaits DEF SystemInv
<1>2. OperandsValid(e) /\ valid[e]
  BY <1>1 DEF WaitingForDispatch
<1>3. HasGoal(e)
  <2>1. ~RequestReady(e)
    BY <1>1, <1>2 DEF RequestReady, SystemInv, CoreInv, EntryLifeCycle
  <2> QED
    BY <1>2, <2>1 DEF HasGoal, PlacesInv
<1>4. /\ inst[e] = goal[e].inst
      /\ \A o \in Operands : operands[e][o].value = goal[e].args[o]
  BY <1>2, <1>3 DEF EntryInv, Stands, OperandsValid
<1>5. goal[e] \in Goals
  BY <1>2 DEF PlacesInv, SystemInv, TypeOK
<1>6. goal[e].args \in [Operands -> Values]
  BY <1>5 DEF Goals, Arguments
<1>7. [o \in Operands |-> operands[e][o].value] = goal[e].args
  BY <1>4, <1>6
<1> DEFINE args == [o \in Operands |-> operands[e][o].value]
<1> DEFINE op == PERequest(TRUE)
<1>8. op = [idx |-> e, inst |-> inst[e], args |-> args]
  BY DEF Dispatches, PERequest
<1> HIDE DEF args, op
<1>9. op.inst = inst[e] /\ op.args = args
  BY <1>8
<1>10. args = goal[e].args
  BY <1>7 DEF args
<1> QED
  BY <1>4, <1>9, <1>10 DEF op

LEMMA ClockStages ==
  ASSUME SystemInv, PlacesInv, EntryInv, StageInv, NEW request, NEW response,
         ClockEffect(request, response)
  PROVE  StageInv'
<1> DEFINE op == PERequest(TRUE)
<1>1. PEClock(op, TRUE) /\ op \in Operation \cup {None} /\ PEInv /\ LocalityTypeOK
  BY PERequestType DEF ClockEffect, LocalityClock, SystemInv, CoreInv
<1>2. PICK l \in CoreLatencies :
        /\ peInit' = NextInit(op)
        /\ peExec' = NextExec(l)
        /\ peResult' = NextResult(TRUE, l)
  BY <1>1 DEF PEClock
<1>3. goal' = goal
  BY DEF ClockEffect
<1> SUFFICES ASSUME NEW e \in Entries
             PROVE  /\ HeldBy(peInit', e) =>
                         peInit'.inst = goal[e].inst /\ peInit'.args = goal[e].args
                    /\ HeldBy(peExec', e) =>
                         peExec'.inst = goal[e].inst /\ peExec'.args = goal[e].args
                    /\ HeldBy(peResult', e) => peResult'.out = GoalResult(e)
  BY <1>3 DEF StageInv, HeldBy, GoalResult
<1>4. ASSUME HeldBy(peInit', e)
      PROVE  peInit'.inst = goal[e].inst /\ peInit'.args = goal[e].args
  <2>1. CASE op # None /\ PERequestReady
    <3>1. peInit' = op
      BY <1>2, <2>1 DEF NextInit
    <3>2. op.idx = e
      BY <1>4, <3>1 DEF HeldBy
    <3>3. Dispatches(TRUE, e)
      BY <1>1, <2>1, <3>2, RequestIsDispatch
    <3> QED
      BY <3>1, <3>3, DispatchedIsMeant
  <2>2. CASE ~(op # None /\ PERequestReady)
    <3>1. peInit' = peInit
      BY <1>2, <1>4, <2>2 DEF NextInit, HeldBy
    <3> QED
      BY <1>4, <3>1 DEF StageInv, HeldBy
  <2> QED
    BY <2>1, <2>2
<1>5. ASSUME HeldBy(peExec', e)
      PROVE  peExec'.inst = goal[e].inst /\ peExec'.args = goal[e].args
  <2>1. peExec' = peInit \/ peExec' = peExec
    BY <1>2, <1>5 DEF NextExec, HeldBy
  <2> QED
    BY <1>5, <2>1 DEF StageInv, HeldBy
<1>6. ASSUME HeldBy(peResult', e) PROVE peResult'.out = GoalResult(e)
  <2>1. NewResultValid(l) /\ peResult' = ResultOf(peExec)
    BY <1>2, <1>6 DEF NextResult, HeldBy
  <2>2. peExec # None /\ peExec.idx = e
    BY <1>1, <1>6, <2>1, NewResultHasOperation DEF HeldBy, ResultOf
  <2>3. peExec.inst = goal[e].inst /\ peExec.args = goal[e].args
    BY <2>2 DEF StageInv, HeldBy
  <2>4. ResultOf(peExec).out = Apply(peExec.inst, peExec.args)
    BY DEF ResultOf
  <2> QED
    BY <2>1, <2>3, <2>4 DEF GoalResult
<1> QED
  BY <1>4, <1>5, <1>6

LEMMA ClockResults ==
  ASSUME SystemInv, PlacesInv, StageInv, ResultInv, NEW request, NEW response,
         ClockEffect(request, response)
  PROVE  ResultInv'
<1>1. goal' = goal /\ shown' = shown
  BY DEF ClockEffect
<1> SUFFICES ASSUME NEW e \in Entries
             PROVE  /\ HasGoal(e)' /\ completed'[e] => result'[e] = GoalResult(e)
                    /\ writes'[e] # <<>> => writes'[e][1] = GoalResult(e)
                    /\ shown[e] # None => shown[e] = GoalResult(e)
  BY <1>1 DEF ResultInv, GoalResult
<1>2. ASSUME HasGoal(e)', completed'[e] PROVE result'[e] = GoalResult(e)
  <2>1. ~Arrives(request, e)
    BY <1>2, ArrivedEntry
  <2>2. HasGoal(e)
    <3>1. valid'[e] = valid[e]
      BY <2>1, OtherEntry
    <3>2. ~InCsr(e)
      BY <1>2, <2>1, ArrivingIsInCsr DEF HasGoal, SystemInv
    <3> QED
      BY <1>2, <3>1, <3>2 DEF HasGoal
  <2>3. /\ completed'[e] <=> completed[e] \/ Completes(TRUE, e)
        /\ result'[e] = IF Completes(TRUE, e) THEN peResult.out ELSE result[e]
    BY <2>1, OtherEntry
  <2>4. CASE Completes(TRUE, e)
    BY <2>3, <2>4 DEF StageInv, Completes, HeldBy
  <2>5. CASE ~Completes(TRUE, e)
    BY <1>2, <2>2, <2>3, <2>5 DEF ResultInv
  <2> QED
    BY <2>4, <2>5
<1>3. ASSUME writes'[e] # <<>> PROVE writes'[e][1] = GoalResult(e)
  <2>1. CASE WriteValid /\ wbCntr = e
    <3>1. ~RequestReady(e) /\ completed[e]
      BY <2>1, WritingIsNotReady DEF SystemInv
    <3>2. writes[e] = <<>> /\ ~InCsr(e) /\ valid[e]
      BY <3>1 DEF PlacesInv, SystemInv, CoreInv, EntryLifeCycle
    <3>3. result[e] = GoalResult(e)
      BY <3>1, <3>2 DEF ResultInv, HasGoal
    <3>4. writes'[e] = Append(<<>>, result[e])
      BY <2>1, <3>2, WritesMove
    <3>5. writes'[e][1] = result[e]
      BY <3>4
    <3> QED
      BY <3>3, <3>5
  <2>2. CASE ~(WriteValid /\ wbCntr = e)
    BY <1>3, <2>2, WritesMove DEF ResultInv
  <2> QED
    BY <2>1, <2>2
<1> QED
  BY <1>2, <1>3 DEF ResultInv

\* The read that is issued is of a cacheline that was not under way.
LEMMA ClockFetches ==
  ASSUME SystemInv, FetchInv, NEW request, NEW response, ClockEffect(request, response)
  PROVE  FetchInv'
<1> DEFINE new == FetchTag(TRUE)
           line == CachelineOfTag(new)
<1>1. /\ reads' = IF FetchValid THEN reads \cup {new} ELSE reads
      /\ responses' = responses \ {response}
      /\ response \in responses \cup {None}
  BY DEF ClockEffect
<1>2. infetch' = (infetch \ (IF response # None THEN {CachelineOfTag(response.tag)} ELSE {}))
                 \cup (IF FetchValid THEN {CachelineOf(FetchAddress(TRUE))} ELSE {})
  BY DEF ClockEffect, LocalityClock, NextInfetch
<1>3. FetchValid => line = CachelineOf(FetchAddress(TRUE)) /\ line \notin infetch
  BY FetchAddressType, TagHasCacheline DEF FetchTag, SystemInv, CoreInv
<1>4. None \notin responses
  BY NoneIsApart DEF SystemInv, TypeOK
<1> HIDE DEF new, line
<1>5. infetch' = (infetch \ (IF response # None THEN {CachelineOfTag(response.tag)} ELSE {}))
                 \cup (IF FetchValid THEN {line} ELSE {})
  BY <1>2, <1>3
<1>6. response # None => response \in responses
  BY <1>1
<1>7. \A t \in reads' : CachelineOfTag(t) \in infetch'
  <2> SUFFICES ASSUME NEW t \in reads' PROVE CachelineOfTag(t) \in infetch'
    OBVIOUS
  <2>1. CASE t \in reads
    BY <1>5, <1>6, <2>1 DEF FetchInv
  <2>2. CASE t \notin reads
    <3>1. FetchValid /\ t = new
      BY <1>1, <2>2
    <3> QED
      BY <1>5, <3>1 DEF line
  <2> QED
    BY <2>1, <2>2
<1>8. \A r \in responses' : CachelineOfTag(r.tag) \in infetch'
  BY <1>1, <1>5, <1>6 DEF FetchInv
<1>9. \A l \in infetch' :
        \/ \E t \in reads' : CachelineOfTag(t) = l
        \/ \E r \in responses' : CachelineOfTag(r.tag) = l
  <2> SUFFICES ASSUME NEW l \in infetch'
               PROVE  \/ \E t \in reads' : CachelineOfTag(t) = l
                      \/ \E r \in responses' : CachelineOfTag(r.tag) = l
    OBVIOUS
  <2>1. CASE FetchValid /\ l = line
    BY <1>1, <2>1 DEF line
  <2>2. CASE ~(FetchValid /\ l = line)
    <3>1. l \in infetch /\ (response # None => l # CachelineOfTag(response.tag))
      BY <1>5, <2>2
    <3>2. CASE \E t \in reads : CachelineOfTag(t) = l
      BY <1>1, <3>2
    <3>3. CASE \E r \in responses : CachelineOfTag(r.tag) = l
      BY <1>1, <1>4, <3>1, <3>3
    <3> QED
      BY <3>1, <3>2, <3>3 DEF FetchInv
  <2> QED
    BY <2>1, <2>2
<1>10. \A t, u \in reads' : CachelineOfTag(t) = CachelineOfTag(u) => t = u
  <2>1. FetchValid => \A t \in reads : CachelineOfTag(t) # line
    BY <1>3 DEF FetchInv
  <2> QED
    BY <1>1, <2>1 DEF FetchInv, line
<1>11. \A r, q \in responses' : CachelineOfTag(r.tag) = CachelineOfTag(q.tag) => r = q
  BY <1>1 DEF FetchInv
<1>12. \A t \in reads', r \in responses' : CachelineOfTag(t) # CachelineOfTag(r.tag)
  <2>1. FetchValid => \A r \in responses : CachelineOfTag(r.tag) # line
    BY <1>3 DEF FetchInv
  <2> QED
    BY <1>1, <2>1 DEF FetchInv, line
<1> QED
  BY <1>7, <1>8, <1>9, <1>10, <1>11, <1>12 DEF FetchInv

\* An operand that waits for a read waits until the response to that read.
LEMMA WaitsOn ==
  ASSUME SystemInv, PlacesInv, EntryInv, NEW request, NEW response,
         ClockEffect(request, response), NEW s \in Slots, NEW t, WaitsFor(s, t),
         response # None => response.tag # t
  PROVE  operands'[s[1]][s[2]] = operands[s[1]][s[2]]
<1> DEFINE e == s[1]
           o == s[2]
<1>1. /\ e \in Entries /\ o \in Operands /\ ~RequestReady(e)
      /\ operands[e][o].mode \in {2, 3} /\ TagOf(operands[e][o].value) = t
  BY WaitingSlot DEF WaitsFor, OperandAt
<1> HIDE DEF e, o
<1>2. ~Arrives(request, e)
  BY <1>1, ArrivingIsInCsr DEF SystemInv, PlacesInv
<1>3. ~Satisfies(response, operands[e][o]) /\ ~Forwards(operands[e][o])
  BY <1>1 DEF Satisfies, Forwards
<1>4. operands'[e][o] = operands[e][o]
  BY <1>1, <1>2, <1>3, OtherEntry
<1> QED
  BY <1>4 DEF e, o

LEMMA ClockReaders ==
  ASSUME SystemInv, PlacesInv, EntryInv, FetchInv, ReaderInv, NEW request, NEW response,
         ClockEffect(request, response)
  PROVE  ReaderInv'
<1>1. /\ reads' = IF FetchValid THEN reads \cup {FetchTag(TRUE)} ELSE reads
      /\ responses' = responses \ {response}
      /\ response \in responses \cup {None}
      /\ ring' = ring /\ ringPtr' = ringPtr
  BY DEF ClockEffect
<1>2. response # None => response \in responses
  BY <1>1
<1>3. ASSUME NEW t \in reads'
      PROVE  \E s \in Slots : WaitsFor(s, t)'
  <2>1. CASE t \in reads
    <3>1. PICK s \in Slots : WaitsFor(s, t)
      BY <2>1 DEF ReaderInv
    <3>2. response # None => response.tag # t
      BY <1>2, <2>1 DEF FetchInv
    <3>3. operands'[s[1]][s[2]] = operands[s[1]][s[2]]
      BY <3>1, <3>2, WaitsOn
    <3> QED
      BY <3>1, <3>3 DEF WaitsFor, OperandAt
  <2>2. CASE t \notin reads
    <3> DEFINE s == FetchSlot(TRUE)
    <3>1. FetchValid /\ t = FetchTag(TRUE)
      BY <1>1, <2>2
    <3>2. s \in WaitingToBeFetched
      BY <3>1, FetchSlotWaits
    <3>3. s \in Slots /\ WaitsFor(s, t)
      BY <3>1, <3>2 DEF WaitingToBeFetched, WaitsFor, FetchTag, FetchAddress
    <3>4. response # None => response.tag # t
      <4>1. CachelineOfTag(t) = CachelineOf(FetchAddress(TRUE))
            /\ CachelineOf(FetchAddress(TRUE)) \notin infetch
        BY <3>1, FetchAddressType, TagHasCacheline DEF FetchTag, SystemInv, CoreInv
      <4> QED
        BY <1>2, <4>1 DEF FetchInv
    <3> HIDE DEF s
    <3>5. operands'[s[1]][s[2]] = operands[s[1]][s[2]]
      BY <3>3, <3>4, WaitsOn
    <3> QED
      BY <3>3, <3>5 DEF WaitsFor, OperandAt
  <2> QED
    BY <2>1, <2>2
<1>4. ASSUME NEW r \in responses'
      PROVE  \E s \in Slots :
               /\ WaitsFor(s, r.tag)'
               /\ \A a \in AddressesIn(CachelineOfTag(r.tag)) :
                    \/ r.data[a].v = 0
                    \/ r.data[a] = ring[a]
                    \/ /\ r.data[a].id # ring[a].id
                       /\ Age(a) < Age(operands'[s[1]][s[2]].value)
  <2>1. r \in responses /\ r # response
    BY <1>1
  <2>2. PICK s \in Slots :
          /\ WaitsFor(s, r.tag)
          /\ \A a \in AddressesIn(CachelineOfTag(r.tag)) :
               \/ r.data[a].v = 0
               \/ r.data[a] = ring[a]
               \/ /\ r.data[a].id # ring[a].id
                  /\ Age(a) < Age(OperandAt(s).value)
    BY <2>1 DEF ReaderInv
  <2>3. response # None => response.tag # r.tag
    BY <1>2, <2>1 DEF FetchInv
  <2>4. operands'[s[1]][s[2]] = operands[s[1]][s[2]]
    BY <2>2, <2>3, WaitsOn
  <2> QED
    BY <2>2, <2>4 DEF WaitsFor, OperandAt
<1> QED
  BY <1>1, <1>3, <1>4 DEF ReaderInv, WaitsFor, OperandAt, Age

-----------------------------------------------------------------------------
(* The invariant.                                                          *)

\* The types, the invariant of the core and that of the whole system.
FullInv == SystemInv /\ FuturesInv

LEMMA FuturesInit == Init => FuturesInv
<1> SUFFICES ASSUME Init PROVE FuturesInv
  OBVIOUS
<1>1. PlacesInv
  BY PlacesStart
<1>2. Len(csr) = 0 /\ Len(building) = 0
  BY DEF Init
<1>3. RingIds
  <2>1. \A a \in Addresses : ring[a] = [val |-> Zero, id |-> 0, v |-> 0]
    BY DEF Init
  <2> QED
    BY <2>1 DEF RingIds
<1>4. BuildingInv /\ CsrInv
  BY <1>2 DEF BuildingInv, CsrInv
<1>5. EntryInv
  BY DEF EntryInv, HasGoal, Init, LocalityInit
<1>6. StageInv
  BY DEF StageInv, HeldBy, Init, LocalityInit, PEInit
<1>7. ResultInv
  BY DEF ResultInv, HasGoal, Init, LocalityInit
<1>8. FetchInv /\ ReaderInv
  BY DEF FetchInv, ReaderInv, Init, LocalityInit
<1> QED
  BY <1>1, <1>3, <1>4, <1>5, <1>6, <1>7, <1>8 DEF FuturesInv

LEMMA FuturesPutOperand ==
  ASSUME FullInv, SystemInv', NEW v \in Values, PutOperand(v)
  PROVE  FuturesInv'
<1> USE DEF FullInv, FuturesInv
<1>1. TypeOK'
  BY DEF SystemInv
<1>2. UNCHANGED <<localityVars, slot, goal, shown, csr, reads, responses, writes>>
  BY DEF PutOperand, fabricVars
<1>3. PlacesInv'
  BY <1>2, PlacesStutter DEF localityVars, rbVars
<1>4. RingIds' /\ RequestsKeep
  BY <1>1, PutOperandRing
<1>5. BuildingInv'
  BY <1>1, PutOperandBuilds
<1>6. CsrInv' /\ EntryInv'
  BY <1>2, <1>4, RequestsStand
<1>7. StageInv' /\ ResultInv'
  BY <1>2, ResultsRest
<1>8. FetchInv' /\ ReaderInv'
  BY <1>1, PutOperandReads
<1> QED
  BY <1>3, <1>4, <1>5, <1>6, <1>7, <1>8

LEMMA FuturesNameEntry ==
  ASSUME FullInv, SystemInv', NEW k \in Entries, NameEntry(k)
  PROVE  FuturesInv'
<1> USE DEF FullInv, FuturesInv
<1>1. TypeOK'
  BY DEF SystemInv
<1>2. UNCHANGED <<localityVars, goal, ring, ringPtr, shown, csr, reads, responses, writes>>
  BY DEF NameEntry, fabricVars, memVars
<1>3. PlacesInv'
  BY <1>2, PlacesStutter DEF localityVars, rbVars
<1>4. RingIds' /\ RequestsKeep
  BY <1>1, NameEntryRing
<1>5. BuildingInv'
  BY <1>1, NameEntryBuilds
<1>6. CsrInv' /\ EntryInv'
  BY <1>2, <1>4, RequestsStand
<1>7. StageInv' /\ ResultInv'
  BY <1>2, ResultsRest
<1>8. FetchInv' /\ ReaderInv'
  BY <1>2, ReadsRest DEF localityVars, rbVars
<1> QED
  BY <1>3, <1>4, <1>5, <1>6, <1>7, <1>8

LEMMA FuturesSubmit ==
  ASSUME FullInv, SystemInv', NEW i \in Insts, Submit(i)
  PROVE  FuturesInv'
<1> USE DEF FullInv, FuturesInv
<1>1. TypeOK'
  BY DEF SystemInv
<1>2. UNCHANGED <<localityVars, ring, ringPtr, reads, responses>>
  BY DEF Submit
<1>3. PlacesInv'
  BY <1>1, PlacesSubmit
<1>4. RingIds'
  BY <1>1, SubmitRing
<1>5. BuildingInv' /\ CsrInv' /\ EntryInv'
  BY <1>1, SubmitStands
<1>6. StageInv' /\ ResultInv'
  BY <1>1, ResultsSubmit
<1>7. FetchInv' /\ ReaderInv'
  BY <1>2, ReadsRest DEF localityVars, rbVars
<1> QED
  BY <1>3, <1>4, <1>5, <1>6, <1>7

LEMMA FuturesSample ==
  ASSUME FullInv, NEW t \in Tags, Sample(t)
  PROVE  FuturesInv'
<1> USE DEF FullInv, FuturesInv
<1>1. UNCHANGED <<localityVars, slot, ringPtr, building, goal, ring, shown, csr, writes>>
  BY DEF Sample, hostVars, memVars
<1>2. PlacesInv'
  BY <1>1, PlacesStutter DEF localityVars, rbVars
<1>3. RingIds' /\ RequestsKeep
  BY <1>1, RingRests DEF SystemInv
<1>4. BuildingInv'
  BY <1>1, BuildingRests
<1>5. CsrInv' /\ EntryInv'
  BY <1>1, <1>3, RequestsStand
<1>6. StageInv' /\ ResultInv'
  BY <1>1, ResultsRest
<1>7. FetchInv' /\ ReaderInv'
  BY SampleReads
<1> QED
  BY <1>2, <1>3, <1>4, <1>5, <1>6, <1>7

LEMMA FuturesDeliver ==
  ASSUME FullInv, NEW e \in Entries, DeliverWrite(e)
  PROVE  FuturesInv'
<1> USE DEF FullInv, FuturesInv
<1>1. UNCHANGED <<localityVars, slot, ringPtr, building, goal, ring, csr, reads, responses>>
  BY DEF DeliverWrite, hostVars
<1>2. PlacesInv'
  BY PlacesDeliver
<1>3. RingIds' /\ RequestsKeep
  BY <1>1, RingRests DEF SystemInv
<1>4. BuildingInv'
  BY <1>1, BuildingRests
<1>5. CsrInv' /\ EntryInv'
  BY <1>1, <1>3, RequestsStand
<1>6. StageInv' /\ ResultInv'
  BY ResultsDeliver
<1>7. FetchInv' /\ ReaderInv'
  BY <1>1, ReadsRest DEF localityVars, rbVars
<1> QED
  BY <1>2, <1>3, <1>4, <1>5, <1>6, <1>7

LEMMA FuturesClock ==
  ASSUME FullInv, NEW request, NEW response, ClockEffect(request, response)
  PROVE  FuturesInv'
<1> USE DEF FullInv, FuturesInv
<1>1. UNCHANGED <<slot, ringPtr, building, goal, ring>>
  BY DEF ClockEffect
<1>2. PlacesInv'
  BY PlacesClock
<1>3. RingIds'
  BY <1>1, RingRests DEF SystemInv
<1>4. BuildingInv'
  BY <1>1, BuildingRests
<1>5. CsrInv'
  BY ClockRequests
<1>6. EntryInv'
  BY ClockEntries
<1>7. StageInv'
  BY ClockStages
<1>8. ResultInv'
  BY ClockResults
<1>9. FetchInv'
  BY ClockFetches
<1>10. ReaderInv'
  BY ClockReaders
<1> QED
  BY <1>2, <1>3, <1>4, <1>5, <1>6, <1>7, <1>8, <1>9, <1>10

LEMMA FuturesStutter ==
  ASSUME FullInv, UNCHANGED vars
  PROVE  FuturesInv'
<1> USE DEF FullInv, FuturesInv
<1>1. UNCHANGED <<localityVars, slot, ringPtr, building, goal, ring, shown, csr, reads,
                  responses, writes>>
  BY DEF vars, hostVars, memVars, fabricVars
<1>2. PlacesInv'
  BY <1>1, PlacesStutter DEF localityVars, rbVars
<1>3. RingIds' /\ RequestsKeep
  BY <1>1, RingRests DEF SystemInv
<1>4. BuildingInv'
  BY <1>1, BuildingRests
<1>5. CsrInv' /\ EntryInv'
  BY <1>1, <1>3, RequestsStand
<1>6. StageInv' /\ ResultInv'
  BY <1>1, ResultsRest
<1>7. FetchInv' /\ ReaderInv'
  BY <1>1, ReadsRest DEF localityVars, rbVars
<1> QED
  BY <1>2, <1>3, <1>4, <1>5, <1>6, <1>7

LEMMA FullInvStep ==
  ASSUME Backpressure = FALSE, FullInv, [Next]_vars
  PROVE  FullInv'
<1>1. SystemInv'
  BY SystemInvStep DEF FullInv
<1>2. CASE Tick
  BY <1>1, <1>2, ClockHasEffect, FuturesClock DEF FullInv
<1>3. CASE HostStep
  BY <1>1, <1>3, FuturesPutOperand, FuturesNameEntry, FuturesSubmit DEF HostStep, FullInv
<1>4. CASE \E t \in Tags : Sample(t)
  BY <1>1, <1>4, FuturesSample DEF FullInv
<1>5. CASE \E e \in Entries : DeliverWrite(e)
  BY <1>1, <1>5, FuturesDeliver DEF FullInv
<1>6. CASE UNCHANGED vars
  BY <1>1, <1>6, FuturesStutter DEF FullInv
<1> QED
  BY <1>2, <1>3, <1>4, <1>5, <1>6 DEF Next

LEMMA FullInvariant ==
  ASSUME Backpressure = FALSE
  PROVE  Spec => []FullInv
<1>1. Init => FullInv
  BY SystemInvInit, FuturesInit DEF FullInv
<1>2. FullInv /\ [Next]_vars => FullInv'
  BY FullInvStep
<1> QED
  BY <1>1, <1>2, PTL DEF Spec

-----------------------------------------------------------------------------
(* What follows from it.                                                   *)

\* The whole invariant: where a request is, what its operands stand for in every
\* place, what the element and the results hold, and what is being read
\* (POSIT_Locality.scala L11-196, POSIT.scala, hardposit.cpp L192-357).
THEOREM MeaningIsKept ==
  ASSUME Backpressure = FALSE
  PROVE  Spec => []FuturesInv
<1>1. FullInv => FuturesInv
  BY DEF FullInv
<1> QED
  BY <1>1, FullInvariant, PTL

\* What the host reads in a slot is the result of its last request there, on the
\* values it meant, also where an operand was the result of another slot
\* (hardposit.cpp L192-357).
THEOREM HostReadsWhatItMeant ==
  ASSUME Backpressure = FALSE
  PROVE  Spec => []ShownIsMeant
<1>1. FullInv => ShownIsMeant
  BY DEF FullInv, FuturesInv, ResultInv, ShownIsMeant
<1> QED
  BY <1>1, FullInvariant, PTL

\* The core is asked only for entries that are free, for every order in which
\* requests, responses and writes travel (POSIT_Locality.scala L21-24).
THEOREM RequestsAreNotDropped ==
  ASSUME Backpressure = FALSE
  PROVE  Spec => []NoRequestDropped
<1>1. FullInv => NoRequestDropped
  BY DEF FullInv, FuturesInv, PlacesInv, InCsr, NoRequestDropped
<1> QED
  BY <1>1, FullInvariant, PTL

\* A result is written once for each request (POSIT_Locality.scala L43-57,
\* PositLocalitySpec.scala L72-75).
THEOREM RequestsAreWrittenOnce ==
  ASSUME Backpressure = FALSE
  PROVE  Spec => []OneWritePerRequest
<1>1. FullInv => OneWritePerRequest
  BY DEF FullInv, FuturesInv, PlacesInv, OneWritePerRequest
<1> QED
  BY <1>1, FullInvariant, PTL

\* Every operand that waits in the ring finds its own value there, however long
\* it waits (config.h L13-16, hardposit.cpp L192-357).
THEOREM RingIsNotOverrun ==
  ASSUME Backpressure = FALSE
  PROVE  Spec => []RingKeepsOperands
<1>1. ASSUME FullInv PROVE RingKeepsOperands
  <2> USE <1>1 DEF FullInv, FuturesInv
  <2>1. ASSUME NEW e \in Entries, NEW o \in Operands, operands[e][o].mode # 0
        PROVE  RingHolds(operands[e][o], goal[e].args[o])
    <3>1. HasGoal(e)
      BY <2>1, WaitingHasGoal
    <3> QED
      BY <3>1 DEF EntryInv, Stands, RingHolds
  <2>2. ASSUME NEW n \in 1 .. Len(csr), NEW o \in Operands
        PROVE  RingHolds(csr[n].operands[o], goal[csr[n].wr_addr].args[o])
    BY DEF CsrInv, Stands, RingHolds
  <2>3. ASSUME NEW n \in 1 .. Len(building)
        PROVE  RingHolds(building[n].operand, building[n].value)
    BY DEF BuildingInv, Stands, RingHolds
  <2> QED
    BY <2>1, <2>2, <2>3 DEF RingKeepsOperands
<1> QED
  BY <1>1, FullInvariant, PTL

\* No read is under way that nobody waits for (POSIT_Locality.scala L139-196).
THEOREM ReadsHaveReaders ==
  ASSUME Backpressure = FALSE
  PROVE  Spec => []ReadHasReader
<1>1. ASSUME FullInv PROVE ReadHasReader
  <2> USE <1>1 DEF FullInv, FuturesInv
  <2>1. ASSUME NEW s \in Slots, NEW t, WaitsFor(s, t)
        PROVE  OperandAt(s).mode \in {2, 3} /\ CachelineOf(OperandAt(s).value) = CachelineOfTag(t)
    BY <2>1, WaitingSlot, TagHasCacheline DEF WaitsFor
  <2> SUFFICES ASSUME NEW l \in infetch
               PROVE  \E s \in Slots : /\ OperandAt(s).mode \in {2, 3}
                                       /\ CachelineOf(OperandAt(s).value) = l
    BY DEF ReadHasReader
  <2>2. CASE \E t \in reads : CachelineOfTag(t) = l
    BY <2>1, <2>2 DEF ReaderInv
  <2>3. CASE \E r \in responses : CachelineOfTag(r.tag) = l
    BY <2>1, <2>3 DEF ReaderInv
  <2> QED
    BY <2>2, <2>3 DEF FetchInv
<1> QED
  BY <1>1, FullInvariant, PTL

LEMMA CachelinesFinite == IsFiniteSet(Cachelines)
<1> DEFINE f == [a \in Addresses |-> CachelineOf(a)]
<1>1. IsFiniteSet(Addresses)
  BY FS_Interval, RingAssumption DEF Addresses
<1>2. f \in Surjection(Addresses, Cachelines)
  BY DEF Surjection, Cachelines
<1> QED
  BY <1>1, <1>2, FS_Surjection

\* reg_infetch_cacheline is exact (POSIT_Locality.scala L139-196).
THEOREM InfetchIsExact ==
  ASSUME Backpressure = FALSE
  PROVE  Spec => []InfetchExact
<1>1. ASSUME FullInv PROVE InfetchExact
  <2> DEFINE A == {CachelineOfTag(t) : t \in reads}
             B == {CachelineOfTag(r.tag) : r \in responses}
  <2>1. FetchInv /\ infetch \subseteq Cachelines
    BY <1>1 DEF FullInv, FuturesInv, SystemInv, CoreInv, LocalityTypeOK
  <2>2. infetch = A \cup B /\ A \cap B = {}
    BY <2>1 DEF FetchInv
  <2>3. IsFiniteSet(A) /\ IsFiniteSet(B)
    BY <2>1, <2>2, CachelinesFinite, FS_Subset
  <2>4. Cardinality(reads) = Cardinality(A)
    <3> DEFINE f == [t \in reads |-> CachelineOfTag(t)]
    <3>1. f \in Injection(reads, A) /\ f \in Surjection(reads, A)
      BY <2>1 DEF Injection, Surjection, IsInjective, FetchInv
    <3> QED
      BY <2>3, <3>1, FS_Injection
  <2>5. Cardinality(responses) = Cardinality(B)
    <3> DEFINE f == [r \in responses |-> CachelineOfTag(r.tag)]
    <3>1. f \in Injection(responses, B) /\ f \in Surjection(responses, B)
      BY <2>1 DEF Injection, Surjection, IsInjective, FetchInv
    <3> QED
      BY <2>3, <3>1, FS_Injection
  <2>6. Cardinality(infetch) = Cardinality(A) + Cardinality(B)
    <3>1. Cardinality(A) \in Nat /\ Cardinality(B) \in Nat /\ Cardinality({}) = 0
      BY <2>3, FS_CardinalityType, FS_EmptySet
    <3>2. Cardinality(A \cup B) = Cardinality(A) + Cardinality(B) - Cardinality(A \cap B)
      BY <2>3, FS_Union
    <3>3. Cardinality(infetch) = Cardinality(A \cup B) /\ Cardinality(A \cap B) = 0
      BY <2>2, <3>1
    <3> DEFINE a == Cardinality(A)
               b == Cardinality(B)
               all == Cardinality(infetch)
               both == Cardinality(A \cap B)
    <3>4. a \in Nat /\ b \in Nat /\ both = 0 /\ all = a + b - both
      BY <3>1, <3>2, <3>3
    <3> HIDE DEF a, b, all, both
    <3>5. all = a + b
      BY <3>4
    <3> QED
      BY <3>5 DEF a, b, all
  <2> QED
    BY <2>2, <2>4, <2>5, <2>6 DEF InfetchExact
<1> QED
  BY <1>1, FullInvariant, PTL

-----------------------------------------------------------------------------
(* The accelerator is a set of futures.                                    *)

\* A request that goes out is one submission, of the values meant for it.
LEMMA SubmitIsSubmit ==
  ASSUME FullInv, TypeOK', NEW i \in Insts, Submit(i)
  PROVE  Futures!SlotsNext
<1> DEFINE sources == [o \in Operands |-> [kind |-> "value", ref |-> goal'[slot].args[o]]]
<1>1. /\ slot \in Entries /\ goal'[slot] \in Goals /\ goal'[slot].inst = i
      /\ \A e \in Entries \ {slot} : goal'[e] = goal[e]
  BY SubmittedGoal DEF FullInv, SystemInv
<1>2. ~Outstanding(slot)
  BY <1>1, SubmitTakesFreeSlot DEF FullInv, FuturesInv
<1>3. shown \in [Entries -> Values \cup {None}] /\ shown' = [shown EXCEPT ![slot] = None]
  BY DEF FullInv, SystemInv, TypeOK, Submit
<1>4. goal'[slot].args \in [Operands -> Values] /\ goal'[slot] # None
  BY <1>1, NoneIsApart DEF Goals, Arguments
<1>5. sources \in [Operands -> Futures!Source]
  BY <1>4 DEF Futures!Source
<1>6. /\ \A o \in Operands : Futures!Usable(slot, sources[o])
      /\ [o \in Operands |-> Futures!ValueOf(sources[o])] = goal'[slot].args
  <2>1. \A o \in Operands :
          sources[o].kind = "value" /\ sources[o].ref = goal'[slot].args[o]
    OBVIOUS
  <2> HIDE DEF sources
  <2>2. \A o \in Operands : Futures!Usable(slot, sources[o])
    BY <2>1 DEF Futures!Usable
  <2>3. \A o \in Operands : Futures!ValueOf(sources[o]) = goal'[slot].args[o]
    BY <2>1 DEF Futures!ValueOf
  <2>4. [o \in Operands |-> Futures!ValueOf(sources[o])]
          = [o \in Operands |-> goal'[slot].args[o]]
    BY <2>3
  <2> QED
    BY <1>4, <2>2, <2>4
<1> HIDE DEF sources
<1> DEFINE owed == [e \in Entries |-> IF Outstanding(e) THEN GoalResult(e) ELSE None]
           now == Apply(i, [o \in Operands |-> Futures!ValueOf(sources[o])])
<1>7. owed[slot] = None
  BY <1>1, <1>2
<1>8. owed' = [owed EXCEPT ![slot] = now]
  <2>1. \A e \in Entries \ {slot} : goal'[e] = goal[e] /\ shown'[e] = shown[e]
    BY <1>1, <1>3
  <2>2. goal'[slot] # None /\ shown'[slot] = None
    BY <1>1, <1>3, <1>4
  <2>3. now = Apply(goal'[slot].inst, goal'[slot].args)
    BY <1>1, <1>6
  <2> HIDE DEF now
  <2> QED
    BY <1>1, <2>1, <2>2, <2>3 DEF Outstanding, GoalResult
<1>9. Futures!Submit(slot, i, sources)
  BY <1>3, <1>6, <1>7, <1>8 DEF Futures!Submit
<1> QED
  BY <1>1, <1>5, <1>9 DEF Futures!SlotsNext

\* The result that reaches the host is the one that the slot owes.
LEMMA DeliverIsPublish ==
  ASSUME FullInv, NEW e \in Entries, DeliverWrite(e)
  PROVE  Futures!SlotsNext
<1>1. /\ Outstanding(e) /\ writes[e] # <<>> /\ shown'[e] = writes[e][1] /\ shown'[e] # None
      /\ \A f \in Entries \ {e} : shown'[f] = shown[f]
  BY DeliveredIsOutstanding DEF FullInv, FuturesInv
<1>2. shown'[e] = GoalResult(e)
  BY <1>1 DEF FullInv, FuturesInv, ResultInv
<1>3. /\ goal' = goal /\ shown \in [Entries -> Values \cup {None}]
      /\ \E v : shown' = [shown EXCEPT ![e] = v]
  BY DEF DeliverWrite, hostVars, FullInv, SystemInv, TypeOK
<1> DEFINE owed == [f \in Entries |-> IF Outstanding(f) THEN GoalResult(f) ELSE None]
<1>4. owed[e] = GoalResult(e) /\ owed[e] # None
  BY <1>1, <1>2
<1>5. owed' = [owed EXCEPT ![e] = None]
  <2>1. ASSUME NEW f \in Entries \ {e}
        PROVE  (Outstanding(f)' <=> Outstanding(f)) /\ GoalResult(f)' = GoalResult(f)
    BY <1>1, <1>3 DEF Outstanding, GoalResult
  <2>2. ~Outstanding(e)'
    BY <1>1 DEF Outstanding
  <2> QED
    BY <2>1, <2>2
<1>6. shown' = [shown EXCEPT ![e] = owed[e]]
  BY <1>1, <1>2, <1>3, <1>4
<1>7. Futures!Publish(e)
  BY <1>4, <1>5, <1>6 DEF Futures!Publish
<1> QED
  BY <1>7 DEF Futures!SlotsNext

\* The accelerator implements a set of futures: each slot shows, once, the result
\* of the instruction and the values that the host meant, whatever the order of
\* the reads, forwards, dispatches and writes (POSIT_Locality.scala L11-196,
\* hardposit.cpp L192-357).
THEOREM AcceleratorIsFutures ==
  ASSUME Backpressure = FALSE
  PROVE  Spec => ImplementsResultSlots
<1>1. Init => Futures!SlotsInit
  <2> SUFFICES ASSUME Init PROVE Futures!SlotsInit
    OBVIOUS
  <2>1. [e \in Entries |-> IF Outstanding(e) THEN GoalResult(e) ELSE None]
          = [e \in Entries |-> None]
    BY DEF Outstanding, Init
  <2>2. shown = [e \in Entries |-> None]
    BY DEF Init
  <2> QED
    BY <2>1, <2>2 DEF Futures!SlotsInit
<1>2. ASSUME FullInv, SystemInv', [Next]_vars PROVE [Futures!SlotsNext]_(Futures!slotVars)
  <2>1. CASE \E i \in Insts : Submit(i)
    BY <1>2, <2>1, SubmitIsSubmit DEF SystemInv
  <2>2. CASE \E e \in Entries : DeliverWrite(e)
    BY <1>2, <2>2, DeliverIsPublish
  <2>3. ASSUME goal' = goal, shown' = shown PROVE UNCHANGED Futures!slotVars
    BY <2>3 DEF Futures!slotVars, Outstanding, GoalResult
  <2>4. CASE Tick
    BY <2>3, <2>4 DEF Tick, Clock, hostVars, memVars
  <2>5. CASE \E v \in Values : PutOperand(v)
    BY <2>3, <2>5 DEF PutOperand
  <2>6. CASE \E k \in Entries : NameEntry(k)
    BY <2>3, <2>6 DEF NameEntry, memVars
  <2>7. CASE \E t \in Tags : Sample(t)
    BY <2>3, <2>7 DEF Sample, hostVars, memVars
  <2>8. CASE UNCHANGED vars
    BY <2>3, <2>8 DEF vars, hostVars, memVars
  <2> QED
    BY <1>2, <2>1, <2>2, <2>4, <2>5, <2>6, <2>7, <2>8 DEF Next, HostStep
<1>3. FullInv => SystemInv
  BY DEF FullInv
<1> QED
  BY <1>1, <1>2, <1>3, FullInvariant, PTL
  DEF Spec, ImplementsResultSlots, Futures!SlotsSpec
=============================================================================

------------------------- MODULE HostLibrary_proofs -------------------------
(***************************************************************************)
(* For any number of objects, slots and requests under way: what holds of  *)
(* the library whatever the program does with its objects, what holds      *)
(* until it assigns a float to one in the accelerator, and what holds      *)
(* while it is in order: objects have the value they stand for and no      *)
(* request is dropped.                                                     *)
(***************************************************************************)
EXTENDS HostLibraryInv, SequenceTheorems, FiniteSetTheorems, TLAPS

-----------------------------------------------------------------------------
(* Lists.                                                                  *)

LEMMA SeqOwn ==
  ASSUME NEW S, NEW s \in Seq(S)
  PROVE  /\ Len(s) \in Nat /\ DOMAIN s = 1 .. Len(s)
         /\ s \in [1 .. Len(s) -> S] /\ s = [n \in 1 .. Len(s) |-> s[n]]
         /\ s = <<>> <=> Len(s) = 0
<1>1. Len(s) \in Nat /\ DOMAIN s = 1 .. Len(s)
  BY LenProperties
<1>2. PICK n \in Nat : s \in [1 .. n -> S]
  BY SeqDef
<1>3. s = <<>> <=> Len(s) = 0
  BY EmptySeq
<1> QED
  BY <1>1, <1>2, <1>3

LEMMA FunctionIsSeq ==
  ASSUME NEW S, NEW n \in Nat, NEW f \in [1 .. n -> S]
  PROVE  f \in Seq(S) /\ Len(f) = n
<1>1. f \in Seq(S)
  BY SeqDef
<1> QED
  BY <1>1, LenProperties

LEMMA ListElements ==
  ASSUME NEW S, NEW list \in Seq(S)
  PROVE  /\ ToSet(list) = {list[n] : n \in 1 .. Len(list)}
         /\ list = <<>> <=> ToSet(list) = {}
         /\ list # <<>> => Len(list) >= 1 /\ list[1] \in ToSet(list)
         /\ ToSet(list) \subseteq S
<1>1. /\ Len(list) \in Nat /\ DOMAIN list = 1 .. Len(list)
      /\ list \in [1 .. Len(list) -> S]
      /\ list = <<>> <=> Len(list) = 0
  BY SeqOwn
<1>2. ToSet(list) = {list[n] : n \in 1 .. Len(list)}
  BY <1>1 DEF ToSet
<1>3. ASSUME list = <<>> PROVE ToSet(list) = {}
  BY <1>1, <1>2, <1>3
<1>4. ASSUME list # <<>> PROVE Len(list) >= 1 /\ list[1] \in ToSet(list)
  <2>1. Len(list) >= 1 /\ 1 \in 1 .. Len(list)
    BY <1>1, <1>4
  <2> QED
    BY <1>2, <2>1
<1> QED
  BY <1>1, <1>2, <1>3, <1>4

LEMMA ListOfOne ==
  ASSUME NEW x
  PROVE  ToSet(<<x>>) = {x} /\ IsInjective(<<x>>) /\ <<x>>[1] = x /\ <<x>> # <<>>
<1>1. DOMAIN <<x>> = {1} /\ <<x>>[1] = x
  OBVIOUS
<1> QED
  BY <1>1 DEF ToSet, IsInjective

LEMMA OnlyOne ==
  ASSUME NEW S, NEW list \in Seq(S), IsInjective(list), NEW x, ToSet(list) = {x}
  PROVE  list = <<x>>
<1>1. /\ Len(list) \in Nat /\ DOMAIN list = 1 .. Len(list)
      /\ list = [n \in 1 .. Len(list) |-> list[n]]
      /\ list = <<>> <=> Len(list) = 0
  BY SeqOwn
<1>2. \A n \in 1 .. Len(list) : list[n] = x
  BY ListElements
<1>3. Len(list) # 0
  BY <1>1, ListElements
<1>4. \A m, n \in 1 .. Len(list) : m = n
  BY <1>1, <1>2 DEF IsInjective
<1>5. Len(list) = 1
  <2>1. ASSUME Len(list) >= 2 PROVE FALSE
    <3>1. 1 \in 1 .. Len(list) /\ 2 \in 1 .. Len(list)
      BY <1>1, <2>1
    <3> QED
      BY <1>4, <3>1
  <2> QED
    BY <1>1, <1>3, <2>1
<1>6. list = [n \in 1 .. 1 |-> x]
  BY <1>1, <1>2, <1>5
<1>7. <<x>> = [n \in 1 .. 1 |-> x]
  OBVIOUS
<1> QED
  BY <1>6, <1>7

LEMMA AppendedList ==
  ASSUME NEW S, NEW list \in Seq(S), NEW x \in S
  PROVE  /\ Append(list, x) \in Seq(S) /\ Append(list, x) # <<>>
         /\ ToSet(Append(list, x)) = ToSet(list) \cup {x}
         /\ IsInjective(list) /\ x \notin ToSet(list) => IsInjective(Append(list, x))
         /\ list # <<>> => Append(list, x)[1] = list[1]
<1> DEFINE longer == Append(list, x)
<1>1. /\ longer \in Seq(S) /\ Len(longer) = Len(list) + 1
      /\ longer[Len(list) + 1] = x
      /\ \A n \in 1 .. Len(list) : longer[n] = list[n]
  BY AppendProperties
<1>2. /\ Len(list) \in Nat /\ DOMAIN list = 1 .. Len(list)
      /\ list = <<>> <=> Len(list) = 0
  BY SeqOwn
<1>3. DOMAIN longer = 1 .. Len(list) + 1 /\ longer # <<>>
  BY <1>1, <1>2, SeqOwn
<1>4. ToSet(list) = {list[n] : n \in 1 .. Len(list)}
  BY ListElements
<1>5. ToSet(longer) = {longer[n] : n \in 1 .. Len(list) + 1}
  BY <1>3 DEF ToSet
<1> HIDE DEF longer
<1>6. ToSet(longer) = ToSet(list) \cup {x}
  <2>1. ASSUME NEW y \in ToSet(longer) PROVE y \in ToSet(list) \cup {x}
    <3>1. PICK n \in 1 .. Len(list) + 1 : y = longer[n]
      BY <1>5, <2>1
    <3>2. CASE n = Len(list) + 1
      BY <1>1, <3>1, <3>2
    <3>3. CASE n # Len(list) + 1
      <4>1. n \in 1 .. Len(list)
        BY <1>2, <3>1, <3>3
      <4> QED
        BY <1>1, <1>4, <3>1, <4>1
    <3> QED
      BY <3>2, <3>3
  <2>2. ASSUME NEW y \in ToSet(list) PROVE y \in ToSet(longer)
    <3>1. PICK n \in 1 .. Len(list) : y = list[n]
      BY <1>4, <2>2
    <3>2. n \in 1 .. Len(list) + 1
      BY <1>2, <3>1
    <3> QED
      BY <1>1, <1>5, <3>1, <3>2
  <2>3. x \in ToSet(longer)
    <3>1. Len(list) + 1 \in 1 .. Len(list) + 1
      BY <1>2
    <3> QED
      BY <1>1, <1>5, <3>1
  <2> QED
    BY <2>1, <2>2, <2>3
<1>7. ASSUME IsInjective(list), x \notin ToSet(list) PROVE IsInjective(longer)
  <2> SUFFICES ASSUME NEW m \in 1 .. Len(list) + 1, NEW n \in 1 .. Len(list) + 1,
                      longer[m] = longer[n]
               PROVE  m = n
    BY <1>3 DEF IsInjective
  <2>1. \A k \in 1 .. Len(list) : longer[k] # x
    BY <1>1, <1>4, <1>7
  <2>2. \A k \in 1 .. Len(list) + 1 : k = Len(list) + 1 \/ k \in 1 .. Len(list)
    BY <1>2
  <2>3. CASE m \in 1 .. Len(list) /\ n \in 1 .. Len(list)
    BY <1>1, <1>2, <1>7, <2>3 DEF IsInjective
  <2> QED
    BY <1>1, <2>1, <2>2, <2>3
<1>8. list # <<>> => longer[1] = list[1]
  BY <1>1, ListElements
<1> QED
  BY <1>1, <1>3, <1>6, <1>7, <1>8 DEF longer

LEMMA RemovedList ==
  ASSUME NEW S, NEW list \in Seq(S), NEW x
  PROVE  /\ Removed(list, x) \in Seq(S)
         /\ ToSet(Removed(list, x)) = ToSet(list) \ {x}
         /\ IsInjective(list) => IsInjective(Removed(list, x))
<1> DEFINE kept == {n \in DOMAIN list : list[n] # x}
           upTo(n) == {m \in kept : m <= n}
           rank == [n \in kept |-> Cardinality(upTo(n))]
           size == Cardinality(kept)
           place == [k \in 1 .. size |-> CHOOSE n \in kept : rank[n] = k]
<1>1. /\ Len(list) \in Nat /\ DOMAIN list = 1 .. Len(list)
      /\ list \in [1 .. Len(list) -> S]
  BY SeqOwn
<1>2. IsFiniteSet(kept) /\ size \in Nat /\ kept \subseteq 1 .. Len(list)
  <2>1. IsFiniteSet(1 .. Len(list))
    BY <1>1, FS_Interval
  <2>2. kept \subseteq 1 .. Len(list)
    BY <1>1
  <2>3. IsFiniteSet(kept)
    BY <2>1, <2>2, FS_Subset
  <2> QED
    BY <2>2, <2>3, FS_CardinalityType
<1>3. \A n \in kept : IsFiniteSet(upTo(n)) /\ Cardinality(upTo(n)) \in Nat
                      /\ Cardinality(upTo(n)) <= size
  <2> TAKE n \in kept
  <2>1. upTo(n) \subseteq kept
    OBVIOUS
  <2> HIDE DEF kept, upTo
  <2> QED
    BY <1>2, <2>1, FS_Subset, FS_CardinalityType
<1>4. \A n \in kept : rank[n] \in 1 .. size
  <2> TAKE n \in kept
  <2>1. n \in upTo(n)
    BY <1>1
  <2>2. rank[n] = Cardinality(upTo(n))
    OBVIOUS
  <2>3. Cardinality(upTo(n)) # 0
    <3> HIDE DEF upTo, kept
    <3> QED
      BY <1>3, <2>1, FS_EmptySet
  <2> HIDE DEF upTo, kept, rank, size
  <2> QED
    BY <1>2, <1>3, <2>2, <2>3
<1>5. \A m, n \in kept : m < n => rank[m] # rank[n]
  <2> TAKE m, n \in kept
  <2> HAVE m < n
  <2>1. upTo(m) \subseteq upTo(n) /\ n \in upTo(n) /\ n \notin upTo(m)
    BY <1>1
  <2>2. rank[m] = Cardinality(upTo(m)) /\ rank[n] = Cardinality(upTo(n))
    OBVIOUS
  <2> HIDE DEF upTo, kept, rank, size
  <2> QED
    BY <1>3, <2>1, <2>2, FS_Subset
<1>6. \A m, n \in kept : rank[m] = rank[n] => m = n
  <2>1. \A m, n \in kept : m = n \/ m < n \/ n < m
    BY <1>1
  <2> HIDE DEF kept, rank
  <2> QED
    BY <1>5, <2>1
<1>7. rank \in Injection(kept, 1 .. size)
  <2>1. rank \in [kept -> 1 .. size]
    <3>1. rank = [n \in kept |-> rank[n]]
      OBVIOUS
    <3> HIDE DEF rank, kept, size
    <3> QED
      BY <1>4, <3>1
  <2> HIDE DEF rank, kept, size
  <2> QED
    BY <1>6, <2>1 DEF Injection, IsInjective
<1>8. \A k \in 1 .. size : \E n \in kept : rank[n] = k
  <2>1. IsFiniteSet(1 .. size) /\ Cardinality(1 .. size) = size
    BY <1>2, FS_Interval
  <2>2. Cardinality(kept) = size
    OBVIOUS
  <2> HIDE DEF rank, kept, size
  <2>3. rank \in Surjection(kept, 1 .. size)
    BY <1>2, <1>7, <2>1, <2>2, FS_Injection
  <2> QED
    BY <2>3 DEF Surjection
<1>9. \A k \in 1 .. size : place[k] \in kept /\ rank[place[k]] = k
  <2>1. \A k \in 1 .. size : place[k] = CHOOSE n \in kept : rank[n] = k
    OBVIOUS
  <2> HIDE DEF rank, kept, size, place
  <2> QED
    BY <1>8, <2>1
<1>10. \A n \in kept : place[rank[n]] = n
  <2> HIDE DEF rank, kept, size, place
  <2> QED
    BY <1>4, <1>6, <1>9
<1>11. Removed(list, x) = [k \in 1 .. size |-> list[place[k]]]
  BY DEF Removed
<1>12. \A n \in 1 .. Len(list) : n \in kept <=> list[n] # x
  BY <1>1
<1>13. ToSet(list) = {list[n] : n \in 1 .. Len(list)}
  BY ListElements
<1> DEFINE left == [k \in 1 .. size |-> list[place[k]]]
<1> HIDE DEF rank, kept, size, place
<1>14. DOMAIN left = 1 .. size /\ \A k \in 1 .. size : left[k] = list[place[k]]
  OBVIOUS
<1>15. left \in [1 .. size -> S]
  BY <1>1, <1>2, <1>9
<1> HIDE DEF left
<1>16. left \in Seq(S)
  BY <1>2, <1>15, FunctionIsSeq
<1>17. ToSet(left) = ToSet(list) \ {x}
  <2>1. ASSUME NEW y \in ToSet(left) PROVE y \in ToSet(list) \ {x}
    <3>1. PICK k \in 1 .. size : y = left[k]
      BY <1>14, <2>1 DEF ToSet
    <3>2. place[k] \in kept /\ left[k] = list[place[k]]
      BY <1>9, <1>14
    <3>3. place[k] \in 1 .. Len(list)
      BY <1>2, <3>2
    <3>4. list[place[k]] # x
      BY <1>12, <3>2, <3>3
    <3>5. y \in ToSet(list)
      BY <1>13, <3>1, <3>2, <3>3
    <3> QED
      BY <3>1, <3>2, <3>4, <3>5
  <2>2. ASSUME NEW y \in ToSet(list) \ {x} PROVE y \in ToSet(left)
    <3>1. PICK n \in 1 .. Len(list) : y = list[n]
      BY <1>13, <2>2
    <3>2. n \in kept
      BY <1>12, <2>2, <3>1
    <3>3. rank[n] \in 1 .. size /\ left[rank[n]] = y
      BY <1>4, <1>10, <1>14, <3>1, <3>2
    <3> QED
      BY <1>14, <3>3 DEF ToSet
  <2> QED
    BY <2>1, <2>2
<1>18. ASSUME IsInjective(list) PROVE IsInjective(left)
  <2> SUFFICES ASSUME NEW j \in 1 .. size, NEW k \in 1 .. size, left[j] = left[k]
               PROVE  j = k
    BY <1>14 DEF IsInjective
  <2>1. place[j] \in 1 .. Len(list) /\ place[k] \in 1 .. Len(list)
    BY <1>2, <1>9
  <2>2. place[j] = place[k]
    BY <1>1, <1>14, <1>18, <2>1 DEF IsInjective
  <2> QED
    BY <1>9, <2>2
<1>19. Removed(list, x) = left
  BY <1>11 DEF left
<1> QED
  BY <1>16, <1>17, <1>18, <1>19

-----------------------------------------------------------------------------
(* Objects and the lists of the slots.                                     *)

LEMMA SlotsFacts ==
  /\ NumFPGAEntries \in Nat /\ NumFPGAEntries > 0 /\ 0 \in Slots
  /\ \A s \in Slots : s \in Nat /\ s < NumFPGAEntries
<1>1. NumFPGAEntries \in Nat /\ NumFPGAEntries > 0
  BY EntriesAssumption
<1> QED
  BY <1>1 DEF Slots

LEMMA NextInRing ==
  ASSUME NEW s \in Slots
  PROVE  (s + 1) % NumFPGAEntries \in Slots
<1>1. s \in Nat /\ s < NumFPGAEntries /\ NumFPGAEntries \in Nat
  BY SlotsFacts
<1>2. CASE s + 1 = NumFPGAEntries
  BY <1>1, <1>2 DEF Slots
<1>3. CASE s + 1 < NumFPGAEntries
  BY <1>1, <1>3 DEF Slots
<1> QED
  BY <1>1, <1>2, <1>3

LEMMA EmptiedIsSlot ==
  ASSUME NEW q \in Slots
  PROVE  SlotToEmpty(q) \in Slots
<1>1. q \in Nat /\ NumFPGAEntries \in Nat /\ NumFPGAEntries > 0
  BY SlotsFacts
<1>2. SimulatedEntries \in 1 .. NumFPGAEntries
  BY SimulatedAssumption
<1>3. q + NumFPGAEntries - SimulatedEntries \in Int
  BY <1>1, <1>2
<1> DEFINE n == q + NumFPGAEntries - SimulatedEntries
<1>4. n % NumFPGAEntries \in 0 .. NumFPGAEntries - 1
  <2> HIDE DEF n
  <2> QED
    BY <1>1, <1>3 DEF n
<1> QED
  BY <1>4 DEF SlotToEmpty, Slots

LEMMA EmptiesItself ==
  ASSUME EmptiesItsSlot, NEW q \in Slots
  PROVE  SlotToEmpty(q) = q
<1>1. q \in Nat /\ q < NumFPGAEntries /\ NumFPGAEntries \in Nat
  BY SlotsFacts
<1>2. q + NumFPGAEntries - SimulatedEntries = q
  BY <1>1 DEF EmptiesItsSlot
<1>3. q % NumFPGAEntries = q
  BY <1>1
<1> QED
  BY <1>2, <1>3 DEF SlotToEmpty

\* A list names live objects; an exact one those of its slot.
LEMMA ListFacts ==
  ASSUME AlwaysInv, NEW s \in Slots
  PROVE  /\ tracked[s] \in Seq(Objs) /\ ToSet(tracked[s]) \subseteq Live
         /\ tracked[s] = <<>> <=> ToSet(tracked[s]) = {}
         /\ tracked[s] # <<>> => First(s) \in ToSet(tracked[s]) /\ First(s) \in Live
         /\ TrackedExactly =>
              /\ IsInjective(tracked[s])
              /\ \A x : x \in ToSet(tracked[s]) <=> Tracks(x, s)
              /\ \A x : Tracks(x, s) => tracked[s] # <<>>
              /\ tracked[s] # <<>> => Tracks(First(s), s)
<1>1. tracked[s] \in Seq(Objs) /\ ToSet(tracked[s]) \subseteq Live
  BY DEF AlwaysInv, TypeOK
<1>2. /\ tracked[s] = <<>> <=> ToSet(tracked[s]) = {}
      /\ tracked[s] # <<>> => First(s) \in ToSet(tracked[s])
  BY <1>1, ListElements DEF First
<1>3. TrackedExactly => /\ IsInjective(tracked[s])
                        /\ \A x : x \in ToSet(tracked[s]) <=> Tracks(x, s)
  BY DEF TrackedExactly, Tracks
<1> QED
  BY <1>1, <1>2, <1>3

LEMMA ExactLists ==
  ASSUME \A s \in Slots : /\ IsInjective(tracked[s])
                          /\ \A x : x \in ToSet(tracked[s]) <=> Tracks(x, s)
  PROVE  TrackedExactly
BY DEF TrackedExactly, Tracks

LEMMA UntrackedLists ==
  ASSUME TypeOK, NEW x \in Live, NEW s \in Slots
  PROVE  /\ Untrack(tracked, x) \in [Slots -> Seq(Objs)]
         /\ IsInjective(tracked[s]) => IsInjective(Untrack(tracked, x)[s])
         /\ \A z : z \in ToSet(Untrack(tracked, x)[s]) <=>
              z \in ToSet(tracked[s]) /\ ~(z = x /\ Tracks(x, s))
<1>1. /\ tracked \in [Slots -> Seq(Objs)] /\ obj[x] \in Object /\ obj[x].location \in Slots
      /\ obj[x].inFpga \in BOOLEAN
  BY DEF TypeOK, Object
<1>2. \A t \in Slots : Removed(tracked[t], x) \in Seq(Objs)
  BY <1>1, RemovedList
<1>3. CASE ~obj[x].inFpga
  <2>1. Untrack(tracked, x) = tracked
    BY <1>3 DEF Untrack
  <2>2. ~Tracks(x, s)
    BY <1>3 DEF Tracks
  <2> QED
    BY <1>1, <2>1, <2>2
<1>4. CASE obj[x].inFpga
  <2>1. Untrack(tracked, x) = [tracked EXCEPT ![obj[x].location] = Removed(@, x)]
    BY <1>4 DEF Untrack
  <2>2. Untrack(tracked, x) \in [Slots -> Seq(Objs)]
    BY <1>1, <1>2, <2>1
  <2>3. CASE s = obj[x].location
    <3>1. Untrack(tracked, x)[s] = Removed(tracked[s], x)
      BY <1>1, <2>1, <2>3
    <3>2. tracked[s] \in Seq(Objs) /\ Tracks(x, s)
      BY <1>1, <1>4, <2>3 DEF Tracks
    <3>3. /\ ToSet(Removed(tracked[s], x)) = ToSet(tracked[s]) \ {x}
          /\ IsInjective(tracked[s]) => IsInjective(Removed(tracked[s], x))
      BY <3>2, RemovedList
    <3> QED
      BY <2>2, <3>1, <3>2, <3>3
  <2>4. CASE s # obj[x].location
    <3>1. Untrack(tracked, x)[s] = tracked[s]
      BY <1>1, <2>1, <2>4
    <3>2. ~Tracks(x, s)
      BY <2>4 DEF Tracks
    <3> QED
      BY <2>2, <3>1, <3>2
  <2> QED
    BY <2>3, <2>4
<1> QED
  BY <1>1, <1>3, <1>4

LEMMA TrackedLists ==
  ASSUME NEW track \in [Slots -> Seq(Objs)], NEW x \in Objs, NEW o \in Object, NEW s \in Slots
  PROVE  /\ Track(track, x, o) \in [Slots -> Seq(Objs)]
         /\ IsInjective(track[s]) /\ x \notin ToSet(track[s]) => IsInjective(Track(track, x, o)[s])
         /\ \A z : z \in ToSet(Track(track, x, o)[s]) <=>
              z \in ToSet(track[s]) \/ (z = x /\ o.inFpga /\ o.location = s)
<1>1. o.location \in Slots /\ o.inFpga \in BOOLEAN
  BY DEF Object
<1>2. \A t \in Slots : Append(track[t], x) \in Seq(Objs)
  BY AppendedList
<1>3. CASE ~o.inFpga
  BY <1>3 DEF Track
<1>4. CASE o.inFpga
  <2>1. Track(track, x, o) = [track EXCEPT ![o.location] = Append(@, x)]
    BY <1>4 DEF Track
  <2>2. Track(track, x, o) \in [Slots -> Seq(Objs)]
    BY <1>1, <1>2, <2>1
  <2>3. CASE s = o.location
    <3>1. Track(track, x, o)[s] = Append(track[s], x)
      BY <1>1, <2>1, <2>3
    <3>2. track[s] \in Seq(Objs)
      OBVIOUS
    <3>3. /\ ToSet(Append(track[s], x)) = ToSet(track[s]) \cup {x}
          /\ IsInjective(track[s]) /\ x \notin ToSet(track[s]) => IsInjective(Append(track[s], x))
      BY <3>2, AppendedList
    <3> QED
      BY <1>4, <2>2, <2>3, <3>1, <3>3
  <2>4. CASE s # o.location
    BY <1>1, <2>1, <2>2, <2>4
  <2> QED
    BY <2>3, <2>4
<1> QED
  BY <1>1, <1>3, <1>4

-----------------------------------------------------------------------------
(* Requests, entries and what their operands mean.                         *)

LEMMA OperandFacts ==
  ASSUME NEW op \in Operand
  PROVE  /\ op.mode \in {0, 1}
         /\ op.mode = 0 => op.value \in Values
         /\ op.mode = 1 => op.value \in Slots
BY DEF Operand, Immediate, Reference

LEMMA RequestFacts ==
  ASSUME TypeOK, NEW n \in 1 .. Len(csr)
  PROVE  /\ csr[n] \in Request /\ csr[n].wr_addr \in Slots /\ csr[n].inst \in Insts
         /\ \A k \in DOMAIN csr[n].ops :
              /\ csr[n].ops[k] \in Operand /\ csr[n].ops[k].mode \in {0, 1}
              /\ csr[n].ops[k].mode = 1 => csr[n].ops[k].value \in Slots
<1>1. csr[n] \in Request
  <2>1. csr \in Seq(Request)
    BY DEF TypeOK
  <2> QED
    BY <2>1, SeqOwn
<1>2. csr[n].wr_addr \in Slots /\ csr[n].inst \in Insts
  BY <1>1 DEF Request
<1>3. csr[n].ops \in Operands(2) \/ csr[n].ops \in Operands(3)
  BY <1>1 DEF Request
<1>4. \A k \in DOMAIN csr[n].ops : csr[n].ops[k] \in Operand
  BY <1>3 DEF Operands
<1> QED
  BY <1>1, <1>2, <1>4, OperandFacts

LEMMA EntryFacts ==
  ASSUME TypeOK, NEW s \in Slots
  PROVE  /\ entry[s] \in Entry /\ entry[s].phase \in Phases /\ entry[s].inst \in Insts
         /\ entry[s].result \in Values
         /\ \E n \in {0, 2, 3} : entry[s].ops \in Operands(n)
         /\ \A k \in DOMAIN entry[s].ops :
              /\ entry[s].ops[k] \in Operand /\ entry[s].ops[k].mode \in {0, 1}
              /\ entry[s].ops[k].mode = 1 => entry[s].ops[k].value \in Slots
<1>1. entry[s] \in Entry
  BY DEF TypeOK
<1>2. /\ entry[s].phase \in Phases /\ entry[s].inst \in Insts /\ entry[s].result \in Values
      /\ entry[s].ops \in UNION {Operands(n) : n \in {0, 2, 3}}
  BY <1>1 DEF Entry
<1>3. PICK n \in {0, 2, 3} : entry[s].ops \in Operands(n)
  BY <1>2
<1>4. \A k \in DOMAIN entry[s].ops : entry[s].ops[k] \in Operand
  BY <1>3 DEF Operands
<1> QED
  BY <1>1, <1>2, <1>3, <1>4, OperandFacts

LEMMA PhaseFacts ==
  ASSUME TypeOK, NEW s \in Slots
  PROVE  /\ IsFree(s) <=> entry[s].phase \in {"empty", "written"}
         /\ HasResult(entry[s]) <=> entry[s].phase \in {"completed", "written"}
         /\ ~IsFree(s) <=> entry[s].phase \in {"waiting", "completed"}
         /\ entry[s].phase # "empty" /\ ~HasResult(entry[s]) => entry[s].phase = "waiting"
<1>1. entry[s].phase \in Phases
  BY EntryFacts
<1> QED
  BY <1>1 DEF Phases, IsFree, HasResult

LEMMA BeforeIsQueued ==
  ASSUME TypeOK, NEW n \in 1 .. Len(csr), NEW s
  PROVE  /\ Before(n, s) => Queued(s)
         /\ Queued(csr[n].wr_addr) /\ Len(csr) \in Nat /\ n \in Nat
<1>1. Len(csr) \in Nat
  BY SeqOwn DEF TypeOK
<1>2. \A m \in 1 .. n - 1 : m \in 1 .. Len(csr)
  BY <1>1
<1> QED
  BY <1>1, <1>2 DEF Before, Queued

\* Steps that leave the accelerator and what pending slots stand for alone.
LEMMA MeaningsKept ==
  ASSUME TypeOK, QueueInv, WaitingInv, UNCHANGED <<csr, entry>>,
         \A s \in Slots : Pending(s) => Meant(s)' = Meant(s)
  PROVE  QueueInv' /\ WaitingInv'
<1>1. QueueInv'
  <2> SUFFICES ASSUME NEW n \in 1 .. Len(csr)
               PROVE  /\ \A k \in DOMAIN csr[n].ops : csr[n].ops[k].mode = 1 =>
                           /\ csr[n].ops[k].value # csr[n].wr_addr
                           /\ Before(n, csr[n].ops[k].value)'
                              \/ entry[csr[n].ops[k].value].phase # "empty"
                      /\ Meant(csr[n].wr_addr)' =
                           Apply(csr[n].inst, [k \in DOMAIN csr[n].ops |-> QueuedMeans(csr[n].ops[k], n)'])
    BY DEF QueueInv
  <2>1. \A s : Before(n, s)' <=> Before(n, s)
    BY DEF Before
  <2>2. /\ \A k \in DOMAIN csr[n].ops : csr[n].ops[k].mode = 1 =>
             /\ csr[n].ops[k].value # csr[n].wr_addr
             /\ Before(n, csr[n].ops[k].value) \/ entry[csr[n].ops[k].value].phase # "empty"
        /\ Meant(csr[n].wr_addr) =
             Apply(csr[n].inst, [k \in DOMAIN csr[n].ops |-> QueuedMeans(csr[n].ops[k], n)])
    BY DEF QueueInv
  <2>3. Meant(csr[n].wr_addr)' = Meant(csr[n].wr_addr)
    <3>1. Pending(csr[n].wr_addr) /\ csr[n].wr_addr \in Slots
      BY BeforeIsQueued, RequestFacts DEF Pending
    <3>2. \A s \in Slots : Pending(s) => Meant(s)' = Meant(s)
      OBVIOUS
    <3> QED
      BY <3>1, <3>2 DEF Meant
  <2>4. ASSUME NEW k \in DOMAIN csr[n].ops
        PROVE  QueuedMeans(csr[n].ops[k], n)' = QueuedMeans(csr[n].ops[k], n)
    <3> DEFINE op == csr[n].ops[k]
    <3>1. op.mode \in {0, 1} /\ (op.mode = 1 => op.value \in Slots)
      BY RequestFacts
    <3>2. CASE op.mode = 0
      BY <3>2 DEF QueuedMeans
    <3>3. CASE op.mode = 1
      <4>1. PICK t \in Slots : op.value = t
        BY <3>1, <3>3
      <4>2. Before(n, t) => Meant(t)' = Meant(t)
        BY BeforeIsQueued DEF Pending
      <4>3. ~Before(n, t) => EntryMeans(t)' = EntryMeans(t)
        <5> HAVE ~Before(n, t)
        <5>1. entry[t].phase # "empty"
          BY <2>2, <3>3, <4>1
        <5>2. HasResult(entry[t]) \/ ~IsFree(t)
          BY <5>1, PhaseFacts
        <5> QED
          BY <5>2 DEF EntryMeans, Pending, HasResult
      <4>4. QueuedMeans(op, n) = IF Before(n, t) THEN Meant(t) ELSE EntryMeans(t)
        BY <3>3, <4>1 DEF QueuedMeans
      <4>5. QueuedMeans(op, n)' = IF Before(n, t)' THEN Meant(t)' ELSE EntryMeans(t)'
        BY <3>3, <4>1 DEF QueuedMeans, Before, Meant, EntryMeans, HasResult
      <4> QED
        BY <2>1, <4>2, <4>3, <4>4, <4>5
    <3> QED
      BY <3>1, <3>2, <3>3
  <2>5. [k \in DOMAIN csr[n].ops |-> QueuedMeans(csr[n].ops[k], n)']
          = [k \in DOMAIN csr[n].ops |-> QueuedMeans(csr[n].ops[k], n)]
    BY <2>4
  <2> QED
    BY <2>1, <2>2, <2>3, <2>5
<1>2. WaitingInv'
  <2> SUFFICES ASSUME NEW s \in Slots, entry[s].phase = "waiting"
               PROVE  /\ \A k \in DOMAIN entry[s].ops : entry[s].ops[k].mode = 1 =>
                           entry[entry[s].ops[k].value].phase = "waiting"
                      /\ Meant(s)' = Apply(entry[s].inst,
                           [k \in DOMAIN entry[s].ops |-> WaitingMeans(entry[s].ops[k])'])
    BY DEF WaitingInv
  <2>1. /\ \A k \in DOMAIN entry[s].ops : entry[s].ops[k].mode = 1 =>
             entry[entry[s].ops[k].value].phase = "waiting"
        /\ Meant(s) = Apply(entry[s].inst,
             [k \in DOMAIN entry[s].ops |-> WaitingMeans(entry[s].ops[k])])
    BY DEF WaitingInv
  <2>2. Meant(s)' = Meant(s)
    BY PhaseFacts DEF Pending
  <2>3. ASSUME NEW k \in DOMAIN entry[s].ops
        PROVE  WaitingMeans(entry[s].ops[k])' = WaitingMeans(entry[s].ops[k])
    <3> DEFINE op == entry[s].ops[k]
    <3>1. op.mode \in {0, 1} /\ (op.mode = 1 => op.value \in Slots)
      BY EntryFacts
    <3>2. CASE op.mode = 0
      BY <3>2 DEF WaitingMeans
    <3>3. CASE op.mode = 1
      <4>1. PICK t \in Slots : op.value = t
        BY <3>1, <3>3
      <4>2. entry[t].phase = "waiting"
        BY <2>1, <3>3, <4>1
      <4>3. Meant(t)' = Meant(t)
        BY <4>2, PhaseFacts DEF Pending
      <4>4. WaitingMeans(op) = Meant(t)
        BY <3>3, <4>1 DEF WaitingMeans
      <4>5. WaitingMeans(op)' = Meant(t)'
        BY <3>3, <4>1 DEF WaitingMeans, Meant
      <4> QED
        BY <4>3, <4>4, <4>5
    <3> QED
      BY <3>1, <3>2, <3>3
  <2>4. [k \in DOMAIN entry[s].ops |-> WaitingMeans(entry[s].ops[k])']
          = [k \in DOMAIN entry[s].ops |-> WaitingMeans(entry[s].ops[k])]
    BY <2>3
  <2> QED
    BY <2>1, <2>2, <2>4
<1> QED
  BY <1>1, <1>2

\* Steps that leave the accelerator, the flags and the requests alone.
LEMMA SlotsKept ==
  ASSUME TypeOK, PlacesInv, ResultsInv, QueueInv, WaitingInv,
         UNCHANGED <<requested, goal, shown, csr, entry, writes>>,
         \A s \in Slots : Claimed(s)' <=> Claimed(s)
  PROVE  PlacesInv' /\ ResultsInv' /\ QueueInv' /\ WaitingInv'
<1>1. \A s \in Slots : /\ Queued(s)' <=> Queued(s)
                       /\ IsFree(s)' <=> IsFree(s)
                       /\ HasResult(entry[s])' <=> HasResult(entry[s])
                       /\ Meant(s)' = Meant(s)
  BY DEF Queued, IsFree, HasResult, Meant
<1>2. \A s \in Slots : Pending(s)' <=> Pending(s)
  BY <1>1 DEF Pending
<1>3. PlacesInv'
  <2>1. \A m, n \in 1 .. Len(csr)' : csr'[m].wr_addr = csr'[n].wr_addr => m = n
    BY DEF PlacesInv
  <2>2. ASSUME NEW s \in Slots
        PROVE  /\ Claimed(s)' => ~Queued(s)'
               /\ Claimed(s)' \/ Queued(s)' => IsFree(s)' /\ writes'[s] = <<>>
               /\ ~IsFree(s)' => writes'[s] = <<>>
               /\ Len(writes'[s]) <= 1
               /\ Pending(s)' => requested'[s] /\ shown'[s] = None
    BY <1>1, <1>2 DEF PlacesInv
  <2> QED
    BY <2>1, <2>2 DEF PlacesInv
<1>4. ResultsInv'
  BY <1>1 DEF ResultsInv
<1>5. QueueInv' /\ WaitingInv'
  BY <1>1, MeaningsKept
<1> QED
  BY <1>3, <1>4, <1>5

-----------------------------------------------------------------------------
(* Layers of the invariant.                                                *)

LEMMA InOrderFacts ==
  ASSUME HostInv, InOrder
  PROVE  /\ TypeOK /\ AlwaysInv /\ ListsInv /\ TrackedExactly /\ PendingIsInFpga /\ CallShape
         /\ ObjectsInv /\ CallInv /\ PlacesInv /\ ResultsInv
         /\ QueueInv /\ WaitingInv /\ BaselineInv
         /\ "float" \notin strayed /\ "overrun" \notin strayed /\ "negate" \notin strayed
<1>1. "float" \notin strayed /\ "overrun" \notin strayed /\ "negate" \notin strayed
  BY DEF InOrder
<1> QED
  BY <1>1 DEF HostInv, LibraryInv, AlwaysInv, ListsInv, OrderInv

LEMMA ListsInvFacts ==
  ASSUME AlwaysInv, ListsInv, NEW s \in Slots, NEW x, Tracks(x, s)
  PROVE  /\ x \in ToSet(tracked[s]) /\ tracked[s] # <<>> /\ Tracks(First(s), s)
         /\ requested[s] /\ obj[First(s)].valid = obj[x].valid
         /\ shown[s] = None => ~obj[x].valid
<1>1. TrackedExactly /\ x \in Live
  BY DEF ListsInv, Tracks
<1>2. x \in ToSet(tracked[s]) /\ tracked[s] # <<>> /\ Tracks(First(s), s)
  BY <1>1, ListFacts
<1>3. First(s) \in Live
  BY <1>2 DEF Tracks
<1> QED
  BY <1>1, <1>2, <1>3 DEF ListsInv

\* What is left of the invariant once the objects and the call are in shape.
LEMMA OrderOfSlots ==
  ASSUME HostInv, UNCHANGED <<requested, goal, shown, csr, entry, writes>>,
         strayed \subseteq strayed',
         \A s \in Slots : Claimed(s)' <=> Claimed(s), InOrder'
  PROVE  /\ InOrder /\ PlacesInv' /\ ResultsInv' /\ QueueInv' /\ WaitingInv'
<1>1. InOrder
  BY DEF InOrder
<1> QED
  BY <1>1, InOrderFacts, SlotsKept

-----------------------------------------------------------------------------
(* The values of a slot.                                                   *)

\* get_val_at_slot() gives values, and nothing but values, whatever the lists.
LEMMA SlotGets ==
  ASSUME AlwaysInv, NEW s \in Slots, NEW keep \in BOOLEAN, GetsValAtSlot(s)
  PROVE  /\ AfterGetVal(s, keep) \in [Live -> Object]
         /\ \A x \in Live : /\ x \notin ToSet(tracked[s]) => AfterGetVal(s, keep)[x] = obj[x]
                            /\ AfterGetVal(s, keep)[x].valid \/ AfterGetVal(s, keep)[x] = obj[x]
<1>1. /\ obj \in [Live -> Object] /\ shown \in [Slots -> Values \cup {None}]
      /\ \A x \in Live : obj[x] \in Object
  BY DEF AlwaysInv, TypeOK
<1>2. ASSUME NEW x \in Live
      PROVE  /\ AfterGetVal(s, keep)[x] \in Object
             /\ x \notin ToSet(tracked[s]) => AfterGetVal(s, keep)[x] = obj[x]
             /\ AfterGetVal(s, keep)[x].valid \/ AfterGetVal(s, keep)[x] = obj[x]
  <2> DEFINE gets == x \in ToSet(tracked[s]) /\ (obj[First(s)].valid \/ requested[s])
             v == IF obj[First(s)].valid THEN obj[First(s)].val ELSE shown[s]
  <2>1. AfterGetVal(s, keep)[x] =
          IF gets THEN [obj[x] EXCEPT !.inFpga = keep, !.valid = TRUE, !.val = v] ELSE obj[x]
    BY DEF AfterGetVal
  <2>2. CASE ~gets
    BY <1>1, <2>1, <2>2
  <2>3. CASE gets
    <3>1. tracked[s] # <<>> /\ First(s) \in Live
      BY <2>3, ListFacts
    <3>2. v \in Values
      <4>1. CASE obj[First(s)].valid
        BY <1>1, <3>1, <4>1 DEF Object
      <4>2. CASE ~obj[First(s)].valid
        <5>1. shown[s] # None
          BY <2>3, <3>1, <4>2 DEF GetsValAtSlot
        <5> QED
          BY <1>1, <4>2, <5>1
      <4> QED
        BY <4>1, <4>2
    <3>3. AfterGetVal(s, keep)[x] = [obj[x] EXCEPT !.inFpga = keep, !.valid = TRUE, !.val = v]
      BY <2>1, <2>3
    <3> HIDE DEF v
    <3> QED
      BY <1>1, <2>3, <3>2, <3>3 DEF Object
  <2> QED
    BY <2>2, <2>3
<1>3. AfterGetVal(s, keep) = [x \in Live |-> AfterGetVal(s, keep)[x]]
  BY DEF AfterGetVal
<1> QED
  BY <1>2, <1>3

\* With exact lists the objects of the slot, and no others, get the value.
LEMMA SlotGetsVal ==
  ASSUME AlwaysInv, ListsInv, NEW s \in Slots, NEW keep \in BOOLEAN, GetsValAtSlot(s)
  PROVE  /\ \A x \in Live : ~Tracks(x, s) => AfterGetVal(s, keep)[x] = obj[x]
         /\ \A x \in Live : Tracks(x, s) =>
              /\ shown[s] # None
              /\ AfterGetVal(s, keep)[x].valid = TRUE
              /\ AfterGetVal(s, keep)[x].inFpga = keep
              /\ AfterGetVal(s, keep)[x].location = s
              /\ ObjectsInv /\ ResultsInv => AfterGetVal(s, keep)[x].val = meaning[x]
<1>1. obj \in [Live -> Object] /\ \A x : x \in ToSet(tracked[s]) <=> Tracks(x, s)
  BY ListFacts DEF AlwaysInv, TypeOK, ListsInv
<1>2. \A x \in Live : ~Tracks(x, s) => AfterGetVal(s, keep)[x] = obj[x]
  BY <1>1, SlotGets
<1>3. ASSUME NEW x \in Live, Tracks(x, s)
      PROVE  /\ shown[s] # None
             /\ AfterGetVal(s, keep)[x].valid = TRUE
             /\ AfterGetVal(s, keep)[x].inFpga = keep
             /\ AfterGetVal(s, keep)[x].location = s
             /\ ObjectsInv /\ ResultsInv => AfterGetVal(s, keep)[x].val = meaning[x]
  <2>1. /\ tracked[s] # <<>> /\ Tracks(First(s), s) /\ requested[s]
        /\ x \in ToSet(tracked[s]) /\ First(s) \in Live
    BY <1>3, ListsInvFacts DEF Tracks
  <2>2. shown[s] # None
    BY <2>1, ListsInvFacts DEF GetsValAtSlot
  <2>3. obj[x] \in Object /\ obj[x].location = s
    BY <1>1, <1>3 DEF Tracks
  <2> DEFINE v == IF obj[First(s)].valid THEN obj[First(s)].val ELSE shown[s]
  <2>4. AfterGetVal(s, keep)[x] = [obj[x] EXCEPT !.inFpga = keep, !.valid = TRUE, !.val = v]
    BY <2>1 DEF AfterGetVal
  <2>5. ObjectsInv /\ ResultsInv => v = meaning[x]
    <3> HAVE ObjectsInv /\ ResultsInv
    <3>1. meaning[x] = Meant(s) /\ meaning[First(s)] = Meant(s)
      BY <1>3, <2>1 DEF ObjectsInv
    <3>2. obj[First(s)].valid => obj[First(s)].val = Meant(s)
      BY <2>1, <3>1 DEF ObjectsInv, ObjectsHoldTheirValue
    <3>3. shown[s] = Meant(s)
      BY <2>1, <2>2 DEF ResultsInv
    <3> QED
      BY <3>1, <3>2, <3>3
  <2> HIDE DEF v
  <2> QED
    BY <2>2, <2>3, <2>4, <2>5 DEF Object
<1> QED
  BY <1>2, <1>3

\* get_val() takes no value away and leaves every object where it is.
LEMMA GetsItsVal ==
  ASSUME AlwaysInv, NEW x \in Live, GetsVal(x)
  PROVE  /\ ObjAfterGetVal(x) \in [Live -> Object]
         /\ \A z \in Live : ObjAfterGetVal(x)[z].valid \/ ObjAfterGetVal(x)[z] = obj[z]
         /\ ListsInv =>
              /\ ObjAfterGetVal(x)[x].valid
              /\ \A z \in Live :
                   /\ ObjAfterGetVal(x)[z].inFpga = obj[z].inFpga
                   /\ ObjAfterGetVal(x)[z].location = obj[z].location
              /\ \A s \in Slots : \A z \in Live : Tracks(z, s) =>
                   /\ shown[s] = None => ~ObjAfterGetVal(x)[z].valid
                   /\ \A y \in Live : Tracks(y, s) =>
                        ObjAfterGetVal(x)[z].valid = ObjAfterGetVal(x)[y].valid
         /\ ListsInv /\ ObjectsInv /\ ResultsInv =>
              \A z \in Live : ObjAfterGetVal(x)[z].valid => ObjAfterGetVal(x)[z].val = meaning[z]
<1>1. obj \in [Live -> Object] /\ obj[x] \in Object
  BY DEF AlwaysInv, TypeOK
<1>2. CASE obj[x].valid
  <2>1. ObjAfterGetVal(x) = obj
    BY <1>2 DEF ObjAfterGetVal
  <2>2. \A z \in Live : obj[z].valid \/ obj[z] = obj[z]
    OBVIOUS
  <2> QED
    BY <1>1, <1>2, <2>1, <2>2 DEF ListsInv, ObjectsInv, ObjectsHoldTheirValue
<1>3. CASE ~obj[x].valid
  <2>1. obj[x].inFpga = TRUE /\ obj[x].location \in Slots
    BY <1>1, <1>3 DEF AlwaysInv, PendingIsInFpga, Object
  <2>2. PICK t \in Slots : obj[x].location = t
    BY <2>1
  <2>3. Tracks(x, t) /\ GetsValAtSlot(t)
    BY <1>3, <2>1, <2>2 DEF Tracks, GetsVal
  <2> DEFINE new == ObjAfterGetVal(x)
  <2>4. new = AfterGetVal(t, TRUE)
    BY <1>3, <2>1, <2>2 DEF ObjAfterGetVal
  <2> HIDE DEF new
  <2>5. new \in [Live -> Object] /\ \A z \in Live : new[z].valid \/ new[z] = obj[z]
    BY <2>3, <2>4, SlotGets
  <2>6. ASSUME ListsInv
        PROVE  /\ \A z \in Live : ~Tracks(z, t) => new[z] = obj[z]
               /\ \A z \in Live : Tracks(z, t) =>
                    /\ shown[t] # None
                    /\ new[z].valid = TRUE /\ new[z].inFpga = TRUE /\ new[z].location = t
                    /\ obj[z].inFpga = TRUE /\ obj[z].location = t
                    /\ ObjectsInv /\ ResultsInv => new[z].val = meaning[z]
    <3>1. \A z \in Live : Tracks(z, t) => obj[z].inFpga = TRUE /\ obj[z].location = t
      BY <1>1 DEF Tracks, Object
    <3>2. /\ \A z \in Live : ~Tracks(z, t) => AfterGetVal(t, TRUE)[z] = obj[z]
          /\ \A z \in Live : Tracks(z, t) =>
               /\ shown[t] # None
               /\ AfterGetVal(t, TRUE)[z].valid = TRUE
               /\ AfterGetVal(t, TRUE)[z].inFpga = TRUE
               /\ AfterGetVal(t, TRUE)[z].location = t
               /\ ObjectsInv /\ ResultsInv => AfterGetVal(t, TRUE)[z].val = meaning[z]
      BY <2>3, <2>6, SlotGetsVal
    <3> QED
      BY <2>4, <3>1, <3>2
  <2>7. ASSUME ListsInv
        PROVE  /\ new[x].valid
               /\ \A z \in Live : /\ new[z].inFpga = obj[z].inFpga
                                  /\ new[z].location = obj[z].location
               /\ \A s \in Slots : \A z \in Live : Tracks(z, s) =>
                    /\ shown[s] = None => ~new[z].valid
                    /\ \A y \in Live : Tracks(y, s) => new[z].valid = new[y].valid
    <3>1. new[x].valid /\ \A z \in Live : /\ new[z].inFpga = obj[z].inFpga
                                          /\ new[z].location = obj[z].location
      BY <2>3, <2>6, <2>7
    <3>2. ASSUME NEW s \in Slots, NEW z \in Live, NEW y \in Live, Tracks(z, s), Tracks(y, s)
          PROVE  (shown[s] = None => ~new[z].valid) /\ new[z].valid = new[y].valid
      <4>1. CASE s = t
        <5>1. Tracks(z, t) /\ Tracks(y, t)
          BY <3>2, <4>1
        <5> QED
          BY <2>6, <2>7, <4>1, <5>1
      <4>2. CASE s # t
        <5>1. ~Tracks(z, t) /\ ~Tracks(y, t)
          BY <3>2, <4>2 DEF Tracks
        <5>2. new[z] = obj[z] /\ new[y] = obj[y]
          BY <2>6, <2>7, <5>1
        <5> QED
          BY <2>7, <3>2, <5>2 DEF ListsInv
      <4> QED
        BY <4>1, <4>2
    <3> QED
      BY <3>1, <3>2
  <2>8. ASSUME ListsInv, ObjectsInv, ResultsInv, NEW z \in Live, new[z].valid
        PROVE  new[z].val = meaning[z]
    <3>1. CASE Tracks(z, t)
      BY <2>6, <2>8, <3>1
    <3>2. CASE ~Tracks(z, t)
      <4>1. new[z] = obj[z]
        BY <2>6, <2>8, <3>2
      <4> QED
        BY <2>8, <4>1 DEF ObjectsInv, ObjectsHoldTheirValue
    <3> QED
      BY <3>1, <3>2
  <2> QED
    BY <2>5, <2>7, <2>8 DEF new
<1> QED
  BY <1>2, <1>3

-----------------------------------------------------------------------------
(* What the program does with its objects.                                 *)

LEMMA StraysFacts ==
  ASSUME strayed \subseteq Usage \cup {"overrun"}, NEW kind, NEW does, Strays(kind, does),
         does => kind \in Usage
  PROVE  /\ strayed \subseteq strayed' /\ strayed' \subseteq Usage \cup {"overrun"}
         /\ "overrun" \in strayed' => "overrun" \in strayed
         /\ does => kind \in strayed'
<1>1. "overrun" \notin Usage
  BY UsageAssumption
<1> QED
  BY <1>1 DEF Strays

LEMMA ObjectStepDone ==
  ASSUME HostInv, call = None,
         UNCHANGED <<build, requested, counter, call, goal, shown, acceleratorVars>>,
         Live' \subseteq Objs, obj' \in [Live' -> Object], meaning' \in [Live' -> Values],
         tracked' \in [Slots -> Seq(Objs)],
         \A s \in Slots : ToSet(tracked'[s]) \subseteq Live',
         strayed \subseteq strayed', strayed' \subseteq Usage \cup {"overrun"},
         "overrun" \in strayed' => "overrun" \in strayed,
         \A z \in Live' :
           \/ \E y \in Live : obj'[z] = obj[y] /\ meaning'[z] = meaning[y]
           \/ /\ ~obj'[z].inFpga /\ obj'[z].valid
              /\ InOrder' => obj'[z].val = meaning'[z],
         "float" \notin strayed' /\ TrackedExactly =>
           \A s \in Slots : IsInjective(tracked'[s])
                            /\ \A z : z \in ToSet(tracked'[s]) <=> Tracks(z, s)',
         "float" \notin strayed' /\ "abandon" \notin strayed' /\ ListsInv =>
           \A s \in Slots : requested[s] /\ shown[s] = None => tracked'[s] # <<>>
  PROVE  HostInv'
<1>1. AlwaysInv /\ TypeOK /\ PendingIsInFpga
  BY DEF HostInv, LibraryInv, AlwaysInv
<1>2. UNCHANGED <<csr, entry, wbCntr, writes>>
  BY DEF acceleratorVars
<1>3. \A z \in Live', s \in Slots : Tracks(z, s)' =>
        \E y \in Live : obj'[z] = obj[y] /\ meaning'[z] = meaning[y] /\ Tracks(y, s)
  BY DEF Tracks
<1>4. AlwaysInv'
  <2>1. TypeOK'
    BY <1>1, <1>2 DEF TypeOK
  <2>2. PendingIsInFpga'
    BY <1>1 DEF PendingIsInFpga
  <2>3. CallShape'
    BY DEF CallShape
  <2> QED
    BY <1>1, <1>2, <2>1, <2>2, <2>3 DEF AlwaysInv
<1>5. ASSUME "float" \notin strayed' PROVE ListsInv /\ ListsInv'
  <2>1. ListsInv
    BY <1>5 DEF HostInv, LibraryInv
  <2>2. TrackedExactly'
    <3>1. \A s \in Slots : IsInjective(tracked'[s])
                           /\ \A z : z \in ToSet(tracked'[s]) <=> Tracks(z, s)'
      BY <1>5, <2>1 DEF ListsInv
    <3>2. ASSUME NEW s \in Slots
          PROVE  ToSet(tracked'[s]) = {z \in Live' : obj'[z].inFpga /\ obj'[z].location = s}
      BY <3>1 DEF Tracks
    <3> QED
      BY <3>1, <3>2 DEF TrackedExactly
  <2>3. ASSUME NEW s \in Slots, NEW x \in Live', NEW y \in Live', Tracks(x, s)', Tracks(y, s)'
        PROVE  /\ requested'[s]
               /\ shown'[s] = None => ~obj'[x].valid
               /\ obj'[x].valid = obj'[y].valid
    <3>1. PICK v \in Live : obj'[x] = obj[v] /\ Tracks(v, s)
      BY <1>3, <2>3
    <3>2. PICK w \in Live : obj'[y] = obj[w] /\ Tracks(w, s)
      BY <1>3, <2>3
    <3> QED
      BY <2>1, <3>1, <3>2 DEF ListsInv
  <2>4. "abandon" \notin strayed' =>
          /\ "overrun" \notin strayed'
          /\ \A s \in Slots : requested'[s] /\ shown'[s] = None => tracked'[s] # <<>>
    BY <1>5, <2>1 DEF ListsInv
  <2> QED
    BY <2>1, <2>2, <2>3, <2>4 DEF ListsInv
<1>6. ASSUME InOrder' PROVE OrderInv'
  <2>1. \A s \in Slots : Claimed(s)' <=> Claimed(s)
    BY DEF Claimed
  <2>2. InOrder /\ PlacesInv' /\ ResultsInv' /\ QueueInv' /\ WaitingInv'
    BY <1>2, <1>6, <2>1, OrderOfSlots
  <2>3. ObjectsInv /\ BaselineInv
    BY <2>2, InOrderFacts
  <2>4. ObjectsInv'
    <3>1. ObjectsHoldTheirValue'
      BY <1>6, <2>3 DEF ObjectsInv, ObjectsHoldTheirValue
    <3>2. \A s \in Slots : \A x \in Live' : Tracks(x, s)' => meaning'[x] = Meant(s)'
      BY <1>3, <2>3 DEF ObjectsInv, Meant
    <3> QED
      BY <3>1, <3>2 DEF ObjectsInv
  <2>5. CallInv'
    BY DEF CallInv
  <2>6. BaselineInv'
    BY <2>3 DEF BaselineInv
  <2> QED
    BY <2>2, <2>4, <2>5, <2>6 DEF OrderInv
<1> QED
  BY <1>4, <1>5, <1>6 DEF HostInv, LibraryInv

\* A result that is under way has an object besides the one that may go.
LEMMA OthersWait ==
  ASSUME AlwaysInv, ListsInv, NEW x \in Live, NEW s \in Slots, requested[s], shown[s] = None,
         "abandon" \notin strayed, ~LastOfPending(x)
  PROVE  \E z : z # x /\ Tracks(z, s)
<1>1. tracked[s] # <<>> /\ TrackedExactly
  BY DEF ListsInv
<1>2. Tracks(First(s), s)
  BY <1>1, ListFacts
<1>3. CASE First(s) # x
  BY <1>2, <1>3
<1>4. CASE First(s) = x
  <2>1. obj[x].location = s /\ ~obj[x].valid
    BY <1>2, <1>4, ListsInvFacts DEF Tracks
  <2>2. tracked[s] # <<x>>
    BY <2>1 DEF LastOfPending
  <2>3. tracked[s] \in Seq(Objs) /\ IsInjective(tracked[s])
    BY <1>1, ListFacts
  <2>4. ToSet(tracked[s]) # {x}
    BY <2>2, <2>3, OnlyOne
  <2>5. x \in ToSet(tracked[s])
    BY <1>1, <1>2, <1>4, ListFacts
  <2>6. PICK z \in ToSet(tracked[s]) : z # x
    BY <2>4, <2>5
  <2> QED
    BY <1>1, <2>6, ListFacts
<1> QED
  BY <1>3, <1>4

LEMMA NotEmptied ==
  ASSUME NEW z, NEW s \in Slots, tracked' \in [Slots -> Seq(Objs)], z \in ToSet(tracked'[s])
  PROVE  tracked'[s] # <<>>
BY ListElements

LEMMA SetObject ==
  ASSUME TypeOK, NEW x, NEW o \in Object, NEW v \in Values,
         obj' = With(obj, x, o), meaning' = With(meaning, x, v)
  PROVE  /\ Live' = Live \cup {x} /\ obj'[x] = o /\ meaning'[x] = v
         /\ \A z \in Live : z # x => obj'[z] = obj[z] /\ meaning'[z] = meaning[z]
         /\ obj' \in [Live' -> Object] /\ meaning' \in [Live' -> Values]
<1>1. obj \in [Live -> Object] /\ meaning \in [Live -> Values]
  BY DEF TypeOK
<1>2. /\ obj' \in [Live \cup {x} -> Object] /\ obj'[x] = o
      /\ \A z \in Live : z # x => obj'[z] = obj[z]
  BY <1>1 DEF With
<1>3. /\ meaning' \in [Live \cup {x} -> Values] /\ meaning'[x] = v
      /\ \A z \in Live : z # x => meaning'[z] = meaning[z]
  BY <1>1 DEF With
<1>4. Live' = Live \cup {x}
  BY <1>2 DEF Live
<1> QED
  BY <1>2, <1>3, <1>4

LEMMA DropObject ==
  ASSUME TypeOK, NEW x, obj' = Without(obj, x), meaning' = Without(meaning, x)
  PROVE  /\ Live' = Live \ {x}
         /\ \A z \in Live : z # x => obj'[z] = obj[z] /\ meaning'[z] = meaning[z]
         /\ obj' \in [Live' -> Object] /\ meaning' \in [Live' -> Values]
<1>1. obj \in [Live -> Object] /\ meaning \in [Live -> Values]
  BY DEF TypeOK
<1>2. /\ obj' \in [Live \ {x} -> Object]
      /\ \A z \in Live : z # x => obj'[z] = obj[z]
  BY <1>1 DEF Without
<1>3. /\ meaning' \in [Live \ {x} -> Values]
      /\ \A z \in Live : z # x => meaning'[z] = meaning[z]
  BY <1>1 DEF Without
<1>4. Live' = Live \ {x}
  BY <1>2 DEF Live
<1> QED
  BY <1>2, <1>3, <1>4

LEMMA ConstructKeeps ==
  ASSUME HostInv, call = None,
         UNCHANGED <<build, requested, counter, call, goal, shown, acceleratorVars>>,
         NEW x \in Objs, NEW v \in Values, Construct(x, v)
  PROVE  HostInv'
<1> DEFINE o == [val |-> v, valid |-> TRUE, inFpga |-> FALSE, location |-> 0]
<1>1. AlwaysInv /\ TypeOK
  BY DEF HostInv, LibraryInv, AlwaysInv
<1>2. /\ x \notin Live /\ obj' = With(obj, x, o) /\ meaning' = With(meaning, x, v)
      /\ tracked' = tracked /\ strayed' = strayed
  BY DEF Construct
<1>3. o \in Object /\ ~o.inFpga /\ o.valid /\ o.val = v
  BY SlotsFacts DEF Object
<1> HIDE DEF o
<1>4. /\ Live \subseteq Objs /\ tracked \in [Slots -> Seq(Objs)]
      /\ strayed \subseteq Usage \cup {"overrun"}
      /\ \A s \in Slots : ToSet(tracked[s]) \subseteq Live
  BY <1>1 DEF AlwaysInv, TypeOK
<1>5. /\ Live' = Live \cup {x} /\ obj'[x] = o /\ meaning'[x] = v
      /\ \A z \in Live : obj'[z] = obj[z] /\ meaning'[z] = meaning[z]
      /\ obj' \in [Live' -> Object] /\ meaning' \in [Live' -> Values]
  BY <1>1, <1>2, <1>3, SetObject
<1>6. \A z, s : Tracks(z, s)' <=> Tracks(z, s)
  BY <1>2, <1>3, <1>5 DEF Tracks
<1>7. TrackedExactly =>
        \A s \in Slots : IsInjective(tracked'[s])
                         /\ \A z : z \in ToSet(tracked'[s]) <=> Tracks(z, s)'
  BY <1>1, <1>2, <1>6, ListFacts
<1>8. "abandon" \notin strayed' /\ ListsInv =>
        \A s \in Slots : requested[s] /\ shown[s] = None => tracked'[s] # <<>>
  BY <1>2 DEF ListsInv
<1>9. \A z \in Live' :
        \/ \E y \in Live : obj'[z] = obj[y] /\ meaning'[z] = meaning[y]
        \/ ~obj'[z].inFpga /\ obj'[z].valid /\ (InOrder' => obj'[z].val = meaning'[z])
  BY <1>3, <1>5
<1>10. Live' \subseteq Objs /\ \A s \in Slots : ToSet(tracked'[s]) \subseteq Live'
  BY <1>2, <1>4, <1>5
<1> QED
  BY <1>2, <1>4, <1>5, <1>7, <1>8, <1>9, <1>10, ObjectStepDone

LEMMA CopyKeeps ==
  ASSUME HostInv, call = None,
         UNCHANGED <<build, requested, counter, call, goal, shown, acceleratorVars>>,
         NEW x \in Objs, NEW y \in Objs, Copy(x, y)
  PROVE  HostInv'
<1> DEFINE o == obj[y]
           v == meaning[y]
<1>1. AlwaysInv /\ TypeOK
  BY DEF HostInv, LibraryInv, AlwaysInv
<1>2. /\ x \notin Live /\ y \in Live /\ obj' = With(obj, x, o) /\ meaning' = With(meaning, x, v)
      /\ tracked' = Track(tracked, x, o) /\ strayed' = strayed
  BY DEF Copy
<1>3. /\ Live \subseteq Objs /\ tracked \in [Slots -> Seq(Objs)]
      /\ strayed \subseteq Usage \cup {"overrun"}
      /\ \A s \in Slots : ToSet(tracked[s]) \subseteq Live
      /\ o \in Object /\ v \in Values
  BY <1>1, <1>2 DEF AlwaysInv, TypeOK
<1>4. /\ Live' = Live \cup {x} /\ obj'[x] = obj[y] /\ meaning'[x] = meaning[y]
      /\ \A z \in Live : obj'[z] = obj[z] /\ meaning'[z] = meaning[z]
      /\ obj' \in [Live' -> Object] /\ meaning' \in [Live' -> Values]
  <2>1. /\ Live' = Live \cup {x} /\ obj'[x] = o /\ meaning'[x] = v
        /\ \A z \in Live : z # x => obj'[z] = obj[z] /\ meaning'[z] = meaning[z]
        /\ obj' \in [Live' -> Object] /\ meaning' \in [Live' -> Values]
    <3> HIDE DEF o, v
    <3> QED
      BY <1>1, <1>2, <1>3, SetObject
  <2> QED
    BY <1>2, <2>1
<1>5. ASSUME NEW s \in Slots
      PROVE  /\ tracked' \in [Slots -> Seq(Objs)]
             /\ IsInjective(tracked[s]) => IsInjective(tracked'[s])
             /\ \A z : z \in ToSet(tracked'[s]) <=>
                  z \in ToSet(tracked[s]) \/ (z = x /\ obj[y].inFpga /\ obj[y].location = s)
  <2>1. x \notin ToSet(tracked[s])
    BY <1>2, <1>3
  <2>2. /\ tracked' \in [Slots -> Seq(Objs)]
        /\ IsInjective(tracked[s]) => IsInjective(tracked'[s])
        /\ \A z : z \in ToSet(tracked'[s]) <=>
             z \in ToSet(tracked[s]) \/ (z = x /\ o.inFpga /\ o.location = s)
    <3> HIDE DEF o
    <3>1. tracked \in [Slots -> Seq(Objs)] /\ o \in Object
      BY <1>2, <1>3
    <3>2. PICK new : new = Track(tracked, x, o)
      OBVIOUS
    <3>3. /\ new \in [Slots -> Seq(Objs)]
          /\ IsInjective(tracked[s]) => IsInjective(new[s])
          /\ \A z : z \in ToSet(new[s]) <=>
               z \in ToSet(tracked[s]) \/ (z = x /\ o.inFpga /\ o.location = s)
      BY <2>1, <3>1, <3>2, TrackedLists
    <3>4. tracked' = new
      BY <1>2, <3>2
    <3> QED
      BY <3>3, <3>4
  <2> QED
    BY <2>2, Zenon DEF o
<1>6. tracked' \in [Slots -> Seq(Objs)]
  BY <1>5, SlotsFacts
<1>7. TrackedExactly =>
        \A s \in Slots : IsInjective(tracked'[s])
                         /\ \A z : z \in ToSet(tracked'[s]) <=> Tracks(z, s)'
  <2> SUFFICES ASSUME TrackedExactly, NEW s \in Slots
               PROVE  IsInjective(tracked'[s])
                      /\ \A z : z \in ToSet(tracked'[s]) <=> Tracks(z, s)'
    OBVIOUS
  <2>1. IsInjective(tracked[s]) /\ \A z : z \in ToSet(tracked[s]) <=> Tracks(z, s)
    BY <1>1, ListFacts
  <2>2. \A z : Tracks(z, s)' <=>
          Tracks(z, s) \/ (z = x /\ obj[y].inFpga /\ obj[y].location = s)
    BY <1>2, <1>4 DEF Tracks
  <2> QED
    BY <1>5, <2>1, <2>2
<1>8. "abandon" \notin strayed' /\ ListsInv =>
        \A s \in Slots : requested[s] /\ shown[s] = None => tracked'[s] # <<>>
  <2> SUFFICES ASSUME "abandon" \notin strayed', ListsInv, NEW s \in Slots,
                      requested[s], shown[s] = None
               PROVE  tracked'[s] # <<>>
    OBVIOUS
  <2>1. First(s) \in ToSet(tracked[s])
    BY <1>1, <1>2, ListFacts DEF ListsInv
  <2> QED
    BY <1>5, <1>6, <2>1, NotEmptied
<1>9. \A z \in Live' : \E w \in Live : obj'[z] = obj[w] /\ meaning'[z] = meaning[w]
  BY <1>2, <1>4
<1>10. Live' \subseteq Objs /\ \A s \in Slots : ToSet(tracked'[s]) \subseteq Live'
  BY <1>3, <1>4, <1>5
<1> QED
  BY <1>2, <1>3, <1>4, <1>6, <1>7, <1>8, <1>9, <1>10, ObjectStepDone

LEMMA AssignKeeps ==
  ASSUME HostInv, call = None,
         UNCHANGED <<build, requested, counter, call, goal, shown, acceleratorVars>>,
         NEW x \in Objs, NEW y \in Objs, Assign(x, y)
  PROVE  HostInv'
<1> DEFINE o == obj[y]
           v == meaning[y]
           left == Untrack(tracked, x)
           does == x # y /\ LastOfPending(x)
<1>1. AlwaysInv /\ TypeOK
  BY DEF HostInv, LibraryInv, AlwaysInv
<1>2. /\ x \in Live /\ y \in Live /\ (x = y \/ MayGo(x))
      /\ obj' = With(obj, x, o) /\ meaning' = With(meaning, x, v)
      /\ tracked' = Track(left, x, o) /\ Strays("abandon", does)
  BY DEF Assign
<1>3. /\ Live \subseteq Objs /\ tracked \in [Slots -> Seq(Objs)]
      /\ strayed \subseteq Usage \cup {"overrun"}
      /\ \A s \in Slots : ToSet(tracked[s]) \subseteq Live
      /\ o \in Object /\ v \in Values
  BY <1>1, <1>2 DEF AlwaysInv, TypeOK
<1>4. /\ strayed \subseteq strayed' /\ strayed' \subseteq Usage \cup {"overrun"}
      /\ "overrun" \in strayed' => "overrun" \in strayed
      /\ does => "abandon" \in strayed'
  <2>1. does => "abandon" \in Usage
    BY <1>2 DEF MayGo
  <2> HIDE DEF does
  <2> QED
    BY <1>2, <1>3, <2>1, StraysFacts
<1>5. /\ Live' = Live /\ obj'[x] = obj[y] /\ meaning'[x] = meaning[y]
      /\ \A z \in Live : z # x => obj'[z] = obj[z] /\ meaning'[z] = meaning[z]
      /\ obj' \in [Live' -> Object] /\ meaning' \in [Live' -> Values]
  <2>1. /\ Live' = Live \cup {x} /\ obj'[x] = o /\ meaning'[x] = v
        /\ \A z \in Live : z # x => obj'[z] = obj[z] /\ meaning'[z] = meaning[z]
        /\ obj' \in [Live' -> Object] /\ meaning' \in [Live' -> Values]
    <3> HIDE DEF o, v
    <3> QED
      BY <1>1, <1>2, <1>3, SetObject
  <2>2. Live \cup {x} = Live
    BY <1>2
  <2> QED
    BY <2>1, <2>2
<1>6. ASSUME NEW s \in Slots
      PROVE  /\ tracked' \in [Slots -> Seq(Objs)]
             /\ TrackedExactly => IsInjective(tracked'[s])
             /\ \A z : z \in ToSet(tracked'[s]) <=>
                  \/ z \in ToSet(tracked[s]) /\ ~(z = x /\ Tracks(x, s))
                  \/ z = x /\ obj[y].inFpga /\ obj[y].location = s
  <2>1. /\ left \in [Slots -> Seq(Objs)]
        /\ IsInjective(tracked[s]) => IsInjective(left[s])
        /\ \A z : z \in ToSet(left[s]) <=> z \in ToSet(tracked[s]) /\ ~(z = x /\ Tracks(x, s))
    BY <1>1, <1>2, UntrackedLists
  <2>2. TrackedExactly => IsInjective(left[s]) /\ x \notin ToSet(left[s])
    BY <1>1, <2>1, ListFacts
  <2>3. /\ tracked' \in [Slots -> Seq(Objs)]
        /\ IsInjective(left[s]) /\ x \notin ToSet(left[s]) => IsInjective(tracked'[s])
        /\ \A z : z \in ToSet(tracked'[s]) <=>
             z \in ToSet(left[s]) \/ (z = x /\ o.inFpga /\ o.location = s)
    <3>1. PICK l, p : l = left /\ p = o
      OBVIOUS
    <3>2. l \in [Slots -> Seq(Objs)] /\ p \in Object /\ tracked' = Track(l, x, p)
      BY <1>2, <1>3, <2>1, <3>1
    <3>3. /\ tracked' \in [Slots -> Seq(Objs)]
          /\ IsInjective(l[s]) /\ x \notin ToSet(l[s]) => IsInjective(tracked'[s])
          /\ \A z : z \in ToSet(tracked'[s]) <=>
               z \in ToSet(l[s]) \/ (z = x /\ p.inFpga /\ p.location = s)
      <4>1. PICK new : new = Track(l, x, p)
        OBVIOUS
      <4>2. new \in [Slots -> Seq(Objs)]
        BY <3>2, <4>1, TrackedLists
      <4>3. IsInjective(l[s]) /\ x \notin ToSet(l[s]) => IsInjective(new[s])
        BY <3>2, <4>1, TrackedLists
      <4>4. ASSUME NEW z
            PROVE  z \in ToSet(new[s]) <=>
                     z \in ToSet(l[s]) \/ (z = x /\ p.inFpga /\ p.location = s)
        <5>1. z \in ToSet(Track(l, x, p)[s]) <=>
                z \in ToSet(l[s]) \/ (z = x /\ p.inFpga /\ p.location = s)
          BY <3>2, TrackedLists, ZenonT(30)
        <5> QED
          BY <4>1, <5>1, Zenon
      <4> QED
        BY <3>2, <4>1, <4>2, <4>3, <4>4
    <3> QED
      BY <3>1, <3>3, Zenon
  <2> QED
    BY <2>1, <2>2, <2>3, Zenon DEF o
<1>7. tracked' \in [Slots -> Seq(Objs)]
  BY <1>6, SlotsFacts
<1>8. TrackedExactly =>
        \A s \in Slots : IsInjective(tracked'[s])
                         /\ \A z : z \in ToSet(tracked'[s]) <=> Tracks(z, s)'
  <2> SUFFICES ASSUME TrackedExactly, NEW s \in Slots
               PROVE  IsInjective(tracked'[s])
                      /\ \A z : z \in ToSet(tracked'[s]) <=> Tracks(z, s)'
    OBVIOUS
  <2>1. \A z : z \in ToSet(tracked[s]) <=> Tracks(z, s)
    BY <1>1, ListFacts
  <2>2. \A z : Tracks(z, s)' <=>
          \/ Tracks(z, s) /\ z # x
          \/ z = x /\ obj[y].inFpga /\ obj[y].location = s
    BY <1>2, <1>5 DEF Tracks
  <2> QED
    BY <1>6, <2>1, <2>2
<1>9. "float" \notin strayed' /\ "abandon" \notin strayed' /\ ListsInv =>
        \A s \in Slots : requested[s] /\ shown[s] = None => tracked'[s] # <<>>
  <2> SUFFICES ASSUME "abandon" \notin strayed', ListsInv, NEW s \in Slots,
                      requested[s], shown[s] = None
               PROVE  tracked'[s] # <<>>
    OBVIOUS
  <2>1. "abandon" \notin strayed /\ ~does
    BY <1>4
  <2>2. CASE x = y
    <3>1. tracked[s] # <<>> /\ TrackedExactly
      BY <2>1 DEF ListsInv
    <3>2. Tracks(First(s), s) /\ First(s) \in ToSet(tracked[s])
      BY <1>1, <3>1, ListFacts
    <3>3. First(s) \in ToSet(tracked'[s])
      BY <1>6, <2>2, <3>2 DEF Tracks
    <3> QED
      BY <1>7, <3>3, NotEmptied
  <2>3. CASE x # y
    <3>1. PICK z : z # x /\ Tracks(z, s)
      BY <1>1, <1>2, <2>1, <2>3, OthersWait
    <3>2. z \in ToSet(tracked'[s])
      BY <1>1, <1>6, <3>1, ListsInvFacts
    <3> QED
      BY <1>7, <3>2, NotEmptied
  <2> QED
    BY <2>2, <2>3
<1>10. \A z \in Live' : \E w \in Live : obj'[z] = obj[w] /\ meaning'[z] = meaning[w]
  BY <1>2, <1>5
<1>11. \A s \in Slots : ToSet(tracked'[s]) \subseteq Live'
  BY <1>2, <1>3, <1>5, <1>6
<1> QED
  BY <1>3, <1>4, <1>5, <1>7, <1>8, <1>9, <1>10, <1>11, ObjectStepDone

LEMMA AssignFloatKeeps ==
  ASSUME HostInv, call = None,
         UNCHANGED <<build, requested, counter, call, goal, shown, acceleratorVars>>,
         NEW x \in Objs, NEW v \in Values, AssignFloat(x, v)
  PROVE  HostInv'
<1> DEFINE o == [val |-> v, valid |-> TRUE, inFpga |-> FALSE, location |-> 0]
<1>1. AlwaysInv /\ TypeOK
  BY DEF HostInv, LibraryInv, AlwaysInv
<1>2. /\ x \in Live /\ obj' = With(obj, x, o) /\ meaning' = With(meaning, x, v)
      /\ tracked' = tracked /\ Strays("float", obj[x].inFpga)
      /\ obj[x].inFpga => "float" \in Usage
  BY DEF AssignFloat
<1>3. o \in Object /\ ~o.inFpga /\ o.valid /\ o.val = v
  BY SlotsFacts DEF Object
<1> HIDE DEF o
<1>4. /\ Live \subseteq Objs /\ tracked \in [Slots -> Seq(Objs)]
      /\ strayed \subseteq Usage \cup {"overrun"}
      /\ \A s \in Slots : ToSet(tracked[s]) \subseteq Live
  BY <1>1 DEF AlwaysInv, TypeOK
<1>5. /\ strayed \subseteq strayed' /\ strayed' \subseteq Usage \cup {"overrun"}
      /\ "overrun" \in strayed' => "overrun" \in strayed
      /\ obj[x].inFpga => "float" \in strayed'
  BY <1>2, <1>4, StraysFacts
<1>6. /\ Live' = Live /\ obj'[x] = o /\ meaning'[x] = v
      /\ \A z \in Live : z # x => obj'[z] = obj[z] /\ meaning'[z] = meaning[z]
      /\ obj' \in [Live' -> Object] /\ meaning' \in [Live' -> Values]
  <2>1. Live \cup {x} = Live
    BY <1>2
  <2> QED
    BY <1>1, <1>2, <1>3, <2>1, SetObject
<1>7. "float" \notin strayed' /\ TrackedExactly =>
        \A s \in Slots : IsInjective(tracked'[s])
                         /\ \A z : z \in ToSet(tracked'[s]) <=> Tracks(z, s)'
  <2> HAVE "float" \notin strayed' /\ TrackedExactly
  <2>1. ~obj[x].inFpga
    BY <1>5
  <2>2. \A z, s : Tracks(z, s)' <=> Tracks(z, s)
    BY <1>2, <1>3, <1>6, <2>1 DEF Tracks
  <2> QED
    BY <1>1, <1>2, <2>2, ListFacts
<1>8. "float" \notin strayed' /\ "abandon" \notin strayed' /\ ListsInv =>
        \A s \in Slots : requested[s] /\ shown[s] = None => tracked'[s] # <<>>
  BY <1>2, <1>5 DEF ListsInv
<1>9. \A z \in Live' :
        \/ \E y \in Live : obj'[z] = obj[y] /\ meaning'[z] = meaning[y]
        \/ ~obj'[z].inFpga /\ obj'[z].valid /\ (InOrder' => obj'[z].val = meaning'[z])
  BY <1>3, <1>6
<1>10. Live' \subseteq Objs /\ \A s \in Slots : ToSet(tracked'[s]) \subseteq Live'
  BY <1>2, <1>4, <1>6
<1> QED
  BY <1>2, <1>4, <1>5, <1>6, <1>7, <1>8, <1>9, <1>10, ObjectStepDone

LEMMA DestroyKeeps ==
  ASSUME HostInv, call = None,
         UNCHANGED <<build, requested, counter, call, goal, shown, acceleratorVars>>,
         NEW x \in Objs, Destroy(x)
  PROVE  HostInv'
<1>1. AlwaysInv /\ TypeOK
  BY DEF HostInv, LibraryInv, AlwaysInv
<1>2. /\ x \in Live /\ MayGo(x) /\ obj' = Without(obj, x) /\ meaning' = Without(meaning, x)
      /\ tracked' = Untrack(tracked, x) /\ Strays("abandon", LastOfPending(x))
      /\ \A s \in Slots : x \notin ToSet(tracked'[s])
  BY DEF Destroy, Dangles
<1>3. /\ Live \subseteq Objs /\ strayed \subseteq Usage \cup {"overrun"}
      /\ \A s \in Slots : ToSet(tracked[s]) \subseteq Live
  BY <1>1 DEF AlwaysInv, TypeOK
<1>4. /\ strayed \subseteq strayed' /\ strayed' \subseteq Usage \cup {"overrun"}
      /\ "overrun" \in strayed' => "overrun" \in strayed
      /\ LastOfPending(x) => "abandon" \in strayed'
  <2>1. LastOfPending(x) => "abandon" \in Usage
    BY <1>2 DEF MayGo
  <2> QED
    BY <1>2, <1>3, <2>1, StraysFacts
<1>5. /\ Live' = Live \ {x}
      /\ \A z \in Live : z # x => obj'[z] = obj[z] /\ meaning'[z] = meaning[z]
      /\ obj' \in [Live' -> Object] /\ meaning' \in [Live' -> Values]
  BY <1>1, <1>2, DropObject
<1>6. ASSUME NEW s \in Slots
      PROVE  /\ tracked' \in [Slots -> Seq(Objs)]
             /\ IsInjective(tracked[s]) => IsInjective(tracked'[s])
             /\ \A z : z \in ToSet(tracked'[s]) <=> z \in ToSet(tracked[s]) /\ z # x
  <2>1. /\ tracked' \in [Slots -> Seq(Objs)]
        /\ IsInjective(tracked[s]) => IsInjective(tracked'[s])
        /\ \A z : z \in ToSet(tracked'[s]) <=> z \in ToSet(tracked[s]) /\ ~(z = x /\ Tracks(x, s))
    BY <1>1, <1>2, UntrackedLists
  <2> QED
    BY <1>2, <2>1
<1>7. tracked' \in [Slots -> Seq(Objs)]
  BY <1>6, SlotsFacts
<1>8. TrackedExactly =>
        \A s \in Slots : IsInjective(tracked'[s])
                         /\ \A z : z \in ToSet(tracked'[s]) <=> Tracks(z, s)'
  <2> SUFFICES ASSUME TrackedExactly, NEW s \in Slots
               PROVE  IsInjective(tracked'[s])
                      /\ \A z : z \in ToSet(tracked'[s]) <=> Tracks(z, s)'
    OBVIOUS
  <2>1. IsInjective(tracked[s]) /\ \A z : z \in ToSet(tracked[s]) <=> Tracks(z, s)
    BY <1>1, ListFacts
  <2>2. \A z : Tracks(z, s)' <=> Tracks(z, s) /\ z # x
    BY <1>5 DEF Tracks
  <2> QED
    BY <1>6, <2>1, <2>2
<1>9. "float" \notin strayed' /\ "abandon" \notin strayed' /\ ListsInv =>
        \A s \in Slots : requested[s] /\ shown[s] = None => tracked'[s] # <<>>
  <2> SUFFICES ASSUME "abandon" \notin strayed', ListsInv, NEW s \in Slots,
                      requested[s], shown[s] = None
               PROVE  tracked'[s] # <<>>
    OBVIOUS
  <2>1. "abandon" \notin strayed /\ ~LastOfPending(x)
    BY <1>4
  <2>2. PICK z : z # x /\ Tracks(z, s)
    BY <1>1, <1>2, <2>1, OthersWait
  <2>3. z \in ToSet(tracked'[s])
    BY <1>1, <1>6, <2>2, ListsInvFacts
  <2> QED
    BY <1>7, <2>3, NotEmptied
<1>10. \A z \in Live' : \E w \in Live : obj'[z] = obj[w] /\ meaning'[z] = meaning[w]
  BY <1>5
<1>11. Live' \subseteq Objs /\ \A s \in Slots : ToSet(tracked'[s]) \subseteq Live'
  BY <1>3, <1>5, <1>6
<1> QED
  BY <1>3, <1>4, <1>5, <1>7, <1>8, <1>9, <1>10, <1>11, ObjectStepDone

\* Unary minus: of an object outside the accelerator, and of one inside.
LEMMA NegateOutside ==
  ASSUME HostInv, call = None,
         UNCHANGED <<build, requested, counter, call, goal, shown, acceleratorVars>>,
         NEW x \in Objs, Negate(x), ~obj[x].inFpga
  PROVE  HostInv'
<1>1. AlwaysInv /\ TypeOK /\ PendingIsInFpga
  BY DEF HostInv, LibraryInv, AlwaysInv
<1>2. /\ x \in Live /\ tracked' = tracked /\ strayed' = strayed
      /\ obj' = [ObjAfterGetVal(x) EXCEPT ![x].val = Negated(@)]
      /\ meaning' = [meaning EXCEPT ![x] = Negated(@)]
  BY DEF Negate, Strays
<1>3. /\ Live \subseteq Objs /\ obj \in [Live -> Object] /\ meaning \in [Live -> Values]
      /\ tracked \in [Slots -> Seq(Objs)] /\ strayed \subseteq Usage \cup {"overrun"}
      /\ \A s \in Slots : ToSet(tracked[s]) \subseteq Live
  BY <1>1 DEF AlwaysInv, TypeOK
<1>4. obj[x].valid
  BY <1>1, <1>2 DEF PendingIsInFpga
<1>5. obj' = [obj EXCEPT ![x] = [obj[x] EXCEPT !.val = Negated(@)]]
  BY <1>2, <1>4 DEF ObjAfterGetVal
<1>6. obj[x] \in Object /\ obj[x].val \in Values /\ meaning[x] \in Values
      /\ Negated(obj[x].val) \in Values /\ Negated(meaning[x]) \in Values
  BY <1>2, <1>3, ArithmeticAssumption DEF Object
<1>7. [obj[x] EXCEPT !.val = Negated(@)] \in Object
  BY <1>6 DEF Object
<1>8. /\ Live' = Live /\ obj' \in [Live' -> Object] /\ meaning' \in [Live' -> Values]
      /\ \A z \in Live : z # x => obj'[z] = obj[z] /\ meaning'[z] = meaning[z]
      /\ obj'[x] = [obj[x] EXCEPT !.val = Negated(@)] /\ meaning'[x] = Negated(meaning[x])
  BY <1>2, <1>3, <1>5, <1>6, <1>7 DEF Live
<1>9. /\ ~obj'[x].inFpga /\ obj'[x].valid
      /\ InOrder' => obj'[x].val = meaning'[x]
  <2>1. InOrder' => obj[x].val = meaning[x]
    BY <1>2, <1>4, InOrderFacts DEF InOrder, ObjectsInv, ObjectsHoldTheirValue
  <2> QED
    BY <1>4, <1>6, <1>8, <2>1 DEF Object
<1>10. \A z, s : Tracks(z, s)' <=> Tracks(z, s)
  BY <1>2, <1>8, <1>9 DEF Tracks
<1>11. TrackedExactly =>
         \A s \in Slots : IsInjective(tracked'[s])
                          /\ \A z : z \in ToSet(tracked'[s]) <=> Tracks(z, s)'
  BY <1>1, <1>2, <1>10, ListFacts
<1>12. "abandon" \notin strayed' /\ ListsInv =>
         \A s \in Slots : requested[s] /\ shown[s] = None => tracked'[s] # <<>>
  BY <1>2 DEF ListsInv
<1>13. \A z \in Live' :
         \/ \E y \in Live : obj'[z] = obj[y] /\ meaning'[z] = meaning[y]
         \/ ~obj'[z].inFpga /\ obj'[z].valid /\ (InOrder' => obj'[z].val = meaning'[z])
  BY <1>8, <1>9
<1>14. Live' \subseteq Objs /\ \A s \in Slots : ToSet(tracked'[s]) \subseteq Live'
  BY <1>2, <1>3, <1>8
<1> QED
  BY <1>2, <1>3, <1>8, <1>11, <1>12, <1>13, <1>14, ObjectStepDone

\* Objects that have their value, or are what they were, keep the lists exact.
LEMMA ObjectsInPlace ==
  ASSUME AlwaysInv, ListsInv, Live' = Live, UNCHANGED <<tracked, requested, shown, strayed>>,
         \A z \in Live : obj'[z].inFpga = obj[z].inFpga /\ obj'[z].location = obj[z].location,
         \A s \in Slots : \A z \in Live : Tracks(z, s) =>
           /\ shown[s] = None => ~obj'[z].valid
           /\ \A y \in Live : Tracks(y, s) => obj'[z].valid = obj'[y].valid
  PROVE  ListsInv' /\ \A z, s : Tracks(z, s)' <=> Tracks(z, s)
<1>1. \A z, s : Tracks(z, s)' <=> Tracks(z, s)
  BY DEF Tracks
<1>2. TrackedExactly'
  <2>1. ASSUME NEW s \in Slots
        PROVE  /\ ToSet(tracked'[s]) = {z \in Live' : obj'[z].inFpga /\ obj'[z].location = s}
               /\ IsInjective(tracked'[s])
    <3>1. IsInjective(tracked[s]) /\ \A z : z \in ToSet(tracked[s]) <=> Tracks(z, s)
      BY ListFacts DEF ListsInv
    <3> QED
      BY <3>1 DEF Tracks
  <2> QED
    BY <2>1 DEF TrackedExactly
<1>3. \A s \in Slots : \A x \in Live' : Tracks(x, s)' =>
        /\ requested'[s]
        /\ shown'[s] = None => ~obj'[x].valid
        /\ \A y \in Live' : Tracks(y, s)' => obj'[x].valid = obj'[y].valid
  BY <1>1 DEF ListsInv
<1> QED
  BY <1>1, <1>2, <1>3 DEF ListsInv

LEMMA NegateInside ==
  ASSUME HostInv, call = None,
         UNCHANGED <<build, requested, counter, call, goal, shown, acceleratorVars>>,
         NEW x \in Objs, Negate(x), obj[x].inFpga
  PROVE  HostInv'
<1> DEFINE got == ObjAfterGetVal(x)
<1>1. AlwaysInv /\ TypeOK /\ PendingIsInFpga
  BY DEF HostInv, LibraryInv, AlwaysInv
<1>2. /\ x \in Live /\ tracked' = tracked /\ GetsVal(x) /\ "negate" \in Usage
      /\ strayed' = strayed \cup {"negate"}
      /\ obj' = [got EXCEPT ![x].val = Negated(@)]
      /\ meaning' = [meaning EXCEPT ![x] = Negated(@)]
  BY DEF Negate, Strays
<1>3. /\ Live \subseteq Objs /\ meaning \in [Live -> Values]
      /\ strayed \subseteq Usage \cup {"overrun"}
  BY <1>1 DEF TypeOK
<1>4. /\ got \in [Live -> Object]
      /\ \A z \in Live : got[z].valid \/ got[z] = obj[z]
      /\ ListsInv =>
           /\ \A z \in Live : got[z].inFpga = obj[z].inFpga /\ got[z].location = obj[z].location
           /\ \A s \in Slots : \A z \in Live : Tracks(z, s) =>
                /\ shown[s] = None => ~got[z].valid
                /\ \A y \in Live : Tracks(y, s) => got[z].valid = got[y].valid
  BY <1>1, <1>2, GetsItsVal
<1> HIDE DEF got
<1>5. got[x] \in Object /\ got[x].val \in Values /\ Negated(got[x].val) \in Values
      /\ Negated(meaning[x]) \in Values
  BY <1>2, <1>3, <1>4, ArithmeticAssumption DEF Object
<1>6. [got[x] EXCEPT !.val = Negated(@)] \in Object
  BY <1>5 DEF Object
<1>7. obj' = [got EXCEPT ![x] = [got[x] EXCEPT !.val = Negated(@)]]
  BY <1>2
<1>8. /\ Live' = Live /\ obj' \in [Live' -> Object] /\ meaning' \in [Live' -> Values]
      /\ \A z \in Live : /\ obj'[z].inFpga = got[z].inFpga
                         /\ obj'[z].location = got[z].location
                         /\ obj'[z].valid = got[z].valid
  <2>1. Live' = Live /\ obj' \in [Live -> Object]
    BY <1>2, <1>4, <1>6, <1>7 DEF Live
  <2>2. meaning' \in [Live -> Values]
    BY <1>2, <1>3, <1>5
  <2>3. ASSUME NEW z \in Live
        PROVE  /\ obj'[z].inFpga = got[z].inFpga /\ obj'[z].location = got[z].location
               /\ obj'[z].valid = got[z].valid
    <3>1. CASE z = x
      <4>1. obj'[z] = [got[x] EXCEPT !.val = Negated(@)]
        BY <1>2, <1>4, <1>7, <3>1
      <4> QED
        BY <1>5, <3>1, <4>1 DEF Object
    <3>2. CASE z # x
      BY <1>4, <1>7, <3>2
    <3> QED
      BY <3>1, <3>2
  <2> QED
    BY <2>1, <2>2, <2>3
<1>9. AlwaysInv'
  <2>1. UNCHANGED <<csr, entry, wbCntr, writes>>
    BY DEF acceleratorVars
  <2>2. TypeOK'
    BY <1>1, <1>2, <1>3, <1>8, <2>1 DEF TypeOK
  <2>3. PendingIsInFpga'
    <3>1. \A z \in Live : ~got[z].valid => obj[z] = got[z] /\ obj[z].inFpga
      BY <1>1, <1>4 DEF PendingIsInFpga
    <3> QED
      BY <1>8, <3>1 DEF PendingIsInFpga
  <2>4. CallShape'
    BY DEF CallShape
  <2>5. \A s \in Slots : ToSet(tracked'[s]) \subseteq Live'
    BY <1>1, <1>2, <1>8 DEF AlwaysInv
  <2> QED
    BY <1>1, <2>1, <2>2, <2>3, <2>4, <2>5 DEF AlwaysInv
<1>10. ASSUME "float" \notin strayed' PROVE ListsInv'
  <2>1. ListsInv
    BY <1>2, <1>10 DEF HostInv, LibraryInv
  <2>2. TrackedExactly'
    <3>1. ASSUME NEW s \in Slots
          PROVE  /\ ToSet(tracked'[s]) = {z \in Live' : obj'[z].inFpga /\ obj'[z].location = s}
                 /\ IsInjective(tracked'[s])
      <4>1. IsInjective(tracked[s]) /\ \A z : z \in ToSet(tracked[s]) <=> Tracks(z, s)
        BY <1>1, <2>1, ListFacts DEF ListsInv
      <4> QED
        BY <1>2, <1>4, <1>8, <2>1, <4>1 DEF Tracks
    <3> QED
      BY <3>1 DEF TrackedExactly
  <2>3. \A z, s : Tracks(z, s)' <=> Tracks(z, s)
    BY <1>4, <1>8, <2>1 DEF Tracks
  <2>4. \A s \in Slots : \A z \in Live' : Tracks(z, s)' =>
          /\ requested'[s]
          /\ shown'[s] = None => ~obj'[z].valid
          /\ \A y \in Live' : Tracks(y, s)' => obj'[z].valid = obj'[y].valid
    BY <1>4, <1>8, <2>1, <2>3 DEF ListsInv
  <2>5. "abandon" \notin strayed' =>
          /\ "overrun" \notin strayed'
          /\ \A s \in Slots : requested'[s] /\ shown'[s] = None => tracked'[s] # <<>>
    BY <1>2, <2>1 DEF ListsInv
  <2> QED
    BY <2>2, <2>4, <2>5 DEF ListsInv
<1>11. ~InOrder'
  BY <1>2 DEF InOrder
<1> QED
  BY <1>9, <1>10, <1>11 DEF HostInv, LibraryInv

LEMMA ObjectStepKeeps ==
  ASSUME HostInv, ObjectStep
  PROVE  HostInv'
<1>1. /\ call = None
      /\ UNCHANGED <<build, requested, counter, call, goal, shown, acceleratorVars>>
  BY DEF ObjectStep
<1>2. CASE \E x \in Objs, v \in Values : Construct(x, v)
  BY <1>1, <1>2, ConstructKeeps
<1>3. CASE \E x, y \in Objs : Copy(x, y)
  BY <1>1, <1>3, CopyKeeps
<1>4. CASE \E x, y \in Objs : Assign(x, y)
  BY <1>1, <1>4, AssignKeeps
<1>5. CASE \E x \in Objs, v \in Values : AssignFloat(x, v)
  BY <1>1, <1>5, AssignFloatKeeps
<1>6. CASE \E x \in Objs : Destroy(x)
  BY <1>1, <1>6, DestroyKeeps
<1>7. CASE \E x \in Objs : Negate(x)
  BY <1>1, <1>7, NegateOutside, NegateInside
<1> QED
  BY <1>2, <1>3, <1>4, <1>5, <1>6, <1>7 DEF ObjectStep

-----------------------------------------------------------------------------
(* Calls that wait for values.                                             *)

LEMMA GetValKeeps ==
  ASSUME HostInv, NEW x \in Live, GetsVal(x), obj' = ObjAfterGetVal(x),
         UNCHANGED <<tracked, requested, meaning, goal, strayed, shown>>
  PROVE  /\ Live' = Live /\ obj' \in [Live' -> Object] /\ PendingIsInFpga'
         /\ \A z \in Live : ~obj'[z].valid => ~obj[z].valid
         /\ "float" \notin strayed' =>
              ListsInv' /\ obj'[x].valid /\ \A z, s : Tracks(z, s)' <=> Tracks(z, s)
         /\ InOrder' => ObjectsInv' /\ obj'[x].val = meaning[x]
<1>1. AlwaysInv
  BY DEF HostInv, LibraryInv
<1>2. /\ obj' \in [Live -> Object] /\ Live' = Live
      /\ \A z \in Live : obj'[z].valid \/ obj'[z] = obj[z]
  BY <1>1, GetsItsVal DEF Live
<1>3. PendingIsInFpga'
  <2>1. \A z \in Live : ~obj[z].valid => obj[z].inFpga
    BY <1>1 DEF AlwaysInv, PendingIsInFpga
  <2> QED
    BY <1>2, <2>1 DEF PendingIsInFpga
<1>4. ASSUME "float" \notin strayed'
      PROVE  ListsInv /\ ListsInv' /\ obj'[x].valid /\ \A z, s : Tracks(z, s)' <=> Tracks(z, s)
  <2>1. ListsInv
    BY <1>4 DEF HostInv, LibraryInv
  <2>2. /\ obj'[x].valid
        /\ \A z \in Live : obj'[z].inFpga = obj[z].inFpga /\ obj'[z].location = obj[z].location
        /\ \A s \in Slots : \A z \in Live : Tracks(z, s) =>
             /\ shown[s] = None => ~obj'[z].valid
             /\ \A y \in Live : Tracks(y, s) => obj'[z].valid = obj'[y].valid
    BY <1>1, <2>1, GetsItsVal
  <2> QED
    BY <1>1, <1>2, <2>1, <2>2, ObjectsInPlace
<1>5. ASSUME InOrder' PROVE ObjectsInv' /\ obj'[x].val = meaning[x]
  <2>1. InOrder
    BY <1>5 DEF InOrder
  <2>2. ListsInv /\ ObjectsInv /\ ResultsInv /\ "float" \notin strayed'
    BY <2>1, InOrderFacts
  <2>3. \A z \in Live : obj'[z].valid => obj'[z].val = meaning[z]
    BY <1>1, <2>2, GetsItsVal
  <2>4. obj'[x].valid /\ \A z, s : Tracks(z, s)' <=> Tracks(z, s)
    BY <1>4, <2>2
  <2>5. ObjectsHoldTheirValue'
    BY <1>2, <2>3 DEF ObjectsHoldTheirValue
  <2>6. \A s \in Slots : \A z \in Live' : Tracks(z, s)' => meaning'[z] = Meant(s)'
    BY <1>2, <2>2, <2>4 DEF ObjectsInv, Meant
  <2> QED
    BY <2>3, <2>4, <2>5, <2>6 DEF ObjectsInv
<1> QED
  BY <1>2, <1>3, <1>4, <1>5

LEMMA CallFacts ==
  ASSUME AlwaysInv, call # None
  PROVE  /\ call \in Calls /\ call.stage \in {"operands", "send", "read"}
         /\ call.object \in Objs /\ call.inst \in Insts
         /\ Arity(call.inst) \in {2, 3}
         /\ \E n \in 0 .. 3 : call.ops \in Operands(n) /\ Len(call.ops) = n
<1>1. call \in Calls
  BY DEF AlwaysInv, TypeOK
<1>2. /\ call.stage \in {"operands", "send", "read"}
      /\ call.object \in Objs /\ call.inst \in Insts
      /\ call.ops \in UNION {Operands(n) : n \in 0 .. 3}
  BY <1>1 DEF Calls
<1>3. PICK n \in 0 .. 3 : call.ops \in Operands(n)
  BY <1>2
<1>4. Len(call.ops) = n
  BY <1>3, FunctionIsSeq DEF Operands
<1>5. Arity(call.inst) \in {2, 3}
  BY DEF Arity
<1> QED
  BY <1>1, <1>2, <1>3, <1>4, <1>5

LEMMA AppendedOperand ==
  ASSUME NEW n \in Nat, NEW ops \in Operands(n), NEW op \in Operand
  PROVE  /\ Append(ops, op) \in Operands(n + 1) /\ Len(Append(ops, op)) = n + 1
         /\ Append(ops, op)[n + 1] = op /\ \A k \in 1 .. n : Append(ops, op)[k] = ops[k]
<1>1. ops \in Seq(Operand) /\ Len(ops) = n
  BY FunctionIsSeq DEF Operands
<1>2. /\ Append(ops, op) \in Seq(Operand) /\ Len(Append(ops, op)) = n + 1
      /\ Append(ops, op)[n + 1] = op /\ \A k \in 1 .. n : Append(ops, op)[k] = ops[k]
  BY <1>1, AppendProperties
<1>3. Append(ops, op) \in [1 .. Len(Append(ops, op)) -> Operand]
  BY <1>2, SeqOwn
<1> QED
  BY <1>2, <1>3 DEF Operands

\* Steps of a call that leave the slots and what objects mean alone.
LEMMA CallDone ==
  ASSUME HostInv,
         UNCHANGED <<build, tracked, requested, counter, meaning, goal, strayed, shown,
                     acceleratorVars>>,
         Live' = Live, obj' \in [Live' -> Object], PendingIsInFpga',
         call' \in Calls \cup {None}, CallShape',
         "float" \notin strayed' => ListsInv',
         \A s \in Slots : Claimed(s)' <=> Claimed(s),
         InOrder' => ObjectsInv' /\ CallInv' /\ BaselineInv'
  PROVE  HostInv'
<1>1. AlwaysInv /\ TypeOK /\ UNCHANGED <<csr, entry, wbCntr, writes>>
  BY DEF HostInv, LibraryInv, AlwaysInv, acceleratorVars
<1>2. AlwaysInv'
  <2>1. TypeOK'
    BY <1>1 DEF TypeOK
  <2> QED
    BY <1>1, <2>1 DEF AlwaysInv
<1>3. InOrder' => OrderInv'
  BY <1>1, OrderOfSlots DEF OrderInv
<1> QED
  BY <1>2, <1>3 DEF HostInv, LibraryInv

\* Steps of a call that touch nothing but the call.
LEMMA CallOnly ==
  ASSUME HostInv, call' \in Calls \cup {None}, CallShape',
         UNCHANGED <<build, obj, tracked, requested, counter, meaning, goal, strayed, shown,
                     acceleratorVars>>,
         \A s \in Slots : Claimed(s)' <=> Claimed(s),
         InOrder' => CallInv' /\ BaselineInv'
  PROVE  HostInv'
<1>1. AlwaysInv /\ TypeOK /\ PendingIsInFpga
  BY DEF HostInv, LibraryInv, AlwaysInv
<1>2. Live' = Live /\ obj' \in [Live' -> Object] /\ PendingIsInFpga'
  BY <1>1 DEF Live, TypeOK, PendingIsInFpga
<1>3. "float" \notin strayed' => ListsInv'
  <2> HAVE "float" \notin strayed'
  <2>1. ListsInv
    BY DEF HostInv, LibraryInv
  <2> QED
    BY <2>1 DEF ListsInv, TrackedExactly, Tracks, Live
<1>4. InOrder' => ObjectsInv'
  <2> HAVE InOrder'
  <2>1. ObjectsInv
    BY InOrderFacts DEF InOrder
  <2> QED
    BY <2>1 DEF ObjectsInv, ObjectsHoldTheirValue, Tracks, Live, Meant
<1> QED
  BY <1>2, <1>3, <1>4, CallDone

LEMMA ReturnValKeeps ==
  ASSUME HostInv, ReturnVal
  PROVE  HostInv'
<1>1. AlwaysInv
  BY DEF HostInv, LibraryInv
<1>2. /\ call # None /\ call.stage = "read" /\ GetsVal(call.object)
      /\ obj' = ObjAfterGetVal(call.object) /\ call' = None
      /\ UNCHANGED <<build, tracked, requested, counter, meaning, goal, strayed, shown,
                     acceleratorVars>>
  BY DEF ReturnVal
<1>3. call.object \in Live
  BY <1>1, <1>2 DEF AlwaysInv, CallShape
<1>4. /\ Live' = Live /\ obj' \in [Live' -> Object] /\ PendingIsInFpga'
      /\ \A z \in Live : ~obj'[z].valid => ~obj[z].valid
      /\ "float" \notin strayed' => ListsInv' /\ obj'[call.object].valid
      /\ InOrder' => ObjectsInv'
  BY <1>2, <1>3, GetValKeeps
<1>5. CallShape' /\ \A s \in Slots : Claimed(s)' <=> Claimed(s)
  BY <1>2 DEF CallShape, Claimed
<1>6. InOrder' => CallInv' /\ BaselineInv'
  <2> HAVE InOrder'
  <2>1. InOrder
    BY <1>2 DEF InOrder
  <2>2. ListsInv /\ BaselineInv /\ "float" \notin strayed'
    BY <1>2, <2>1, InOrderFacts
  <2>3. CallInv'
    BY <1>2 DEF CallInv
  <2>4. ASSUME build = "BASELINE", NEW x \in Live, ~obj'[x].valid PROVE FALSE
    BY <1>2, <1>4, <2>2, <2>4 DEF BaselineInv
  <2>5. ASSUME build = "BASELINE", NEW s \in Slots, requested[s], shown[s] = None PROVE FALSE
    <3>1. Tracks(call.object, s)
      BY <2>2, <2>5 DEF BaselineInv
    <3>2. ~obj[call.object].valid /\ obj[call.object].location = s
      BY <1>1, <2>2, <2>5, <3>1, ListsInvFacts DEF Tracks
    <3>3. /\ tracked[s] # <<>> /\ ~obj[First(s)].valid
      BY <1>1, <2>2, <2>5, <3>1, <3>2, ListsInvFacts
    <3> QED
      BY <1>2, <2>5, <3>2, <3>3 DEF GetsVal, GetsValAtSlot
  <2>6. BaselineInv'
    BY <1>2, <1>4, <2>4, <2>5 DEF BaselineInv
  <2> QED
    BY <2>3, <2>6
<1> QED
  BY <1>2, <1>4, <1>5, <1>6, CallDone

LEMMA NoOperands ==
  /\ \A S : <<>> \in [1 .. 0 -> S]
  /\ <<>> \in Operands(0) /\ Len(<<>>) = 0
<1>1. ASSUME NEW S PROVE <<>> \in [1 .. 0 -> S] /\ Len(<<>>) = 0
  BY EmptySeq, SeqOwn
<1> QED
  BY <1>1 DEF Operands

LEMMA CallGetValKeeps ==
  ASSUME HostInv, NEW x \in Objs, CallGetVal(x)
  PROVE  HostInv'
<1>1. /\ call = None /\ x \in Live
      /\ call' = [stage |-> "read", object |-> x, inst |-> AnyInst, args |-> <<>>, ops |-> <<>>]
      /\ UNCHANGED <<build, obj, tracked, requested, counter, meaning, goal, strayed, shown,
                     acceleratorVars>>
  BY DEF CallGetVal
<1>2. call' \in Calls
  <2>1. <<>> \in UNION {[1 .. n -> Objs] : n \in {0, 2, 3}}
    BY NoOperands
  <2>2. <<>> \in UNION {Operands(n) : n \in 0 .. 3}
    BY NoOperands
  <2> QED
    BY <1>1, <2>1, <2>2, ResetAssumption DEF Calls
<1>3. \A s \in Slots : Claimed(s)' <=> Claimed(s)
  BY <1>1 DEF Claimed
<1>4. CallShape'
  BY <1>1 DEF CallShape, Live
<1>5. InOrder' => CallInv' /\ BaselineInv'
  <2> HAVE InOrder'
  <2>1. BaselineInv
    BY <1>1, InOrderFacts DEF InOrder
  <2>2. CallInv'
    BY <1>1 DEF CallInv
  <2>3. BaselineInv'
    BY <1>1, <2>1 DEF BaselineInv, Live
  <2> QED
    BY <2>2, <2>3
<1> QED
  BY <1>1, <1>2, <1>3, <1>4, <1>5, CallOnly

LEMMA CallComputeKeeps ==
  ASSUME HostInv, NEW i \in Insts, NEW r \in Objs, NEW args \in [1 .. Arity(i) -> Live],
         CallCompute(r, args, i)
  PROVE  HostInv'
<1>1. TypeOK
  BY DEF HostInv, LibraryInv, AlwaysInv
<1>2. /\ call = None /\ r \notin Live
      /\ call' = [stage |-> "operands", object |-> r, inst |-> i, args |-> args, ops |-> <<>>]
      /\ UNCHANGED <<build, obj, tracked, requested, counter, meaning, goal, strayed, shown,
                     acceleratorVars>>
  BY DEF CallCompute
<1>3. call' \in Calls
  <2>1. Arity(i) \in {0, 2, 3} /\ Live \subseteq Objs
    BY <1>1 DEF Arity, TypeOK
  <2>2. args \in [1 .. Arity(i) -> Objs]
    BY <2>1
  <2>3. args \in UNION {[1 .. n -> Objs] : n \in {0, 2, 3}}
    BY <2>1, <2>2
  <2>4. <<>> \in UNION {Operands(n) : n \in 0 .. 3}
    BY NoOperands
  <2> QED
    BY <1>2, <2>3, <2>4 DEF Calls
<1>4. \A s \in Slots : Claimed(s)' <=> Claimed(s)
  BY <1>2 DEF Claimed
<1>5. /\ call'.stage = "operands" /\ call'.object = r /\ call'.inst = i
      /\ call'.args = args /\ call'.ops = <<>> /\ Len(<<>>) = 0
      /\ Live' = Live /\ Arity(i) \in {2, 3}
  BY <1>2, NoOperands DEF Live, Arity
<1>6. CallShape'
  BY <1>2, <1>5 DEF CallShape
<1>7. InOrder' => CallInv' /\ BaselineInv'
  <2> HAVE InOrder'
  <2>1. BaselineInv
    BY <1>2, InOrderFacts DEF InOrder
  <2>2. CallInv'
    BY <1>5 DEF CallInv
  <2>3. BaselineInv'
    BY <1>2, <2>1 DEF BaselineInv, Live
  <2> QED
    BY <2>2, <2>3
<1> QED
  BY <1>2, <1>3, <1>4, <1>6, <1>7, CallOnly

\* A call with one operand more.
LEMMA OneOperandMore ==
  ASSUME AlwaysInv, call # None, call.stage = "operands", Len(call.ops) < Arity(call.inst),
         NEW op \in Operand, call' = [call EXCEPT !.ops = Append(@, op)],
         UNCHANGED <<counter, meaning>>, Live' = Live
  PROVE  /\ call' \in Calls /\ call'.stage = "operands" /\ call' # None
         /\ call'.object = call.object /\ CallShape'
         /\ (/\ CallInv /\ \A z, s : Tracks(z, s)' <=> Tracks(z, s)
             /\ OperandOf(op, call.args[Len(call.ops) + 1], counter)) => CallInv'
<1> DEFINE k == Len(call.ops)
<1>1. PICK n \in 0 .. 3 : call.ops \in Operands(n) /\ k = n
  BY CallFacts
<1>2. call \in Calls /\ Arity(call.inst) \in {2, 3}
  BY CallFacts
<1>3. n + 1 \in 0 .. 3 /\ n + 1 <= Arity(call.inst)
  BY <1>1, <1>2
<1>4. /\ Append(call.ops, op) \in Operands(n + 1) /\ Len(Append(call.ops, op)) = n + 1
      /\ Append(call.ops, op)[n + 1] = op
      /\ \A m \in 1 .. n : Append(call.ops, op)[m] = call.ops[m]
  BY <1>1, AppendedOperand
<1>5. /\ call'.stage = "operands" /\ call'.object = call.object /\ call'.inst = call.inst
      /\ call'.args = call.args /\ call'.ops = Append(call.ops, op)
  BY <1>2 DEF Calls
<1>6. call' \in Calls
  <2>1. Append(call.ops, op) \in UNION {Operands(m) : m \in 0 .. 3}
    BY <1>3, <1>4
  <2> QED
    BY <1>2, <2>1 DEF Calls
<1>7. call' # None
  BY <1>6, NoneIsApart
<1>8. CallShape'
  <2>1. call.object \notin Live /\ call.args \in [1 .. Arity(call.inst) -> Live]
    BY DEF AlwaysInv, CallShape
  <2> QED
    BY <1>3, <1>4, <1>5, <2>1 DEF CallShape
<1>9. ASSUME CallInv, \A z, s : Tracks(z, s)' <=> Tracks(z, s),
             OperandOf(op, call.args[Len(call.ops) + 1], counter)
      PROVE  CallInv'
  <2>1. \A m \in 1 .. n : OperandOf(call.ops[m], call.args[m], counter)
    BY <1>1, <1>9 DEF CallInv, ResultSlot
  <2>2. ASSUME NEW m \in 1 .. n + 1
        PROVE  OperandOf(Append(call.ops, op)[m], call.args[m], counter)
    <3>1. CASE m = n + 1
      BY <1>1, <1>4, <1>9, <3>1
    <3>2. CASE m \in 1 .. n
      BY <1>4, <2>1, <3>2
    <3> QED
      BY <1>1, <3>1, <3>2
  <2>3. \A z, s : (z \in Live' /\ obj'[z].inFpga /\ obj'[z].location = s) <=> Tracks(z, s)
    BY <1>9 DEF Tracks
  <2>4. ASSUME NEW m \in 1 .. n + 1
        PROVE  OperandOf(call.ops[m], call.args[m], ResultSlot)'
    <3> DEFINE new == Append(call.ops, op)[m]
               x   == call.args[m]
    <3>1. call'.ops[m] = new /\ call'.args[m] = x
      BY <1>5
    <3>2. IF new.mode = 0 THEN new.value = meaning[x]
          ELSE Tracks(x, new.value) /\ new.value # counter
      BY <2>2 DEF OperandOf
    <3> HIDE DEF new, x
    <3>3. IF new.mode = 0 THEN new.value = meaning'[x]
          ELSE /\ x \in Live' /\ obj'[x].inFpga /\ obj'[x].location = new.value
               /\ new.value # counter'
      BY <2>3, <3>2
    <3> QED
      BY <1>5, <3>1, <3>3 DEF OperandOf, ResultSlot, Tracks
  <2>5. Len(call'.ops) = n + 1
    BY <1>4, <1>5
  <2> QED
    BY <1>5, <2>4, <2>5 DEF CallInv
<1> QED
  BY <1>5, <1>6, <1>7, <1>8, <1>9

LEMMA TakeOperandKeeps ==
  ASSUME HostInv, TakeOperand
  PROVE  HostInv'
<1> DEFINE x == call.args[Len(call.ops) + 1]
<1>1. /\ call # None /\ call.stage = "operands" /\ Len(call.ops) < Arity(call.inst)
      /\ UNCHANGED <<build, tracked, requested, counter, meaning, goal, strayed, shown,
                     acceleratorVars>>
  BY DEF TakeOperand
<1>2. AlwaysInv /\ TypeOK
  BY DEF HostInv, LibraryInv, AlwaysInv
<1>3. x \in Live
  <2>1. Len(call.ops) + 1 \in 1 .. Arity(call.inst)
    BY <1>1, <1>2, CallFacts
  <2>2. call.args \in [1 .. Arity(call.inst) -> Live]
    BY <1>1, <1>2 DEF AlwaysInv, CallShape
  <2> QED
    BY <2>1, <2>2
<1>4. obj \in [Live -> Object] /\ obj[x] \in Object
  BY <1>2, <1>3 DEF TypeOK
<1>5. InOrder' => InOrder /\ CallInv /\ BaselineInv /\ "float" \notin strayed'
  <2> HAVE InOrder'
  <2>1. InOrder
    BY <1>1 DEF InOrder
  <2> QED
    BY <1>1, <2>1, InOrderFacts
<1>6. CASE /\ ByReference(x) /\ UNCHANGED obj
           /\ call' = [call EXCEPT !.ops = Append(@, [mode |-> 1, value |-> obj[x].location])]
  <2> DEFINE op == [mode |-> 1, value |-> obj[x].location]
  <2>1. op \in Operand
    BY <1>4 DEF Operand, Reference, Object
  <2>2. OperandOf(op, x, counter)
    BY <1>3, <1>6 DEF OperandOf, ByReference, Tracks
  <2>3. Live' = Live /\ \A z, s : Tracks(z, s)' <=> Tracks(z, s)
    BY <1>6 DEF Live, Tracks
  <2>4. call' = [call EXCEPT !.ops = Append(@, op)]
    BY <1>6
  <2> HIDE DEF op
  <2>5. /\ call' \in Calls /\ call'.stage = "operands" /\ CallShape'
        /\ CallInv => CallInv'
    BY <1>1, <1>2, <2>1, <2>2, <2>3, <2>4, OneOperandMore
  <2>6. \A s \in Slots : Claimed(s)' <=> Claimed(s)
    BY <1>1, <2>5 DEF Claimed
  <2>7. InOrder' => CallInv' /\ BaselineInv'
    BY <1>1, <1>5, <1>6, <2>5 DEF BaselineInv, Live
  <2> QED
    BY <1>1, <1>6, <2>5, <2>6, <2>7, CallOnly
<1>7. CASE /\ ~ByReference(x) /\ GetsVal(x) /\ obj' = ObjAfterGetVal(x)
           /\ call' = [call EXCEPT !.ops = Append(@, [mode |-> 0, value |-> obj'[x].val])]
  <2> DEFINE op == [mode |-> 0, value |-> obj'[x].val]
  <2>1. call' = [call EXCEPT !.ops = Append(@, op)]
    BY <1>7
  <2>2. /\ Live' = Live /\ obj' \in [Live' -> Object] /\ PendingIsInFpga'
        /\ \A z \in Live : ~obj'[z].valid => ~obj[z].valid
        /\ "float" \notin strayed' => ListsInv' /\ \A z, s : Tracks(z, s)' <=> Tracks(z, s)
        /\ InOrder' => ObjectsInv' /\ obj'[x].val = meaning[x]
    BY <1>1, <1>3, <1>7, GetValKeeps
  <2>3. op \in Operand
    BY <1>3, <2>2 DEF Operand, Immediate, Object
  <2>4. obj'[x].val = meaning[x] => OperandOf(op, x, counter)
    BY DEF OperandOf
  <2> HIDE DEF op
  <2>5. /\ call' \in Calls /\ call'.stage = "operands" /\ CallShape'
        /\ (/\ CallInv /\ \A z, s : Tracks(z, s)' <=> Tracks(z, s)
            /\ OperandOf(op, x, counter)) => CallInv'
    BY <1>1, <1>2, <2>1, <2>2, <2>3, OneOperandMore
  <2>6. \A s \in Slots : Claimed(s)' <=> Claimed(s)
    BY <1>1, <2>5 DEF Claimed
  <2>7. InOrder' => ObjectsInv' /\ CallInv' /\ BaselineInv'
    <3> HAVE InOrder'
    <3>1. CallInv'
      BY <1>5, <2>2, <2>4, <2>5
    <3>2. BaselineInv'
      BY <1>1, <1>5, <2>2 DEF BaselineInv
    <3> QED
      BY <2>2, <3>1, <3>2
  <2> QED
    BY <1>1, <2>2, <2>5, <2>6, <2>7, CallDone
<1> QED
  BY <1>6, <1>7 DEF TakeOperand

-----------------------------------------------------------------------------
(* A slot is claimed, a request is sent.                                   *)

\* What ClaimSlot does to the objects and to what they stand for.
LEMMA ClaimedObjects ==
  ASSUME AlwaysInv, EmptiesItsSlot, ClaimSlot
  PROVE  /\ call # None /\ call.stage = "operands" /\ counter \in Slots
         /\ call.object \in Objs /\ call.object \notin Live
         /\ Live' = Live \cup {call.object} /\ obj' \in [Live' -> Object]
         /\ obj'[call.object].inFpga = TRUE /\ obj'[call.object].location = counter
         /\ obj'[call.object].valid = FALSE
         /\ GetsValAtSlot(counter)
         /\ \A z \in Live : obj'[z] = AfterGetVal(counter, FALSE)[z]
         /\ meaning' \in [Live' -> Values]
         /\ \A z \in Live : meaning'[z] = meaning[z]
         /\ meaning'[call.object] =
              Apply(call.inst, [n \in DOMAIN call.args |-> meaning[call.args[n]]])
         /\ goal' = [goal EXCEPT ![counter] = meaning'[call.object]]
<1> DEFINE r == call.object
           c == counter
           o == [val |-> Zero, valid |-> FALSE, inFpga |-> TRUE, location |-> c]
           m == Apply(call.inst, [n \in DOMAIN call.args |-> meaning[call.args[n]]])
<1>1. TypeOK /\ CallShape /\ c \in Slots
  BY DEF AlwaysInv, TypeOK
<1>2. SlotToEmpty(c) = c
  BY <1>1, EmptiesItself
<1>3. /\ call # None /\ call.stage = "operands" /\ GetsValAtSlot(c)
      /\ obj' = With(AfterGetVal(c, FALSE), r, o) /\ meaning' = With(meaning, r, m)
      /\ goal' = [goal EXCEPT ![c] = m]
  BY <1>2 DEF ClaimSlot
<1>4. r \in Objs /\ r \notin Live /\ call.inst \in Insts
  BY <1>1, <1>3, CallFacts DEF CallShape
<1>5. AfterGetVal(c, FALSE) \in [Live -> Object]
  BY <1>1, <1>3, SlotGets
<1>6. o \in Object /\ o.inFpga = TRUE /\ o.location = c /\ o.valid = FALSE
  BY <1>1, ResetAssumption DEF Object
<1>7. m \in Values
  <2>1. call.args \in [1 .. Arity(call.inst) -> Live]
    BY <1>1, <1>3 DEF CallShape
  <2>2. meaning \in [Live -> Values]
    BY <1>1 DEF TypeOK
  <2>3. [n \in DOMAIN call.args |-> meaning[call.args[n]]] \in [1 .. Arity(call.inst) -> Values]
    BY <2>1, <2>2
  <2> QED
    BY <1>4, <2>3, ArithmeticAssumption
<1> HIDE DEF r, c, o, m
<1>8. /\ DOMAIN obj' = Live \cup {r} /\ obj' \in [Live \cup {r} -> Object] /\ obj'[r] = o
      /\ \A z \in Live : obj'[z] = AfterGetVal(c, FALSE)[z]
  BY <1>3, <1>4, <1>5, <1>6 DEF With
<1>9. /\ meaning' \in [Live \cup {r} -> Values] /\ meaning'[r] = m
      /\ \A z \in Live : meaning'[z] = meaning[z]
  <2>1. meaning \in [Live -> Values]
    BY <1>1 DEF TypeOK
  <2> QED
    BY <1>3, <1>4, <1>7, <2>1 DEF With
<1>10. Live' = Live \cup {r} /\ obj' \in [Live' -> Object] /\ meaning' \in [Live' -> Values]
  BY <1>8, <1>9 DEF Live
<1>11. obj'[r].inFpga = TRUE /\ obj'[r].location = c /\ obj'[r].valid = FALSE
  BY <1>6, <1>8
<1> QED
  BY <1>1, <1>3, <1>4, <1>8, <1>9, <1>10, <1>11 DEF r, c, m

LEMMA ClaimedCall ==
  ASSUME AlwaysInv, call # None, call' = [call EXCEPT !.stage = "send"]
  PROVE  /\ call' \in Calls /\ call' # None /\ call'.stage = "send"
         /\ call'.object = call.object
         /\ call'.inst = call.inst /\ call'.args = call.args /\ call'.ops = call.ops
<1>1. call \in Calls
  BY CallFacts
<1>2. call' \in Calls
  BY <1>1 DEF Calls
<1> QED
  BY <1>1, <1>2, NoneIsApart DEF Calls

LEMMA ClaimedShape ==
  ASSUME AlwaysInv, EmptiesItsSlot, ClaimSlot
  PROVE  AlwaysInv'
<1> DEFINE r == call.object
           c == counter
<1>1. TypeOK /\ PendingIsInFpga /\ CallShape
  BY DEF AlwaysInv
<1>2. /\ call # None /\ call.stage = "operands" /\ c \in Slots
      /\ r \in Objs /\ r \notin Live
      /\ Live' = Live \cup {r} /\ obj' \in [Live' -> Object]
      /\ obj'[r].inFpga = TRUE
      /\ GetsValAtSlot(c)
      /\ \A z \in Live : obj'[z] = AfterGetVal(c, FALSE)[z]
      /\ meaning' \in [Live' -> Values]
      /\ goal' = [goal EXCEPT ![c] = meaning'[r]]
  BY ClaimedObjects
<1>3. /\ Len(call.ops) = Arity(call.inst)
      /\ tracked' = [tracked EXCEPT ![c] = <<r>>]
      /\ requested' = [requested EXCEPT ![c] = TRUE]
      /\ shown' = [shown EXCEPT ![c] = None]
      /\ counter' = (c + 1) % NumFPGAEntries
      /\ call' = [call EXCEPT !.stage = "send"]
      /\ Strays("overrun", requested[c] /\ shown[c] = None)
      /\ UNCHANGED <<build, csr, entry, wbCntr, writes>>
  BY DEF ClaimSlot, ClearedFlags, acceleratorVars
<1>4. /\ call' \in Calls /\ call' # None /\ call'.stage = "send" /\ call'.object = r
      /\ call'.inst = call.inst /\ call'.args = call.args /\ call'.ops = call.ops
  BY <1>2, <1>3, ClaimedCall
<1> HIDE DEF r, c
<1>5. /\ tracked \in [Slots -> Seq(Objs)] /\ requested \in [Slots -> BOOLEAN]
      /\ shown \in [Slots -> Values \cup {None}] /\ goal \in [Slots -> Values]
      /\ Live \subseteq Objs /\ strayed \subseteq Usage \cup {"overrun"}
      /\ \A s \in Slots : ToSet(tracked[s]) \subseteq Live
  BY <1>1 DEF AlwaysInv, TypeOK
<1>6. /\ tracked' \in [Slots -> Seq(Objs)] /\ tracked'[c] = <<r>>
      /\ \A s \in Slots : s # c => tracked'[s] = tracked[s]
  <2>1. <<r>> \in Seq(Objs)
    BY <1>2
  <2> QED
    BY <1>2, <1>3, <1>5, <2>1
<1>7. TypeOK'
  <2>1. /\ requested' \in [Slots -> BOOLEAN] /\ shown' \in [Slots -> Values \cup {None}]
        /\ counter' \in Slots
    BY <1>2, <1>3, <1>5, NextInRing
  <2>2. Live' \subseteq Objs
    BY <1>2, <1>5
  <2>3. goal' \in [Slots -> Values]
    BY <1>2, <1>5
  <2>4. strayed' \subseteq Usage \cup {"overrun"}
    BY <1>3, <1>5 DEF Strays
  <2> QED
    BY <1>1, <1>2, <1>3, <1>4, <1>6, <2>1, <2>2, <2>3, <2>4 DEF TypeOK
<1>8. PendingIsInFpga'
  <2>1. \A z \in Live : obj'[z].valid \/ obj'[z] = obj[z]
    BY <1>2, SlotGets
  <2> QED
    BY <1>1, <1>2, <2>1 DEF PendingIsInFpga
<1>9. CallShape'
  <2>1. call.args \in [1 .. Arity(call.inst) -> Live]
    BY <1>1, <1>2 DEF CallShape
  <2>2. call.args \in [1 .. Arity(call.inst) -> Live'] /\ Arity(call.inst) \in {2, 3}
    BY <1>2, <2>1 DEF Arity
  <2> QED
    BY <1>2, <1>3, <1>4, <2>2 DEF CallShape
<1>10. \A s \in Slots : ToSet(tracked'[s]) \subseteq Live'
  <2> TAKE s \in Slots
  <2>1. CASE s = c
    BY <1>2, <1>6, <2>1, ListOfOne
  <2>2. CASE s # c
    BY <1>2, <1>5, <1>6, <2>2
  <2> QED
    BY <2>1, <2>2
<1> QED
  BY <1>3, <1>7, <1>8, <1>9, <1>10 DEF AlwaysInv

\* With exact lists nothing but the new object is in slot c afterwards.
LEMMA ClaimedTracks ==
  ASSUME AlwaysInv, ListsInv, EmptiesItsSlot, ClaimSlot
  PROVE  /\ \A z \in Live : ~Tracks(z, counter) => obj'[z] = obj[z]
         /\ \A z \in Live : Tracks(z, counter) =>
              /\ obj'[z].valid = TRUE /\ obj'[z].inFpga = FALSE
              /\ ObjectsInv /\ ResultsInv => obj'[z].val = meaning[z]
         /\ \A z : \A s \in Slots :
              Tracks(z, s)' <=> (s = counter /\ z = call.object) \/ (s # counter /\ Tracks(z, s))
<1> DEFINE r == call.object
           c == counter
<1>1. /\ c \in Slots /\ r \notin Live /\ Live' = Live \cup {r}
      /\ obj'[r].inFpga = TRUE /\ obj'[r].location = c
      /\ GetsValAtSlot(c) /\ \A z \in Live : obj'[z] = AfterGetVal(c, FALSE)[z]
  BY ClaimedObjects
<1> HIDE DEF r, c
<1>2. /\ \A z \in Live : ~Tracks(z, c) => AfterGetVal(c, FALSE)[z] = obj[z]
      /\ \A z \in Live : Tracks(z, c) =>
           /\ shown[c] # None
           /\ AfterGetVal(c, FALSE)[z].valid = TRUE
           /\ AfterGetVal(c, FALSE)[z].inFpga = FALSE
           /\ AfterGetVal(c, FALSE)[z].location = c
           /\ ObjectsInv /\ ResultsInv => AfterGetVal(c, FALSE)[z].val = meaning[z]
  BY <1>1, SlotGetsVal
<1>3. /\ \A z \in Live : ~Tracks(z, c) => obj'[z] = obj[z]
      /\ \A z \in Live : Tracks(z, c) =>
           /\ obj'[z].valid = TRUE /\ obj'[z].inFpga = FALSE
           /\ ObjectsInv /\ ResultsInv => obj'[z].val = meaning[z]
  <2>1. ASSUME NEW z \in Live, ~Tracks(z, c) PROVE obj'[z] = obj[z]
    BY <1>1, <1>2, <2>1
  <2>2. ASSUME NEW z \in Live, Tracks(z, c)
        PROVE  /\ obj'[z].valid = TRUE /\ obj'[z].inFpga = FALSE
               /\ ObjectsInv /\ ResultsInv => obj'[z].val = meaning[z]
    <3>1. obj'[z] = AfterGetVal(c, FALSE)[z]
      BY <1>1
    <3> QED
      BY <1>2, <2>2, <3>1
  <2> QED
    BY <2>1, <2>2
<1>4. ASSUME NEW z, NEW s \in Slots
      PROVE  Tracks(z, s)' <=> (s = c /\ z = r) \/ (s # c /\ Tracks(z, s))
  <2>1. CASE z = r
    BY <1>1, <2>1 DEF Tracks
  <2>2. CASE z \in Live
    BY <1>1, <1>3, <2>2 DEF Tracks
  <2>3. CASE z \notin Live'
    BY <1>1, <2>3 DEF Tracks
  <2> QED
    BY <1>1, <2>1, <2>2, <2>3
<1> QED
  BY <1>3, <1>4 DEF r, c

LEMMA ClaimedLists ==
  ASSUME AlwaysInv, ListsInv, EmptiesItsSlot, ClaimSlot
  PROVE  ListsInv'
<1> DEFINE r == call.object
           c == counter
<1>1. /\ c \in Slots /\ r \in Objs /\ r \notin Live /\ Live' = Live \cup {r}
      /\ obj'[r].valid = FALSE /\ GetsValAtSlot(c)
  BY ClaimedObjects
<1>2. /\ \A z \in Live : ~Tracks(z, c) => obj'[z] = obj[z]
      /\ \A z : \A s \in Slots :
           Tracks(z, s)' <=> (s = c /\ z = r) \/ (s # c /\ Tracks(z, s))
  BY ClaimedTracks
<1>3. /\ tracked' = [tracked EXCEPT ![c] = <<r>>]
      /\ requested' = [requested EXCEPT ![c] = TRUE]
      /\ shown' = [shown EXCEPT ![c] = None]
      /\ Strays("overrun", requested[c] /\ shown[c] = None)
  BY DEF ClaimSlot, ClearedFlags
<1> HIDE DEF r, c
<1>4. /\ tracked'[c] = <<r>> /\ requested'[c] /\ shown'[c] = None
      /\ \A s \in Slots : s # c => /\ tracked'[s] = tracked[s]
                                   /\ requested'[s] = requested[s] /\ shown'[s] = shown[s]
  BY <1>1, <1>3 DEF AlwaysInv, TypeOK
<1>5. TrackedExactly'
  <2>1. ASSUME NEW s \in Slots
        PROVE  /\ ToSet(tracked'[s]) = {x \in Live' : obj'[x].inFpga /\ obj'[x].location = s}
               /\ IsInjective(tracked'[s])
    <3>1. TrackedExactly
      BY DEF ListsInv
    <3>2. \A z : z \in ToSet(tracked'[s]) <=> Tracks(z, s)'
      <4>1. CASE s = c
        BY <1>2, <1>4, <4>1, ListOfOne
      <4>2. CASE s # c
        BY <1>2, <1>4, <3>1, <4>2, ListFacts
      <4> QED
        BY <4>1, <4>2
    <3>3. IsInjective(tracked'[s])
      BY <1>4, <3>1, ListOfOne, ListFacts
    <3> QED
      BY <3>2, <3>3 DEF Tracks
  <2> QED
    BY <2>1 DEF TrackedExactly
<1>6. ASSUME NEW s \in Slots, NEW x \in Live', NEW y \in Live', Tracks(x, s)', Tracks(y, s)'
      PROVE  /\ requested'[s]
             /\ shown'[s] = None => ~obj'[x].valid
             /\ obj'[x].valid = obj'[y].valid
  <2>1. CASE s = c
    BY <1>1, <1>2, <1>4, <1>6, <2>1
  <2>2. CASE s # c
    <3>1. Tracks(x, s) /\ Tracks(y, s)
      BY <1>2, <1>6, <2>2
    <3>2. x \in Live /\ y \in Live /\ ~Tracks(x, c) /\ ~Tracks(y, c)
      BY <2>2, <3>1 DEF Tracks
    <3>3. obj'[x] = obj[x] /\ obj'[y] = obj[y]
      BY <1>2, <3>2
    <3> QED
      BY <1>4, <2>2, <3>1, <3>2, <3>3 DEF ListsInv
  <2> QED
    BY <2>1, <2>2
<1>7. ASSUME "abandon" \notin strayed'
      PROVE  /\ "overrun" \notin strayed'
             /\ \A s \in Slots : requested'[s] /\ shown'[s] = None => tracked'[s] # <<>>
  <2>1. "abandon" \notin strayed
    BY <1>3, <1>7 DEF Strays
  <2>2. /\ "overrun" \notin strayed
        /\ \A s \in Slots : requested[s] /\ shown[s] = None => tracked[s] # <<>>
    BY <2>1 DEF ListsInv
  <2>3. ~(requested[c] /\ shown[c] = None)
    <3> SUFFICES ASSUME requested[c], shown[c] = None PROVE FALSE
      OBVIOUS
    <3>1. tracked[c] # <<>> /\ TrackedExactly
      BY <1>1, <2>2 DEF ListsInv
    <3>2. Tracks(First(c), c)
      BY <1>1, <3>1, ListFacts
    <3>3. ~obj[First(c)].valid
      BY <1>1, <3>2, ListsInvFacts
    <3> QED
      BY <1>1, <3>1, <3>3 DEF GetsValAtSlot
  <2>4. "overrun" \notin strayed'
    BY <1>3, <2>2, <2>3 DEF Strays
  <2>5. <<r>> # <<>>
    BY ListOfOne
  <2> QED
    BY <1>4, <2>2, <2>4, <2>5
<1> QED
  BY <1>5, <1>6, <1>7 DEF ListsInv

-----------------------------------------------------------------------------
\* While the program is in order, slot c is not in use, and is the new object's
\* afterwards.
LEMMA ClaimedOrder ==
  ASSUME HostInv, EmptiesItsSlot, ClaimSlot, InOrder'
  PROVE  OrderInv'
<1> DEFINE r == call.object
           c == counter
<1>1. /\ call # None /\ call.stage = "operands" /\ c \in Slots
      /\ r \in Objs /\ r \notin Live /\ Live' = Live \cup {r}
      /\ obj'[r].inFpga = TRUE /\ obj'[r].location = c /\ obj'[r].valid = FALSE
      /\ meaning' \in [Live' -> Values]
      /\ \A z \in Live : meaning'[z] = meaning[z]
      /\ meaning'[r] = Apply(call.inst, [n \in DOMAIN call.args |-> meaning[call.args[n]]])
      /\ goal' = [goal EXCEPT ![c] = meaning'[r]]
  BY ClaimedObjects DEF HostInv, LibraryInv
<1>2. /\ Len(call.ops) = Arity(call.inst)
      /\ requested' = [requested EXCEPT ![c] = TRUE]
      /\ shown' = [shown EXCEPT ![c] = None]
      /\ call' = [call EXCEPT !.stage = "send"]
      /\ Strays("overrun", requested[c] /\ shown[c] = None)
      /\ UNCHANGED <<build, csr, entry, wbCntr, writes>>
  BY DEF ClaimSlot, ClearedFlags, acceleratorVars
<1>3. InOrder /\ ~(requested[c] /\ shown[c] = None)
  BY <1>2 DEF InOrder, Strays
<1>4. /\ TypeOK /\ AlwaysInv /\ ListsInv /\ CallShape /\ ObjectsInv /\ CallInv /\ PlacesInv
      /\ ResultsInv /\ QueueInv /\ WaitingInv /\ BaselineInv
  BY <1>3, InOrderFacts
<1>5. /\ \A z \in Live : ~Tracks(z, c) => obj'[z] = obj[z]
      /\ \A z \in Live : Tracks(z, c) =>
           obj'[z].valid = TRUE /\ obj'[z].inFpga = FALSE /\ obj'[z].val = meaning[z]
      /\ \A z : \A s \in Slots :
           Tracks(z, s)' <=> (s = c /\ z = r) \/ (s # c /\ Tracks(z, s))
  BY <1>4, ClaimedTracks
<1>6. /\ call' \in Calls /\ call' # None /\ call'.stage = "send" /\ call'.object = r
      /\ call'.inst = call.inst /\ call'.args = call.args /\ call'.ops = call.ops
  BY <1>1, <1>2, <1>4, ClaimedCall
<1> HIDE DEF r, c
<1>7. /\ requested \in [Slots -> BOOLEAN] /\ shown \in [Slots -> Values \cup {None}]
      /\ goal \in [Slots -> Values]
  BY <1>4 DEF TypeOK
<1>8. /\ requested'[c] /\ shown'[c] = None /\ goal'[c] = meaning'[r]
      /\ \A s \in Slots : s # c => /\ requested'[s] = requested[s] /\ shown'[s] = shown[s]
                                   /\ goal'[s] = goal[s]
  BY <1>1, <1>2, <1>7
<1>9. \A s \in Slots : ~Claimed(s) /\ (Claimed(s)' <=> s = c)
  BY <1>1, <1>6 DEF Claimed
<1>10. ~Pending(c) /\ ~Queued(c) /\ IsFree(c) /\ writes[c] = <<>>
  BY <1>1, <1>3, <1>4 DEF PlacesInv, Pending
<1>11. \A s \in Slots : /\ Queued(s)' <=> Queued(s)
                        /\ IsFree(s)' <=> IsFree(s)
                        /\ HasResult(entry[s])' <=> HasResult(entry[s])
                        /\ writes'[s] = writes[s] /\ entry'[s] = entry[s]
  BY <1>2 DEF Queued, IsFree, HasResult
<1>12. \A s \in Slots : Pending(s)' <=> Pending(s) \/ s = c
  BY <1>9, <1>11 DEF Pending
<1>13. ObjectsInv'
  <2>1. ASSUME NEW z \in Live', obj'[z].valid
        PROVE  obj'[z].val = meaning'[z]
    <3>1. z \in Live
      BY <1>1, <2>1
    <3>2. CASE Tracks(z, c)
      BY <1>1, <1>5, <3>1, <3>2
    <3>3. CASE ~Tracks(z, c)
      BY <1>1, <1>4, <1>5, <2>1, <3>1, <3>3 DEF ObjectsInv, ObjectsHoldTheirValue
    <3> QED
      BY <3>2, <3>3
  <2>2. ASSUME NEW s \in Slots, NEW x \in Live', Tracks(x, s)'
        PROVE  meaning'[x] = goal'[s]
    <3>1. CASE s = c
      BY <1>5, <1>8, <2>2, <3>1
    <3>2. CASE s # c
      <4>1. Tracks(x, s)
        BY <1>5, <2>2, <3>2
      <4>2. x \in Live /\ meaning[x] = goal[s]
        BY <1>4, <4>1 DEF ObjectsInv, Tracks, Meant
      <4> QED
        BY <1>1, <1>8, <3>2, <4>2
    <3> QED
      BY <3>1, <3>2
  <2> QED
    BY <2>1, <2>2 DEF ObjectsInv, ObjectsHoldTheirValue, Meant
<1>14. PlacesInv'
  <2>1. \A m, n \in 1 .. Len(csr)' : csr'[m].wr_addr = csr'[n].wr_addr => m = n
    BY <1>2, <1>4 DEF PlacesInv
  <2>2. ASSUME NEW s \in Slots
        PROVE  /\ Claimed(s)' => ~Queued(s)'
               /\ Claimed(s)' \/ Queued(s)' => IsFree(s)' /\ writes'[s] = <<>>
               /\ ~IsFree(s)' => writes'[s] = <<>>
               /\ Len(writes'[s]) <= 1
    BY <1>4, <1>9, <1>10, <1>11 DEF PlacesInv
  <2>3. ASSUME NEW s \in Slots, Pending(s)'
        PROVE  requested'[s] /\ shown'[s] = None
    BY <1>4, <1>8, <1>12, <2>3 DEF PlacesInv
  <2> QED
    BY <2>1, <2>2, <2>3 DEF PlacesInv
<1>15. ResultsInv'
  <2> SUFFICES ASSUME NEW s \in Slots, requested'[s]
               PROVE  /\ Claimed(s)' \/ Queued(s)' \/ entry'[s].phase # "empty"
                      /\ HasResult(entry[s])' /\ ~Claimed(s)' /\ ~Queued(s)' =>
                           entry'[s].result = goal'[s]
                      /\ \A n \in 1 .. Len(writes'[s]) : writes'[s][n] = goal'[s]
                      /\ shown'[s] # None => shown'[s] = goal'[s]
    BY DEF ResultsInv, Meant
  <2>1. CASE s = c
    <3>1. 1 .. Len(writes'[c]) = {}
      <4>1. writes'[c] = <<>> /\ Len(<<>>) = 0
        BY <1>1, <1>10, <1>11, NoOperands
      <4> QED
        BY <4>1
    <3> QED
      BY <1>8, <1>9, <2>1, <3>1
  <2>2. CASE s # c
    <3>1. requested[s]
      BY <1>8, <2>2
    <3>2. /\ Queued(s) \/ entry[s].phase # "empty"
          /\ HasResult(entry[s]) /\ ~Queued(s) => entry[s].result = goal[s]
          /\ \A n \in 1 .. Len(writes[s]) : writes[s][n] = goal[s]
          /\ shown[s] # None => shown[s] = goal[s]
      BY <1>4, <1>9, <3>1 DEF ResultsInv, Meant
    <3> QED
      BY <1>8, <1>9, <1>11, <2>2, <3>2
  <2> QED
    BY <2>1, <2>2
<1>16. QueueInv' /\ WaitingInv'
  <2>1. \A s \in Slots : Pending(s) => Meant(s)' = Meant(s)
    BY <1>8, <1>10 DEF Meant
  <2> QED
    BY <1>2, <1>4, <2>1, MeaningsKept
<1>17. CallInv'
  <2>1. /\ call.args \in [1 .. Arity(call.inst) -> Live]
        /\ \A n \in 1 .. Len(call.ops) : OperandOf(call.ops[n], call.args[n], c)
    BY <1>1, <1>4 DEF CallInv, CallShape, ResultSlot, c
  <2>2. ResultSlot' = c
    BY <1>1, <1>6 DEF ResultSlot
  <2>3. ASSUME NEW n \in 1 .. Len(call.ops)
        PROVE  OperandOf(call.ops[n], call.args[n], ResultSlot)'
    <3> DEFINE op == call.ops[n]
               x  == call.args[n]
    <3>1. x \in Live /\ OperandOf(op, x, c) /\ op \in Operand
      <4>1. n \in 1 .. Arity(call.inst)
        BY <1>2
      <4>2. PICK k \in 0 .. 3 : call.ops \in Operands(k) /\ Len(call.ops) = k
        BY <1>1, <1>4, CallFacts
      <4> QED
        BY <2>1, <4>1, <4>2 DEF Operands
    <3>2. call'.ops[n] = op /\ call'.args[n] = x
      BY <1>6
    <3> HIDE DEF op, x
    <3>3. meaning'[x] = meaning[x]
      BY <1>1, <3>1
    <3>4. op.mode # 0 => /\ op.value # c /\ x \in Live' /\ obj'[x].inFpga
                         /\ obj'[x].location = op.value
      <4> HAVE op.mode # 0
      <4>1. op.value # c /\ Tracks(x, op.value) /\ op.value \in Slots
        BY <3>1, OperandFacts DEF OperandOf
      <4>2. ~Tracks(x, c)
        BY <4>1 DEF Tracks
      <4> QED
        BY <1>1, <1>5, <3>1, <4>1, <4>2 DEF Tracks
    <3> QED
      BY <2>2, <3>1, <3>2, <3>3, <3>4 DEF OperandOf, Tracks
  <2>4. Tracks(call.object, ResultSlot)' /\ ~obj'[call'.object].valid
    BY <1>1, <1>6, <2>2 DEF Tracks
  <2>5. meaning'[call'.object] =
          Apply(call'.inst, [n \in DOMAIN call'.args |-> meaning'[call'.args[n]]])
    <3>1. \A n \in DOMAIN call.args : meaning'[call.args[n]] = meaning[call.args[n]]
      BY <1>1, <2>1
    <3>2. [n \in DOMAIN call.args |-> meaning'[call.args[n]]]
            = [n \in DOMAIN call.args |-> meaning[call.args[n]]]
      BY <3>1
    <3> QED
      BY <1>1, <1>6, <3>2
  <2> QED
    BY <1>6, <2>3, <2>4, <2>5 DEF CallInv
<1>18. BaselineInv'
  <2>1. ASSUME build = "BASELINE", NEW z \in Live', ~obj'[z].valid
        PROVE  z = r
    <3>1. CASE z \in Live
      <4>1. obj[z].valid
        BY <1>1, <1>4, <2>1, <3>1 DEF BaselineInv
      <4> QED
        BY <1>5, <2>1, <3>1, <4>1
    <3> QED
      BY <1>1, <3>1
  <2>2. ASSUME build = "BASELINE", NEW s \in Slots, requested'[s], shown'[s] = None
        PROVE  Tracks(call.object, s)'
    <3>1. s = c
      BY <1>1, <1>4, <1>8, <2>2 DEF BaselineInv
    <3>2. call'.object = r
      BY <1>6
    <3> QED
      BY <1>1, <3>1, <3>2 DEF Tracks
  <2>3. build' = build /\ call' # None /\ call'.stage = "send" /\ call'.object = r
    BY <1>2, <1>6
  <2> QED
    BY <2>1, <2>2, <2>3 DEF BaselineInv
<1> QED
  BY <1>13, <1>14, <1>15, <1>16, <1>17, <1>18 DEF OrderInv

LEMMA ClaimSlotKeeps ==
  ASSUME HostInv, EmptiesItsSlot, ClaimSlot
  PROVE  HostInv'
<1>1. AlwaysInv
  BY DEF HostInv, LibraryInv
<1>2. AlwaysInv'
  BY <1>1, ClaimedShape
<1>3. ASSUME "float" \notin strayed' PROVE ListsInv'
  <2>1. "float" \notin strayed
    BY <1>3 DEF ClaimSlot, Strays
  <2>2. ListsInv
    BY <2>1 DEF HostInv, LibraryInv
  <2> QED
    BY <1>1, <2>2, ClaimedLists
<1>4. InOrder' => OrderInv'
  BY ClaimedOrder
<1> QED
  BY <1>2, <1>3, <1>4 DEF HostInv, LibraryInv

\* The part of the queue and that of the entries after a step, for requests and
\* entries that are named.
LEMMA QueueAfter ==
  ASSUME \A n \in 1 .. Len(csr') : \A q : q = csr'[n] =>
           /\ \A k \in DOMAIN q.ops : q.ops[k].mode = 1 =>
                /\ q.ops[k].value # q.wr_addr
                /\ Before(n, q.ops[k].value)' \/ entry'[q.ops[k].value].phase # "empty"
           /\ Meant(q.wr_addr)' =
                Apply(q.inst, [k \in DOMAIN q.ops |-> QueuedMeans(q.ops[k], n)'])
  PROVE  QueueInv'
<1> SUFFICES ASSUME NEW n \in 1 .. Len(csr')
             PROVE  /\ \A k \in DOMAIN csr'[n].ops : csr'[n].ops[k].mode = 1 =>
                         /\ csr'[n].ops[k].value # csr'[n].wr_addr
                         /\ Before(n, csr[n].ops[k].value)'
                            \/ entry'[csr'[n].ops[k].value].phase # "empty"
                    /\ Meant(csr[n].wr_addr)' =
                         Apply(csr'[n].inst,
                               [k \in DOMAIN csr'[n].ops |-> QueuedMeans(csr[n].ops[k], n)'])
  BY Zenon DEF QueueInv
<1>1. PICK q : q = csr'[n]
  OBVIOUS
<1>2. /\ \A k \in DOMAIN q.ops : q.ops[k].mode = 1 =>
           /\ q.ops[k].value # q.wr_addr
           /\ Before(n, q.ops[k].value)' \/ entry'[q.ops[k].value].phase # "empty"
      /\ Meant(q.wr_addr)' =
           Apply(q.inst, [k \in DOMAIN q.ops |-> QueuedMeans(q.ops[k], n)'])
  BY <1>1
<1> QED
  BY <1>1, <1>2 DEF QueuedMeans, Before, EntryMeans, HasResult, Meant

LEMMA WaitingAfter ==
  ASSUME \A s \in Slots : \A e : e = entry'[s] /\ e.phase = "waiting" =>
           /\ \A k \in DOMAIN e.ops : e.ops[k].mode = 1 => entry'[e.ops[k].value].phase = "waiting"
           /\ Meant(s)' = Apply(e.inst, [k \in DOMAIN e.ops |-> WaitingMeans(e.ops[k])'])
  PROVE  WaitingInv'
<1> SUFFICES ASSUME NEW s \in Slots, entry'[s].phase = "waiting"
             PROVE  (LET ops == entry[s].ops
                     IN  /\ \A k \in DOMAIN ops : ops[k].mode = 1 => entry[ops[k].value].phase = "waiting"
                         /\ Meant(s) = Apply(entry[s].inst, [k \in DOMAIN ops |-> WaitingMeans(ops[k])]))'
  BY DEF WaitingInv
<1>1. PICK e : e = entry'[s]
  OBVIOUS
<1>2. /\ \A k \in DOMAIN e.ops : e.ops[k].mode = 1 => entry'[e.ops[k].value].phase = "waiting"
      /\ Meant(s)' = Apply(e.inst, [k \in DOMAIN e.ops |-> WaitingMeans(e.ops[k])'])
  BY <1>1
<1> QED
  BY <1>1, <1>2 DEF WaitingMeans, Meant

\* SendRequest puts one request behind the others.
LEMMA SentRequest ==
  ASSUME AlwaysInv, SendRequest
  PROVE  \E req \in Request :
           /\ req.wr_addr = obj[call.object].location
           /\ req.inst = call.inst /\ req.ops = call.ops
           /\ call # None /\ call.stage = "send" /\ call.object \in Live
           /\ call.args \in [1 .. Arity(call.inst) -> Live]
           /\ call.ops \in Operands(Arity(call.inst)) /\ Len(call.ops) = Arity(call.inst)
           /\ Arity(call.inst) \in {2, 3}
           /\ csr' \in Seq(Request) /\ Len(csr) \in Nat /\ Len(csr') = Len(csr) + 1
           /\ csr'[Len(csr) + 1] = req
           /\ \A n \in 1 .. Len(csr) : csr'[n] = csr[n]
           /\ call' \in Calls \cup {None}
           /\ \/ call' = None /\ build # "BASELINE"
              \/ call' # None /\ call'.stage = "read" /\ call'.object = call.object
<1> DEFINE s == obj[call.object].location
           req == [wr_addr |-> s, inst |-> call.inst, ops |-> call.ops]
<1>1. /\ call # None /\ call.stage = "send" /\ csr' = Append(csr, req) /\ call' = AfterSend
  BY DEF SendRequest
<1>2. /\ call.args \in [1 .. Arity(call.inst) -> Live] /\ Len(call.ops) = Arity(call.inst)
      /\ call.object \in Live
  BY <1>1 DEF AlwaysInv, CallShape
<1>3. s \in Slots
  BY <1>2 DEF AlwaysInv, TypeOK, Object
<1>4. /\ call \in Calls /\ call.inst \in Insts /\ Arity(call.inst) \in {2, 3}
      /\ call.ops \in Operands(Arity(call.inst))
  BY <1>1, <1>2, CallFacts
<1>5. req \in Request
  <2>1. call.ops \in Operands(2) \cup Operands(3)
    BY <1>4
  <2> QED
    BY <1>3, <1>4, <2>1 DEF Request
<1>6. req.wr_addr = s /\ req.inst = call.inst /\ req.ops = call.ops
  OBVIOUS
<1> HIDE DEF req
<1>7. /\ csr' \in Seq(Request) /\ Len(csr') = Len(csr) + 1 /\ Len(csr) \in Nat
      /\ csr'[Len(csr) + 1] = req
      /\ \A n \in 1 .. Len(csr) : csr'[n] = csr[n]
  <2>1. csr \in Seq(Request)
    BY DEF AlwaysInv, TypeOK
  <2>2. Len(csr) \in Nat
    BY <2>1, SeqOwn
  <2> QED
    BY <1>1, <1>5, <2>1, <2>2, AppendProperties
<1>8. /\ call' \in Calls \cup {None}
      /\ \/ call' = None /\ build # "BASELINE"
         \/ call' # None /\ call'.stage = "read" /\ call'.object = call.object
  <2>1. [call EXCEPT !.stage = "read"] \in Calls
    BY <1>4 DEF Calls
  <2>2. [call EXCEPT !.stage = "read"] # None
    BY <2>1, NoneIsApart
  <2> QED
    BY <1>1, <1>4, <2>1, <2>2 DEF AfterSend, Calls
<1> QED
  BY <1>1, <1>2, <1>4, <1>5, <1>6, <1>7, <1>8

LEMMA SentShape ==
  ASSUME AlwaysInv, SendRequest
  PROVE  AlwaysInv'
<1> DEFINE m == Len(csr) + 1
<1>1. PICK req \in Request :
        /\ req.inst = call.inst /\ req.ops = call.ops
        /\ call.object \in Live
        /\ call.ops \in Operands(Arity(call.inst))
        /\ csr' \in Seq(Request) /\ Len(csr) \in Nat /\ Len(csr') = m /\ csr'[m] = req
        /\ \A n \in 1 .. Len(csr) : csr'[n] = csr[n]
        /\ call' \in Calls \cup {None}
        /\ \/ call' = None
           \/ call' # None /\ call'.stage = "read" /\ call'.object = call.object
  BY SentRequest
<1>2. UNCHANGED <<build, obj, tracked, requested, counter, meaning, goal, strayed, shown,
                  entry, wbCntr, writes>>
  BY DEF SendRequest
<1>3. TypeOK'
  BY <1>1, <1>2 DEF AlwaysInv, TypeOK, Live
<1>4. PendingIsInFpga' /\ CallShape'
  BY <1>1, <1>2 DEF AlwaysInv, PendingIsInFpga, CallShape, Live
<1>5. ASSUME NEW n \in 1 .. Len(csr')
      PROVE  DOMAIN csr'[n].ops = 1 .. Arity(csr'[n].inst)
  <2>1. n = m \/ n \in 1 .. Len(csr)
    BY <1>1
  <2> HIDE DEF m
  <2>2. CASE n = m
    <3>1. DOMAIN call.ops = 1 .. Arity(call.inst)
      BY <1>1 DEF Operands
    <3> QED
      BY <1>1, <2>2, <3>1
  <2>3. CASE n \in 1 .. Len(csr)
    BY <1>1, <2>3 DEF AlwaysInv
  <2> QED
    BY <2>1, <2>2, <2>3
<1> QED
  BY <1>2, <1>3, <1>4, <1>5 DEF AlwaysInv, Live

LEMMA SentOrder ==
  ASSUME HostInv, SendRequest, InOrder'
  PROVE  OrderInv'
<1> DEFINE r == call.object
           s == obj[call.object].location
           m == Len(csr) + 1
<1>1. InOrder /\ UNCHANGED <<build, obj, tracked, requested, counter, meaning, goal, strayed,
                              shown, entry, wbCntr, writes>>
  BY DEF SendRequest, InOrder
<1>2. /\ TypeOK /\ AlwaysInv /\ ListsInv /\ ObjectsInv /\ PlacesInv /\ ResultsInv /\ QueueInv
      /\ WaitingInv /\ CallInv /\ BaselineInv
  BY <1>1, InOrderFacts
<1>3. PICK req \in Request :
        /\ req.wr_addr = s /\ req.inst = call.inst /\ req.ops = call.ops
        /\ call # None /\ call.stage = "send" /\ call.object \in Live
        /\ call.args \in [1 .. Arity(call.inst) -> Live]
        /\ call.ops \in Operands(Arity(call.inst)) /\ Len(call.ops) = Arity(call.inst)
        /\ Arity(call.inst) \in {2, 3}
        /\ csr' \in Seq(Request) /\ Len(csr) \in Nat /\ Len(csr') = m /\ csr'[m] = req
        /\ \A n \in 1 .. Len(csr) : csr'[n] = csr[n]
        /\ call' \in Calls \cup {None}
        /\ \/ call' = None /\ build # "BASELINE"
           \/ call' # None /\ call'.stage = "read" /\ call'.object = call.object
  BY <1>2, SentRequest
<1>4. /\ \A n \in 1 .. Len(call.ops) : OperandOf(call.ops[n], call.args[n], s)
      /\ Tracks(r, s)
      /\ meaning[r] = Apply(call.inst, [n \in DOMAIN call.args |-> meaning[call.args[n]]])
  BY <1>2, <1>3 DEF CallInv, ResultSlot
<1>5. s \in Slots /\ obj \in [Live -> Object]
  BY <1>2, <1>3 DEF TypeOK, Object
<1>6. goal[s] = meaning[r]
  BY <1>2, <1>3, <1>4, <1>5 DEF ObjectsInv, Meant
<1>7. Claimed(s) /\ \A t \in Slots : Claimed(t) => t = s
  BY <1>3 DEF Claimed
<1>8. \A t \in Slots : Tracks(r, t) => t = s
  BY <1>4 DEF Tracks
<1> HIDE DEF r, s
<1>9. /\ csr' \in Seq(Request) /\ Len(csr') = m /\ m \in Nat /\ Len(csr) \in Nat /\ csr'[m] = req
      /\ \A n \in 1 .. Len(csr) : csr'[n] = csr[n]
  BY <1>3
<1>10. m \in 1 .. m /\ \A n \in 1 .. m : n = m \/ n \in 1 .. Len(csr)
  BY <1>9
<1> HIDE DEF m
<1>13. ObjectsInv'
  BY <1>1, <1>2 DEF ObjectsInv, ObjectsHoldTheirValue, Tracks, Live, Meant
<1>14. CallInv'
  BY <1>3 DEF CallInv
<1>15. BaselineInv'
  BY <1>1, <1>2, <1>3 DEF BaselineInv, Live, Tracks
<1>16. ASSUME NEW t \in Slots
       PROVE  /\ ~Claimed(t)' /\ (Queued(t)' <=> Queued(t) \/ t = s)
              /\ IsFree(t)' = IsFree(t) /\ HasResult(entry[t])' = HasResult(entry[t])
              /\ Meant(t)' = Meant(t)
  <2>1. ~Claimed(t)'
    BY <1>3 DEF Claimed
  <2>2. Queued(t)' <=> Queued(t) \/ t = s
    <3>1. ASSUME Queued(t)' PROVE Queued(t) \/ t = s
      <4>1. PICK n \in 1 .. m : csr'[n].wr_addr = t
        BY <1>9, <3>1 DEF Queued
      <4> QED
        BY <1>3, <1>9, <1>10, <4>1 DEF Queued
    <3>2. ASSUME Queued(t) PROVE Queued(t)'
      <4>1. PICK n \in 1 .. Len(csr) : csr[n].wr_addr = t
        BY <3>2 DEF Queued
      <4>2. n \in 1 .. Len(csr')
        BY <1>9 DEF m
      <4> QED
        BY <1>9, <4>1, <4>2 DEF Queued
    <3>3. ASSUME t = s PROVE Queued(t)'
      BY <1>3, <1>9, <1>10, <3>3 DEF Queued
    <3> QED
      BY <3>1, <3>2, <3>3
  <2> QED
    BY <1>1, <2>1, <2>2 DEF IsFree, HasResult, Meant
<1>17. ~Queued(s) /\ IsFree(s) /\ writes[s] = <<>>
  BY <1>2, <1>5, <1>7 DEF PlacesInv
<1>18. \A n \in 1 .. Len(csr) : csr[n].wr_addr # s
  BY <1>17 DEF Queued
<1>19. PlacesInv'
  <2>1. \A i, j \in 1 .. Len(csr)' : csr'[i].wr_addr = csr'[j].wr_addr => i = j
    <3>1. \A i, j \in 1 .. Len(csr) : csr[i].wr_addr = csr[j].wr_addr => i = j
      BY <1>2 DEF PlacesInv
    <3> QED
      BY <1>3, <1>9, <1>10, <1>18, <3>1
  <2>2. ASSUME NEW t \in Slots
        PROVE  /\ Claimed(t)' => ~Queued(t)'
               /\ Claimed(t)' \/ Queued(t)' => IsFree(t)' /\ writes'[t] = <<>>
               /\ ~IsFree(t)' => writes'[t] = <<>>
               /\ Len(writes'[t]) <= 1
    <3>1. writes'[t] = writes[t]
      BY <1>1
    <3> QED
      BY <1>2, <1>16, <1>17, <3>1 DEF PlacesInv
  <2>3. ASSUME NEW t \in Slots, Pending(t)'
        PROVE  requested'[t] /\ shown'[t] = None
    <3>1. Pending(t)
      BY <1>1, <1>7, <1>16, <2>3 DEF Pending
    <3> QED
      BY <1>1, <1>2, <3>1 DEF PlacesInv
  <2> QED
    BY <2>1, <2>2, <2>3 DEF PlacesInv
<1>20. ResultsInv'
  <2> SUFFICES ASSUME NEW t \in Slots, requested'[t]
               PROVE  /\ Claimed(t)' \/ Queued(t)' \/ entry'[t].phase # "empty"
                      /\ HasResult(entry[t])' /\ ~Claimed(t)' /\ ~Queued(t)' =>
                           entry'[t].result = Meant(t)'
                      /\ \A n \in 1 .. Len(writes'[t]) : writes'[t][n] = Meant(t)'
                      /\ shown'[t] # None => shown'[t] = Meant(t)'
    BY DEF ResultsInv
  <2>1. /\ Claimed(t) \/ Queued(t) \/ entry[t].phase # "empty"
        /\ HasResult(entry[t]) /\ ~Claimed(t) /\ ~Queued(t) => entry[t].result = Meant(t)
        /\ \A n \in 1 .. Len(writes[t]) : writes[t][n] = Meant(t)
        /\ shown[t] # None => shown[t] = Meant(t)
    BY <1>1, <1>2 DEF ResultsInv
  <2> QED
    BY <1>1, <1>7, <1>16, <2>1
<1>21. ASSUME NEW n \in 1 .. Len(csr), NEW op
       PROVE  (Before(n, op.value)' <=> Before(n, op.value)) /\ QueuedMeans(op, n)' = QueuedMeans(op, n)
  <2>1. \A k \in 1 .. n - 1 : csr'[k] = csr[k]
    BY <1>9
  <2>2. Before(n, op.value)' <=> Before(n, op.value)
    BY <2>1 DEF Before
  <2>3. Meant(op.value)' = Meant(op.value)
    BY <1>1 DEF Meant
  <2>4. EntryMeans(op.value)' = EntryMeans(op.value)
    BY <1>1, <2>3 DEF EntryMeans, HasResult
  <2> QED
    BY <2>2, <2>3, <2>4 DEF QueuedMeans
<1>22. ASSUME NEW n \in 1 .. Len(csr), NEW q, q = csr[n]
       PROVE  /\ \A k \in DOMAIN q.ops : q.ops[k].mode = 1 =>
                   /\ q.ops[k].value # q.wr_addr
                   /\ Before(n, q.ops[k].value)' \/ entry'[q.ops[k].value].phase # "empty"
              /\ Meant(q.wr_addr)' =
                   Apply(q.inst, [k \in DOMAIN q.ops |-> QueuedMeans(q.ops[k], n)'])
  <2>1. /\ \A k \in DOMAIN q.ops : q.ops[k].mode = 1 =>
             /\ q.ops[k].value # q.wr_addr
             /\ Before(n, q.ops[k].value) \/ entry[q.ops[k].value].phase # "empty"
        /\ Meant(q.wr_addr) =
             Apply(q.inst, [k \in DOMAIN q.ops |-> QueuedMeans(q.ops[k], n)])
    BY <1>2, <1>22 DEF QueueInv
  <2>2. [k \in DOMAIN q.ops |-> QueuedMeans(q.ops[k], n)']
          = [k \in DOMAIN q.ops |-> QueuedMeans(q.ops[k], n)]
    BY <1>21
  <2>3. \A k \in DOMAIN q.ops : Before(n, q.ops[k].value)' <=> Before(n, q.ops[k].value)
    BY <1>21
  <2>4. Meant(q.wr_addr)' = Meant(q.wr_addr) /\ entry' = entry
    BY <1>1 DEF Meant
  <2> QED
    BY <2>1, <2>2, <2>3, <2>4
<1>23. ASSUME NEW op \in Operand, NEW x, OperandOf(op, x, s), NEW p, p = m
       PROVE  /\ op.mode = 1 =>
                   op.value # s /\ (Before(p, op.value)' \/ entry[op.value].phase # "empty")
              /\ QueuedMeans(op, p)' = meaning[x]
  <2>1. op.mode \in {0, 1} /\ (op.mode = 1 => op.value \in Slots)
    BY OperandFacts
  <2>2. CASE op.mode = 0
    <3>1. op.value = meaning[x]
      BY <1>23, <2>2 DEF OperandOf
    <3> QED
      BY <2>2, <3>1 DEF QueuedMeans
  <2>3. CASE op.mode = 1
    <3>1. Tracks(x, op.value) /\ op.value # s /\ op.value \in Slots
      BY <1>23, <2>1, <2>3 DEF OperandOf
    <3>2. requested[op.value] /\ Meant(op.value) = meaning[x]
      BY <1>2, <3>1, ListsInvFacts DEF ObjectsInv, Tracks
    <3>3. ~Claimed(op.value)
      BY <1>7, <3>1
    <3>4. /\ Queued(op.value) \/ entry[op.value].phase # "empty"
          /\ HasResult(entry[op.value]) /\ ~Queued(op.value) =>
               entry[op.value].result = Meant(op.value)
      BY <1>2, <3>1, <3>2, <3>3 DEF ResultsInv
    <3>5. Before(p, op.value)' <=> Queued(op.value)
      <4>1. p - 1 = Len(csr)
        BY <1>9, <1>23 DEF m
      <4> QED
        BY <1>9, <4>1 DEF Before, Queued
    <3>6. Meant(op.value)' = meaning[x]
      BY <1>1, <3>2 DEF Meant
    <3>7. ~Queued(op.value) => EntryMeans(op.value)' = meaning[x]
      BY <1>1, <3>2, <3>4, <3>6 DEF EntryMeans, HasResult
    <3>8. QueuedMeans(op, p)' = meaning[x]
      BY <2>3, <3>5, <3>6, <3>7 DEF QueuedMeans
    <3> QED
      BY <3>1, <3>4, <3>5, <3>8
  <2> QED
    BY <2>1, <2>2, <2>3
<1>24. ASSUME NEW q, q = csr'[m], NEW p, p = m
       PROVE  /\ \A k \in DOMAIN q.ops : q.ops[k].mode = 1 =>
                   /\ q.ops[k].value # q.wr_addr
                   /\ Before(p, q.ops[k].value)' \/ entry'[q.ops[k].value].phase # "empty"
              /\ Meant(q.wr_addr)' =
                   Apply(q.inst, [k \in DOMAIN q.ops |-> QueuedMeans(q.ops[k], p)'])
  <2>1. q.wr_addr = s /\ q.inst = call.inst /\ q.ops = call.ops
    BY <1>3, <1>9, <1>24
  <2>2. DOMAIN call.ops = 1 .. Arity(call.inst) /\ DOMAIN call.args = 1 .. Arity(call.inst)
    BY <1>3 DEF Operands
  <2>3. \A k \in DOMAIN q.ops : q.ops[k] \in Operand /\ OperandOf(q.ops[k], call.args[k], s)
    BY <1>3, <1>4, <2>1, <2>2 DEF Operands
  <2>4. ASSUME NEW k \in DOMAIN q.ops
        PROVE  /\ q.ops[k].mode = 1 =>
                    /\ q.ops[k].value # s
                    /\ Before(p, q.ops[k].value)' \/ entry[q.ops[k].value].phase # "empty"
               /\ QueuedMeans(q.ops[k], p)' = meaning[call.args[k]]
    <3>1. PICK op, x : op = q.ops[k] /\ x = call.args[k]
      OBVIOUS
    <3> QED
      BY <1>23, <1>24, <2>3, <3>1
  <2>5. [k \in DOMAIN q.ops |-> QueuedMeans(q.ops[k], p)']
          = [k \in DOMAIN call.args |-> meaning[call.args[k]]]
    BY <2>1, <2>2, <2>4
  <2>6. Meant(q.wr_addr)' = meaning[r]
    BY <1>1, <1>6, <2>1 DEF Meant
  <2> QED
    BY <1>1, <1>4, <2>1, <2>4, <2>5, <2>6
<1>25. QueueInv'
  <2>1. \A n \in 1 .. Len(csr') : n = m \/ n \in 1 .. Len(csr)
    BY <1>9, <1>10
  <2>2. \A n \in 1 .. Len(csr) : csr'[n] = csr[n]
    BY <1>9
  <2>3. ASSUME NEW n \in 1 .. Len(csr'), NEW q, q = csr'[n]
        PROVE  /\ \A k \in DOMAIN q.ops : q.ops[k].mode = 1 =>
                    /\ q.ops[k].value # q.wr_addr
                    /\ Before(n, q.ops[k].value)' \/ entry'[q.ops[k].value].phase # "empty"
               /\ Meant(q.wr_addr)' =
                    Apply(q.inst, [k \in DOMAIN q.ops |-> QueuedMeans(q.ops[k], n)'])
    <3>1. CASE n \in 1 .. Len(csr)
      <4>1. q = csr[n]
        BY <2>2, <2>3, <3>1
      <4> QED
        BY <1>22, <3>1, <4>1
    <3>2. CASE n = m
      <4>1. q = csr'[m]
        BY <2>3, <3>2
      <4> HIDE DEF m
      <4> QED
        BY <1>24, <3>2, <4>1
    <3> QED
      BY <2>1, <3>1, <3>2
  <2> QED
    BY <2>3, QueueAfter
<1>26. WaitingInv'
  BY <1>1, <1>2 DEF WaitingInv, WaitingMeans, Meant
<1> QED
  BY <1>13, <1>14, <1>15, <1>19, <1>20, <1>25, <1>26 DEF OrderInv

LEMMA SendRequestKeeps ==
  ASSUME HostInv, SendRequest
  PROVE  HostInv'
<1>1. AlwaysInv' /\ (InOrder' => OrderInv')
  BY SentShape, SentOrder DEF HostInv, LibraryInv
<1>2. ASSUME "float" \notin strayed' PROVE ListsInv'
  <2>1. UNCHANGED <<obj, tracked, requested, strayed, shown>>
    BY DEF SendRequest
  <2>2. ListsInv
    BY <1>2, <2>1 DEF HostInv, LibraryInv
  <2> QED
    BY <2>1, <2>2 DEF ListsInv, TrackedExactly, Tracks, Live
<1> QED
  BY <1>1, <1>2 DEF HostInv, LibraryInv

-----------------------------------------------------------------------------
(* The accelerator.                                                        *)

\* What the accelerator does leaves the library as it is.
LEMMA LibraryKept ==
  ASSUME HostInv, UNCHANGED libraryVars,
         \A t \in Slots : shown'[t] = None => shown[t] = None
  PROVE  /\ \A t : (Claimed(t)' <=> Claimed(t)) /\ Meant(t)' = Meant(t)
         /\ "float" \notin strayed' => ListsInv'
         /\ InOrder' => InOrder /\ ObjectsInv' /\ CallInv' /\ BaselineInv'
<1>1. UNCHANGED <<build, obj, tracked, requested, counter, call, meaning, goal, strayed>>
  BY DEF libraryVars
<1>2. \A t : (Claimed(t)' <=> Claimed(t)) /\ Meant(t)' = Meant(t)
  BY <1>1 DEF Claimed, Meant
<1>3. ASSUME "float" \notin strayed' PROVE ListsInv'
  <2>1. ListsInv
    BY <1>1, <1>3 DEF HostInv, LibraryInv
  <2>2. TrackedExactly'
    BY <1>1, <2>1 DEF ListsInv, TrackedExactly, Live
  <2>3. \A x, s : Tracks(x, s)' <=> Tracks(x, s)
    BY <1>1 DEF Tracks, Live
  <2>4. ASSUME NEW s \in Slots, NEW x \in Live', NEW y \in Live', Tracks(x, s)', Tracks(y, s)'
        PROVE  /\ requested'[s]
               /\ shown'[s] = None => ~obj'[x].valid
               /\ obj'[x].valid = obj'[y].valid
    <3>1. Tracks(x, s) /\ Tracks(y, s) /\ x \in Live /\ y \in Live
      BY <2>3, <2>4 DEF Tracks
    <3> QED
      BY <1>1, <2>1, <3>1 DEF ListsInv
  <2>5. ASSUME "abandon" \notin strayed'
        PROVE  /\ "overrun" \notin strayed'
               /\ \A s \in Slots : requested'[s] /\ shown'[s] = None => tracked'[s] # <<>>
    BY <1>1, <2>1, <2>5 DEF ListsInv
  <2> QED
    BY <2>2, <2>4, <2>5 DEF ListsInv
<1>4. ASSUME InOrder' PROVE InOrder /\ ObjectsInv' /\ CallInv' /\ BaselineInv'
  <2>1. InOrder
    BY <1>1, <1>4 DEF InOrder
  <2>2. ObjectsInv /\ CallInv /\ BaselineInv
    BY <2>1, InOrderFacts
  <2>3. ObjectsInv'
    BY <1>1, <2>2 DEF ObjectsInv, ObjectsHoldTheirValue, Tracks, Live, Meant
  <2>4. CallInv'
    BY <1>1, <2>2 DEF CallInv, ResultSlot, OperandOf, Tracks, Live
  <2>5. BaselineInv'
    BY <1>1, <2>2 DEF BaselineInv, Tracks, Live
  <2> QED
    BY <2>1, <2>3, <2>4, <2>5
<1> QED
  BY <1>2, <1>3, <1>4

\* Requests and entries keep the operands they need.
LEMMA ShapeKept ==
  ASSUME AlwaysInv, UNCHANGED libraryVars, TypeOK',
         \A n \in 1 .. Len(csr') : DOMAIN csr'[n].ops = 1 .. Arity(csr'[n].inst),
         \A s \in Slots :
           entry'[s].phase = "waiting" => DOMAIN entry'[s].ops = 1 .. Arity(entry'[s].inst)
  PROVE  AlwaysInv'
<1>1. UNCHANGED <<build, obj, tracked, requested, counter, call, meaning, goal, strayed>>
  BY DEF libraryVars
<1>2. PendingIsInFpga' /\ CallShape'
  BY <1>1 DEF AlwaysInv, PendingIsInFpga, CallShape, Live
<1>3. \A s \in Slots : ToSet(tracked'[s]) \subseteq Live'
  BY <1>1 DEF AlwaysInv, Live
<1> QED
  BY <1>2, <1>3 DEF AlwaysInv

\* A step of the accelerator, part by part.
LEMMA AcceleratorKeeps ==
  ASSUME HostInv, UNCHANGED libraryVars, AlwaysInv',
         \A t \in Slots : shown'[t] = None => shown[t] = None,
         InOrder' => PlacesInv' /\ ResultsInv' /\ QueueInv' /\ WaitingInv'
  PROVE  HostInv'
BY LibraryKept DEF HostInv, LibraryInv, OrderInv

\* Entries that mean what they meant leave the queue as it is.
LEMMA QueueStays ==
  ASSUME TypeOK, QueueInv, csr' = csr,
         \A t : Meant(t)' = Meant(t),
         \A t \in Slots : entry[t].phase # "empty" =>
           entry'[t].phase # "empty" /\ EntryMeans(t)' = EntryMeans(t)
  PROVE  QueueInv'
<1>1. \A n, t : Before(n, t)' <=> Before(n, t)
  BY DEF Before
<1>2. ASSUME NEW n \in 1 .. Len(csr'), NEW q, q = csr'[n]
      PROVE  /\ \A k \in DOMAIN q.ops : q.ops[k].mode = 1 =>
                  /\ q.ops[k].value # q.wr_addr
                  /\ Before(n, q.ops[k].value)' \/ entry'[q.ops[k].value].phase # "empty"
             /\ Meant(q.wr_addr)' =
                  Apply(q.inst, [k \in DOMAIN q.ops |-> QueuedMeans(q.ops[k], n)'])
  <2>1. n \in 1 .. Len(csr) /\ q = csr[n]
    BY <1>2
  <2>2. /\ \A k \in DOMAIN q.ops : q.ops[k].mode = 1 =>
             /\ q.ops[k].value # q.wr_addr
             /\ Before(n, q.ops[k].value) \/ entry[q.ops[k].value].phase # "empty"
        /\ Meant(q.wr_addr) =
             Apply(q.inst, [k \in DOMAIN q.ops |-> QueuedMeans(q.ops[k], n)])
    BY <2>1 DEF QueueInv
  <2>3. \A k \in DOMAIN q.ops : /\ q.ops[k].mode \in {0, 1}
                                /\ q.ops[k].mode = 1 => q.ops[k].value \in Slots
    BY <2>1, RequestFacts
  <2>4. ASSUME NEW k \in DOMAIN q.ops
        PROVE  QueuedMeans(q.ops[k], n)' = QueuedMeans(q.ops[k], n)
    <3>1. PICK op : op = q.ops[k]
      OBVIOUS
    <3>2. CASE op.mode = 0
      BY <3>1, <3>2 DEF QueuedMeans
    <3>3. CASE op.mode = 1
      <4>1. op.value \in Slots /\ (Before(n, op.value) \/ entry[op.value].phase # "empty")
        BY <2>2, <2>3, <3>1, <3>3
      <4>2. Before(n, op.value)' <=> Before(n, op.value)
        BY <1>1
      <4>3. Meant(op.value)' = Meant(op.value)
        OBVIOUS
      <4>4. ~Before(n, op.value) => EntryMeans(op.value)' = EntryMeans(op.value)
        BY <4>1
      <4>5. QueuedMeans(op, n)' = QueuedMeans(op, n)
        BY <3>3, <4>2, <4>3, <4>4 DEF QueuedMeans
      <4> QED
        BY <3>1, <4>5
    <3> QED
      BY <2>3, <3>1, <3>2, <3>3
  <2>5. [k \in DOMAIN q.ops |-> QueuedMeans(q.ops[k], n)']
          = [k \in DOMAIN q.ops |-> QueuedMeans(q.ops[k], n)]
    BY <2>4
  <2>6. \A k \in DOMAIN q.ops : Before(n, q.ops[k].value)' <=> Before(n, q.ops[k].value)
    BY <1>1
  <2>7. Meant(q.wr_addr)' = Meant(q.wr_addr)
    OBVIOUS
  <2> QED
    BY <2>2, <2>3, <2>5, <2>6, <2>7
<1> QED
  BY <1>2, QueueAfter

\* The result of the next entry goes behind the others of its slot.
LEMMA WrittenBack ==
  ASSUME AlwaysInv, WriteBack
  PROVE  /\ wbCntr \in Slots /\ entry[wbCntr].phase = "completed"
         /\ entry' \in [Slots -> Entry] /\ entry'[wbCntr].phase = "written"
         /\ entry'[wbCntr].result = entry[wbCntr].result
         /\ \A t \in Slots : t # wbCntr => entry'[t] = entry[t]
         /\ writes' \in [Slots -> Seq(Values)]
         /\ writes'[wbCntr] = Append(writes[wbCntr], entry[wbCntr].result)
         /\ \A t \in Slots : t # wbCntr => writes'[t] = writes[t]
         /\ AlwaysInv'
<1> DEFINE w == wbCntr
<1>1. /\ entry[w].phase = "completed" /\ entry' = [entry EXCEPT ![w].phase = "written"]
      /\ writes' = [writes EXCEPT ![w] = Append(@, entry[w].result)]
      /\ wbCntr' = NextSlot(w)
      /\ UNCHANGED <<libraryVars, shown, csr>>
  BY DEF WriteBack
<1>2. /\ entry \in [Slots -> Entry] /\ writes \in [Slots -> Seq(Values)] /\ w \in Slots
      /\ entry[w] \in Entry /\ TypeOK
  BY DEF AlwaysInv, TypeOK
<1>3. wbCntr' \in Slots
  BY <1>1, <1>2, NextInRing DEF NextSlot
<1> HIDE DEF w
<1>4. [entry[w] EXCEPT !.phase = "written"] \in Entry
  BY <1>2 DEF Entry, Phases
<1>5. /\ entry' \in [Slots -> Entry] /\ entry'[w].phase = "written"
      /\ entry'[w].result = entry[w].result
      /\ \A t \in Slots : t # w => entry'[t] = entry[t]
  <2>1. entry' = [entry EXCEPT ![w] = [entry[w] EXCEPT !.phase = "written"]]
    BY <1>1
  <2> QED
    BY <1>2, <1>4, <2>1 DEF Entry
<1>6. /\ writes' \in [Slots -> Seq(Values)]
      /\ writes'[w] = Append(writes[w], entry[w].result)
      /\ \A t \in Slots : t # w => writes'[t] = writes[t]
  <2>1. entry[w].result \in Values /\ writes[w] \in Seq(Values)
    BY <1>2, EntryFacts
  <2>2. Append(writes[w], entry[w].result) \in Seq(Values)
    BY <2>1, AppendProperties
  <2> QED
    BY <1>1, <1>2, <2>2
<1>7. TypeOK'
  BY <1>1, <1>2, <1>3, <1>5, <1>6 DEF TypeOK, Live, libraryVars
<1>8. \A s \in Slots :
        entry'[s].phase = "waiting" => DOMAIN entry'[s].ops = 1 .. Arity(entry'[s].inst)
  BY <1>5 DEF AlwaysInv
<1>9. \A n \in 1 .. Len(csr') : DOMAIN csr'[n].ops = 1 .. Arity(csr'[n].inst)
  BY <1>1 DEF AlwaysInv
<1>10. AlwaysInv'
  BY <1>1, <1>7, <1>8, <1>9, ShapeKept
<1> QED
  BY <1>1, <1>2, <1>5, <1>6, <1>10 DEF w

LEMMA WriteBackOrder ==
  ASSUME HostInv, WriteBack, InOrder, \A t : (Claimed(t)' <=> Claimed(t)) /\ Meant(t)' = Meant(t)
  PROVE  PlacesInv' /\ ResultsInv' /\ QueueInv' /\ WaitingInv'
<1> DEFINE w == wbCntr
<1>1. TypeOK /\ AlwaysInv /\ PlacesInv /\ ResultsInv /\ QueueInv /\ WaitingInv
  BY InOrderFacts
<1>2. /\ w \in Slots /\ entry[w].phase = "completed"
      /\ entry'[w].phase = "written" /\ entry'[w].result = entry[w].result
      /\ \A t \in Slots : t # w => entry'[t] = entry[t]
      /\ writes'[w] = Append(writes[w], entry[w].result)
      /\ \A t \in Slots : t # w => writes'[t] = writes[t]
  BY <1>1, WrittenBack
<1>3. UNCHANGED <<libraryVars, requested, shown, csr>>
  BY DEF WriteBack, libraryVars
<1> HIDE DEF w
<1>4. /\ ~IsFree(w) /\ Pending(w) /\ HasResult(entry[w]) /\ ~Claimed(w) /\ ~Queued(w)
      /\ writes[w] = <<>>
  <2>1. ~IsFree(w) /\ HasResult(entry[w])
    BY <1>1, <1>2, PhaseFacts
  <2> QED
    BY <1>1, <1>2, <2>1 DEF PlacesInv, Pending
<1>5. requested[w] /\ entry[w].result = Meant(w)
  BY <1>1, <1>2, <1>4 DEF PlacesInv, ResultsInv
<1>6. Len(writes'[w]) = 1 /\ writes'[w][1] = Meant(w)
  <2>1. entry[w].result \in Values
    BY <1>1, <1>2, EntryFacts
  <2>2. <<>> \in Seq(Values) /\ Len(<<>>) = 0
    BY EmptySeq
  <2>3. /\ Len(Append(<<>>, entry[w].result)) = 1
        /\ Append(<<>>, entry[w].result)[1] = entry[w].result
    BY <2>1, <2>2, AppendProperties
  <2> QED
    BY <1>2, <1>4, <1>5, <2>3
<1>7. \A t \in Slots : /\ Queued(t)' <=> Queued(t)
                       /\ IsFree(t)' <=> IsFree(t) \/ t = w
                       /\ HasResult(entry[t])' <=> HasResult(entry[t])
                       /\ entry'[t].result = entry[t].result
                       /\ entry'[t].phase = "empty" <=> entry[t].phase = "empty"
  BY <1>2, <1>3 DEF Queued, IsFree, HasResult
<1>8. PlacesInv'
  <2>1. \A m, n \in 1 .. Len(csr)' : csr'[m].wr_addr = csr'[n].wr_addr => m = n
    BY <1>1, <1>3 DEF PlacesInv
  <2>2. ASSUME NEW t \in Slots
        PROVE  /\ Claimed(t)' => ~Queued(t)'
               /\ Claimed(t)' \/ Queued(t)' => IsFree(t)' /\ writes'[t] = <<>>
               /\ ~IsFree(t)' => writes'[t] = <<>>
               /\ Len(writes'[t]) <= 1
    <3>1. CASE t = w
      <4>1. ~Claimed(t)' /\ ~Queued(t)' /\ IsFree(t)' /\ Len(writes'[t]) = 1
        BY <1>4, <1>6, <1>7, <3>1
      <4> QED
        BY <4>1
    <3>2. CASE t # w
      BY <1>1, <1>2, <1>7, <3>2 DEF PlacesInv
    <3> QED
      BY <3>1, <3>2
  <2>3. ASSUME NEW t \in Slots, Pending(t)'
        PROVE  requested'[t] /\ shown'[t] = None
    <3>1. CASE t = w
      BY <1>1, <1>2, <1>3, <1>4, <3>1 DEF PlacesInv
    <3>2. CASE t # w
      <4>1. Pending(t)
        BY <1>2, <1>7, <2>3, <3>2 DEF Pending
      <4> QED
        BY <1>1, <1>3, <4>1 DEF PlacesInv
    <3> QED
      BY <3>1, <3>2
  <2> QED
    BY <2>1, <2>2, <2>3 DEF PlacesInv
<1>9. ResultsInv'
  <2> SUFFICES ASSUME NEW t \in Slots, requested'[t]
               PROVE  /\ Claimed(t)' \/ Queued(t)' \/ entry'[t].phase # "empty"
                      /\ HasResult(entry[t])' /\ ~Claimed(t)' /\ ~Queued(t)' =>
                           entry'[t].result = Meant(t)'
                      /\ \A n \in 1 .. Len(writes'[t]) : writes'[t][n] = Meant(t)'
                      /\ shown'[t] # None => shown'[t] = Meant(t)'
    BY DEF ResultsInv
  <2>1. /\ Claimed(t) \/ Queued(t) \/ entry[t].phase # "empty"
        /\ HasResult(entry[t]) /\ ~Claimed(t) /\ ~Queued(t) => entry[t].result = Meant(t)
        /\ \A n \in 1 .. Len(writes[t]) : writes[t][n] = Meant(t)
        /\ shown[t] # None => shown[t] = Meant(t)
    BY <1>1, <1>3 DEF ResultsInv
  <2>2. \A n \in 1 .. Len(writes'[t]) : writes'[t][n] = Meant(t)
    BY <1>2, <1>6, <2>1
  <2> QED
    BY <1>3, <1>7, <2>1, <2>2
<1>10. QueueInv'
  <2>1. \A t \in Slots : EntryMeans(t)' = EntryMeans(t)
    BY <1>7 DEF EntryMeans
  <2> QED
    BY <1>1, <1>3, <1>7, <2>1, QueueStays
<1>11. WaitingInv'
  <2>1. ASSUME NEW t \in Slots, NEW e, e = entry'[t], e.phase = "waiting"
        PROVE  /\ \A k \in DOMAIN e.ops : e.ops[k].mode = 1 => entry'[e.ops[k].value].phase = "waiting"
               /\ Meant(t)' = Apply(e.inst, [k \in DOMAIN e.ops |-> WaitingMeans(e.ops[k])'])
    <3>1. t # w /\ e = entry[t]
      BY <1>2, <2>1
    <3>2. /\ \A k \in DOMAIN e.ops : e.ops[k].mode = 1 => entry[e.ops[k].value].phase = "waiting"
          /\ Meant(t) = Apply(e.inst, [k \in DOMAIN e.ops |-> WaitingMeans(e.ops[k])])
      BY <1>1, <2>1, <3>1 DEF WaitingInv
    <3>3. \A k \in DOMAIN e.ops : e.ops[k].mode = 1 => entry'[e.ops[k].value].phase = "waiting"
      <4>1. \A k \in DOMAIN e.ops : e.ops[k].mode = 1 => e.ops[k].value \in Slots
        BY <1>1, <3>1, EntryFacts
      <4>2. \A k \in DOMAIN e.ops : e.ops[k].mode = 1 => e.ops[k].value # w
        BY <1>2, <3>2
      <4> QED
        BY <1>2, <3>2, <4>1, <4>2
    <3>4. \A k \in DOMAIN e.ops : WaitingMeans(e.ops[k])' = WaitingMeans(e.ops[k])
      BY DEF WaitingMeans
    <3>5. [k \in DOMAIN e.ops |-> WaitingMeans(e.ops[k])']
            = [k \in DOMAIN e.ops |-> WaitingMeans(e.ops[k])]
      BY <3>4
    <3> QED
      BY <3>2, <3>3, <3>5
  <2> QED
    BY <2>1, WaitingAfter
<1> QED
  BY <1>8, <1>9, <1>10, <1>11

LEMMA WriteBackKeeps ==
  ASSUME HostInv, WriteBack
  PROVE  HostInv'
<1>1. UNCHANGED <<libraryVars, shown>>
  BY DEF WriteBack
<1>2. AlwaysInv'
  BY WrittenBack DEF HostInv, LibraryInv
<1>3. InOrder' => PlacesInv' /\ ResultsInv' /\ QueueInv' /\ WaitingInv'
  BY <1>1, LibraryKept, WriteBackOrder
<1> QED
  BY <1>1, <1>2, <1>3, AcceleratorKeeps

\* One of the results of a slot shows.
LEMMA Delivered ==
  ASSUME AlwaysInv, NEW s \in Slots, DeliverWrite(s)
  PROVE  /\ \A t \in Slots : shown'[t] = None => shown[t] = None
         /\ AlwaysInv'
<1>1. AlwaysInv /\ TypeOK /\ UNCHANGED <<libraryVars, csr, entry, wbCntr>>
  BY DEF DeliverWrite, AlwaysInv
<1>2. PICK n \in 1 .. Len(writes[s]) :
        /\ shown' = [shown EXCEPT ![s] = writes[s][n]]
        /\ writes' = [writes EXCEPT ![s] = RemoveAt(@, n)]
  BY DEF DeliverWrite
<1>3. /\ writes \in [Slots -> Seq(Values)] /\ shown \in [Slots -> Values \cup {None}]
      /\ writes[s] \in Seq(Values)
  BY <1>1 DEF TypeOK
<1>4. /\ Len(writes[s]) \in Nat /\ n \in Nat /\ n >= 1 /\ n <= Len(writes[s])
      /\ \A i \in 1 .. Len(writes[s]) : writes[s][i] \in Values
  BY <1>3, SeqOwn
<1>5. RemoveAt(writes[s], n) \in Seq(Values)
  <2>1. SubSeq(writes[s], 1, n - 1) \in Seq(Values)
    <3>1. \A i \in 1 .. n - 1 : writes[s][i] \in Values
      BY <1>4
    <3> QED
      BY <1>4, <3>1, SubSeqProperties
  <2>2. SubSeq(writes[s], n + 1, Len(writes[s])) \in Seq(Values)
    <3>1. \A i \in n + 1 .. Len(writes[s]) : writes[s][i] \in Values
      BY <1>4
    <3> QED
      BY <1>4, <3>1, SubSeqProperties
  <2> QED
    BY <2>1, <2>2, ConcatProperties DEF RemoveAt
<1>6. writes[s][n] \in Values /\ writes[s][n] # None
  BY <1>4, NoneIsApart
<1>7. /\ writes' \in [Slots -> Seq(Values)] /\ shown' \in [Slots -> Values \cup {None}]
      /\ \A t \in Slots : shown'[t] = None => shown[t] = None
  BY <1>2, <1>3, <1>5, <1>6
<1>8. TypeOK'
  BY <1>1, <1>7 DEF TypeOK, Live, libraryVars
<1>9. /\ \A k \in 1 .. Len(csr') : DOMAIN csr'[k].ops = 1 .. Arity(csr'[k].inst)
      /\ \A t \in Slots :
           entry'[t].phase = "waiting" => DOMAIN entry'[t].ops = 1 .. Arity(entry'[t].inst)
  BY <1>1 DEF AlwaysInv
<1>10. AlwaysInv'
  BY <1>1, <1>8, <1>9, ShapeKept
<1> QED
  BY <1>7, <1>10

LEMMA DeliverWriteOrder ==
  ASSUME HostInv, NEW s \in Slots, DeliverWrite(s), InOrder,
         \A t : (Claimed(t)' <=> Claimed(t)) /\ Meant(t)' = Meant(t)
  PROVE  PlacesInv' /\ ResultsInv' /\ QueueInv' /\ WaitingInv'
<1>1. TypeOK /\ AlwaysInv /\ PlacesInv /\ ResultsInv /\ QueueInv /\ WaitingInv
  BY InOrderFacts
<1>2. UNCHANGED <<libraryVars, requested, csr, entry, wbCntr>>
  BY DEF DeliverWrite, libraryVars
<1>3. PICK n \in 1 .. Len(writes[s]) :
        /\ shown' = [shown EXCEPT ![s] = writes[s][n]]
        /\ writes' = [writes EXCEPT ![s] = RemoveAt(@, n)]
  BY DEF DeliverWrite
<1>4. /\ writes \in [Slots -> Seq(Values)] /\ shown \in [Slots -> Values \cup {None}]
      /\ writes[s] \in Seq(Values)
  BY <1>1 DEF TypeOK
<1>5. Len(writes[s]) = 1 /\ n = 1 /\ writes[s] # <<>>
  <2>1. Len(writes[s]) <= 1
    BY <1>1 DEF PlacesInv
  <2>2. Len(writes[s]) \in Nat /\ (writes[s] = <<>> <=> Len(writes[s]) = 0)
    BY <1>4, SeqOwn
  <2> DEFINE m == Len(writes[s])
  <2>3. m <= 1 /\ m \in Nat /\ n \in 1 .. m
    BY <2>1, <2>2
  <2>4. m = 1 /\ n = 1
    <3> HIDE DEF m
    <3> QED
      BY <2>3
  <2> QED
    BY <2>2, <2>4
<1>6. RemoveAt(writes[s], n) = <<>>
  <2>1. /\ SubSeq(writes[s], 1, 0) = <<>> /\ SubSeq(writes[s], 2, 1) = <<>>
    BY <1>4, SubSeqEmpty
  <2>2. SubSeq(writes[s], 1, n - 1) = <<>> /\ SubSeq(writes[s], n + 1, Len(writes[s])) = <<>>
    BY <1>5, <2>1
  <2>3. <<>> \o <<>> = <<>>
    BY EmptySeq, ConcatEmptySeq
  <2> QED
    BY <2>2, <2>3 DEF RemoveAt
<1>7. Pending(s) /\ ~Claimed(s) /\ ~Queued(s) /\ IsFree(s)
  BY <1>1, <1>5 DEF PlacesInv, Pending
<1>8. requested[s] /\ writes[s][n] = Meant(s) /\ Meant(s) \in Values
  BY <1>1, <1>7 DEF PlacesInv, ResultsInv, Meant, TypeOK
<1>9. /\ writes'[s] = <<>> /\ Len(writes'[s]) = 0 /\ shown'[s] = Meant(s)
      /\ \A t \in Slots : t # s => writes'[t] = writes[t] /\ shown'[t] = shown[t]
  BY <1>3, <1>4, <1>6, <1>8, EmptySeq
<1>10. \A t \in Slots : /\ Queued(t)' <=> Queued(t)
                        /\ IsFree(t)' <=> IsFree(t)
                        /\ HasResult(entry[t])' <=> HasResult(entry[t])
  BY <1>2 DEF Queued, IsFree, HasResult
<1>11. PlacesInv'
  <2>1. \A i, j \in 1 .. Len(csr)' : csr'[i].wr_addr = csr'[j].wr_addr => i = j
    BY <1>1, <1>2 DEF PlacesInv
  <2>2. ASSUME NEW t \in Slots
        PROVE  /\ Claimed(t)' => ~Queued(t)'
               /\ Claimed(t)' \/ Queued(t)' => IsFree(t)' /\ writes'[t] = <<>>
               /\ ~IsFree(t)' => writes'[t] = <<>>
               /\ Len(writes'[t]) <= 1
    <3>1. /\ Claimed(t) => ~Queued(t)
          /\ Claimed(t) \/ Queued(t) => IsFree(t) /\ writes[t] = <<>>
          /\ ~IsFree(t) => writes[t] = <<>>
          /\ Len(writes[t]) <= 1
      BY <1>1 DEF PlacesInv
    <3>2. CASE t = s
      BY <1>9, <1>10, <3>1, <3>2
    <3>3. CASE t # s
      BY <1>9, <1>10, <3>1, <3>3
    <3> QED
      BY <3>2, <3>3
  <2>3. ASSUME NEW t \in Slots, Pending(t)'
        PROVE  requested'[t] /\ shown'[t] = None
    <3>1. t # s
      <4> SUFFICES ASSUME t = s PROVE FALSE
        OBVIOUS
      <4>1. ~Claimed(t)' /\ ~Queued(t)' /\ IsFree(t)' /\ writes'[t] = <<>>
        BY <1>7, <1>9, <1>10
      <4> QED
        BY <2>3, <4>1 DEF Pending
    <3>2. Pending(t)
      BY <1>9, <1>10, <2>3, <3>1 DEF Pending
    <3> QED
      BY <1>1, <1>2, <1>9, <3>1, <3>2 DEF PlacesInv
  <2> QED
    BY <2>1, <2>2, <2>3 DEF PlacesInv
<1>12. ResultsInv'
  <2> SUFFICES ASSUME NEW t \in Slots, requested'[t]
               PROVE  /\ Claimed(t)' \/ Queued(t)' \/ entry'[t].phase # "empty"
                      /\ HasResult(entry[t])' /\ ~Claimed(t)' /\ ~Queued(t)' =>
                           entry'[t].result = Meant(t)'
                      /\ \A k \in 1 .. Len(writes'[t]) : writes'[t][k] = Meant(t)'
                      /\ shown'[t] # None => shown'[t] = Meant(t)'
    BY DEF ResultsInv
  <2>1. /\ Claimed(t) \/ Queued(t) \/ entry[t].phase # "empty"
        /\ HasResult(entry[t]) /\ ~Claimed(t) /\ ~Queued(t) => entry[t].result = Meant(t)
        /\ \A k \in 1 .. Len(writes[t]) : writes[t][k] = Meant(t)
        /\ shown[t] # None => shown[t] = Meant(t)
    BY <1>1, <1>2 DEF ResultsInv
  <2>2. /\ \A k \in 1 .. Len(writes'[t]) : writes'[t][k] = Meant(t)
        /\ shown'[t] # None => shown'[t] = Meant(t)
    <3>1. CASE t = s
      BY <1>9, <3>1
    <3>2. CASE t # s
      BY <1>9, <2>1, <3>2
    <3> QED
      BY <3>1, <3>2
  <2> QED
    BY <1>2, <1>10, <2>1, <2>2
<1>13. QueueInv' /\ WaitingInv'
  BY <1>1, <1>2, MeaningsKept
<1> QED
  BY <1>11, <1>12, <1>13

LEMMA DeliverWriteKeeps ==
  ASSUME HostInv, NEW s \in Slots, DeliverWrite(s)
  PROVE  HostInv'
<1>1. UNCHANGED libraryVars
  BY DEF DeliverWrite
<1>2. AlwaysInv' /\ \A t \in Slots : shown'[t] = None => shown[t] = None
  BY Delivered DEF HostInv, LibraryInv
<1>3. InOrder' => PlacesInv' /\ ResultsInv' /\ QueueInv' /\ WaitingInv'
  BY <1>1, <1>2, LibraryKept, DeliverWriteOrder
<1> QED
  BY <1>1, <1>2, <1>3, AcceleratorKeeps

\* Operands keep their form when results are put in their place.
LEMMA ForwardedOps ==
  ASSUME NEW n, NEW ops \in Operands(n), NEW entries,
         \A s \in Slots : HasResult(entries[s]) => entries[s].result \in Values
  PROVE  /\ Forwarded(ops, entries) \in Operands(n)
         /\ DOMAIN Forwarded(ops, entries) = DOMAIN ops
         /\ \A k \in DOMAIN ops :
              Forwarded(ops, entries)[k] =
                IF ops[k].mode = 1 /\ HasResult(entries[ops[k].value])
                THEN [mode |-> 0, value |-> entries[ops[k].value].result] ELSE ops[k]
<1>1. DOMAIN ops = 1 .. n /\ \A k \in 1 .. n : ops[k] \in Operand
  BY DEF Operands
<1>2. \A k \in DOMAIN ops :
        Forwarded(ops, entries)[k] =
          IF ops[k].mode = 1 /\ HasResult(entries[ops[k].value])
          THEN [mode |-> 0, value |-> entries[ops[k].value].result] ELSE ops[k]
  BY DEF Forwarded
<1>3. DOMAIN Forwarded(ops, entries) = DOMAIN ops
  BY DEF Forwarded
<1>4. ASSUME NEW k \in 1 .. n PROVE Forwarded(ops, entries)[k] \in Operand
  <2>1. CASE ops[k].mode = 1 /\ HasResult(entries[ops[k].value])
    <3>1. ops[k].value \in Slots
      BY <1>1, <2>1, OperandFacts
    <3>2. entries[ops[k].value].result \in Values
      BY <2>1, <3>1
    <3>3. PICK v \in Values : v = entries[ops[k].value].result
      BY <3>2
    <3>4. Forwarded(ops, entries)[k] = [mode |-> 0, value |-> v]
      BY <1>1, <1>2, <2>1, <3>3
    <3>5. [mode |-> 0, value |-> v] \in Immediate
      BY DEF Immediate
    <3> QED
      BY <3>4, <3>5 DEF Operand
  <2>2. CASE ~(ops[k].mode = 1 /\ HasResult(entries[ops[k].value]))
    <3>1. Forwarded(ops, entries)[k] = ops[k]
      BY <1>1, <1>2, <2>2
    <3> QED
      BY <1>1, <3>1
  <2> QED
    BY <2>1, <2>2
<1>5. Forwarded(ops, entries) \in [1 .. n -> Operand]
  BY <1>1, <1>3, <1>4 DEF Forwarded
<1> QED
  BY <1>1, <1>2, <1>3, <1>5 DEF Operands

\* The entries when the result of s is there, and what they are once it is
\* forwarded.
LEMMA CompletedEntries ==
  ASSUME AlwaysInv, NEW s \in Slots, Complete(s)
  PROVE  \E done :
           /\ entry[s].phase = "waiting" /\ done[s].phase = "completed"
           /\ \A n \in DOMAIN entry[s].ops : entry[s].ops[n].mode = 0
           /\ done[s].result = Apply(entry[s].inst,
                [n \in DOMAIN entry[s].ops |-> entry[s].ops[n].value])
           /\ \A t \in Slots : /\ HasResult(done[t]) <=> HasResult(entry[t]) \/ t = s
                               /\ HasResult(done[t]) => done[t].result \in Values
                               /\ t # s => done[t] = entry[t]
                               /\ entry'[t].phase = done[t].phase
                               /\ entry'[t].inst = entry[t].inst
                               /\ entry'[t].result = done[t].result
                               /\ entry'[t].ops = Forwarded(entry[t].ops, done)
           /\ entry' \in [Slots -> Entry]
<1>1. /\ entry[s].phase = "waiting"
      /\ \A n \in DOMAIN entry[s].ops : entry[s].ops[n].mode = 0
  BY DEF Complete
<1>2. TypeOK /\ entry \in [Slots -> Entry] /\ entry[s] \in Entry
  BY DEF AlwaysInv, TypeOK
<1>3. \A n \in DOMAIN entry[s].ops : entry[s].ops[n] \in Operand
  BY <1>2, EntryFacts
<1>4. DOMAIN entry[s].ops = 1 .. Arity(entry[s].inst)
  BY <1>1 DEF AlwaysInv
<1>5. entry[s].inst \in Insts
  BY <1>2, EntryFacts
<1>6. \A n \in DOMAIN entry[s].ops : entry[s].ops[n].value \in Values
  BY <1>1, <1>3, OperandFacts
<1> DEFINE values == [n \in DOMAIN entry[s].ops |-> entry[s].ops[n].value]
           R == Apply(entry[s].inst, values)
<1>7. R \in Values
  <2>1. values \in [1 .. Arity(entry[s].inst) -> Values]
    BY <1>4, <1>6
  <2> HIDE DEF values
  <2> QED
    BY <1>4, <1>5, <2>1, ArithmeticAssumption
<1>8. PICK done : done = [entry EXCEPT ![s].phase = "completed", ![s].result = R]
  OBVIOUS
<1>9. /\ entry' = [e \in Slots |-> [done[e] EXCEPT !.ops = Forwarded(@, done)]]
      /\ done[s].phase = "completed" /\ done[s].result = R
      /\ done[s].inst = entry[s].inst /\ done[s].ops = entry[s].ops
      /\ \A t \in Slots : t # s => done[t] = entry[t]
      /\ done \in [Slots -> Entry]
  <2>1. entry' = [e \in Slots |-> [done[e] EXCEPT !.ops = Forwarded(@, done)]]
    BY <1>8 DEF Complete
  <2> HIDE DEF R
  <2>2. done = [entry EXCEPT ![s] = [[entry[s] EXCEPT !.phase = "completed"] EXCEPT !.result = R]]
    BY <1>2, <1>8
  <2>3. [[entry[s] EXCEPT !.phase = "completed"] EXCEPT !.result = R] \in Entry
    BY <1>2, <1>7 DEF Entry, Phases
  <2> QED
    BY <1>2, <2>1, <2>2, <2>3 DEF Entry
<1> HIDE DEF R
<1>10. \A t \in Slots : /\ HasResult(done[t]) <=> HasResult(entry[t]) \/ t = s
                        /\ HasResult(done[t]) => done[t].result \in Values
  <2> SUFFICES ASSUME NEW t \in Slots
               PROVE  /\ HasResult(done[t]) <=> HasResult(entry[t]) \/ t = s
                      /\ HasResult(done[t]) => done[t].result \in Values
    OBVIOUS
  <2>1. done[t].result \in Values
    BY <1>9 DEF Entry
  <2> QED
    BY <1>9, <2>1 DEF HasResult
<1>11. ASSUME NEW t \in Slots
       PROVE  /\ entry'[t] \in Entry
              /\ entry'[t].phase = done[t].phase /\ entry'[t].inst = entry[t].inst
              /\ entry'[t].result = done[t].result
              /\ entry'[t].ops = Forwarded(entry[t].ops, done)
  <2>1. done[t] \in Entry /\ done[t].ops = entry[t].ops /\ done[t].inst = entry[t].inst
    BY <1>9
  <2>2. PICK n \in {0, 2, 3} : entry[t].ops \in Operands(n)
    BY <1>2, EntryFacts
  <2> DEFINE ops == entry[t].ops
  <2> HIDE DEF ops
  <2>3. Forwarded(ops, done) \in Operands(n)
    <3>1. ops \in Operands(n)
      BY <2>2 DEF ops
    <3>2. \A u \in Slots : HasResult(done[u]) => done[u].result \in Values
      BY <1>10
    <3> QED
      BY <3>1, <3>2, ForwardedOps
  <2>4. entry'[t] = [done[t] EXCEPT !.ops = Forwarded(entry[t].ops, done)]
    BY <1>9, <2>1
  <2>5. Forwarded(entry[t].ops, done) \in UNION {Operands(k) : k \in {0, 2, 3}}
    BY <2>2, <2>3 DEF ops
  <2> QED
    BY <2>1, <2>4, <2>5 DEF Entry
<1>12. entry' \in [Slots -> Entry]
  BY <1>9, <1>11
<1>13. done[s].result = Apply(entry[s].inst,
                [n \in DOMAIN entry[s].ops |-> entry[s].ops[n].value])
  BY <1>9 DEF R
<1> HIDE DEF values
<1> QED
  BY <1>1, <1>9, <1>10, <1>11, <1>12, <1>13

LEMMA CompletedShape ==
  ASSUME AlwaysInv, NEW s \in Slots, Complete(s)
  PROVE  AlwaysInv'
<1>1. PICK done :
        /\ done[s].phase = "completed"
        /\ \A t \in Slots : /\ HasResult(done[t]) => done[t].result \in Values
                            /\ t # s => done[t] = entry[t]
                            /\ entry'[t].phase = done[t].phase
                            /\ entry'[t].inst = entry[t].inst
                            /\ entry'[t].ops = Forwarded(entry[t].ops, done)
        /\ entry' \in [Slots -> Entry]
  BY CompletedEntries
<1>2. UNCHANGED <<libraryVars, shown, csr, wbCntr, writes>>
  BY DEF Complete
<1>3. TypeOK /\ TypeOK'
  BY <1>1, <1>2 DEF AlwaysInv, TypeOK, Live, libraryVars
<1>4. ASSUME NEW t \in Slots, entry'[t].phase = "waiting"
      PROVE  DOMAIN entry'[t].ops = 1 .. Arity(entry'[t].inst)
  <2>1. entry[t].phase = "waiting"
    BY <1>1, <1>4
  <2>2. PICK n \in {0, 2, 3} : entry[t].ops \in Operands(n)
    BY <1>3, EntryFacts
  <2>3. DOMAIN Forwarded(entry[t].ops, done) = DOMAIN entry[t].ops
    BY <1>1, <2>2, ForwardedOps
  <2> QED
    BY <1>1, <2>1, <2>3 DEF AlwaysInv
<1>5. \A n \in 1 .. Len(csr') : DOMAIN csr'[n].ops = 1 .. Arity(csr'[n].inst)
  BY <1>2 DEF AlwaysInv
<1> QED
  BY <1>2, <1>3, <1>4, <1>5, ShapeKept

LEMMA CompleteOrder ==
  ASSUME HostInv, NEW s \in Slots, Complete(s), InOrder,
         \A t : (Claimed(t)' <=> Claimed(t)) /\ Meant(t)' = Meant(t)
  PROVE  PlacesInv' /\ ResultsInv' /\ QueueInv' /\ WaitingInv'
<1>1. TypeOK /\ AlwaysInv /\ PlacesInv /\ ResultsInv /\ QueueInv /\ WaitingInv
  BY InOrderFacts
<1>2. PICK done :
        /\ entry[s].phase = "waiting" /\ done[s].phase = "completed"
        /\ \A n \in DOMAIN entry[s].ops : entry[s].ops[n].mode = 0
        /\ done[s].result = Apply(entry[s].inst,
             [n \in DOMAIN entry[s].ops |-> entry[s].ops[n].value])
        /\ \A t \in Slots : /\ HasResult(done[t]) <=> HasResult(entry[t]) \/ t = s
                            /\ HasResult(done[t]) => done[t].result \in Values
                            /\ t # s => done[t] = entry[t]
                            /\ entry'[t].phase = done[t].phase
                            /\ entry'[t].inst = entry[t].inst
                            /\ entry'[t].result = done[t].result
                            /\ entry'[t].ops = Forwarded(entry[t].ops, done)
  BY <1>1, CompletedEntries
<1>3. UNCHANGED <<libraryVars, requested, shown, csr, wbCntr, writes>>
  BY DEF Complete, libraryVars
<1>4. ~IsFree(s) /\ ~HasResult(entry[s]) /\ Pending(s) /\ ~Claimed(s) /\ ~Queued(s)
      /\ writes[s] = <<>>
  <2>1. ~IsFree(s) /\ ~HasResult(entry[s])
    BY <1>1, <1>2, PhaseFacts
  <2> QED
    BY <1>1, <2>1 DEF PlacesInv, Pending
<1>5. done[s].result = Meant(s) /\ entry'[s].result = Meant(s)
  <2> DEFINE values == [n \in DOMAIN entry[s].ops |-> entry[s].ops[n].value]
  <2>1. Meant(s) = Apply(entry[s].inst,
                         [k \in DOMAIN entry[s].ops |-> WaitingMeans(entry[s].ops[k])])
    BY <1>1, <1>2 DEF WaitingInv
  <2>2. \A k \in DOMAIN entry[s].ops : WaitingMeans(entry[s].ops[k]) = entry[s].ops[k].value
    BY <1>2 DEF WaitingMeans
  <2>3. [k \in DOMAIN entry[s].ops |-> WaitingMeans(entry[s].ops[k])] = values
    BY <2>2
  <2> QED
    BY <1>2, <2>1, <2>3
<1>6. ASSUME NEW t \in Slots
      PROVE  /\ Queued(t)' <=> Queued(t)
             /\ IsFree(t)' <=> IsFree(t)
             /\ HasResult(entry[t])' <=> HasResult(entry[t]) \/ t = s
             /\ t # s => entry'[t].phase = entry[t].phase /\ entry'[t].result = entry[t].result
             /\ entry'[t].phase = "empty" <=> entry[t].phase = "empty"
             /\ Pending(t)' <=> Pending(t)
  <2>1. Queued(t)' <=> Queued(t)
    BY <1>3 DEF Queued
  <2>2. t # s => entry'[t].phase = entry[t].phase /\ entry'[t].result = entry[t].result
    BY <1>2
  <2>3. t = s => entry'[t].phase = "completed"
    BY <1>2
  <2>4. IsFree(t)' <=> IsFree(t)
    BY <1>2, <2>2, <2>3 DEF IsFree
  <2>5. HasResult(entry[t])' <=> HasResult(entry[t]) \/ t = s
    BY <2>2, <2>3 DEF HasResult
  <2>6. Pending(t)' <=> Pending(t)
    BY <1>3, <2>1, <2>4 DEF Pending
  <2> QED
    BY <1>2, <2>1, <2>2, <2>3, <2>4, <2>5, <2>6
<1>7. PlacesInv'
  <2>1. \A i, j \in 1 .. Len(csr)' : csr'[i].wr_addr = csr'[j].wr_addr => i = j
    BY <1>1, <1>3 DEF PlacesInv
  <2>2. ASSUME NEW t \in Slots
        PROVE  /\ Claimed(t)' => ~Queued(t)'
               /\ Claimed(t)' \/ Queued(t)' => IsFree(t)' /\ writes'[t] = <<>>
               /\ ~IsFree(t)' => writes'[t] = <<>>
               /\ Len(writes'[t]) <= 1
               /\ Pending(t)' => requested'[t] /\ shown'[t] = None
    BY <1>1, <1>3, <1>6 DEF PlacesInv
  <2> QED
    BY <2>1, <2>2 DEF PlacesInv
<1>8. ResultsInv'
  <2> SUFFICES ASSUME NEW t \in Slots, requested'[t]
               PROVE  /\ Claimed(t)' \/ Queued(t)' \/ entry'[t].phase # "empty"
                      /\ HasResult(entry[t])' /\ ~Claimed(t)' /\ ~Queued(t)' =>
                           entry'[t].result = Meant(t)'
                      /\ \A n \in 1 .. Len(writes'[t]) : writes'[t][n] = Meant(t)'
                      /\ shown'[t] # None => shown'[t] = Meant(t)'
    BY DEF ResultsInv
  <2>1. /\ Claimed(t) \/ Queued(t) \/ entry[t].phase # "empty"
        /\ HasResult(entry[t]) /\ ~Claimed(t) /\ ~Queued(t) => entry[t].result = Meant(t)
        /\ \A n \in 1 .. Len(writes[t]) : writes[t][n] = Meant(t)
        /\ shown[t] # None => shown[t] = Meant(t)
    BY <1>1, <1>3 DEF ResultsInv
  <2>2. CASE t = s
    <3>1. entry'[t].result = Meant(t)
      BY <1>5, <2>2
    <3> QED
      BY <1>3, <1>6, <2>1, <3>1
  <2>3. CASE t # s
    BY <1>3, <1>6, <2>1, <2>3
  <2> QED
    BY <2>2, <2>3
<1>9. ASSUME NEW t \in Slots PROVE EntryMeans(t)' = EntryMeans(t)
  <2>1. Meant(t)' = Meant(t)
    OBVIOUS
  <2>2. CASE t = s
    <3>1. EntryMeans(t)' = entry'[t].result
      BY <1>6, <2>2 DEF EntryMeans
    <3>2. ~HasResult(entry[t])
      BY <1>4, <2>2
    <3> QED
      BY <1>5, <2>2, <3>1, <3>2 DEF EntryMeans
  <2>3. CASE t # s
    BY <1>6, <2>1, <2>3 DEF EntryMeans
  <2> QED
    BY <2>2, <2>3
<1>10. QueueInv'
  BY <1>1, <1>3, <1>6, <1>9, QueueStays
<1>11. WaitingInv'
  <2>1. ASSUME NEW t \in Slots, NEW e, e = entry'[t], e.phase = "waiting"
        PROVE  /\ \A k \in DOMAIN e.ops : e.ops[k].mode = 1 => entry'[e.ops[k].value].phase = "waiting"
               /\ Meant(t)' = Apply(e.inst, [k \in DOMAIN e.ops |-> WaitingMeans(e.ops[k])'])
    <3>1. t # s
      BY <1>2, <2>1
    <3>2. PICK f : f = entry[t]
      OBVIOUS
    <3>3. f.phase = "waiting" /\ e.inst = f.inst /\ e.ops = Forwarded(f.ops, done)
      BY <1>2, <1>6, <2>1, <3>1, <3>2
    <3>4. /\ \A k \in DOMAIN f.ops : f.ops[k].mode = 1 => entry[f.ops[k].value].phase = "waiting"
          /\ Meant(t) = Apply(f.inst, [k \in DOMAIN f.ops |-> WaitingMeans(f.ops[k])])
      BY <1>1, <3>2, <3>3 DEF WaitingInv
    <3>5. \A k \in DOMAIN f.ops : /\ f.ops[k].mode \in {0, 1}
                                  /\ f.ops[k].mode = 1 => f.ops[k].value \in Slots
      BY <1>1, <3>2, EntryFacts
    <3>6. PICK n \in {0, 2, 3} : f.ops \in Operands(n)
      BY <1>1, <3>2, EntryFacts
    <3>7. /\ DOMAIN e.ops = DOMAIN f.ops
          /\ \A k \in DOMAIN f.ops :
               e.ops[k] = IF f.ops[k].mode = 1 /\ HasResult(done[f.ops[k].value])
                          THEN [mode |-> 0, value |-> done[f.ops[k].value].result] ELSE f.ops[k]
      BY <1>2, <3>3, <3>6, ForwardedOps
    <3>8. ASSUME NEW k \in DOMAIN f.ops
          PROVE  /\ e.ops[k].mode = 1 => entry'[e.ops[k].value].phase = "waiting"
                 /\ WaitingMeans(e.ops[k])' = WaitingMeans(f.ops[k])
      <4>1. PICK op, fop : op = e.ops[k] /\ fop = f.ops[k]
        OBVIOUS
      <4>2. op = IF fop.mode = 1 /\ HasResult(done[fop.value])
                 THEN [mode |-> 0, value |-> done[fop.value].result] ELSE fop
        BY <3>7, <4>1
      <4>3. CASE fop.mode = 0
        <5>1. op = fop
          BY <4>3, <4>2
        <5>2. WaitingMeans(op)' = WaitingMeans(fop)
          BY <4>3, <5>1 DEF WaitingMeans
        <5> QED
          BY <4>1, <4>3, <5>1, <5>2
      <4>4. CASE fop.mode = 1 /\ fop.value = s
        <5>1. HasResult(done[fop.value])
          BY <1>2, <4>4
        <5>2. op = [mode |-> 0, value |-> done[s].result]
          BY <4>4, <4>2, <5>1
        <5>3. op.mode = 0 /\ op.value = Meant(s)
          BY <1>5, <5>2
        <5>4. WaitingMeans(op)' = Meant(s)
          BY <5>3 DEF WaitingMeans
        <5>5. WaitingMeans(fop) = Meant(s)
          BY <4>4 DEF WaitingMeans
        <5> QED
          BY <4>1, <5>3, <5>4, <5>5
      <4>5. CASE fop.mode = 1 /\ fop.value # s
        <5>1. fop.value \in Slots /\ entry[fop.value].phase = "waiting"
          BY <3>4, <3>5, <4>1, <4>5
        <5>2. ~HasResult(entry[fop.value])
          BY <5>1 DEF HasResult
        <5>3. op = fop
          BY <1>2, <4>5, <4>2, <5>1, <5>2
        <5>4. entry'[fop.value].phase = "waiting"
          BY <1>6, <4>5, <5>1
        <5>5. WaitingMeans(op)' = WaitingMeans(fop)
          BY <4>5, <5>3 DEF WaitingMeans
        <5> QED
          BY <4>1, <5>3, <5>4, <5>5
      <4> QED
        BY <3>5, <4>1, <4>3, <4>4, <4>5
    <3>9. [k \in DOMAIN e.ops |-> WaitingMeans(e.ops[k])']
            = [k \in DOMAIN f.ops |-> WaitingMeans(f.ops[k])]
      BY <3>7, <3>8
    <3> QED
      BY <3>3, <3>4, <3>7, <3>8, <3>9
  <2> QED
    BY <2>1, WaitingAfter
<1> QED
  BY <1>7, <1>8, <1>10, <1>11

LEMMA CompleteKeeps ==
  ASSUME HostInv, NEW s \in Slots, Complete(s)
  PROVE  HostInv'
<1>1. UNCHANGED <<libraryVars, shown>>
  BY DEF Complete
<1>2. AlwaysInv'
  BY CompletedShape DEF HostInv, LibraryInv
<1>3. InOrder' => PlacesInv' /\ ResultsInv' /\ QueueInv' /\ WaitingInv'
  BY <1>1, LibraryKept, CompleteOrder
<1> QED
  BY <1>1, <1>2, <1>3, AcceleratorKeeps


\* What arrives is the first of the queue, and the others move up.
LEMMA RestOfQueue ==
  ASSUME TypeOK, csr # <<>>, csr' = Tail(csr)
  PROVE  /\ csr' \in Seq(Request) /\ 1 \in 1 .. Len(csr) /\ Head(csr) = csr[1]
         /\ Len(csr) \in Nat /\ Len(csr') \in Nat /\ Len(csr') = Len(csr) - 1
         /\ \A n \in 1 .. Len(csr') : n + 1 \in 1 .. Len(csr) /\ csr'[n] = csr[n + 1]
<1> DEFINE m == Len(csr)
           k == Len(csr')
<1>1. csr \in Seq(Request)
  BY DEF TypeOK
<1>2. m \in Nat /\ m # 0
  BY <1>1, SeqOwn
<1>3. /\ csr' \in Seq(Request) /\ k = m - 1
      /\ \A n \in 1 .. k : csr'[n] = csr[n + 1]
  BY <1>1, HeadTailProperties
<1>4. Head(csr) = csr[1]
  BY <1>1
<1> HIDE DEF m, k
<1>5. k \in Nat /\ 1 \in 1 .. m /\ \A n \in 1 .. k : n + 1 \in 1 .. m
  BY <1>2, <1>3
<1> QED
  BY <1>2, <1>3, <1>4, <1>5 DEF m, k

\* The slots in the queue, and before a request of it, when they do.
LEMMA QueueMovesUp ==
  ASSUME TypeOK, PlacesInv, csr # <<>>, csr' = Tail(csr), NEW a, a = csr[1].wr_addr
  PROVE  /\ csr' \in Seq(Request) /\ Len(csr') \in Nat /\ 1 \in 1 .. Len(csr)
         /\ Head(csr) = csr[1]
         /\ \A n \in 1 .. Len(csr') : n + 1 \in 1 .. Len(csr) /\ csr'[n] = csr[n + 1]
         /\ \A t : Queued(t)' <=> Queued(t) /\ t # a
         /\ \A n \in 1 .. Len(csr') : \A t : Before(n + 1, t) <=> t = a \/ Before(n, t)'
         /\ \A t : ~Before(1, t)
         /\ \A i, j \in 1 .. Len(csr') : csr'[i].wr_addr = csr'[j].wr_addr => i = j
<1> DEFINE m == Len(csr)
           k == Len(csr')
<1>1. csr \in Seq(Request) /\ \A i, j \in 1 .. Len(csr) : csr[i].wr_addr = csr[j].wr_addr => i = j
  BY DEF TypeOK, PlacesInv
<1>2. /\ m \in Nat /\ 1 \in 1 .. m /\ k = m - 1 /\ k \in Nat
      /\ csr' \in Seq(Request) /\ Head(csr) = csr[1]
      /\ \A n \in 1 .. k : n + 1 \in 1 .. m /\ csr'[n] = csr[n + 1]
  BY RestOfQueue
<1> HIDE DEF m, k
<1>3. k = m - 1 /\ \A n \in 1 .. k : csr'[n] = csr[n + 1]
  BY <1>2
<1>5. k \in Nat /\ 1 \in 1 .. m /\ \A n \in 1 .. k : n + 1 \in 1 .. m
  BY <1>2
<1>6. \A n \in 1 .. m : n = 1 \/ (n - 1 \in 1 .. k /\ csr'[n - 1] = csr[n])
  <2> TAKE n \in 1 .. m
  <2>1. n = 1 \/ n - 1 \in 1 .. k
    BY <1>2, <1>3
  <2>2. n - 1 \in 1 .. k => csr'[n - 1] = csr[(n - 1) + 1]
    BY <1>3
  <2>3. (n - 1) + 1 = n
    BY <1>2
  <2> QED
    BY <2>1, <2>2, <2>3
<1>7. \A n \in 1 .. k : csr'[n].wr_addr # a
  <2> TAKE n \in 1 .. k
  <2>1. n + 1 \in 1 .. m /\ csr'[n] = csr[n + 1]
    BY <1>3, <1>5
  <2>2. n + 1 # 1
    BY <1>5
  <2> QED
    BY <1>1, <1>5, <2>1, <2>2 DEF m
<1>8. ASSUME NEW t PROVE Queued(t)' <=> Queued(t) /\ t # a
  <2>1. Queued(t) <=> \E n \in 1 .. m : csr[n].wr_addr = t
    BY DEF Queued, m
  <2>2. Queued(t)' <=> \E n \in 1 .. k : csr'[n].wr_addr = t
    BY DEF Queued, k
  <2>3. ASSUME NEW n \in 1 .. k, csr'[n].wr_addr = t
        PROVE  t # a /\ \E i \in 1 .. m : csr[i].wr_addr = t
    BY <1>3, <1>5, <1>7, <2>3
  <2>4. ASSUME NEW n \in 1 .. m, csr[n].wr_addr = t, t # a
        PROVE  \E i \in 1 .. k : csr'[i].wr_addr = t
    BY <1>6, <2>4
  <2> QED
    BY <2>1, <2>2, <2>3, <2>4
<1>9. ASSUME NEW n \in 1 .. k, NEW t PROVE Before(n + 1, t) <=> t = a \/ Before(n, t)'
  <2>1. Before(n + 1, t) <=> \E i \in 1 .. n : csr[i].wr_addr = t
    <3>1. (n + 1) - 1 = n
      BY <1>5
    <3> QED
      BY <3>1 DEF Before
  <2>2. Before(n, t)' <=> \E i \in 1 .. n - 1 : csr'[i].wr_addr = t
    BY DEF Before
  <2>3. ASSUME NEW i \in 1 .. n, csr[i].wr_addr = t, t # a
        PROVE  \E j \in 1 .. n - 1 : csr'[j].wr_addr = t
    <3>1. i # 1
      BY <2>3
    <3>2. i \in 1 .. m
      BY <1>2, <1>3, <1>5
    <3>3. csr'[i - 1] = csr[i]
      BY <1>6, <3>1, <3>2
    <3>4. i - 1 \in 1 .. n - 1
      BY <1>5, <3>1
    <3> QED
      BY <2>3, <3>3, <3>4
  <2>4. ASSUME NEW j \in 1 .. n - 1, csr'[j].wr_addr = t
        PROVE  \E i \in 1 .. n : csr[i].wr_addr = t
    <3>1. j \in 1 .. k /\ j + 1 \in 1 .. n
      BY <1>5
    <3> QED
      BY <1>3, <2>4, <3>1
  <2>5. 1 \in 1 .. n
    BY <1>5
  <2> QED
    BY <2>1, <2>2, <2>3, <2>4, <2>5
<1>10. \A t : ~Before(1, t)
  BY DEF Before
<1>11. ASSUME NEW i \in 1 .. k, NEW j \in 1 .. k, csr'[i].wr_addr = csr'[j].wr_addr PROVE i = j
  <2>1. i + 1 \in 1 .. m /\ j + 1 \in 1 .. m /\ csr'[i] = csr[i + 1] /\ csr'[j] = csr[j + 1]
    BY <1>3, <1>5
  <2>2. i + 1 = j + 1
    BY <1>1, <1>11, <2>1 DEF m
  <2> QED
    BY <1>5, <2>2
<1> QED
  BY <1>2, <1>3, <1>5, <1>8, <1>9, <1>10, <1>11 DEF m, k

\* The entries when a request is accepted, and what its entry is once results
\* are forwarded to it.
Accepted(req) ==
  [entry EXCEPT ![req.wr_addr] = [phase |-> "waiting", inst |-> req.inst,
                                  ops |-> req.ops, result |-> Zero]]

LEMMA ArrivedEntry ==
  ASSUME AlwaysInv, Arrive, NEW req, req = csr[1], NEW a, a = csr[1].wr_addr,
         NEW accepted, accepted = Accepted(req), NEW f, f = Forwarded(req.ops, accepted)
  PROVE  /\ a \in Slots /\ req \in Request /\ DOMAIN req.ops = 1 .. Arity(req.inst)
         /\ accepted[a].phase = "waiting"
         /\ \A t \in Slots : t # a => accepted[t] = entry[t]
         /\ DOMAIN f = DOMAIN req.ops
         /\ \A k \in DOMAIN req.ops :
              f[k] = IF req.ops[k].mode = 1 /\ HasResult(accepted[req.ops[k].value])
                     THEN [mode |-> 0, value |-> accepted[req.ops[k].value].result]
                     ELSE req.ops[k]
         /\ IsFree(a) => /\ entry'[a].phase = "waiting"
                         /\ entry'[a].inst = req.inst /\ entry'[a].ops = f
         /\ ~IsFree(a) => entry'[a] = entry[a]
         /\ \A t \in Slots : t # a => entry'[t] = entry[t]
         /\ entry' \in [Slots -> Entry]
<1>1. TypeOK /\ entry \in [Slots -> Entry]
  BY DEF AlwaysInv, TypeOK
<1>2. csr # <<>> /\ csr' = Tail(csr)
  BY DEF Arrive
<1>3. 1 \in 1 .. Len(csr) /\ Head(csr) = csr[1]
  BY <1>1, <1>2, RestOfQueue
<1>4. a = req.wr_addr
  OBVIOUS
<1>5. req \in Request /\ a \in Slots
  BY <1>1, <1>3, <1>4, RequestFacts
<1>6. DOMAIN req.ops = 1 .. Arity(req.inst)
  BY <1>3, <1>4 DEF AlwaysInv
<1>7. PICK new : new = [phase |-> "waiting", inst |-> req.inst, ops |-> req.ops, result |-> Zero]
  OBVIOUS
<1>8. accepted = [entry EXCEPT ![a] = new]
  BY <1>4, <1>7 DEF Accepted
<1>9. f = Forwarded(req.ops, accepted)
  OBVIOUS
<1>10. entry' = IF IsFree(a) THEN [accepted EXCEPT ![a].ops = Forwarded(@, accepted)] ELSE entry
  <2>1. Head(csr) = req
    BY <1>3
  <2>2. entry' = IF IsFree(a)
                 THEN [Accepted(req) EXCEPT ![a].ops = Forwarded(@, Accepted(req))] ELSE entry
    BY <1>4, <2>1 DEF Arrive, Accepted
  <2> QED
    BY <2>2
<1>11. PICK n \in {2, 3} : req.ops \in Operands(n)
  BY <1>5 DEF Request
<1>12. new \in Entry /\ new.phase = "waiting" /\ new.inst = req.inst /\ new.ops = req.ops
  <2>1. req.inst \in Insts /\ Zero \in Values
    BY <1>5, ResetAssumption DEF Request
  <2>2. req.ops \in UNION {Operands(i) : i \in {0, 2, 3}}
    BY <1>11
  <2> QED
    BY <1>7, <2>1, <2>2 DEF Entry, Phases
<1>13. /\ accepted \in [Slots -> Entry] /\ accepted[a] = new
       /\ \A t \in Slots : t # a => accepted[t] = entry[t]
  BY <1>1, <1>5, <1>8, <1>12
<1>14. \A t \in Slots : HasResult(accepted[t]) => accepted[t].result \in Values
  BY <1>13 DEF Entry
<1>15. /\ f \in Operands(n) /\ DOMAIN f = DOMAIN req.ops
       /\ \A k \in DOMAIN req.ops :
            f[k] = IF req.ops[k].mode = 1 /\ HasResult(accepted[req.ops[k].value])
                   THEN [mode |-> 0, value |-> accepted[req.ops[k].value].result]
                   ELSE req.ops[k]
  <2>1. PICK ops : ops = req.ops
    OBVIOUS
  <2>2. ops \in Operands(n) /\ f = Forwarded(ops, accepted)
    BY <1>9, <1>11, <2>1
  <2>3. /\ f \in Operands(n) /\ DOMAIN f = DOMAIN ops
        /\ \A k \in DOMAIN ops :
             f[k] = IF ops[k].mode = 1 /\ HasResult(accepted[ops[k].value])
                    THEN [mode |-> 0, value |-> accepted[ops[k].value].result] ELSE ops[k]
    BY <1>14, <2>2, ForwardedOps
  <2> QED
    BY <2>1, <2>3
<1>16. [new EXCEPT !.ops = f] \in Entry
  <2>1. f \in UNION {Operands(i) : i \in {0, 2, 3}}
    BY <1>15
  <2> QED
    BY <1>12, <2>1 DEF Entry
<1>17. CASE IsFree(a)
  <2>1. entry' = [accepted EXCEPT ![a] = [accepted[a] EXCEPT !.ops = Forwarded(@, accepted)]]
    BY <1>10, <1>17
  <2>2. entry' = [accepted EXCEPT ![a] = [new EXCEPT !.ops = f]]
    BY <1>9, <1>12, <1>13, <2>1
  <2>3. /\ entry' \in [Slots -> Entry] /\ entry'[a] = [new EXCEPT !.ops = f]
        /\ \A t \in Slots : t # a => entry'[t] = entry[t]
    BY <1>5, <1>13, <1>16, <2>2
  <2>4. entry'[a].phase = "waiting" /\ entry'[a].inst = req.inst /\ entry'[a].ops = f
    BY <1>12, <2>3 DEF Entry
  <2>5. accepted[a].phase = "waiting"
    BY <1>12, <1>13
  <2> QED
    BY <1>4, <1>5, <1>6, <1>9, <1>13, <1>15, <1>17, <2>3, <2>4, <2>5
<1>18. CASE ~IsFree(a)
  <2>1. entry' = entry
    BY <1>10, <1>18
  <2>2. accepted[a].phase = "waiting"
    BY <1>12, <1>13
  <2> QED
    BY <1>1, <1>4, <1>5, <1>6, <1>9, <1>13, <1>15, <1>18, <2>1, <2>2
<1> QED
  BY <1>17, <1>18

LEMMA ArrivedShape ==
  ASSUME AlwaysInv, Arrive
  PROVE  AlwaysInv'
<1>1. csr # <<>> /\ csr' = Tail(csr) /\ UNCHANGED <<libraryVars, shown, wbCntr, writes>>
  BY DEF Arrive
<1>2. TypeOK
  BY DEF AlwaysInv
<1>3. PICK req, a : req = csr[1] /\ a = csr[1].wr_addr
  OBVIOUS
<1>4. PICK accepted, f : accepted = Accepted(req) /\ f = Forwarded(req.ops, accepted)
  OBVIOUS
<1>5. /\ a \in Slots /\ DOMAIN req.ops = 1 .. Arity(req.inst) /\ DOMAIN f = DOMAIN req.ops
      /\ IsFree(a) => entry'[a].inst = req.inst /\ entry'[a].ops = f
      /\ ~IsFree(a) => entry'[a] = entry[a]
      /\ \A t \in Slots : t # a => entry'[t] = entry[t]
      /\ entry' \in [Slots -> Entry]
  BY <1>3, <1>4, ArrivedEntry
<1>6. /\ csr' \in Seq(Request)
      /\ \A n \in 1 .. Len(csr') : n + 1 \in 1 .. Len(csr) /\ csr'[n] = csr[n + 1]
  BY <1>1, <1>2, RestOfQueue
<1>7. TypeOK'
  BY <1>1, <1>2, <1>5, <1>6 DEF TypeOK, Live, libraryVars
<1>8. \A n \in 1 .. Len(csr') : DOMAIN csr'[n].ops = 1 .. Arity(csr'[n].inst)
  BY <1>6 DEF AlwaysInv
<1>9. ASSUME NEW t \in Slots, entry'[t].phase = "waiting"
      PROVE  DOMAIN entry'[t].ops = 1 .. Arity(entry'[t].inst)
  <2>1. CASE t = a /\ IsFree(a)
    BY <1>5, <2>1
  <2>2. CASE t # a \/ ~IsFree(a)
    <3>1. entry'[t] = entry[t]
      BY <1>5, <2>2
    <3> QED
      BY <1>9, <3>1 DEF AlwaysInv
  <2> QED
    BY <2>1, <2>2
<1> QED
  BY <1>1, <1>7, <1>8, <1>9, ShapeKept

LEMMA ArriveOrder ==
  ASSUME HostInv, Arrive, InOrder,
         \A t : (Claimed(t)' <=> Claimed(t)) /\ Meant(t)' = Meant(t)
  PROVE  PlacesInv' /\ ResultsInv' /\ QueueInv' /\ WaitingInv'
<1>1. TypeOK /\ AlwaysInv /\ PlacesInv /\ ResultsInv /\ QueueInv /\ WaitingInv
  BY InOrderFacts
<1>2. /\ csr # <<>> /\ csr' = Tail(csr)
      /\ UNCHANGED <<libraryVars, requested, shown, wbCntr, writes>>
  BY DEF Arrive, libraryVars
<1>3. PICK req, a : req = csr[1] /\ a = csr[1].wr_addr
  OBVIOUS
<1>4. a = req.wr_addr /\ 1 \in 1 .. Len(csr)
  BY <1>1, <1>2, <1>3, QueueMovesUp
<1>5. /\ IsFree(a) /\ a \in Slots
      /\ entry'[a].phase = "waiting" /\ entry'[a].inst = req.inst
      /\ DOMAIN entry'[a].ops = DOMAIN req.ops
      /\ \A k \in DOMAIN req.ops :
           entry'[a].ops[k] = IF req.ops[k].mode = 1 /\ HasResult(entry[req.ops[k].value])
                              THEN [mode |-> 0, value |-> entry[req.ops[k].value].result]
                              ELSE req.ops[k]
      /\ \A t \in Slots : t # a => entry'[t] = entry[t]
  <2>1. PICK accepted, f : accepted = Accepted(req) /\ f = Forwarded(req.ops, accepted)
    OBVIOUS
  <2>2. /\ a \in Slots /\ DOMAIN f = DOMAIN req.ops
        /\ \A t \in Slots : t # a => accepted[t] = entry[t] /\ entry'[t] = entry[t]
        /\ \A k \in DOMAIN req.ops :
             f[k] = IF req.ops[k].mode = 1 /\ HasResult(accepted[req.ops[k].value])
                    THEN [mode |-> 0, value |-> accepted[req.ops[k].value].result]
                    ELSE req.ops[k]
        /\ IsFree(a) => /\ entry'[a].phase = "waiting"
                        /\ entry'[a].inst = req.inst /\ entry'[a].ops = f
    BY <1>1, <1>3, <2>1, ArrivedEntry
  <2>3. IsFree(a)
    <3>1. Queued(a)
      BY <1>3, <1>4 DEF Queued
    <3> QED
      BY <1>1, <2>2, <3>1 DEF PlacesInv
  <2>4. ASSUME NEW k \in DOMAIN req.ops
        PROVE  f[k] = IF req.ops[k].mode = 1 /\ HasResult(entry[req.ops[k].value])
                      THEN [mode |-> 0, value |-> entry[req.ops[k].value].result]
                      ELSE req.ops[k]
    <3>1. PICK op : op = req.ops[k]
      OBVIOUS
    <3>2. op.mode = 1 => accepted[op.value] = entry[op.value]
      <4>1. op.mode = 1 => op.value \in Slots
        BY <1>1, <1>3, <1>4, <3>1, RequestFacts
      <4>2. op.mode = 1 => op.value # a
        BY <1>1, <1>3, <1>4, <3>1 DEF QueueInv
      <4> QED
        BY <2>2, <4>1, <4>2
    <3>3. f[k] = IF op.mode = 1 /\ HasResult(accepted[op.value])
                 THEN [mode |-> 0, value |-> accepted[op.value].result] ELSE op
      BY <2>2, <3>1
    <3> QED
      BY <3>1, <3>2, <3>3
  <2> QED
    BY <2>2, <2>3, <2>4
<1>6. /\ \A n \in 1 .. Len(csr') : n + 1 \in 1 .. Len(csr) /\ csr'[n] = csr[n + 1]
      /\ \A t : Queued(t)' <=> Queued(t) /\ t # a
      /\ \A n \in 1 .. Len(csr') : \A t : Before(n + 1, t) <=> t = a \/ Before(n, t)'
      /\ \A t : ~Before(1, t)
      /\ \A i, j \in 1 .. Len(csr') : csr'[i].wr_addr = csr'[j].wr_addr => i = j
  BY <1>1, <1>2, <1>3, QueueMovesUp
<1>7. /\ \A k \in DOMAIN req.ops : req.ops[k].mode = 1 =>
           /\ req.ops[k].value # a
           /\ Before(1, req.ops[k].value) \/ entry[req.ops[k].value].phase # "empty"
      /\ Meant(a) = Apply(req.inst, [k \in DOMAIN req.ops |-> QueuedMeans(req.ops[k], 1)])
  BY <1>1, <1>3, <1>4 DEF QueueInv
<1>8. \A k \in DOMAIN req.ops : /\ req.ops[k].mode \in {0, 1}
                                /\ req.ops[k].mode = 1 => req.ops[k].value \in Slots
  BY <1>1, <1>3, <1>4, RequestFacts
<1>9. Queued(a) /\ ~Claimed(a) /\ writes[a] = <<>> /\ Pending(a)
  <2>1. Queued(a)
    BY <1>3, <1>4 DEF Queued
  <2> QED
    BY <1>1, <1>5, <2>1 DEF PlacesInv, Pending
<1>10. \A t : (Claimed(t)' <=> Claimed(t)) /\ Meant(t)' = Meant(t)
  OBVIOUS
<1>12. /\ ~IsFree(a)' /\ ~HasResult(entry[a])' /\ ~Queued(a)' /\ ~Claimed(a)'
       /\ EntryMeans(a)' = Meant(a)
  <2>1. ~IsFree(a)' /\ ~HasResult(entry[a])'
    BY <1>5 DEF IsFree, HasResult
  <2>2. ~Queued(a)' /\ ~Claimed(a)' /\ Meant(a)' = Meant(a)
    BY <1>6, <1>9, <1>10
  <2> QED
    BY <2>1, <2>2 DEF EntryMeans
<1>13. ASSUME NEW t \in Slots, t # a
       PROVE  /\ Queued(t)' <=> Queued(t)
              /\ IsFree(t)' <=> IsFree(t)
              /\ HasResult(entry[t])' <=> HasResult(entry[t])
              /\ EntryMeans(t)' = EntryMeans(t)
              /\ Pending(t)' <=> Pending(t)
  <2>1. entry'[t] = entry[t] /\ (Queued(t)' <=> Queued(t))
    BY <1>5, <1>6, <1>13
  <2>2. (IsFree(t)' <=> IsFree(t)) /\ (HasResult(entry[t])' <=> HasResult(entry[t]))
    BY <2>1 DEF IsFree, HasResult
  <2>3. Meant(t)' = Meant(t) /\ (Claimed(t)' <=> Claimed(t))
    BY <1>10
  <2>4. EntryMeans(t)' = EntryMeans(t)
    BY <2>1, <2>2, <2>3 DEF EntryMeans
  <2>5. Pending(t)' <=> Pending(t)
    BY <1>2, <2>1, <2>2, <2>3 DEF Pending
  <2> QED
    BY <2>1, <2>2, <2>4, <2>5
<1>14. PlacesInv'
  <2>1. \A i, j \in 1 .. Len(csr)' : csr'[i].wr_addr = csr'[j].wr_addr => i = j
    BY <1>6
  <2>2. ASSUME NEW t \in Slots
        PROVE  /\ Claimed(t)' => ~Queued(t)'
               /\ Claimed(t)' \/ Queued(t)' => IsFree(t)' /\ writes'[t] = <<>>
               /\ ~IsFree(t)' => writes'[t] = <<>>
               /\ Len(writes'[t]) <= 1
    <3>1. /\ Claimed(t) => ~Queued(t)
          /\ Claimed(t) \/ Queued(t) => IsFree(t) /\ writes[t] = <<>>
          /\ ~IsFree(t) => writes[t] = <<>>
          /\ Len(writes[t]) <= 1 /\ writes'[t] = writes[t]
      BY <1>1, <1>2 DEF PlacesInv
    <3>2. CASE t = a
      <4>1. ~Queued(t)' /\ ~Claimed(t)' /\ writes[t] = <<>>
        BY <1>6, <1>9, <1>10, <3>2
      <4> QED
        BY <3>1, <4>1
    <3>3. CASE t # a
      BY <1>10, <1>13, <3>1, <3>3
    <3> QED
      BY <3>2, <3>3
  <2>3. ASSUME NEW t \in Slots, Pending(t)'
        PROVE  requested'[t] /\ shown'[t] = None
    <3>1. Pending(t)
      BY <1>9, <1>13, <2>3
    <3>2. requested[t] /\ shown[t] = None
      BY <1>1, <3>1 DEF PlacesInv
    <3> QED
      BY <1>2, <3>2
  <2> QED
    BY <2>1, <2>2, <2>3 DEF PlacesInv
<1>15. ResultsInv'
  <2> SUFFICES ASSUME NEW t \in Slots, requested'[t]
               PROVE  /\ Claimed(t)' \/ Queued(t)' \/ entry'[t].phase # "empty"
                      /\ HasResult(entry[t])' /\ ~Claimed(t)' /\ ~Queued(t)' =>
                           entry'[t].result = Meant(t)'
                      /\ \A n \in 1 .. Len(writes'[t]) : writes'[t][n] = Meant(t)'
                      /\ shown'[t] # None => shown'[t] = Meant(t)'
    BY DEF ResultsInv
  <2>1. /\ Claimed(t) \/ Queued(t) \/ entry[t].phase # "empty"
        /\ HasResult(entry[t]) /\ ~Claimed(t) /\ ~Queued(t) => entry[t].result = Meant(t)
        /\ \A n \in 1 .. Len(writes[t]) : writes[t][n] = Meant(t)
        /\ shown[t] # None => shown[t] = Meant(t)
    BY <1>1, <1>2 DEF ResultsInv
  <2>2. Meant(t)' = Meant(t)
    BY <1>10
  <2>3. CASE t = a
    <3>1. entry'[t].phase = "waiting"
      BY <1>5, <2>3
    <3>2. ~HasResult(entry[t])'
      BY <3>1 DEF HasResult
    <3> QED
      BY <1>2, <2>1, <2>2, <3>1, <3>2
  <2>4. CASE t # a
    BY <1>2, <1>5, <1>10, <1>13, <2>1, <2>2, <2>4
  <2> QED
    BY <2>3, <2>4
<1>16. ASSUME NEW n \in 1 .. Len(csr'), NEW q, q = csr'[n]
       PROVE  /\ \A k \in DOMAIN q.ops : q.ops[k].mode = 1 =>
                   /\ q.ops[k].value # q.wr_addr
                   /\ Before(n, q.ops[k].value)' \/ entry'[q.ops[k].value].phase # "empty"
              /\ Meant(q.wr_addr)' =
                   Apply(q.inst, [k \in DOMAIN q.ops |-> QueuedMeans(q.ops[k], n)'])
  <2>1. PICK m : m = n + 1
    OBVIOUS
  <2>2. m \in 1 .. Len(csr) /\ q = csr[m]
    BY <1>6, <1>16, <2>1
  <2>3. /\ \A k \in DOMAIN q.ops : q.ops[k].mode = 1 =>
             /\ q.ops[k].value # q.wr_addr
             /\ Before(m, q.ops[k].value) \/ entry[q.ops[k].value].phase # "empty"
        /\ Meant(q.wr_addr) =
             Apply(q.inst, [k \in DOMAIN q.ops |-> QueuedMeans(q.ops[k], m)])
    BY <1>1, <2>2 DEF QueueInv
  <2>4. \A k \in DOMAIN q.ops : /\ q.ops[k].mode \in {0, 1}
                                /\ q.ops[k].mode = 1 => q.ops[k].value \in Slots
    BY <1>1, <2>2, RequestFacts
  <2>5. ASSUME NEW k \in DOMAIN q.ops
        PROVE  /\ q.ops[k].mode = 1 =>
                    Before(n, q.ops[k].value)' \/ entry'[q.ops[k].value].phase # "empty"
               /\ QueuedMeans(q.ops[k], n)' = QueuedMeans(q.ops[k], m)
    <3>1. PICK op, v : op = q.ops[k] /\ v = op.value
      OBVIOUS
    <3>2. CASE op.mode = 0
      <4>1. QueuedMeans(op, n)' = QueuedMeans(op, m)
        BY <3>2 DEF QueuedMeans
      <4> QED
        BY <3>1, <3>2, <4>1
    <3>3. CASE op.mode = 1
      <4>1. v \in Slots /\ (Before(m, v) \/ entry[v].phase # "empty")
        BY <2>3, <2>4, <3>1, <3>3
      <4>2. Before(m, v) <=> v = a \/ Before(n, v)'
        BY <1>6, <2>1
      <4>3. Meant(v)' = Meant(v)
        BY <1>10
      <4>4. Before(n, v)' \/ entry'[v].phase # "empty"
        BY <1>5, <4>1, <4>2
      <4>5. /\ QueuedMeans(op, n)' = IF Before(n, v)' THEN Meant(v)' ELSE EntryMeans(v)'
            /\ QueuedMeans(op, m) = IF Before(m, v) THEN Meant(v) ELSE EntryMeans(v)
        BY <3>1, <3>3 DEF QueuedMeans
      <4>6. QueuedMeans(op, n)' = QueuedMeans(op, m)
        <5>1. CASE v = a
          <6>1. EntryMeans(v)' = Meant(v)
            <7>1. entry'[v].phase = "waiting"
              BY <1>5, <5>1
            <7> QED
              BY <4>3, <7>1 DEF EntryMeans, HasResult
          <6> QED
            BY <4>2, <4>3, <4>5, <5>1, <6>1
        <5>2. CASE v # a
          <6>1. EntryMeans(v)' = EntryMeans(v)
            BY <1>13, <4>1, <5>2
          <6> QED
            BY <4>2, <4>3, <4>5, <5>2, <6>1
        <5> QED
          BY <5>1, <5>2
      <4> QED
        BY <3>1, <4>4, <4>6
    <3> QED
      BY <2>4, <3>1, <3>2, <3>3
  <2>6. [k \in DOMAIN q.ops |-> QueuedMeans(q.ops[k], n)']
          = [k \in DOMAIN q.ops |-> QueuedMeans(q.ops[k], m)]
    BY <2>5
  <2>7. Meant(q.wr_addr)' = Meant(q.wr_addr)
    BY <1>10
  <2> QED
    BY <2>3, <2>5, <2>6, <2>7
<1>17. QueueInv'
  BY <1>16, QueueAfter
<1>18. ASSUME NEW e, e = entry'[a]
       PROVE  /\ \A k \in DOMAIN e.ops : e.ops[k].mode = 1 => entry'[e.ops[k].value].phase = "waiting"
              /\ Meant(a)' = Apply(e.inst, [k \in DOMAIN e.ops |-> WaitingMeans(e.ops[k])'])
  <2>1. /\ e.inst = req.inst /\ DOMAIN e.ops = DOMAIN req.ops
        /\ \A k \in DOMAIN req.ops :
             e.ops[k] = IF req.ops[k].mode = 1 /\ HasResult(entry[req.ops[k].value])
                        THEN [mode |-> 0, value |-> entry[req.ops[k].value].result]
                        ELSE req.ops[k]
    BY <1>5, <1>18
  <2>2. ASSUME NEW k \in DOMAIN req.ops
        PROVE  /\ e.ops[k].mode = 1 => entry'[e.ops[k].value].phase = "waiting"
               /\ WaitingMeans(e.ops[k])' = QueuedMeans(req.ops[k], 1)
    <3>1. PICK op, own : op = req.ops[k] /\ own = e.ops[k]
      OBVIOUS
    <3>2. own = IF op.mode = 1 /\ HasResult(entry[op.value])
                THEN [mode |-> 0, value |-> entry[op.value].result] ELSE op
      BY <2>1, <3>1
    <3>3. CASE op.mode = 0
      <4>1. own = op
        BY <3>2, <3>3
      <4>2. WaitingMeans(own)' = QueuedMeans(op, 1)
        BY <3>3, <4>1 DEF WaitingMeans, QueuedMeans
      <4> QED
        BY <3>1, <3>3, <4>1, <4>2
    <3>4. CASE op.mode = 1
      <4>1. op.value \in Slots /\ op.value # a /\ ~Before(1, op.value)
        BY <1>6, <1>7, <1>8, <3>1, <3>4
      <4>2. entry[op.value].phase # "empty"
        BY <1>7, <3>1, <3>4, <4>1
      <4>3. QueuedMeans(op, 1) = EntryMeans(op.value)
        BY <3>4, <4>1 DEF QueuedMeans
      <4>4. CASE HasResult(entry[op.value])
        <5>1. own.mode = 0 /\ own.value = entry[op.value].result
          BY <3>2, <3>4, <4>4
        <5>2. WaitingMeans(own)' = own.value
          BY <5>1 DEF WaitingMeans
        <5> QED
          BY <3>1, <4>3, <4>4, <5>1, <5>2 DEF EntryMeans
      <4>5. CASE ~HasResult(entry[op.value])
        <5>1. own = op
          BY <3>2, <4>5
        <5>2. entry[op.value].phase = "waiting"
          BY <1>1, <4>1, <4>2, <4>5, PhaseFacts
        <5>3. entry'[op.value].phase = "waiting"
          BY <1>5, <4>1, <5>2
        <5>4. Meant(op.value)' = Meant(op.value)
          BY <1>10
        <5>5. WaitingMeans(op)' = Meant(op.value)
          BY <3>4, <5>4 DEF WaitingMeans
        <5>6. WaitingMeans(own)' = QueuedMeans(op, 1)
          BY <4>3, <4>5, <5>1, <5>4, <3>4 DEF WaitingMeans, EntryMeans
        <5> QED
          BY <3>1, <5>1, <5>3, <5>6
      <4> QED
        BY <4>4, <4>5
    <3> QED
      BY <1>8, <3>1, <3>3, <3>4
  <2>3. [k \in DOMAIN e.ops |-> WaitingMeans(e.ops[k])']
          = [k \in DOMAIN req.ops |-> QueuedMeans(req.ops[k], 1)]
    BY <2>1, <2>2
  <2>4. Meant(a)' = Meant(a)
    BY <1>10
  <2> QED
    BY <1>7, <2>1, <2>2, <2>3, <2>4
<1>19. WaitingInv'
  <2>1. ASSUME NEW t \in Slots, NEW e, e = entry'[t], e.phase = "waiting"
        PROVE  /\ \A k \in DOMAIN e.ops : e.ops[k].mode = 1 => entry'[e.ops[k].value].phase = "waiting"
               /\ Meant(t)' = Apply(e.inst, [k \in DOMAIN e.ops |-> WaitingMeans(e.ops[k])'])
    <3>1. CASE t = a
      <4>1. Meant(t)' = Meant(t) /\ Meant(a)' = Meant(a)
        BY <1>10
      <4> QED
        BY <1>18, <2>1, <3>1, <4>1
    <3>2. CASE t # a
      <4>1. e = entry[t]
        BY <1>5, <2>1, <3>2
      <4>2. /\ \A k \in DOMAIN e.ops : e.ops[k].mode = 1 => entry[e.ops[k].value].phase = "waiting"
            /\ Meant(t) = Apply(e.inst, [k \in DOMAIN e.ops |-> WaitingMeans(e.ops[k])])
        BY <1>1, <2>1, <4>1 DEF WaitingInv
      <4>3. \A k \in DOMAIN e.ops : e.ops[k].mode = 1 =>
              e.ops[k].value \in Slots /\ entry'[e.ops[k].value].phase = "waiting"
        <5>1. \A k \in DOMAIN e.ops : e.ops[k].mode = 1 => e.ops[k].value \in Slots
          BY <1>1, <4>1, EntryFacts
        <5>2. entry[a].phase # "waiting"
          BY <1>5 DEF IsFree
        <5>3. \A k \in DOMAIN e.ops : e.ops[k].mode = 1 => e.ops[k].value # a
          BY <4>2, <5>2
        <5> QED
          BY <1>5, <4>2, <5>1, <5>3
      <4>4. \A k \in DOMAIN e.ops : WaitingMeans(e.ops[k])' = WaitingMeans(e.ops[k])
        BY <1>10 DEF WaitingMeans
      <4>5. [k \in DOMAIN e.ops |-> WaitingMeans(e.ops[k])']
              = [k \in DOMAIN e.ops |-> WaitingMeans(e.ops[k])]
        BY <4>4
      <4> QED
        BY <1>10, <4>2, <4>3, <4>5
    <3> QED
      BY <3>1, <3>2
  <2> QED
    BY <2>1, WaitingAfter
<1> QED
  BY <1>14, <1>15, <1>17, <1>19

LEMMA ArriveKeeps ==
  ASSUME HostInv, Arrive
  PROVE  HostInv'
<1>1. UNCHANGED <<libraryVars, shown>>
  BY DEF Arrive
<1>2. AlwaysInv'
  BY ArrivedShape DEF HostInv, LibraryInv
<1>3. InOrder' => PlacesInv' /\ ResultsInv' /\ QueueInv' /\ WaitingInv'
  BY <1>1, LibraryKept, ArriveOrder
<1> QED
  BY <1>1, <1>2, <1>3, AcceleratorKeeps

-----------------------------------------------------------------------------
(* The theorems.                                                           *)

LEMMA InitiallyHostInv == Init => HostInv
<1> SUFFICES ASSUME Init PROVE HostInv
  OBVIOUS
<1>1. /\ build \in Builds /\ obj = <<>> /\ meaning = <<>>
      /\ goal = [s \in Slots |-> Zero] /\ strayed = {}
      /\ tracked = [s \in Slots |-> <<>>]
      /\ requested = [s \in Slots |-> FALSE]
      /\ counter = 0 /\ call = None
      /\ shown = [s \in Slots |-> None]
      /\ csr = <<>>
      /\ entry = [s \in Slots |-> EmptyEntry]
      /\ wbCntr = 0
      /\ writes = [s \in Slots |-> <<>>]
  BY DEF Init
<1>2. Live = {}
  BY <1>1 DEF Live
<1>3. EmptyEntry \in Entry /\ EmptyEntry.phase = "empty"
  <2>1. <<>> \in UNION {Operands(n) : n \in {0, 2, 3}}
    BY NoOperands
  <2> QED
    BY <2>1, ResetAssumption DEF EmptyEntry, Entry, Phases
<1>4. TypeOK
  <2>1. obj \in [Live -> Object] /\ meaning \in [Live -> Values]
    BY <1>1 DEF Live
  <2>2. /\ tracked \in [Slots -> Seq(Objs)] /\ writes \in [Slots -> Seq(Values)]
        /\ csr \in Seq(Request)
    BY <1>1, EmptySeq
  <2>3. goal \in [Slots -> Values]
    BY <1>1, ResetAssumption
  <2> QED
    BY <1>1, <1>2, <1>3, <2>1, <2>2, <2>3, SlotsFacts DEF TypeOK
<1>5. /\ \A s \in Slots : tracked[s] = <<>> /\ writes[s] = <<>> /\ IsFree(s)
      /\ \A s \in Slots : ~requested[s] /\ entry[s].phase = "empty"
  BY <1>1, <1>3 DEF IsFree
<1>6. ToSet(<<>>) = {} /\ IsInjective(<<>>)
  BY DEF ToSet, IsInjective
<1>7. Len(csr) = 0 /\ \A s : ~Queued(s) /\ ~Claimed(s)
  BY <1>1 DEF Queued, Claimed
<1>8. AlwaysInv
  <2>1. PendingIsInFpga /\ CallShape
    BY <1>1, <1>2 DEF PendingIsInFpga, CallShape
  <2> QED
    BY <1>4, <1>5, <1>6, <1>7, <2>1 DEF AlwaysInv
<1>9. ListsInv
  <2>1. TrackedExactly
    BY <1>2, <1>5, <1>6 DEF TrackedExactly
  <2> QED
    BY <1>1, <1>2, <1>5, <2>1 DEF ListsInv
<1>10. ObjectsInv /\ CallInv /\ BaselineInv
  BY <1>1, <1>2 DEF ObjectsInv, ObjectsHoldTheirValue, CallInv, BaselineInv
<1>11. PlacesInv
  <2>1. Len(<<>>) = 0
    BY EmptySeq
  <2> QED
    BY <1>5, <1>7, <2>1 DEF PlacesInv, Pending
<1>12. ResultsInv /\ QueueInv /\ WaitingInv
  BY <1>5, <1>7 DEF ResultsInv, QueueInv, WaitingInv
<1> QED
  BY <1>8, <1>9, <1>10, <1>11, <1>12 DEF HostInv, LibraryInv, OrderInv

LEMMA NothingHappensKeeps ==
  ASSUME HostInv, UNCHANGED vars
  PROVE  HostInv'
<1>1. /\ UNCHANGED <<build, obj, tracked, requested, counter, call, meaning, goal, strayed,
                     shown, csr, entry, wbCntr, writes>>
      /\ UNCHANGED acceleratorVars
  BY DEF vars, libraryVars, acceleratorVars
<1>2. \A s \in Slots : Claimed(s)' <=> Claimed(s)
  BY <1>1 DEF Claimed
<1>3. AlwaysInv
  BY DEF HostInv, LibraryInv
<1>4. InOrder' => CallInv' /\ BaselineInv'
  <2> HAVE InOrder'
  <2>1. InOrder
    BY <1>1 DEF InOrder
  <2>2. CallInv /\ BaselineInv
    BY <2>1, InOrderFacts
  <2> QED
    BY <1>1, <2>2 DEF CallInv, BaselineInv, ResultSlot, OperandOf, Tracks, Live
<1>5. call' \in Calls \cup {None} /\ CallShape'
  BY <1>1, <1>3 DEF AlwaysInv, TypeOK, CallShape, Live
<1> QED
  BY <1>1, <1>2, <1>4, <1>5, CallOnly

LEMMA NextKeeps ==
  ASSUME HostInv, EmptiesItsSlot, [Next]_vars
  PROVE  HostInv'
<1>1. CASE ObjectStep
  BY <1>1, ObjectStepKeeps
<1>2. CASE \E x \in Objs : CallGetVal(x)
  BY <1>2, CallGetValKeeps
<1>3. CASE \E i \in Insts, r \in Objs : \E args \in [1 .. Arity(i) -> Live] : CallCompute(r, args, i)
  BY <1>3, CallComputeKeeps
<1>4. CASE CallStep
  <2>1. CASE ReturnVal
    BY <2>1, ReturnValKeeps
  <2>2. CASE TakeOperand
    BY <2>2, TakeOperandKeeps
  <2>3. CASE ClaimSlot
    BY <2>3, ClaimSlotKeeps
  <2>4. CASE SendRequest
    BY <2>4, SendRequestKeeps
  <2> QED
    BY <1>4, <2>1, <2>2, <2>3, <2>4 DEF CallStep
<1>5. CASE AcceleratorStep
  <2>1. CASE Arrive
    BY <2>1, ArriveKeeps
  <2>2. CASE \E s \in Slots : Complete(s)
    BY <2>2, CompleteKeeps
  <2>3. CASE WriteBack
    BY <2>3, WriteBackKeeps
  <2>4. CASE \E s \in Slots : DeliverWrite(s)
    BY <2>4, DeliverWriteKeeps
  <2> QED
    BY <1>5, <2>1, <2>2, <2>3, <2>4 DEF AcceleratorStep
<1>6. CASE UNCHANGED vars
  BY <1>6, NothingHappensKeeps
<1> QED
  BY <1>1, <1>2, <1>3, <1>4, <1>5, <1>6 DEF Next

\* The theorems below are about the numbers of config.h, where compute() empties
\* the slot it takes (EmptiesItsSlot).  The program is free: Usage can be anything.
\*
\* What the library keeps whatever the program does, what it keeps until a float
\* is assigned to an object in the accelerator, and what it keeps while the program
\* is in order (it has negated no such object either, and no slot was overrun): then
\* the request or the result of a slot is in one place, and every operand on its way
\* stands for what its object meant when compute() took it (hardposit.cpp, with the
\* entries of POSIT_Locality.scala behind it).
THEOREM HostInvariant ==
  ASSUME EmptiesItsSlot
  PROVE  Spec => []HostInv
<1>1. Init => HostInv
  BY InitiallyHostInv
<1>2. HostInv /\ [Next]_vars => HostInv'
  BY NextKeeps
<1> QED
  BY <1>1, <1>2, PTL DEF Spec

\* The types of the library, the result buffer and the entries, in every program.
THEOREM HostTypeCorrect ==
  ASSUME EmptiesItsSlot
  PROVE  Spec => []TypeOK
<1>1. HostInv => TypeOK
  BY DEF HostInv, LibraryInv, AlwaysInv
<1> QED
  BY <1>1, HostInvariant, PTL

\* print_val and the conversions show no value an object does not stand for, as long
\* as the program has assigned no float to and negated no object in the accelerator
\* and compute() has overrun no slot; wherever the operands were when the
\* accelerator took them, and dropped objects included.
THEOREM ValuesAreRight ==
  ASSUME EmptiesItsSlot
  PROVE  Spec => []ValuesInOrder
<1>1. HostInv => ValuesInOrder
  BY DEF HostInv, OrderInv, ObjectsInv, ValuesInOrder
<1> QED
  BY <1>1, HostInvariant, PTL

\* get_val_at_slot writes through pointers to live objects of its slot, and leaves
\* none of them out, in every program that has assigned no float to an object in the
\* accelerator: dropped results and overrun slots do not harm the lists.
THEOREM ListsAreExact ==
  ASSUME EmptiesItsSlot
  PROVE  Spec => []ListsUntilFloat
<1>1. HostInv => ListsUntilFloat
  BY DEF HostInv, LibraryInv, ListsInv, ListsUntilFloat
<1> QED
  BY <1>1, HostInvariant, PTL

\* The assertion commented out in get_val() would never fail, in any program.
THEOREM MissingValuesAreUnderWay ==
  ASSUME EmptiesItsSlot
  PROVE  Spec => []PendingIsInFpga
<1>1. HostInv => PendingIsInFpga
  BY DEF HostInv, LibraryInv, AlwaysInv
<1> QED
  BY <1>1, HostInvariant, PTL

\* compute() takes a slot whose result is still to come only in a program that has
\* dropped the last object of a pending result, or assigned a float to an object in
\* the accelerator: nothing else makes get_val_at_slot pass over a busy slot.
THEOREM OverrunsComeFromTheProgram ==
  ASSUME EmptiesItsSlot
  PROVE  Spec => []OverrunsNeedStraying
<1>1. HostInv => OverrunsNeedStraying
  BY DEF HostInv, LibraryInv, ListsInv, OverrunsNeedStraying
<1> QED
  BY <1>1, HostInvariant, PTL

\* As long as no slot was overrun, and no object in the accelerator was negated or
\* assigned a float, a request meets a free entry, though neither the library nor
\* Posit.sv looks at the core's ready.
THEOREM RequestsMeetFreeEntries ==
  ASSUME EmptiesItsSlot
  PROVE  Spec => []RequestsInOrder
<1>1. HostInv => RequestsInOrder
  <2> SUFFICES ASSUME HostInv, InOrder, csr # <<>> PROVE IsFree(Head(csr).wr_addr)
    BY DEF RequestsInOrder, NoRequestDropped
  <2>1. TypeOK /\ PlacesInv
    BY InOrderFacts
  <2>2. csr \in Seq(Request) /\ Len(csr) \in Nat /\ Len(csr) # 0
    BY <2>1, SeqOwn DEF TypeOK
  <2>3. 1 \in 1 .. Len(csr) /\ Head(csr) = csr[1]
    BY <2>2
  <2>4. csr[1].wr_addr \in Slots /\ Queued(csr[1].wr_addr)
    BY <2>1, <2>3, RequestFacts DEF Queued
  <2> QED
    BY <2>1, <2>3, <2>4 DEF PlacesInv
<1> QED
  BY <1>1, HostInvariant, PTL

\* With -DBASELINE, and a program in order, nothing is left to the accelerator when
\* compute() returns.
THEOREM BaselineLeavesNothing ==
  ASSUME EmptiesItsSlot
  PROVE  Spec => [](InOrder => BaselineWaits)
<1>1. HostInv => (InOrder => BaselineWaits)
  <2> SUFFICES ASSUME HostInv, InOrder, build = "BASELINE", call = None
               PROVE  /\ \A x \in Live : obj[x].valid
                      /\ csr = <<>> /\ \A s \in Slots : IsFree(s)
    BY DEF BaselineWaits
  <2>1. TypeOK /\ PlacesInv /\ BaselineInv
    BY InOrderFacts
  <2>2. \A x \in Live : obj[x].valid
    BY <2>1 DEF BaselineInv
  <2>3. \A s \in Slots : ~Pending(s)
    BY <2>1 DEF PlacesInv, BaselineInv
  <2>4. \A s \in Slots : IsFree(s) /\ ~Queued(s)
    BY <2>3 DEF Pending
  <2>5. csr = <<>>
    <3>1. csr \in Seq(Request) /\ Len(csr) \in Nat /\ (csr = <<>> <=> Len(csr) = 0)
      BY <2>1, SeqOwn DEF TypeOK
    <3>2. Len(csr) # 0 => 1 \in 1 .. Len(csr)
      BY <3>1
    <3>3. 1 \notin 1 .. Len(csr)
      <4> SUFFICES ASSUME 1 \in 1 .. Len(csr) PROVE FALSE
        OBVIOUS
      <4>1. csr[1].wr_addr \in Slots /\ Queued(csr[1].wr_addr)
        BY <2>1, RequestFacts DEF Queued
      <4> QED
        BY <2>4, <4>1
    <3> QED
      BY <3>1, <3>2, <3>3
  <2> QED
    BY <2>2, <2>4, <2>5
<1> QED
  BY <1>1, HostInvariant, PTL
=============================================================================

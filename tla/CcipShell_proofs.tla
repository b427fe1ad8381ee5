-------------------------- MODULE CcipShell_proofs --------------------------
(***************************************************************************)
(* For every number of slots, cachelines and buckets and every bound: that *)
(* the shell keeps requests, reads and reports each in one place, sends    *)
(* nothing outside the two buffers and counts right.                       *)
(***************************************************************************)
EXTENDS CcipShellInv, SequenceTheorems, FiniteSetTheorems, TLAPS

-----------------------------------------------------------------------------
(* Sequences, tags and counts.                                             *)

LEMMA SeqOwn ==
  ASSUME NEW S, NEW s \in Seq(S)
  PROVE  IsSeq(s)
<1>1. Len(s) \in Nat /\ DOMAIN s = 1..Len(s)
  BY LenProperties
<1>2. PICK n \in Nat : s \in [1..n -> S]
  BY SeqDef
<1>3. s = [k \in 1..Len(s) |-> s[k]]
  BY <1>1, <1>2
<1> QED
  BY <1>1, <1>3 DEF IsSeq

LEMMA OwnSeq ==
  ASSUME NEW s, IsSeq(s), NEW a
  PROVE  s \in Seq({s[n] : n \in 1..Len(s)} \cup {a})
<1> DEFINE S == {s[n] : n \in 1..Len(s)} \cup {a}
<1>1. Len(s) \in Nat /\ s = [n \in 1..Len(s) |-> s[n]]
  BY DEF IsSeq
<1>2. \A n \in 1..Len(s) : s[n] \in S
  OBVIOUS
<1> HIDE DEF S
<1>3. [n \in 1..Len(s) |-> s[n]] \in [1..Len(s) -> S]
  BY <1>2
<1>4. s \in Seq(S)
  BY <1>1, <1>3, SeqDef
<1> QED
  BY <1>4 DEF S

LEMMA SeqFacts ==
  ASSUME NEW s, IsSeq(s)
  PROVE  /\ Len(s) \in Nat /\ DOMAIN s = 1..Len(s)
         /\ s = <<>> <=> Len(s) = 0
<1>1. s \in Seq({s[n] : n \in 1..Len(s)} \cup {0})
  BY OwnSeq
<1> QED
  BY <1>1, LenProperties, EmptySeq

LEMMA AppendFacts ==
  ASSUME NEW s, IsSeq(s), NEW a
  PROVE  /\ IsSeq(Append(s, a)) /\ Len(Append(s, a)) = Len(s) + 1
         /\ Append(s, a)[Len(s) + 1] = a
         /\ \A n \in 1..Len(s) : Append(s, a)[n] = s[n]
<1> DEFINE S == {s[n] : n \in 1..Len(s)} \cup {a}
<1>1. s \in Seq(S)
  BY OwnSeq
<1>2. a \in S
  OBVIOUS
<1> HIDE DEF S
<1>3. Append(s, a) \in Seq(S)
  BY <1>1, <1>2, AppendProperties
<1>4. IsSeq(Append(s, a))
  BY <1>3, SeqOwn
<1> QED
  BY <1>1, <1>2, <1>4, AppendProperties

LEMMA TailFacts ==
  ASSUME NEW s, IsSeq(s), s # <<>>
  PROVE  /\ IsSeq(Tail(s)) /\ Len(Tail(s)) = Len(s) - 1 /\ Head(s) = s[1]
         /\ Len(s) >= 1
         /\ \A n \in 1..Len(s) - 1 : Tail(s)[n] = s[n + 1]
<1> DEFINE S == {s[n] : n \in 1..Len(s)} \cup {0}
<1>1. s \in Seq(S)
  BY OwnSeq
<1> HIDE DEF S
<1>2. Tail(s) \in Seq(S)
  BY <1>1, HeadTailProperties
<1>3. IsSeq(Tail(s))
  BY <1>2, SeqOwn
<1> QED
  BY <1>1, <1>3, HeadTailProperties, LenProperties, EmptySeq

\* The tag of a cacheline is its own: 2^l counts the subsets of l elements, and
\* a smaller set has fewer.
LEMMA TagLess ==
  ASSUME NEW l \in Nat, NEW m \in Nat, l < m
  PROVE  TagOf(l) # TagOf(m)
<1>1. IsFiniteSet(1..l) /\ Cardinality(1..l) = l /\ IsFiniteSet(1..m) /\ Cardinality(1..m) = m
  BY FS_Interval
<1>2. /\ IsFiniteSet(SUBSET (1..m)) /\ Cardinality(SUBSET (1..m)) = 2^m
      /\ Cardinality(SUBSET (1..l)) = 2^l
  BY <1>1, FS_SUBSET
<1>3. SUBSET (1..l) \in SUBSET (SUBSET (1..m))
  OBVIOUS
<1>4. 1..m \in SUBSET (1..m) /\ 1..m \notin SUBSET (1..l)
  OBVIOUS
<1>5. SUBSET (1..l) # SUBSET (1..m)
  BY <1>4
<1> DEFINE A == SUBSET (1..l)
           B == SUBSET (1..m)
<1>6. IsFiniteSet(B) /\ A \in SUBSET B /\ A # B
  BY <1>2, <1>3, <1>5
<1>7. Cardinality(A) = 2^l /\ Cardinality(B) = 2^m
  BY <1>2
<1> HIDE DEF A, B
<1>8. Cardinality(B) # Cardinality(A)
  BY <1>6, FS_Subset
<1> QED
  BY <1>7, <1>8 DEF TagOf

LEMMA TagsApart ==
  ASSUME NEW l \in Cachelines, NEW m \in Cachelines
  PROVE  TagOf(l) = TagOf(m) <=> l = m
<1>1. l \in Nat /\ m \in Nat
  BY ShellAssumption DEF Cachelines
<1>2. l = m \/ l < m \/ m < l
  BY <1>1
<1> QED
  BY <1>1, <1>2, TagLess

LEMMA ReadsApart ==
  ASSUME NEW l \in Cachelines, NEW m \in Cachelines
  PROVE  (ReadOf(l) = ReadOf(m) <=> l = m) /\ ReadOf(l) # None
  BY NoneIsApart DEF ReadOf

LEMMA ResultsApart ==
  ASSUME NEW e \in Entries, NEW f \in Entries
  PROVE  /\ ResultOf(e) = ResultOf(f) <=> e = f
         /\ ResultOf(e) # None /\ ~IsReport(ResultOf(e))
<1>1. ResultOf(e) # None
  BY NoneIsApart
<1>2. ResultOf(e) = ResultOf(f) <=> e = f
  BY DEF ResultOf
<1>3. ASSUME IsReport(ResultOf(e)) PROVE FALSE
  <2>1. ResultOf(e).data.kind = "report"
    BY <1>3 DEF IsReport, ReportWrites, Reports
  <2> QED
    BY <2>1 DEF ResultOf
<1> QED
  BY <1>1, <1>2, <1>3

LEMMA NoneIsNoReport ==
  ~IsReport(None) /\ None \notin Reports
  BY NoneIsApart DEF IsReport

LEMMA Positions ==
  /\ NumFPGAEntries \in Nat \ {0} /\ MetaLine \notin Entries
  /\ 0 \in Entries /\ 0 \in Cachelines
  /\ \A e \in Entries : (e + 1) % NumFPGAEntries \in Entries
  /\ CountBound \in Nat \ {0} /\ {} \in LineSets
<1>1. CountBound \in Nat \ {0}
  BY ShellAssumption, BucketsAssumption, LenProperties, ElementOfSeq DEF Buckets, CountBound
<1>2. {} \in LineSets
  BY ShellAssumption, FS_EmptySet DEF LineSets
<1> QED
  BY <1>1, <1>2, ShellAssumption DEF Entries, Cachelines, MetaLine

-----------------------------------------------------------------------------
(* The buckets.                                                            *)

CountsOf(array) == UNION {{b} \X (1 .. array[b]) : b \in Buckets}

LEMMA CountsMembers ==
  ASSUME NEW array, NEW b, NEW n
  PROVE  <<b, n>> \in CountsOf(array) <=> b \in Buckets /\ n \in 1 .. array[b]
BY DEF CountsOf

LEMMA BucketsAreFinite == IsFiniteSet(Buckets)
<1>1. Len(Lower) \in Nat
  BY ShellAssumption, LenProperties
<1> QED
  BY <1>1, FS_Interval DEF Buckets

LEMMA SumIsNatural ==
  ASSUME NEW array \in [Buckets -> Nat]
  PROVE  IsFiniteSet(CountsOf(array)) /\ SumCounts(array) \in Nat
<1> DEFINE Parts == {{b} \X (1 .. array[b]) : b \in Buckets}
           Part(b) == {b} \X (1 .. array[b])
<1>1. \A b \in Buckets : IsFiniteSet(Part(b))
  <2> TAKE b \in Buckets
  <2> DEFINE S == {b}
             T == 1 .. array[b]
  <2>1. IsFiniteSet(S)
    BY FS_Singleton
  <2>2. IsFiniteSet(T)
    BY FS_Interval
  <2> HIDE DEF S, T
  <2>3. IsFiniteSet(S \X T)
    BY <2>1, <2>2, FS_Product
  <2> QED
    BY <2>3 DEF S, T
<1>2. \A T \in Parts : IsFiniteSet(T)
  BY <1>1
<1>3. IsFiniteSet(Parts)
  <2> DEFINE f == [b \in Buckets |-> Part(b)]
  <2>1. f \in Surjection(Buckets, Parts)
    BY Zenon DEF Surjection
  <2> HIDE DEF f
  <2> QED
    BY <2>1, BucketsAreFinite, FS_Surjection
<1> HIDE DEF Parts
<1>4. IsFiniteSet(UNION Parts)
  BY <1>2, <1>3, FS_UNION
<1>5. CountsOf(array) = UNION Parts
  BY DEF CountsOf, Parts
<1>6. SumCounts(array) = Cardinality(UNION Parts)
  BY DEF SumCounts, Parts
<1> QED
  BY <1>4, <1>5, <1>6, FS_CardinalityType

LEMMA NothingCounted ==
  ASSUME NEW array, array = [b \in Buckets |-> 0]
  PROVE  SumCounts(array) = 0
<1>1. UNION {{b} \X (1 .. array[b]) : b \in Buckets} = {}
  OBVIOUS
<1> QED
  BY <1>1, FS_EmptySet DEF SumCounts

\* One more in at most one bucket is at most one more.
LEMMA OneMore ==
  ASSUME NEW old \in [Buckets -> Nat], NEW counted,
         \A b, c \in counted : b = c,
         NEW new, new = [b \in Buckets |-> old[b] + IF b \in counted THEN 1 ELSE 0]
  PROVE  /\ new \in [Buckets -> Nat]
         /\ SumCounts(new) <= SumCounts(old) + 1
         /\ counted = {} => SumCounts(new) = SumCounts(old)
<1>1. new \in [Buckets -> Nat]
  OBVIOUS
<1>2. counted = {} => SumCounts(new) = SumCounts(old)
  <2>1. counted = {} => new = old
    OBVIOUS
  <2> QED
    BY <2>1
<1>3. CASE counted = {}
  BY <1>1, <1>2, <1>3, SumIsNatural
<1>4. ASSUME NEW c, c \in counted
      PROVE  SumCounts(new) <= SumCounts(old) + 1
  <2> DEFINE A == CountsOf(old)
             x == <<c, old[c] + 1>>
  <2>1. counted = {c}
    BY <1>4
  <2>2. CountsOf(new) \subseteq A \cup {x}
    <3>1. ASSUME NEW b \in Buckets, NEW n \in 1 .. new[b]
          PROVE  <<b, n>> \in A \cup {x}
      <4>1. new[b] \in Nat /\ old[b] \in Nat
        BY <1>1
      <4>2. CASE n \in 1 .. old[b]
        BY <4>2, CountsMembers
      <4>3. CASE n \notin 1 .. old[b]
        <5>1. b \in counted /\ n = old[b] + 1
          BY <4>1, <4>3
        <5> QED
          BY <5>1, <2>1
      <4> QED
        BY <4>2, <4>3
    <3> QED
      BY <3>1 DEF CountsOf
  <2> HIDE DEF x
  <2>3. IsFiniteSet(A)
    BY SumIsNatural
  <2> HIDE DEF A
  <2>4. IsFiniteSet(A \cup {x}) /\ Cardinality(A \cup {x}) <= Cardinality(A) + 1
    <3>1. Cardinality(A) \in Nat
      BY <2>3, FS_CardinalityType
    <3>2. IsFiniteSet(A \cup {x})
      BY <2>3, FS_AddElement
    <3>3. Cardinality(A \cup {x}) = IF x \in A THEN Cardinality(A) ELSE Cardinality(A) + 1
      BY <2>3, FS_AddElement
    <3> QED
      BY <3>1, <3>2, <3>3
  <2>5. Cardinality(CountsOf(new)) <= Cardinality(A \cup {x})
    BY <2>2, <2>4, FS_Subset
  <2>6. SumCounts(new) = Cardinality(CountsOf(new)) /\ SumCounts(old) = Cardinality(A)
    BY DEF SumCounts, CountsOf, A
  <2>7. SumCounts(new) \in Nat /\ SumCounts(old) \in Nat
    BY <1>1, SumIsNatural
  <2>8. Cardinality(A \cup {x}) \in Nat
    BY <2>4, FS_CardinalityType
  <2> QED
    BY <2>4, <2>5, <2>6, <2>7, <2>8
<1> QED
  BY <1>1, <1>2, <1>3, <1>4

\* The buckets do not overlap.
LEMMA OneBucket ==
  ASSUME NEW c \in Nat
  PROVE  \A a, b \in BucketOf(c) : a = b
<1> TAKE a, b \in BucketOf(c)
<1>1. a \in Buckets /\ b \in Buckets /\ Buckets \subseteq Int
  BY ShellAssumption, LenProperties DEF BucketOf, Buckets
<1>2. /\ Lower[a] \in Nat /\ Upper[a] \in Nat /\ Lower[b] \in Nat /\ Upper[b] \in Nat
  BY <1>1, ShellAssumption, ElementOfSeq DEF Buckets
<1>3. ~ a < b
  BY <1>1, <1>2, BucketsAssumption DEF BucketOf
<1>4. ~ b < a
  BY <1>1, <1>2, BucketsAssumption DEF BucketOf
<1> QED
  BY <1>1, <1>3, <1>4

-----------------------------------------------------------------------------
(* What is wanted, and what is under way.                                  *)

LEMMA LinesAreFinite ==
  /\ IsFiniteSet(Cachelines) /\ IsFiniteSet(Entries)
  /\ \A ls \in SUBSET Cachelines : IsFiniteSet(ls) /\ Cardinality(ls) \in Nat
  /\ \A W \in SUBSET (Entries \X Cachelines) : IsFiniteSet(W) /\ Cardinality(W) \in Nat
<1>1. IsFiniteSet(Cachelines) /\ IsFiniteSet(Entries)
  BY ShellAssumption, FS_Interval DEF Cachelines, Entries
<1>2. IsFiniteSet(Entries \X Cachelines)
  BY <1>1, FS_Product
<1>3. \A ls \in SUBSET Cachelines : IsFiniteSet(ls) /\ Cardinality(ls) \in Nat
  BY <1>1, FS_Subset, FS_CardinalityType
<1>4. \A W \in SUBSET (Entries \X Cachelines) : IsFiniteSet(W) /\ Cardinality(W) \in Nat
  BY <1>2, FS_Subset, FS_CardinalityType
<1> QED
  BY <1>1, <1>3, <1>4

LEMMA WantedMembers ==
  ASSUME NEW e \in Entries, NEW l \in Cachelines
  PROVE  <<e, l>> \in Wanted <=>
           l \in need[e] \/ \E n \in DOMAIN mmio : RequestAt(n, e) /\ l \in mmio[n].data.lines
BY DEF Wanted, Unread, RequestAt

LEMMA WantedIsFinite ==
  /\ Wanted \in SUBSET (Entries \X Cachelines)
  /\ IsFiniteSet(Wanted) /\ Cardinality(Wanted) \in Nat
<1>1. Wanted \in SUBSET (Entries \X Cachelines)
  BY DEF Wanted
<1> QED
  BY <1>1, LinesAreFinite

\* Every read under way is wanted.
LEMMA ReadsAreWanted ==
  ASSUME ShellInv, phase # "closed"
  PROVE  /\ IsFiniteSet(infetch) /\ Cardinality(infetch) \in Nat
         /\ Cardinality(infetch) <= Cardinality(Wanted)
<1>1. infetch \in SUBSET Cachelines
  BY DEF ShellInv, ShellTypeOK
<1>2. \A l \in infetch : \E e \in Entries : l \in need[e]
  BY DEF ShellInv, FetchInv, Serves
<1> DEFINE f == [l \in infetch |-> <<CHOOSE e \in Entries : l \in need[e], l>>]
<1>3. \A l \in infetch : f[l] \in Wanted
  BY <1>1, <1>2, WantedMembers
<1>4. \A l, m \in infetch : f[l] = f[m] => l = m
  OBVIOUS
<1>5. f \in [infetch -> Wanted]
  <2>1. f = [l \in infetch |-> f[l]]
    OBVIOUS
  <2> HIDE DEF f
  <2> QED
    BY <1>3, <2>1
<1> HIDE DEF f
<1>6. f \in Injection(infetch, Wanted)
  BY <1>4, <1>5 DEF Injection, IsInjective
<1> QED
  BY <1>1, <1>6, LinesAreFinite, WantedIsFinite, FS_Injection

-----------------------------------------------------------------------------
(* The initial state, and the steps of the host.                           *)

USE DEF RequestAt, Asked, InCore, InPort, OnItsWay, Issued, InFabric,
        PollUnderWay, ReportInPort, ReportOnItsWay, Writes

LEMMA InitHolds == Init => ShellInv
<1> SUFFICES ASSUME Init PROVE ShellInv
  OBVIOUS
<1> USE DEF Init, ShellReset, CoreReset
<1>1. IsSeq(mmio) /\ Len(mmio) = 0 /\ DOMAIN mmio = {}
  BY DEF IsSeq
<1>2. \A e \in Entries : entry[e] = "free"
  OBVIOUS
<1>3. Wanted = {} /\ \A l \in Cachelines : ~Answered(l)
  BY <1>1 DEF Wanted, Unread, Answered, Answers
<1>4. ShellTypeOK
  BY <1>1, Positions, ShellAssumption DEF ShellTypeOK
<1>5. DiscoverInv
  BY <1>1, <1>2 DEF DiscoverInv, Idle
<1>6. NamedInv /\ ClosedInv
  BY DEF NamedInv, ClosedInv
<1>7. PlacesInv
  BY <1>1, <1>2, ResultsApart DEF PlacesInv
<1>8. FetchInv
  BY <1>1, <1>3, ReadsApart DEF FetchInv, Answered
<1>9. PollInv
  BY <1>1, NoneIsNoReport DEF PollInv
<1>10. CountInv
  <2>1. SumCounts(perf_cycle_array) = 0
    BY NothingCounted
  <2>2. Cardinality(infetch) = 0 /\ Cardinality(Wanted) = 0
    BY <1>3, FS_EmptySet
  <2> QED
    BY <2>1, <2>2, NoneIsNoReport DEF CountInv
<1> QED
  BY <1>1, <1>4, <1>5, <1>6, <1>7, <1>8, <1>9, <1>10 DEF ShellInv

\* The next two steps leave all but the accesses under way, and what the host
\* knows, as it was.
LEMMA ReadIdWordKeeps ==
  ASSUME ShellInv, ReadIdWord
  PROVE  ShellInv'
<1> USE DEF ShellInv, ReadIdWord, Issue
<1>1. UNCHANGED <<hostVars, shellVars, coreVars, reads, responses, writes>>
  OBVIOUS
<1> USE DEF hostVars, shellVars, coreVars
<1>2. /\ IsSeq(mmio') /\ Len(mmio') = 1 /\ DOMAIN mmio' = {1}
      /\ mmio'[1] = CsrRead(2 * (idWords + 1)) /\ mmio'[1].kind = "read"
      /\ Len(mmio') <= MaxCsr
  <2>1. IsSeq(mmio) /\ Len(mmio) = 0 /\ mmio' = Append(mmio, CsrRead(2 * (idWords + 1)))
    OBVIOUS
  <2>2. IsSeq(mmio') /\ Len(mmio') = 1 /\ mmio'[1] = CsrRead(2 * (idWords + 1))
    <3> DEFINE a == CsrRead(2 * (idWords + 1))
    <3>1. mmio' = Append(mmio, a)
      BY <2>1
    <3> HIDE DEF a, ReadIdWord, ShellInv
    <3>2. IsSeq(mmio)
      BY <2>1
    <3>3. /\ IsSeq(Append(mmio, a)) /\ Len(Append(mmio, a)) = Len(mmio) + 1
          /\ Append(mmio, a)[Len(mmio) + 1] = a
      BY <3>2, AppendFacts
    <3>4. Len(mmio) + 1 = 1
      BY <2>1
    <3> QED
      BY <3>1, <3>3, <3>4 DEF a
  <2>3. DOMAIN mmio' = 1..1
    BY <2>2, SeqFacts
  <2> QED
    BY <2>1, <2>2, <2>3, ShellAssumption DEF CsrRead
<1>3. DiscoverInv /\ Idle
  BY DEF DiscoverInv
<1>4. ShellTypeOK'
  BY <1>1, <1>2 DEF ShellTypeOK
<1>5. DiscoverInv'
  BY <1>1, <1>2, <1>3 DEF DiscoverInv, Idle
<1>6. NamedInv' /\ ClosedInv'
  BY <1>1 DEF NamedInv, ClosedInv
<1>7. PlacesInv'
  BY <1>1, <1>2, <1>3, ResultsApart DEF PlacesInv, Idle, DiscoverInv
<1>8. FetchInv'
  BY <1>1 DEF FetchInv, Serves, Answered, Answers
<1>9. PollInv'
  BY <1>1, <1>2, <1>3, NoneIsNoReport DEF PollInv, Idle
<1>10. CountInv'
  <2>1. Wanted' = Wanted
    BY <1>1, <1>2 DEF Wanted, Unread
  <2> QED
    BY <1>1, <2>1 DEF CountInv, Sound
<1> QED
  BY <1>2, <1>4, <1>5, <1>6, <1>7, <1>8, <1>9, <1>10

LEMMA SetUpKeeps ==
  ASSUME ShellInv, SetUp
  PROVE  ShellInv'
<1> USE DEF ShellInv, SetUp
<1> DEFINE a == CsrWrite(0, "req")
           b == CsrWrite(2, "result")
<1>1. /\ UNCHANGED <<idWords, slot, waiting, report, polls, placed, asked,
                     careless, shellVars, coreVars, reads, responses, writes>>
      /\ phase = "setup" /\ phase' = "run" /\ Len(mmio) + 2 <= MaxCsr
      /\ mmio' = mmio \o <<a, b>>
  OBVIOUS
<1> USE DEF shellVars, coreVars
<1>2. DiscoverInv /\ Idle /\ mmio = <<>>
  BY <1>1 DEF DiscoverInv
<1>3. /\ IsSeq(mmio') /\ Len(mmio') = 2 /\ DOMAIN mmio' = 1..2
      /\ mmio'[1] = a /\ mmio'[2] = b /\ Len(mmio') <= MaxCsr
  <2>1. mmio' = <<a, b>>
    BY <1>1, <1>2
  <2>2. <<a, b>> = [n \in 1..2 |-> <<a, b>>[n]] /\ Len(<<a, b>>) = 2
    OBVIOUS
  <2> QED
    BY <2>1, <2>2, <1>1, <1>2 DEF IsSeq
<1>4. /\ a.kind = "write" /\ a.address = 0 /\ b.kind = "write" /\ b.address = 2
  BY DEF CsrWrite
<1> HIDE DEF a, b
<1>5. /\ req_base_address' = None /\ resp_base_address' = None
      /\ BasesLeft' = 2
  BY <1>1, <1>2 DEF DiscoverInv, BasesLeft
<1>6. Wanted' = Wanted
  BY <1>1, <1>2, <1>3, <1>4 DEF Wanted, Unread
<1>7. ShellTypeOK'
  BY <1>1, <1>3 DEF ShellTypeOK
<1>8. DiscoverInv' /\ ClosedInv'
  BY <1>1 DEF DiscoverInv, ClosedInv
<1>9. NamedInv'
  <2>1. RequestsFrom(3)'
    BY <1>3 DEF RequestsFrom
  <2>2. RequestsFrom(BasesLeft + 1)'
    BY <2>1, <1>5 DEF RequestsFrom
  <2> QED
    BY <1>1, <1>2, <1>3, <1>5, <2>2 DEF NamedInv, Idle, a, b
<1>10. PlacesInv'
  BY <1>1, <1>2, <1>3, <1>4, ResultsApart DEF PlacesInv, Idle, DiscoverInv
<1>11. FetchInv'
  BY <1>1 DEF FetchInv, Serves, Answered, Answers
<1>12. PollInv'
  <2>1. ~PollUnderWay'
    BY <1>3, <1>4
  <2> QED
    BY <1>1, <1>2, <2>1, NoneIsNoReport DEF PollInv, Idle
<1>13. CountInv'
  BY <1>1, <1>6 DEF CountInv, Sound
<1> QED
  BY <1>3, <1>7, <1>8, <1>9, <1>10, <1>11, <1>12, <1>13

LEMMA IssueFacts ==
  ASSUME NEW a, IsSeq(mmio), Issue(a)
  PROVE  /\ IsSeq(mmio') /\ Len(mmio) \in Nat /\ Len(mmio') = Len(mmio) + 1
         /\ DOMAIN mmio = 1..Len(mmio) /\ DOMAIN mmio' = 1..Len(mmio) + 1
         /\ mmio'[Len(mmio) + 1] = a /\ \A n \in 1..Len(mmio) : mmio'[n] = mmio[n]
         /\ Len(mmio') <= MaxCsr
<1>1. mmio' = Append(mmio, a) /\ Len(mmio) < MaxCsr
  BY DEF Issue
<1>2. /\ IsSeq(Append(mmio, a)) /\ Len(Append(mmio, a)) = Len(mmio) + 1
      /\ Append(mmio, a)[Len(mmio) + 1] = a
      /\ \A n \in 1..Len(mmio) : Append(mmio, a)[n] = mmio[n]
  BY AppendFacts
<1>3. Len(mmio) \in Nat /\ DOMAIN mmio = 1..Len(mmio)
  BY SeqFacts
<1>4. IsSeq(mmio')
  BY <1>1, <1>2
<1>5. DOMAIN mmio' = 1..Len(mmio')
  BY <1>4, SeqFacts
<1> QED
  BY <1>1, <1>2, <1>3, <1>4, <1>5, ShellAssumption

\* While the host runs, no report is anywhere.
LEMMA NoReportInRun ==
  ASSUME ShellInv, phase # "poll"
  PROVE  ~PollUnderWay /\ ~read_meta_data /\ ~ReportInPort /\ ~ReportOnItsWay
BY DEF ShellInv, PollInv

LEMMA PlaceOperandsKeeps ==
  ASSUME ShellInv, NEW ls \in LineSets, PlaceOperands(ls)
  PROVE  ShellInv'
<1>1. /\ phase = "run" /\ phase' = "compute" /\ placed' = ls
      /\ UNCHANGED <<idWords, slot, waiting, report, polls, asked, careless,
                     shellVars, coreVars, fabricVars>>
  BY DEF PlaceOperands
<1> USE DEF ShellInv, shellVars, coreVars, fabricVars
<1>2. BasesLeft' = BasesLeft
  BY <1>1 DEF BasesLeft
<1>3. ShellTypeOK' /\ IsSeq(mmio')
  BY <1>1 DEF ShellTypeOK
<1>4. DiscoverInv' /\ ClosedInv'
  BY <1>1 DEF DiscoverInv, ClosedInv
<1>5. NamedInv'
  BY <1>1, <1>2 DEF NamedInv, Idle, RequestsFrom
<1>6. PlacesInv'
  BY <1>1 DEF PlacesInv
<1>7. FetchInv'
  BY <1>1 DEF FetchInv, Serves, Answered, Answers
<1>8. PollInv'
  BY <1>1, NoReportInRun DEF PollInv
<1>9. CountInv'
  BY <1>1 DEF CountInv, Wanted, Unread, Sound
<1> QED
  BY <1>3, <1>4, <1>5, <1>6, <1>7, <1>8, <1>9

\* A read that had the operands has them for the request now sent.
LEMMA ResponsesGrow ==
  ASSUME ShellInv, SendRequest
  PROVE  /\ responses' \subseteq Response
         /\ \A l \in Cachelines :
              /\ Answered(l)' <=> Answered(l)
              /\ \A r \in Answers(l)' : \E q \in Answers(l) : q.found \subseteq r.found
              /\ (\A r, q \in Answers(l) : r = q) => (\A r, q \in Answers(l) : r = q)'
<1> DEFINE G(r) == [tag |-> r.tag, early |-> FALSE,
                    found |-> IF r.early THEN r.found \cup {slot} ELSE r.found]
<1>1. responses' = {G(r) : r \in responses}
  BY DEF SendRequest
<1>2. responses \subseteq Response /\ slot \in Entries
  BY DEF ShellInv, ShellTypeOK
<1>3. \A r \in responses : /\ G(r) \in Response /\ G(r).tag = r.tag
                           /\ r.found \subseteq G(r).found
  BY <1>2 DEF Response
<1> HIDE DEF G
<1>4. \A l \in Cachelines : Answers(l)' = {G(r) : r \in Answers(l)}
  BY <1>1, <1>3 DEF Answers
<1>5. \A l \in Cachelines : Answers(l) \subseteq responses
  BY DEF Answers
<1>6. responses' \subseteq Response
  BY <1>1, <1>3
<1> QED
  BY <1>3, <1>4, <1>5, <1>6 DEF Answered

LEMMA SendRequestKeeps ==
  ASSUME ShellInv, SendRequest
  PROVE  ShellInv'
<1> DEFINE a == CsrWrite(4, [wr_addr |-> slot, lines |-> placed])
<1>1. /\ phase = "compute" /\ phase' = "run" /\ slot \notin waiting /\ Issue(a)
      /\ waiting' = waiting \cup {slot} /\ slot' = (slot + 1) % NumFPGAEntries
      /\ placed' = {} /\ asked' = asked + Cardinality(placed)
      /\ UNCHANGED <<idWords, report, polls, careless, shellVars, coreVars, reads,
                     writes>>
  BY DEF SendRequest
<1> USE DEF ShellInv, shellVars, coreVars
<1>2. /\ IsSeq(mmio') /\ Len(mmio) \in Nat /\ Len(mmio') = Len(mmio) + 1
      /\ DOMAIN mmio = 1..Len(mmio) /\ DOMAIN mmio' = 1..Len(mmio) + 1
      /\ mmio'[Len(mmio) + 1] = a /\ \A n \in 1..Len(mmio) : mmio'[n] = mmio[n]
      /\ Len(mmio') <= MaxCsr
  BY <1>1, IssueFacts
<1>3. /\ a \in RequestAccess /\ a.kind = "write" /\ a.address = 4
      /\ a.data.wr_addr = slot /\ a.data.lines = placed /\ slot \in Entries
  BY DEF CsrWrite, RequestAccess, Requests, ShellTypeOK
<1>4. /\ placed \in SUBSET Cachelines /\ IsFiniteSet(placed)
      /\ Cardinality(placed) \in Nat /\ asked \in Nat
  BY LinesAreFinite DEF ShellTypeOK, LineSets
<1> HIDE DEF a
<1>5. ~PollUnderWay /\ ~PollUnderWay' /\ ~read_meta_data /\ ~ReportInPort /\ ~ReportOnItsWay
  BY <1>1, <1>2, <1>3, NoReportInRun
<1>6. BasesLeft' = BasesLeft
  BY <1>1 DEF BasesLeft
<1>7. ShellTypeOK'
  BY <1>1, <1>2, <1>3, <1>4, Positions, ResponsesGrow DEF ShellTypeOK
<1>8. DiscoverInv' /\ ClosedInv'
  BY <1>1 DEF DiscoverInv, ClosedInv
<1>9. NamedInv'
  <2>1. RequestsFrom(BasesLeft + 1)
    BY <1>1 DEF NamedInv
  <2>2. RequestsFrom(BasesLeft + 1)'
    <3>1. ASSUME NEW n \in DOMAIN mmio', n >= BasesLeft + 1
          PROVE  Writes(mmio'[n], 4) /\ mmio'[n] \in RequestAccess
      <4>1. CASE n = Len(mmio) + 1
        BY <1>2, <1>3, <4>1
      <4>2. CASE n # Len(mmio) + 1
        BY <1>2, <1>5, <2>1, <3>1, <4>2 DEF RequestsFrom
      <4> QED
        BY <4>1, <4>2
    <3> QED
      BY <1>6, <3>1 DEF RequestsFrom
  <2>3. Idle => Idle'
    <3>1. responses = {} => responses' = {}
      BY DEF SendRequest
    <3> QED
      BY <1>1, <3>1 DEF Idle
  <2> QED
    BY <1>1, <1>2, <1>6, <2>2, <2>3 DEF NamedInv
<1>10. ASSUME NEW e \in Entries, NEW n \in DOMAIN mmio'
       PROVE  RequestAt(n, e)' <=> \/ n \in DOMAIN mmio /\ RequestAt(n, e)
                                   \/ n = Len(mmio) + 1 /\ e = slot
  BY <1>2, <1>3
<1>11. PlacesInv'
  <2>2. ASSUME NEW e \in Entries
        PROVE  Asked(e)' <=> Asked(e) \/ e = slot
    BY <1>2, <1>10
  <2>3. ~Asked(slot) /\ ~InCore(slot) /\ ~InPort(slot) /\ ~OnItsWay(slot)
    BY <1>1, <1>3 DEF PlacesInv
  <2> HIDE DEF Asked, InCore, InPort, OnItsWay, RequestAt
  <2>4. \A e \in Entries : /\ InCore(e)' <=> InCore(e)
                           /\ InPort(e)' <=> InPort(e)
                           /\ OnItsWay(e)' <=> OnItsWay(e)
    BY <1>1 DEF InCore, InPort, OnItsWay
  <2>5. ASSUME NEW e \in Entries, NEW n \in DOMAIN mmio', NEW m \in DOMAIN mmio',
               RequestAt(n, e)', RequestAt(m, e)'
        PROVE  n = m
    <3>1. e = slot => ~RequestAt(n, e) /\ ~RequestAt(m, e)
      BY <2>3 DEF Asked, RequestAt
    <3> QED
      BY <1>10, <2>5, <3>1 DEF PlacesInv
  <2> QED
    BY <1>1, <2>2, <2>3, <2>4, <2>5 DEF PlacesInv
<1>12. FetchInv'
  <2>1. \A l \in infetch : \E e \in Entries : Serves(l, e)'
    <3> TAKE l \in infetch
    <3>1. l \in Cachelines
      BY DEF ShellTypeOK
    <3>2. PICK e \in Entries : Serves(l, e)
      BY <1>1 DEF FetchInv
    <3>3. Serves(l, e)'
      BY <1>1, <3>1, <3>2, ResponsesGrow DEF Serves
    <3> QED
      BY <3>3
  <2>2. ASSUME NEW l \in Cachelines
        PROVE  /\ l \in infetch <=> Issued(l) \/ InFabric(l) \/ Answered(l)'
               /\ ~(Issued(l) /\ InFabric(l)) /\ ~(Issued(l) /\ Answered(l)')
               /\ ~(InFabric(l) /\ Answered(l)')
               /\ (\A r, q \in Answers(l) : r = q)'
    <3> HIDE DEF Issued, InFabric
    <3> QED
      BY <1>1, ResponsesGrow DEF FetchInv
  <2> QED
    BY <1>1, <2>1, <2>2 DEF FetchInv
<1>13. PollInv'
  BY <1>1, <1>5 DEF PollInv
<1>14. CountInv'
  <2> DEFINE P == {slot} \X placed
             w == Cardinality(Wanted)
             v == Cardinality(Wanted')
             c == Cardinality(placed)
  <2>1. Wanted' \subseteq Wanted \cup P
    <3>1. ASSUME NEW e \in Entries, NEW l \in Cachelines, <<e, l>> \in Wanted'
          PROVE  <<e, l>> \in Wanted \/ (e = slot /\ l \in placed)
      <4>1. l \in need'[e] \/ \E n \in DOMAIN mmio' : RequestAt(n, e)' /\ l \in mmio'[n].data.lines
        <5>1. (<<e, l>> \in Wanted <=> l \in need[e]
                 \/ \E n \in DOMAIN mmio : RequestAt(n, e) /\ l \in mmio[n].data.lines)'
          BY DEF Wanted, Unread
        <5> QED
          BY <3>1, <5>1
      <4>2. CASE l \in need'[e]
        BY <1>1, <4>2, WantedMembers
      <4>3. ASSUME NEW n \in DOMAIN mmio', RequestAt(n, e)', l \in mmio'[n].data.lines
            PROVE  <<e, l>> \in Wanted \/ (e = slot /\ l \in placed)
        <5>1. CASE n = Len(mmio) + 1
          BY <1>2, <1>3, <4>3, <5>1
        <5>2. CASE n # Len(mmio) + 1
          <6>1. n \in DOMAIN mmio /\ RequestAt(n, e) /\ mmio'[n] = mmio[n]
            BY <1>2, <1>10, <4>3, <5>2
          <6> QED
            BY <4>3, <6>1, WantedMembers
        <5> QED
          BY <5>1, <5>2
      <4> QED
        BY <4>1, <4>2, <4>3
    <3>2. Wanted' \in SUBSET (Entries \X Cachelines)
      BY DEF Wanted
    <3> HIDE DEF RequestAt
    <3> QED
      BY <3>1, <3>2
  <2>2. IsFiniteSet(P) /\ Cardinality(P) = c
    <3>1. IsFiniteSet({slot}) /\ Cardinality({slot}) = 1
      BY FS_Singleton
    <3>2. IsFiniteSet(P) /\ Cardinality(P) = 1 * c
      BY <1>4, <3>1, FS_Product
    <3> QED
      BY <1>4, <3>2
  <2> HIDE DEF P
  <2>3. w \in Nat /\ v \in Nat /\ IsFiniteSet(Wanted)
    <3>1. Wanted' \in SUBSET (Entries \X Cachelines)
      BY DEF Wanted
    <3> QED
      BY <3>1, LinesAreFinite, WantedIsFinite
  <2>4. v <= w + c
    <3>1. IsFiniteSet(Wanted \cup P)
          /\ Cardinality(Wanted \cup P) = w + c - Cardinality(Wanted \cap P)
      BY <2>2, <2>3, FS_Union
    <3>2. Cardinality(Wanted \cap P) \in Nat
      BY <2>2, FS_Subset, FS_CardinalityType
    <3>3. v <= Cardinality(Wanted \cup P)
      BY <2>1, <3>1, FS_Subset
    <3> QED
      BY <1>4, <2>3, <3>1, <3>2, <3>3
  <2> HIDE DEF w, v, c
  <2>5. /\ SumCounts(perf_cycle_array) + Cardinality(infetch) <= total_mem_req
        /\ total_mem_req + w <= asked + Cardinality(infetch)
    BY <1>1 DEF CountInv, w
  <2>6. Cardinality(infetch) \in Nat /\ total_mem_req \in Nat
    BY <1>1, ReadsAreWanted DEF ShellTypeOK
  <2>7. c \in Nat /\ asked' = asked + c
    BY <1>1, <1>4 DEF c
  <2>8. total_mem_req + v <= asked' + Cardinality(infetch)
    BY <1>4, <2>3, <2>4, <2>5, <2>6, <2>7
  <2>9. report # None => Sound(report)'
    <3>1. ASSUME report # None PROVE Sound(report)'
      <4>1. report.total \in Nat
        BY <3>1 DEF PollInv, Reports
      <4>2. SumCounts(report.array) <= report.total /\ report.total <= asked
        BY <3>1 DEF CountInv, Sound
      <4>3. report.total <= asked'
        BY <1>4, <2>7, <4>1, <4>2
      <4> QED
        BY <1>1, <4>2, <4>3 DEF Sound
    <3> QED
      BY <3>1
  <2> QED
    BY <1>1, <1>5, <2>5, <2>8, <2>9 DEF CountInv, v
<1> QED
  BY <1>2, <1>7, <1>8, <1>9, <1>11, <1>12, <1>13, <1>14

LEMMA PollKeeps ==
  ASSUME ShellInv, Poll
  PROVE  ShellInv'
<1> DEFINE a == CsrWrite(6, MetaLine)
<1>1. /\ phase = "run" /\ phase' = "poll" /\ Issue(a) /\ report' = None
      /\ careless' = (careless \/ waiting # {})
      /\ UNCHANGED <<idWords, slot, waiting, placed, asked, shellVars, coreVars, reads,
                     responses, writes>>
  BY DEF Poll
<1> USE DEF ShellInv, shellVars, coreVars
<1>2. /\ IsSeq(mmio') /\ Len(mmio) \in Nat /\ Len(mmio') = Len(mmio) + 1
      /\ DOMAIN mmio = 1..Len(mmio) /\ DOMAIN mmio' = 1..Len(mmio) + 1
      /\ mmio'[Len(mmio) + 1] = a /\ \A n \in 1..Len(mmio) : mmio'[n] = mmio[n]
      /\ Len(mmio') <= MaxCsr
  BY <1>1, IssueFacts
<1>3. a = PollAccess /\ a.kind = "write" /\ a.address = 6
  BY DEF CsrWrite, PollAccess
<1> HIDE DEF a
<1>4. /\ ~PollUnderWay /\ PollUnderWay'
      /\ ~read_meta_data /\ ~ReportInPort /\ ~ReportOnItsWay
  BY <1>1, <1>2, <1>3, NoReportInRun
<1>5. BasesLeft' = BasesLeft
  BY <1>1 DEF BasesLeft
<1>6. ShellTypeOK'
  BY <1>1, <1>2 DEF ShellTypeOK
<1>7. DiscoverInv' /\ ClosedInv'
  BY <1>1 DEF DiscoverInv, ClosedInv
<1>8. NamedInv'
  <2>1. RequestsFrom(BasesLeft + 1)
    BY <1>1 DEF NamedInv
  <2>2. RequestsFrom(BasesLeft + 1)'
    <3>1. ASSUME NEW n \in DOMAIN mmio', n >= BasesLeft + 1, n # Len(mmio')
          PROVE  Writes(mmio'[n], 4) /\ mmio'[n] \in RequestAccess
      BY <1>2, <1>4, <2>1, <3>1 DEF RequestsFrom
    <3> QED
      BY <1>2, <1>3, <1>5, <3>1 DEF RequestsFrom
  <2> QED
    BY <1>1, <1>2, <1>5, <2>2 DEF NamedInv, Idle
<1>9. PlacesInv'
  <2>1. ASSUME NEW e \in Entries, NEW n \in DOMAIN mmio'
        PROVE  RequestAt(n, e)' <=> n \in DOMAIN mmio /\ RequestAt(n, e)
    BY <1>2, <1>3
  <2>2. ASSUME NEW e \in Entries
        PROVE  Asked(e)' <=> Asked(e)
    BY <1>2, <2>1
  <2> HIDE DEF Asked, InCore, InPort, OnItsWay, RequestAt
  <2>3. \A e \in Entries : /\ InCore(e)' <=> InCore(e)
                           /\ InPort(e)' <=> InPort(e)
                           /\ OnItsWay(e)' <=> OnItsWay(e)
    BY <1>1 DEF InCore, InPort, OnItsWay
  <2>4. ASSUME NEW e \in Entries, NEW n \in DOMAIN mmio', NEW m \in DOMAIN mmio',
               RequestAt(n, e)', RequestAt(m, e)'
        PROVE  n = m
    BY <2>1, <2>4 DEF PlacesInv
  <2> QED
    BY <1>1, <2>2, <2>3, <2>4 DEF PlacesInv
<1>10. FetchInv'
  BY <1>1 DEF FetchInv, Serves, Answered, Answers
<1>11. PollInv'
  BY <1>1, <1>4 DEF PollInv
<1>12. CountInv'
  <2>1. ASSUME NEW e \in Entries, NEW m \in Cachelines
        PROVE  <<e, m>> \in Wanted' <=> <<e, m>> \in Wanted
    <3>1. (<<e, m>> \in Wanted <=> m \in need[e]
             \/ \E n \in DOMAIN mmio : RequestAt(n, e) /\ m \in mmio[n].data.lines)'
      BY DEF Wanted, Unread
    <3> QED
      BY <1>1, <1>2, <1>3, <3>1, WantedMembers
  <2>2. Wanted' = Wanted
    BY <2>1 DEF Wanted
  <2> HIDE DEF PollUnderWay
  <2> QED
    BY <1>1, <1>4, <2>2 DEF CountInv
<1> QED
  BY <1>2, <1>6, <1>7, <1>8, <1>9, <1>10, <1>11, <1>12

LEMMA PollReturnKeeps ==
  ASSUME ShellInv, PollReturn
  PROVE  ShellInv'
<1>1. /\ phase = "poll" /\ report # None /\ phase' = "run"
      /\ UNCHANGED <<idWords, slot, waiting, report, polls, placed, asked, careless,
                     shellVars, coreVars, fabricVars>>
  BY DEF PollReturn
<1> USE DEF ShellInv, shellVars, coreVars, fabricVars
<1>2. /\ ~PollUnderWay /\ ~read_meta_data /\ ~ReportInPort /\ ~ReportOnItsWay
  BY <1>1 DEF PollInv
<1>3. BasesLeft' = BasesLeft
  BY <1>1 DEF BasesLeft
<1>4. ShellTypeOK' /\ IsSeq(mmio')
  BY <1>1 DEF ShellTypeOK
<1>5. DiscoverInv' /\ ClosedInv'
  BY <1>1 DEF DiscoverInv, ClosedInv
<1>6. NamedInv'
  BY <1>1, <1>3 DEF NamedInv, Idle, RequestsFrom
<1>7. PlacesInv'
  BY <1>1 DEF PlacesInv
<1>8. FetchInv'
  BY <1>1 DEF FetchInv, Serves, Answered, Answers
<1>9. PollInv'
  BY <1>1, <1>2 DEF PollInv
<1>10. CountInv'
  BY <1>1 DEF CountInv, Wanted, Unread, Sound
<1> QED
  BY <1>4, <1>5, <1>6, <1>7, <1>8, <1>9, <1>10

LEMMA CloseKeeps ==
  ASSUME ShellInv, Close
  PROVE  ShellInv'
<1> USE DEF ShellInv
<1>1. /\ phase = "run" /\ phase' = "closed" /\ careless' = (careless \/ waiting # {})
      /\ ~read_meta_data' /\ c0' = None /\ c1' = None
      /\ perf_cycle_cnt' = [i \in Cachelines |-> 0]
      /\ perf_cycle_array' = [b \in Buckets |-> 0] /\ total_mem_req' = 0
      /\ entry' = [e \in Entries |-> "free"] /\ need' = [e \in Entries |-> {}]
      /\ wbCntr' = 0 /\ infetch' = {} /\ mmio' = <<>>
      /\ UNCHANGED <<idWords, slot, waiting, report, polls, placed, asked, reads,
                     responses, writes>>
  BY DEF Close, ShellReset, CoreReset
<1>2. /\ ~PollUnderWay /\ ~read_meta_data /\ ~ReportInPort /\ ~ReportOnItsWay
  BY <1>1, NoReportInRun
<1>4. IsSeq(mmio') /\ Len(mmio') = 0 /\ DOMAIN mmio' = {}
  BY <1>1 DEF IsSeq
<1>5. ShellTypeOK'
  <2>1. perf_cycle_cnt' \in [Cachelines -> 0 .. CountBound]
    BY <1>1, Positions
  <2>2. read_meta_data' \in BOOLEAN
    BY DEF Close, ShellReset
  <2> QED
    BY <1>1, <1>4, <2>1, <2>2, Positions, ShellAssumption DEF ShellTypeOK
<1>6. DiscoverInv' /\ NamedInv'
  BY <1>1 DEF DiscoverInv, NamedInv
<1>7. ClosedInv'
  <2>1. ASSUME ~careless' PROVE reads = {} /\ responses = {}
    <3>1. waiting = {} /\ \A e \in Entries : ~InCore(e)
      BY <1>1, <2>1 DEF PlacesInv
    <3>2. \A e \in Entries : need[e] = {}
      BY <3>1 DEF FetchInv
    <3>3. infetch = {}
      BY <1>1, <3>2 DEF FetchInv, Serves
    <3>4. reads = {}
      BY <1>1, <3>3 DEF FetchInv
    <3>5. \A r \in responses : \E l \in Cachelines : r \in Answers(l)
      BY DEF ShellTypeOK, Response, Answers
    <3>6. \A l \in Cachelines : ~Answered(l)
      BY <1>1, <3>3 DEF FetchInv
    <3> QED
      BY <3>4, <3>5, <3>6 DEF Answered
  <2> QED
    BY <1>1, <2>1 DEF ClosedInv
<1>8. PlacesInv'
  <2>1. ASSUME NEW e \in Entries
        PROVE  /\ ~InPort(e)' /\ ~InCore(e)' /\ (OnItsWay(e)' <=> OnItsWay(e))
               /\ ~Asked(e)'
    BY <1>1, <1>4, ResultsApart
  <2> QED
    BY <1>1, <1>4, <2>1 DEF PlacesInv
<1>9. FetchInv'
  BY <1>1 DEF FetchInv
<1>10. PollInv'
  BY <1>1, <1>2, <1>4, NoneIsNoReport DEF PollInv
<1>11. CountInv'
  <2>1. ~IsReport(c1') /\ ~ReportOnItsWay'
    BY <1>1, <1>2, NoneIsNoReport
  <2>2. report # None => Sound(report)'
    BY <1>1 DEF CountInv, Sound
  <2> QED
    BY <1>1, <2>1, <2>2 DEF CountInv
<1> QED
  BY <1>4, <1>5, <1>6, <1>7, <1>8, <1>9, <1>10, <1>11

-----------------------------------------------------------------------------
(* The steps of the fabric.                                                *)

LEMMA SampleKeeps ==
  ASSUME ShellInv, NEW r \in reads, Sample(r)
  PROVE  ShellInv'
<1> USE DEF ShellInv
<1> DEFINE q == [tag |-> r.tag, found |-> Unread(r.line), early |-> r.line \in placed]
<1>1. /\ reads' = reads \ {r} /\ responses' = responses \cup {q}
      /\ UNCHANGED <<hostVars, shellVars, coreVars, mmio, writes>>
  BY DEF Sample
<1> USE DEF hostVars, shellVars, coreVars
<1>2. PICK l \in Cachelines : r = ReadOf(l)
  BY DEF FetchInv
<1>3. /\ q.tag = TagOf(l) /\ q \in Response
      /\ \A e \in Entries : l \in need[e] => e \in q.found
  <2>1. r.tag = TagOf(l) /\ r.line = l
    BY <1>2 DEF ReadOf
  <2> QED
    BY <2>1 DEF Unread, Response
<1> HIDE DEF q
<1>4. BasesLeft' = BasesLeft /\ Wanted' = Wanted
  BY <1>1 DEF BasesLeft, Wanted, Unread
<1>5. ShellTypeOK' /\ IsSeq(mmio')
  BY <1>1, <1>3 DEF ShellTypeOK
<1>6. ~Idle
  BY DEF Idle
<1>7. DiscoverInv' /\ NamedInv'
  BY <1>1, <1>4, <1>6 DEF DiscoverInv, NamedInv, RequestsFrom
<1>8. ClosedInv'
  BY <1>1 DEF ClosedInv
<1>9. PlacesInv'
  BY <1>1 DEF PlacesInv
<1>10. FetchInv'
  <2>1. \A m \in Cachelines : Answers(m)' = IF m = l THEN Answers(l) \cup {q} ELSE Answers(m)
    BY <1>1, <1>3, TagsApart DEF Answers
  <2>2. \A m \in Cachelines : /\ Issued(m)' <=> Issued(m)
                              /\ InFabric(m)' <=> InFabric(m) /\ m # l
                              /\ Answered(m)' <=> Answered(m) \/ m = l
    BY <1>1, <1>2, <2>1, ReadsApart DEF Answered
  <2>3. InFabric(l)
    BY <1>2
  <2>4. reads' \subseteq {ReadOf(m) : m \in Cachelines}
    BY <1>1 DEF FetchInv
  <2>5. phase # "closed" => Answers(l) = {}
    BY <2>3 DEF FetchInv, Answered
  <2>6. ASSUME phase # "closed", NEW m \in infetch
        PROVE  \E e \in Entries : Serves(m, e)'
    <3>1. PICK e \in Entries : Serves(m, e)
      BY <2>6 DEF FetchInv
    <3>2. m \in Cachelines
      BY DEF ShellTypeOK
    <3>3. Serves(m, e)'
      BY <1>1, <1>3, <2>1, <2>5, <2>6, <3>1, <3>2 DEF Serves
    <3> QED
      BY <3>3
  <2> HIDE DEF Issued, InFabric
  <2>7. ASSUME phase # "closed", NEW m \in Cachelines
        PROVE  /\ m \in infetch <=> Issued(m)' \/ InFabric(m)' \/ Answered(m)'
               /\ ~(Issued(m)' /\ InFabric(m)') /\ ~(Issued(m)' /\ Answered(m)')
               /\ ~(InFabric(m)' /\ Answered(m)')
               /\ (\A x, y \in Answers(m) : x = y)'
    <3>1. /\ m \in infetch <=> Issued(m) \/ InFabric(m) \/ Answered(m)
          /\ ~(Issued(m) /\ InFabric(m)) /\ ~(Issued(m) /\ Answered(m))
          /\ ~(InFabric(m) /\ Answered(m))
          /\ \A x, y \in Answers(m) : x = y
      BY <2>7 DEF FetchInv
    <3>2. (\A x, y \in Answers(m) : x = y)'
      BY <2>1, <2>5, <2>7, <3>1
    <3> QED
      BY <2>2, <2>3, <3>1, <3>2
  <2> QED
    BY <1>1, <2>4, <2>6, <2>7 DEF FetchInv
<1>11. PollInv'
  BY <1>1 DEF PollInv
<1>12. CountInv'
  BY <1>1, <1>4 DEF CountInv, Sound
<1> QED
  BY <1>5, <1>7, <1>8, <1>9, <1>10, <1>11, <1>12

LEMMA DeliverWriteKeeps ==
  ASSUME ShellInv, NEW w \in writes, DeliverWrite(w)
  PROVE  ShellInv'
<1> USE DEF ShellInv
<1>1. /\ writes' = writes \ {w}
      /\ waiting' = IF w.buffer = "result" THEN waiting \ {w.line} ELSE waiting
      /\ report' = IF w.buffer = "result" /\ w.line = MetaLine THEN w.data ELSE report
      /\ UNCHANGED <<phase, idWords, slot, polls, placed, asked, careless, shellVars,
                     coreVars, mmio, reads, responses>>
  BY DEF DeliverWrite
<1> USE DEF shellVars, coreVars
<1>2. BasesLeft' = BasesLeft /\ Wanted' = Wanted
  BY <1>1 DEF BasesLeft, Wanted, Unread
<1>3. ~Idle
  BY DEF Idle
<1>4. waiting' \subseteq waiting
  BY <1>1
<1>5. ShellTypeOK' /\ IsSeq(mmio')
  BY <1>1, <1>4 DEF ShellTypeOK
<1>6. DiscoverInv' /\ NamedInv'
  BY <1>1, <1>2, <1>3 DEF DiscoverInv, NamedInv, RequestsFrom
<1>7. ClosedInv'
  BY <1>1 DEF ClosedInv
<1>8. FetchInv'
  BY <1>1 DEF FetchInv, Serves, Answered, Answers
<1>9. CASE \E e \in Entries : w = ResultOf(e)
  <2>1. PICK e \in Entries : w = ResultOf(e)
    BY <1>9
  <2>2. w.buffer = "result" /\ w.line = e /\ e # MetaLine /\ ~IsReport(w)
    BY <2>1, Positions, ResultsApart DEF ResultOf
  <2>3. waiting' = waiting \ {e} /\ report' = report
    BY <1>1, <2>2
  <2>4. PlacesInv'
    <3>1. \A f \in Entries : /\ InCore(f)' <=> InCore(f)
                             /\ InPort(f)' <=> InPort(f)
                             /\ Asked(f)' <=> Asked(f)
                             /\ OnItsWay(f)' <=> OnItsWay(f) /\ f # e
      BY <1>1, <2>1, ResultsApart
    <3>2. OnItsWay(e)
      BY <2>1
    <3>3. \A f \in Entries : \A n, m \in DOMAIN mmio' :
            RequestAt(n, f)' /\ RequestAt(m, f)' => n = m
      BY <1>1 DEF PlacesInv
    <3> HIDE DEF InCore, InPort, Asked, OnItsWay, RequestAt
    <3> QED
      BY <1>1, <2>3, <3>1, <3>2, <3>3 DEF PlacesInv
  <2>5. PollInv'
    <3>1. ReportOnItsWay' <=> ReportOnItsWay
      BY <1>1, <2>2
    <3> QED
      BY <1>1, <1>2, <2>2, <2>3, <3>1 DEF PollInv
  <2>6. CountInv'
    BY <1>1, <1>2, <2>3 DEF CountInv, Sound
  <2> QED
    BY <1>5, <1>6, <1>7, <1>8, <2>4, <2>5, <2>6
<1>10. CASE IsReport(w)
  <2>1. w.buffer = "result" /\ w.line = MetaLine /\ w.data \in Reports
    BY <1>10 DEF IsReport, ReportWrites
  <2>2. waiting' = waiting /\ report' = w.data
    BY <1>1, <2>1, Positions DEF ShellTypeOK
  <2>3. PlacesInv'
    <3>1. \A f \in Entries : /\ InCore(f)' <=> InCore(f)
                             /\ InPort(f)' <=> InPort(f)
                             /\ Asked(f)' <=> Asked(f)
                             /\ OnItsWay(f)' <=> OnItsWay(f)
      BY <1>1, <1>10, ResultsApart
    <3>2. \A f \in Entries : \A n, m \in DOMAIN mmio' :
            RequestAt(n, f)' /\ RequestAt(m, f)' => n = m
      BY <1>1 DEF PlacesInv
    <3> HIDE DEF InCore, InPort, Asked, OnItsWay, RequestAt
    <3> QED
      BY <1>1, <2>2, <3>1, <3>2 DEF PlacesInv
  <2>4. ReportOnItsWay /\ phase = "poll"
    BY <1>10 DEF PollInv
  <2>5. ~ReportOnItsWay'
    BY <1>1, <1>10 DEF PollInv
  <2>6. (~careless => w.data.total = total_mem_req) /\ w.data # None
    BY <1>10, <2>1, NoneIsNoReport DEF PollInv
  <2>7. PollInv'
    BY <1>1, <1>2, <2>1, <2>2, <2>4, <2>5, <2>6 DEF PollInv
  <2>8. Sound(report)'
    BY <1>1, <1>10, <2>2 DEF CountInv, Sound
  <2>9. CountInv'
    BY <1>1, <1>2, <2>5, <2>8 DEF CountInv, Sound
  <2> QED
    BY <1>5, <1>6, <1>7, <1>8, <2>3, <2>7, <2>9
<1> QED
  BY <1>9, <1>10 DEF PollInv

-----------------------------------------------------------------------------
(* A clock: what arrives.                                                  *)

\* The entry that takes the request that arrives, and the cacheline whose
\* response arrives, if any.
Acc(rx) == {e \in Entries : Accepts(rx, e)}
Ans(rx) == {l \in Cachelines : mem_read_resp_valid(rx) /\ rx.tag = TagOf(l)}

\* The cacheline whose read is issued, if any.
Fetched == infetch' \ infetch

\* A clock, whatever the element executes.
Edge(rx) == \E executed \in Executable : Clock(rx, executed)

\* The oldest access arrives.
Taken(rx) ==
  /\ rx = mmio[1] /\ Len(mmio) >= 1 /\ Len(mmio') = Len(mmio) - 1
  /\ \A n \in 1..Len(mmio) - 1 : mmio'[n] = mmio[n + 1]

LEMMA AccessFacts ==
  ASSUME ShellInv, NEW rx \in Arrivals, Edge(rx)
  PROVE  /\ IsSeq(mmio') /\ Len(mmio) \in Nat /\ Len(mmio') \in Nat
         /\ DOMAIN mmio = 1..Len(mmio) /\ DOMAIN mmio' = 1..Len(mmio')
         /\ \/ rx.kind \in {"none", "response"} /\ mmio' = mmio
            \/ Taken(rx) /\ rx.kind \in {"read", "write"}
<1>1. IsSeq(mmio)
  BY DEF ShellInv
<1>2. phase # "closed" /\ mmio' = IF rx.kind \in {"read", "write"} THEN Tail(mmio) ELSE mmio
  BY DEF Edge, Clock
<1>3. CASE rx = NoArrival \/ \E r \in responses : rx = Answer(r)
  <2>1. rx.kind \in {"none", "response"}
    BY <1>3 DEF NoArrival, Answer
  <2>2. mmio' = mmio
    BY <1>2, <2>1
  <2> QED
    BY <1>1, <2>1, <2>2, SeqFacts
<1>4. CASE mmio # <<>> /\ rx = Head(mmio)
  <2>1. /\ IsSeq(Tail(mmio)) /\ Len(Tail(mmio)) = Len(mmio) - 1 /\ rx = mmio[1]
        /\ Len(mmio) >= 1 /\ \A n \in 1..Len(mmio) - 1 : Tail(mmio)[n] = mmio[n + 1]
    BY <1>1, <1>4, TailFacts
  <2>2. Len(mmio) \in Nat /\ DOMAIN mmio = 1..Len(mmio)
    BY <1>1, SeqFacts
  <2>3. rx.kind \in {"read", "write"}
    <3>1. CASE phase \in {"discover", "setup"}
      BY <2>1, <2>2, <3>1 DEF ShellInv, DiscoverInv
    <3>2. CASE phase \in {"run", "compute", "poll"}
      <4>1. CASE BasesLeft = 0
        <5>1. RequestsFrom(1)
          BY <3>2, <4>1 DEF ShellInv, NamedInv
        <5> QED
          BY <2>1, <2>2, <5>1 DEF RequestsFrom
      <4>2. CASE BasesLeft # 0
        BY <2>1, <3>2, <4>2 DEF ShellInv, NamedInv, BasesLeft, CsrWrite
      <4> QED
        BY <4>1, <4>2
    <3> QED
      BY <1>2, <3>1, <3>2 DEF ShellInv, ShellTypeOK
  <2>4. mmio' = Tail(mmio)
    BY <1>2, <2>3
  <2>5. DOMAIN Tail(mmio) = 1..Len(Tail(mmio)) /\ Len(Tail(mmio)) \in Nat
    BY <2>1, SeqFacts
  <2> QED
    BY <2>1, <2>2, <2>3, <2>4, <2>5 DEF Taken
<1> QED
  BY <1>3, <1>4 DEF Arrivals

\* Which access can be the oldest.
LEMMA OldestAccess ==
  ASSUME ShellInv, NEW rx, Taken(rx), Len(mmio) \in Nat, DOMAIN mmio = 1..Len(mmio),
         phase # "closed"
  PROVE  \/ phase \in {"discover", "setup"} /\ rx.kind = "read" /\ Len(mmio) = 1
         \/ /\ phase \in {"run", "compute", "poll"}
            /\ \/ BasesLeft = 2 /\ rx = CsrWrite(0, "req")
               \/ BasesLeft = 1 /\ rx = CsrWrite(2, "result")
               \/ BasesLeft = 0 /\ Writes(rx, 4) /\ rx \in RequestAccess
               \/ BasesLeft = 0 /\ rx = PollAccess /\ Writes(rx, 6) /\ Len(mmio) = 1
<1>1. 1 \in DOMAIN mmio /\ rx = mmio[1]
  BY DEF Taken
<1>2. CASE phase \in {"discover", "setup"}
  BY <1>1, <1>2 DEF ShellInv, DiscoverInv, Taken
<1>3. CASE phase \in {"run", "compute", "poll"}
  <2>1. BasesLeft \in {0, 1, 2}
    BY DEF BasesLeft
  <2>2. CASE BasesLeft = 0
    <3>1. RequestsFrom(1)
      BY <1>3, <2>2 DEF ShellInv, NamedInv
    <3> QED
      BY <1>1, <1>3, <2>2, <3>1 DEF RequestsFrom
  <2>3. CASE BasesLeft = 1
    BY <1>1, <1>3, <2>3 DEF ShellInv, NamedInv
  <2>4. CASE BasesLeft = 2
    BY <1>1, <1>3, <2>4 DEF ShellInv, NamedInv
  <2> QED
    BY <2>1, <2>2, <2>3, <2>4
<1> QED
  BY <1>2, <1>3 DEF ShellInv, ShellTypeOK

LEMMA AnswerFacts ==
  ASSUME ShellInv, NEW rx \in Arrivals, Edge(rx)
  PROVE  /\ Ans(rx) \subseteq Cachelines
         /\ \A l \in Ans(rx) : Answered(l) /\ \A r \in Answers(l) : r.found = rx.found
         /\ \A l, m \in Ans(rx) : l = m
         /\ Ans(rx) # {} <=> mem_read_resp_valid(rx)
         /\ mem_read_resp_valid(rx) => rx.kind = "response"
         /\ responses' \subseteq responses
         /\ \A l \in Cachelines : Answers(l)' = IF l \in Ans(rx) THEN {} ELSE Answers(l)
<1>1. responses' = {r \in responses : rx # Answer(r)} /\ phase # "closed"
  BY DEF Edge, Clock
<1>2. responses \subseteq Response
  BY DEF ShellInv, ShellTypeOK
<1>3. Ans(rx) \subseteq Cachelines /\ responses' \subseteq responses
      /\ (mem_read_resp_valid(rx) => rx.kind = "response")
  BY <1>1 DEF Ans, mem_read_resp_valid
<1>4. \A l \in Cachelines : \A r, q \in Answers(l) : r = q
  BY <1>1 DEF ShellInv, FetchInv
<1>5. ASSUME NEW t \in responses, rx = Answer(t)
      PROVE  /\ \A l \in Ans(rx) : Answered(l) /\ \A r \in Answers(l) : r.found = rx.found
             /\ \A l, m \in Ans(rx) : l = m
             /\ Ans(rx) # {} <=> mem_read_resp_valid(rx)
             /\ \A l \in Cachelines : Answers(l)' = IF l \in Ans(rx) THEN {} ELSE Answers(l)
  <2>1. PICK l \in Cachelines : t.tag = TagOf(l)
    BY <1>2 DEF Response
  <2>2. mem_read_resp_valid(rx) /\ rx.tag = TagOf(l) /\ rx.found = t.found
    BY <1>5, <2>1 DEF mem_read_resp_valid, Answer
  <2>3. Ans(rx) = {l}
    BY <2>2, TagsApart DEF Ans
  <2>4. Answers(l) = {t}
    BY <1>4, <2>1 DEF Answers
  <2>5. \A r \in responses : rx = Answer(r) <=> r = t
    <3> TAKE r \in responses
    <3>1. rx = Answer(r) => r.tag = TagOf(l)
      BY <2>2 DEF Answer
    <3>2. r.tag = TagOf(l) => r = t
      BY <2>4 DEF Answers
    <3> QED
      BY <1>5, <3>1, <3>2
  <2>6. responses' = responses \ {t}
    BY <1>1, <2>5
  <2>7. \A m \in Cachelines : Answers(m)' = IF m = l THEN {} ELSE Answers(m)
    BY <2>1, <2>4, <2>6, TagsApart DEF Answers
  <2> QED
    BY <2>2, <2>3, <2>4, <2>7 DEF Answered
<1>6. CASE ~ \E r \in responses : rx = Answer(r)
  <2>1. ~mem_read_resp_valid(rx)
    <3>2. rx = NoArrival => rx.kind = "none"
      BY DEF NoArrival
    <3>3. mmio # <<>> /\ rx = Head(mmio) => rx.kind # "response"
      <4>1. ASSUME mmio # <<>>, rx = Head(mmio), rx.kind = "response"
            PROVE  FALSE
        <5>1. IsSeq(mmio)
          BY DEF ShellInv
        <5>2. rx = mmio[1] /\ Len(mmio) \in Nat /\ Len(mmio) >= 1 /\ DOMAIN mmio = 1..Len(mmio)
          BY <4>1, <5>1, TailFacts, SeqFacts
        <5>4. CASE phase \in {"discover", "setup"}
          BY <4>1, <5>2, <5>4 DEF ShellInv, DiscoverInv
        <5>5. CASE phase \in {"run", "compute", "poll"} /\ BasesLeft = 0
          <6>1. RequestsFrom(1)
            BY <5>5 DEF ShellInv, NamedInv
          <6> QED
            BY <4>1, <5>2, <6>1 DEF RequestsFrom
        <5>6. CASE phase \in {"run", "compute", "poll"} /\ BasesLeft # 0
          BY <4>1, <5>2, <5>6 DEF ShellInv, NamedInv, BasesLeft, CsrWrite
        <5> QED
          BY <1>1, <5>4, <5>5, <5>6 DEF ShellInv, ShellTypeOK
      <4> QED
        BY <4>1
    <3> QED
      BY <1>6, <3>2, <3>3 DEF Arrivals, mem_read_resp_valid
  <2>2. Ans(rx) = {}
    BY <2>1 DEF Ans
  <2>3. responses' = responses
    BY <1>1, <1>6
  <2> QED
    BY <2>1, <2>2, <2>3 DEF Answers
<1> QED
  BY <1>3, <1>5, <1>6

LEMMA RequestArrives ==
  ASSUME ShellInv, NEW rx \in Arrivals, Edge(rx), Writes(rx, 4)
  PROVE  /\ Taken(rx) /\ phase \in {"run", "compute", "poll"} /\ BasesLeft = 0
         /\ rx.data \in Requests
         /\ RequestAt(1, rx.data.wr_addr) /\ Acc(rx) = {rx.data.wr_addr}
         /\ entry[rx.data.wr_addr] = "free" /\ Ans(rx) = {}
<1>1. Taken(rx) /\ Len(mmio) \in Nat /\ DOMAIN mmio = 1..Len(mmio)
  BY AccessFacts
<1>2. phase # "closed"
  BY DEF Edge, Clock
<1>3. phase \in {"run", "compute", "poll"} /\ BasesLeft = 0 /\ rx \in RequestAccess
  BY <1>1, <1>2, OldestAccess DEF CsrWrite, PollAccess
<1>4. rx.data \in Requests /\ rx.data.wr_addr \in Entries
  BY <1>3 DEF RequestAccess, CsrWrite, Requests
<1>5. RequestAt(1, rx.data.wr_addr)
  BY <1>1 DEF Taken
<1>6. entry[rx.data.wr_addr] = "free"
  BY <1>4, <1>5 DEF ShellInv, PlacesInv
<1>7. Acc(rx) = {rx.data.wr_addr}
  BY <1>4, <1>6 DEF Acc, Accepts
<1>8. Ans(rx) = {}
  BY DEF Ans, mem_read_resp_valid
<1> QED
  BY <1>1, <1>3, <1>4, <1>5, <1>6, <1>7, <1>8

LEMMA NoRequestArrives ==
  ASSUME NEW rx, ~Writes(rx, 4)
  PROVE  Acc(rx) = {}
BY DEF Acc, Accepts

\* The accesses that stay.
LEMMA AskedNext ==
  ASSUME ShellInv, NEW rx \in Arrivals, Edge(rx)
  PROVE  /\ \A e \in Entries : Asked(e)' <=> Asked(e) /\ e \notin Acc(rx)
         /\ \A e \in Acc(rx) : Asked(e)
         /\ \A e \in Entries : \A n, m \in DOMAIN mmio' :
              RequestAt(n, e)' /\ RequestAt(m, e)' => n = m
         /\ PollUnderWay' <=> PollUnderWay /\ ~Writes(rx, 6)
<1>1. /\ Len(mmio) \in Nat /\ Len(mmio') \in Nat
      /\ DOMAIN mmio = 1..Len(mmio) /\ DOMAIN mmio' = 1..Len(mmio')
      /\ \/ rx.kind \in {"none", "response"} /\ mmio' = mmio
         \/ Taken(rx) /\ rx.kind \in {"read", "write"}
  BY AccessFacts
<1>2. \A e \in Entries : \A n, m \in DOMAIN mmio :
         RequestAt(n, e) /\ RequestAt(m, e) => n = m
  BY DEF ShellInv, PlacesInv
<1>3. CASE rx.kind \in {"none", "response"} /\ mmio' = mmio
  <2>1. Acc(rx) = {} /\ ~Writes(rx, 6)
    BY <1>3, NoRequestArrives
  <2> QED
    BY <1>2, <1>3, <2>1
<1>4. CASE Taken(rx)
  <2>1. \A e \in Entries : \A n \in DOMAIN mmio' :
          n + 1 \in DOMAIN mmio /\ (RequestAt(n, e)' <=> RequestAt(n + 1, e))
    BY <1>1, <1>4 DEF Taken
  <2>2. \A e \in Entries : \A n \in DOMAIN mmio :
          n # 1 => n - 1 \in DOMAIN mmio' /\ (RequestAt(n - 1, e)' <=> RequestAt(n, e))
    BY <1>1, <1>4 DEF Taken
  <2>3. 1 \in DOMAIN mmio /\ DOMAIN mmio \subseteq Nat /\ DOMAIN mmio' \subseteq Nat
    BY <1>1, <1>4 DEF Taken
  <2>4. \A e \in Entries : RequestAt(1, e) <=> e \in Acc(rx)
    <3>1. CASE Writes(rx, 4)
      <4>1. Acc(rx) = {rx.data.wr_addr} /\ rx = mmio[1]
        BY <3>1, RequestArrives DEF Taken
      <4> QED
        BY <2>3, <3>1, <4>1
    <3>2. CASE ~Writes(rx, 4)
      BY <1>4, <3>2, NoRequestArrives DEF Taken
    <3> QED
      BY <3>1, <3>2
  <2>5. PollUnderWay' <=> PollUnderWay /\ ~Writes(rx, 6)
    <3>1. \A n \in DOMAIN mmio' : mmio'[n] = mmio[n + 1] /\ n + 1 \in DOMAIN mmio
      BY <1>1, <1>4 DEF Taken
    <3>2. \A n \in DOMAIN mmio : n # 1 => n - 1 \in DOMAIN mmio' /\ mmio'[n - 1] = mmio[n]
      BY <1>1, <1>4 DEF Taken
    <3>3. rx = mmio[1]
      BY <1>4 DEF Taken
    <3>4. PollUnderWay /\ Writes(rx, 6) => Len(mmio) = 1
      <4>1. phase # "closed"
        BY DEF Edge, Clock
      <4> QED
        BY <1>1, <1>4, <4>1, OldestAccess DEF CsrWrite, RequestAccess
    <3>5. Len(mmio) = 1 => DOMAIN mmio' = {}
      BY <1>1, <1>4 DEF Taken
    <3>6. PollUnderWay' => PollUnderWay /\ ~Writes(rx, 6)
      BY <2>3, <3>1, <3>3, <3>4, <3>5
    <3>7. PollUnderWay /\ ~Writes(rx, 6) => PollUnderWay'
      BY <2>3, <3>2, <3>3
    <3> QED
      BY <3>6, <3>7
  <2>6. \A e \in Entries : Asked(e)' <=> Asked(e) /\ e \notin Acc(rx)
    <3> TAKE e \in Entries
    <3>1. Asked(e)' => Asked(e) /\ e \notin Acc(rx)
      <4>1. ASSUME NEW n \in DOMAIN mmio', RequestAt(n, e)'
            PROVE  Asked(e) /\ ~RequestAt(1, e)
        <5>1. n + 1 \in DOMAIN mmio /\ RequestAt(n + 1, e)
          BY <2>1, <4>1
        <5>2. n + 1 # 1
          BY <1>1
        <5>3. ~RequestAt(1, e)
          BY <1>2, <2>3, <5>1, <5>2
        <5> QED
          BY <5>1, <5>3
      <4> QED
        BY <2>4, <4>1
    <3>2. Asked(e) /\ e \notin Acc(rx) => Asked(e)'
      BY <2>2, <2>4
    <3> QED
      BY <3>1, <3>2
  <2>7. \A e \in Acc(rx) : Asked(e)
    BY <2>3, <2>4 DEF Acc
  <2>8. ASSUME NEW e \in Entries, NEW n \in DOMAIN mmio', NEW m \in DOMAIN mmio',
               RequestAt(n, e)', RequestAt(m, e)'
        PROVE  n = m
    <3>1. RequestAt(n + 1, e) /\ RequestAt(m + 1, e) /\ n + 1 \in DOMAIN mmio /\ m + 1 \in DOMAIN mmio
      BY <2>1, <2>8
    <3>2. n + 1 = m + 1
      BY <1>2, <3>1
    <3> QED
      BY <2>3, <3>2
  <2> QED
    BY <2>5, <2>6, <2>7, <2>8
<1> QED
  BY <1>1, <1>3, <1>4

-----------------------------------------------------------------------------
(* A clock: the core, the reads and the writes.                            *)

\* What is not idle has both base addresses.
LEMMA Working ==
  ASSUME ShellInv, phase # "closed", ~Idle
  PROVE  /\ phase \in {"run", "compute", "poll"} /\ BasesLeft = 0
         /\ req_base_address = "req" /\ resp_base_address = "result"
BY DEF ShellInv, ShellTypeOK, DiscoverInv, NamedInv, BasesLeft

LEMMA FetchableFacts ==
  ASSUME ShellInv
  PROVE  /\ Fetchable \subseteq Cachelines /\ Fetchable \cap infetch = {}
         /\ \A l \in Fetchable : \E e \in Entries : l \in need[e]
         /\ (\A e \in Entries : entry[e] = "free") => Fetchable = {}
         /\ Fetchable # {} => ~Idle
         /\ infetch \subseteq Cachelines
<1>1. \A e \in Entries : need[e] \subseteq Cachelines
  BY DEF ShellInv, ShellTypeOK
<1>2. \A e \in Entries : need[e] # {} => entry[e] = "waits"
  BY DEF ShellInv, FetchInv
<1>3. \A l : l \in Fetchable <=> l \notin infetch /\ \E e \in Entries : l \in need[e]
  BY DEF Fetchable, Awaited
<1>4. infetch \subseteq Cachelines
  BY DEF ShellInv, ShellTypeOK
<1> QED
  BY <1>1, <1>2, <1>3, <1>4 DEF Idle

LEMMA Fetches ==
  ASSUME ShellInv, NEW rx \in Arrivals, Edge(rx)
  PROVE  /\ infetch' = (infetch \ Ans(rx)) \cup Fetched
         /\ Fetched \subseteq Fetchable /\ \A l, m \in Fetched : l = m
         /\ c0' = None \/ \E l \in Cachelines : c0' = ReadOf(l)
         /\ \A l \in Cachelines : c0' = ReadOf(l) <=> l \in Fetched
         /\ total_mem_req' = total_mem_req + IF Fetched = {} THEN 0 ELSE 1
         /\ perf_cycle_cnt' = [i \in Cachelines |-> NextCount(rx, Fetched, i)]
<1>1. PICK fetched \in IF Fetchable = {} THEN {{}} ELSE {{l} : l \in Fetchable} :
        /\ infetch' = NextInfetch(rx, fetched) /\ c0' = NextC0(fetched)
        /\ total_mem_req' = NextTotal(fetched)
        /\ perf_cycle_cnt' = [i \in Cachelines |-> NextCount(rx, fetched, i)]
  BY DEF Edge, Clock, CoreClock
<1>2. phase # "closed"
  BY DEF Edge, Clock
<1>3. infetch' = (infetch \ Ans(rx)) \cup fetched
  <2>1. \A l \in infetch : mem_read_resp_valid(rx) /\ rx.tag = TagOf(l) <=> l \in Ans(rx)
    BY FetchableFacts DEF Ans
  <2> QED
    BY <1>1, <2>1 DEF NextInfetch, Unset
<1>4. fetched \subseteq Fetchable /\ \A l, m \in fetched : l = m
  BY <1>1
<1>5. fetched = Fetched
  BY <1>3, <1>4, FetchableFacts DEF Fetched
<1>6. CASE fetched = {}
  <2>1. c0' = None
    BY <1>1, <1>6 DEF NextC0
  <2> QED
    BY <1>1, <1>3, <1>4, <1>5, <1>6, <2>1, ReadsApart DEF NextTotal
<1>7. ASSUME NEW k \in fetched
      PROVE  c0' = ReadOf(k) /\ k \in Cachelines /\ fetched = {k}
  <2>1. req_base_address = "req" /\ k \in Cachelines
    BY <1>2, <1>4, <1>7, Working, FetchableFacts
  <2>2. fetched = {k}
    BY <1>4, <1>7
  <2>3. (CHOOSE l \in {k} : TRUE) = k
    OBVIOUS
  <2>4. (CHOOSE l \in fetched : TRUE) = k /\ fetched # {}
    BY <2>2, <2>3
  <2> QED
    BY <1>1, <2>1, <2>2, <2>4 DEF NextC0, ReadOf
<1>8. CASE fetched # {}
  <2>1. PICK k : k \in fetched
    BY <1>8
  <2>2. c0' = ReadOf(k) /\ k \in Cachelines /\ fetched = {k}
    BY <1>7, <2>1
  <2>3. total_mem_req' = total_mem_req + 1
    BY <1>1, <1>8 DEF NextTotal
  <2>4. \A l \in Cachelines : c0' = ReadOf(l) <=> l \in fetched
    BY <2>2, ReadsApart
  <2> HIDE DEF Fetched
  <2> QED
    BY <1>1, <1>3, <1>4, <1>5, <1>8, <2>2, <2>3, <2>4
<1> QED
  BY <1>6, <1>8

LEMMA CoreEffects ==
  ASSUME ShellInv, NEW rx \in Arrivals, Edge(rx)
  PROVE  /\ entry' \in [Entries -> {"free", "waits", "done"}]
         /\ \A e \in Acc(rx) : entry'[e] = "waits"
         /\ \A e \in Entries : e \notin Acc(rx) =>
              \/ entry'[e] = entry[e] /\ ~(e = wbCntr /\ entry[e] = "done")
              \/ entry'[e] = "free" /\ e = wbCntr /\ entry[e] = "done"
              \/ entry'[e] = "done" /\ entry[e] = "waits" /\ need[e] = {}
         /\ need' = [e \in Entries |->
              IF e \in Acc(rx) THEN rx.data.lines ELSE need[e] \ Filled(rx, e)]
         /\ wbCntr' = NextWbCntr
<1>1. PICK executed \in Executable : Clock(rx, executed)
  BY DEF Edge
<1>2. \A e \in executed : e \in Entries /\ entry[e] = "waits" /\ need[e] = {}
  BY <1>1 DEF Executable, Ready
<1>3. \A e \in Entries : Accepts(rx, e) <=> e \in Acc(rx)
  BY DEF Acc
<1>4. /\ entry' = [e \in Entries |->
            IF Accepts(rx, e) THEN "waits"
            ELSE IF e = wbCntr /\ WriteValid THEN "free"
            ELSE IF e \in executed THEN "done" ELSE entry[e]]
      /\ need' = [e \in Entries |->
            IF Accepts(rx, e) THEN rx.data.lines ELSE need[e] \ Filled(rx, e)]
      /\ wbCntr' = NextWbCntr
  BY <1>1 DEF Clock, CoreClock
<1>5. entry \in [Entries -> {"free", "waits", "done"}] /\ wbCntr \in Entries
  BY DEF ShellInv, ShellTypeOK
<1>6. need' = [e \in Entries |->
                 IF e \in Acc(rx) THEN rx.data.lines ELSE need[e] \ Filled(rx, e)]
  BY <1>3, <1>4
<1>7. \A e \in Acc(rx) : e \in Entries
  BY DEF Acc
<1> HIDE DEF Acc, Accepts
<1>8. /\ entry' \in [Entries -> {"free", "waits", "done"}]
      /\ \A e \in Acc(rx) : entry'[e] = "waits"
      /\ \A e \in Entries : e \notin Acc(rx) =>
           \/ entry'[e] = entry[e] /\ ~(e = wbCntr /\ entry[e] = "done")
           \/ entry'[e] = "free" /\ e = wbCntr /\ entry[e] = "done"
           \/ entry'[e] = "done" /\ entry[e] = "waits" /\ need[e] = {}
  BY <1>2, <1>3, <1>4, <1>5, <1>7 DEF WriteValid
<1> QED
  BY <1>4, <1>6, <1>8

\* A response fills an operand, and only operands of its cacheline.
LEMMA FillFacts ==
  ASSUME ShellInv, NEW rx \in Arrivals, Edge(rx)
  PROVE  /\ \A e \in Entries : Filled(rx, e) \subseteq need[e] \cap Ans(rx)
         /\ \A l \in Ans(rx) : \E e \in Entries : l \in Filled(rx, e)
<1>1. \A e \in Entries : need[e] \subseteq Cachelines
  BY DEF ShellInv, ShellTypeOK
<1>2. ASSUME NEW l \in Ans(rx)
      PROVE  \E e \in Entries : l \in Filled(rx, e)
  <2>1. Answered(l) /\ l \in Cachelines /\ \A r \in Answers(l) : r.found = rx.found
    BY <1>2, AnswerFacts
  <2>2. phase # "closed"
    BY DEF Edge, Clock
  <2>3. l \in infetch
    BY <2>1, <2>2 DEF ShellInv, FetchInv
  <2>4. PICK e \in Entries : Serves(l, e)
    BY <2>2, <2>3 DEF ShellInv, FetchInv
  <2>5. l \in need[e] /\ e \in rx.found
    BY <2>1, <2>4 DEF Serves, Answered
  <2> QED
    BY <1>2, <2>5 DEF Filled, Ans
<1> QED
  BY <1>1, <1>2 DEF Filled, Ans

LEMMA WriteEffects ==
  ASSUME ShellInv, NEW rx \in Arrivals, Edge(rx)
  PROVE  /\ writes' = IF c1 = None THEN writes ELSE writes \cup {c1}
         /\ reads' = IF c0 = None THEN reads ELSE reads \cup {c0}
         /\ ~read_meta_data /\ entry[wbCntr] = "done" => c1' = ResultOf(wbCntr)
         /\ ~read_meta_data /\ entry[wbCntr] # "done" => c1' = None
         /\ read_meta_data => \E array \in {perf_cycle_array, perf_cycle_array'} :
              c1' = [buffer |-> "result", line |-> MetaLine,
                     data |-> [kind |-> "report", total |-> total_mem_req,
                               array |-> array]]
<1>1. PICK array \in {perf_cycle_array, perf_cycle_array'} : c1' = NextC1(array)
  BY DEF Edge, Clock
<1>2. phase # "closed" /\ wbCntr \in Entries
  BY DEF Edge, Clock, ShellInv, ShellTypeOK
<1>3. entry[wbCntr] = "done" => resp_base_address = "result"
  BY <1>2, Working DEF Idle
<1>4. read_meta_data => resp_base_address = "result" /\ meta_data_offset = MetaLine
  BY DEF ShellInv, PollInv
<1>5. /\ writes' = IF c1 = None THEN writes ELSE writes \cup {c1}
      /\ reads' = IF c0 = None THEN reads ELSE reads \cup {c0}
  BY DEF Edge, Clock
<1> QED
  BY <1>1, <1>3, <1>4, <1>5 DEF NextC1, MetaWrite, ResultWrite, WriteValid, ResultOf

LEMMA AnsweredAreUnderWay ==
  ASSUME ShellInv, NEW rx \in Arrivals, Edge(rx)
  PROVE  Ans(rx) \subseteq infetch
<1>1. phase # "closed" /\ Ans(rx) \subseteq Cachelines
  BY DEF Edge, Clock, Ans
<1>2. \A l \in Ans(rx) : l \in infetch
  BY <1>1, AnswerFacts DEF ShellInv, FetchInv
<1> QED
  BY <1>2

LEMMA ServedNext ==
  ASSUME ShellInv, NEW rx \in Arrivals, Edge(rx)
  PROVE  /\ \A e \in Entries : need'[e] # {} => entry'[e] = "waits"
         /\ \A l \in infetch' : \E e \in Entries : Serves(l, e)'
<1>1. phase # "closed"
  BY DEF Edge, Clock
<1>2. \A e \in Entries : need[e] # {} => entry[e] = "waits" /\ e \notin Acc(rx)
  BY DEF ShellInv, FetchInv, Acc, Accepts
<1>3. \A e \in Entries : need'[e] # {} => entry'[e] = "waits"
  <2> TAKE e \in Entries
  <2>1. CASE e \in Acc(rx)
    BY <2>1, CoreEffects
  <2>2. CASE e \notin Acc(rx)
    <3>1. need'[e] # {} => need[e] # {}
      BY <2>2, CoreEffects
    <3> QED
      BY <1>2, <2>2, <3>1, CoreEffects
  <2> QED
    BY <2>1, <2>2
<1>4. ASSUME NEW e \in Entries, NEW l \in need[e], l \notin Ans(rx)
      PROVE  l \in need'[e]
  BY <1>2, <1>4, CoreEffects, FillFacts
<1>5. ASSUME NEW l \in infetch'
      PROVE  \E e \in Entries : Serves(l, e)'
  <2>1. CASE l \in Fetched
    <3>1. l \in Fetchable /\ l \notin infetch /\ l \in Cachelines
      BY <2>1, Fetches, FetchableFacts
    <3>2. PICK e \in Entries : l \in need[e]
      BY <3>1, FetchableFacts
    <3>3. l \notin Ans(rx)
      BY <3>1, AnsweredAreUnderWay
    <3>4. Answers(l) = {}
      BY <1>1, <3>1 DEF ShellInv, FetchInv, Answered
    <3>5. Answers(l)' = {}
      BY <3>1, <3>3, <3>4, AnswerFacts
    <3> QED
      BY <1>4, <3>2, <3>3, <3>5 DEF Serves
  <2>2. CASE l \notin Fetched
    <3>1. l \in infetch /\ l \notin Ans(rx) /\ l \in Cachelines
      BY <1>5, <2>2, Fetches, FetchableFacts
    <3>2. PICK e \in Entries : Serves(l, e)
      BY <1>1, <3>1 DEF ShellInv, FetchInv
    <3>3. Answers(l)' = Answers(l)
      BY <3>1, AnswerFacts
    <3> QED
      BY <1>4, <3>1, <3>2, <3>3 DEF Serves
  <2> QED
    BY <2>1, <2>2
<1> QED
  BY <1>3, <1>5

LEMMA ClockTypes ==
  ASSUME ShellInv, NEW rx \in Arrivals, Edge(rx)
  PROVE  ShellTypeOK'
<1> USE DEF ShellInv
<1>1. ShellTypeOK
  OBVIOUS
<1>2. phase' \in {"discover", "setup", "run", "compute", "poll", "closed"}
  BY DEF ShellTypeOK, Edge, Clock
<1>3. UNCHANGED <<waiting, slot, placed, asked>> /\ responses' \subseteq responses
  BY AnswerFacts DEF Edge, Clock
<1>4. wbCntr' \in Entries
  BY CoreEffects, Positions DEF ShellTypeOK, NextWbCntr
<1>5. entry' \in [Entries -> {"free", "waits", "done"}]
  BY CoreEffects
<1>6. need' \in [Entries -> SUBSET Cachelines]
  <2>1. Acc(rx) # {} => rx.data.lines \subseteq Cachelines
    <3>1. Acc(rx) # {} => Writes(rx, 4)
      BY NoRequestArrives
    <3> QED
      BY <3>1, RequestArrives DEF Requests, LineSets
  <2> QED
    BY <2>1, CoreEffects DEF ShellTypeOK
<1>7. infetch' \subseteq Cachelines
  BY Fetches, FetchableFacts
<1>8. perf_cycle_cnt' \in [Cachelines -> 0 .. CountBound]
  BY <1>1, Fetches, Positions DEF ShellTypeOK, NextCount
<1>9. perf_cycle_array' \in [Buckets -> Nat]
  BY <1>1 DEF ShellTypeOK, Edge, Clock, NextArray
<1>10. total_mem_req' \in Nat
  BY <1>1, Fetches DEF ShellTypeOK
<1>11. read_meta_data' \in BOOLEAN
  BY DEF Edge, Clock, ControlRegisters, NextReadMetaData
<1>12. Len(mmio') <= MaxCsr
  BY <1>1, AccessFacts, ShellAssumption DEF ShellTypeOK, Taken
<1> HIDE DEF ShellInv
<1> QED
  BY <1>1, <1>2, <1>3, <1>4, <1>5, <1>6, <1>7, <1>8, <1>9, <1>10, <1>11, <1>12 DEF ShellTypeOK

LEMMA ClockReads ==
  ASSUME ShellInv, NEW rx \in Arrivals, Edge(rx)
  PROVE  FetchInv'
<1>1. FetchInv /\ phase # "closed"
  BY DEF ShellInv, Edge, Clock
<1>2. /\ infetch' = (infetch \ Ans(rx)) \cup Fetched /\ Fetched \cap infetch = {}
      /\ c0' = None \/ \E l \in Cachelines : c0' = ReadOf(l)
      /\ \A l \in Cachelines : c0' = ReadOf(l) <=> l \in Fetched
  BY Fetches, FetchableFacts
<1>3. \A l \in Cachelines : Answers(l)' = IF l \in Ans(rx) THEN {} ELSE Answers(l)
  BY AnswerFacts
<1>4. reads' = IF c0 = None THEN reads ELSE reads \cup {c0}
  BY WriteEffects
<1>5. ASSUME NEW l \in Cachelines
      PROVE  /\ Issued(l)' <=> l \in Fetched
             /\ InFabric(l)' <=> InFabric(l) \/ Issued(l)
             /\ Answered(l)' <=> Answered(l) /\ l \notin Ans(rx)
             /\ (\A r, q \in Answers(l) : r = q)'
  <2>1. Issued(l)' <=> l \in Fetched
    BY <1>2
  <2>2. InFabric(l)' <=> InFabric(l) \/ Issued(l)
    BY <1>4, ReadsApart
  <2>3. Answered(l)' <=> Answered(l) /\ l \notin Ans(rx)
    BY <1>3 DEF Answered
  <2>4. (\A r, q \in Answers(l) : r = q)'
    BY <1>1, <1>3 DEF FetchInv
  <2> QED
    BY <2>1, <2>2, <2>3, <2>4
<1>6. /\ reads' \subseteq {ReadOf(l) : l \in Cachelines}
      /\ c0' = None \/ c0' \in {ReadOf(l) : l \in Cachelines}
  BY <1>1, <1>2, <1>4 DEF FetchInv
<1>7. /\ \A e \in Entries : need'[e] # {} => entry'[e] = "waits"
      /\ \A l \in infetch' : \E e \in Entries : Serves(l, e)'
  BY ServedNext
<1>8. Ans(rx) \subseteq infetch /\ \A l \in Ans(rx) : Answered(l)
  BY AnsweredAreUnderWay, AnswerFacts
<1> HIDE DEF Issued, InFabric, Fetched
<1>9. ASSUME NEW l \in Cachelines
      PROVE  /\ l \in infetch' <=> Issued(l)' \/ InFabric(l)' \/ Answered(l)'
             /\ ~(Issued(l)' /\ InFabric(l)') /\ ~(Issued(l)' /\ Answered(l)')
             /\ ~(InFabric(l)' /\ Answered(l)')
  <2>1. /\ l \in infetch <=> Issued(l) \/ InFabric(l) \/ Answered(l)
        /\ ~(Issued(l) /\ InFabric(l)) /\ ~(Issued(l) /\ Answered(l))
        /\ ~(InFabric(l) /\ Answered(l))
    BY <1>1 DEF FetchInv
  <2>2. l \in Fetched => l \notin infetch
    BY <1>2
  <2>3. l \in Ans(rx) => Answered(l)
    BY <1>8
  <2> QED
    BY <1>2, <1>5, <1>8, <2>1, <2>2, <2>3
<1> QED
  BY <1>5, <1>6, <1>7, <1>9 DEF FetchInv

LEMMA ClockRequests ==
  ASSUME ShellInv, NEW rx \in Arrivals, Edge(rx)
  PROVE  PlacesInv'
<1>1. PlacesInv /\ wbCntr \in Entries /\ entry \in [Entries -> {"free", "waits", "done"}]
  BY DEF ShellInv, ShellTypeOK
<1>2. waiting' = waiting /\ careless' = careless
  BY DEF Edge, Clock
<1>3. \A e \in Entries : InCore(e)' <=> e \in Acc(rx) \/ (InCore(e) /\ ~(e = wbCntr /\ entry[e] = "done"))
  BY <1>1, CoreEffects DEF Acc, Accepts
<1>4. \A e \in Entries : InPort(e)' <=> e = wbCntr /\ entry[e] = "done" /\ ~read_meta_data
  <2>1. CASE read_meta_data
    <3>1. c1'.data.kind = "report"
      BY <2>1, WriteEffects
    <3>2. \A e \in Entries : c1' # ResultOf(e)
      BY <3>1 DEF ResultOf
    <3> QED
      BY <2>1, <3>2
  <2>2. CASE ~read_meta_data
    BY <1>1, <2>2, WriteEffects, ResultsApart
  <2> QED
    BY <2>1, <2>2
<1>5. \A e \in Entries : OnItsWay(e)' <=> OnItsWay(e) \/ InPort(e)
  BY WriteEffects, ResultsApart
<1>6. /\ \A e \in Entries : Asked(e)' <=> Asked(e) /\ e \notin Acc(rx)
      /\ \A e \in Acc(rx) : Asked(e)
      /\ \A e \in Entries : \A n, m \in DOMAIN mmio' :
           RequestAt(n, e)' /\ RequestAt(m, e)' => n = m
  BY AskedNext
<1>7. read_meta_data /\ entry[wbCntr] = "done" => careless
  <2>1. InCore(wbCntr) => waiting # {}
    BY <1>1 DEF PlacesInv
  <2> QED
    BY <2>1 DEF ShellInv, PollInv
<1>8. \A e \in Acc(rx) : ~InCore(e)
  BY DEF Acc, Accepts
<1>9. \A e \in Entries : entry[e] = "done" => InCore(e)
  OBVIOUS
<1> HIDE DEF Asked, InCore, InPort, OnItsWay, RequestAt
<1>10. ASSUME NEW e \in Entries
       PROVE  /\ Asked(e)' => ~InCore(e)' /\ ~InPort(e)' /\ ~OnItsWay(e)'
              /\ InCore(e)' => ~InPort(e)' /\ ~OnItsWay(e)'
              /\ InPort(e)' => ~OnItsWay(e)'
              /\ Asked(e)' \/ InCore(e)' \/ InPort(e)' \/ OnItsWay(e)' => e \in waiting
              /\ e \in waiting /\ ~careless => Asked(e)' \/ InCore(e)' \/ InPort(e)' \/ OnItsWay(e)'
  BY <1>1, <1>3, <1>4, <1>5, <1>6, <1>7, <1>8, <1>9 DEF PlacesInv
<1> QED
  BY <1>2, <1>6, <1>10 DEF PlacesInv

LEMMA IdleStays ==
  ASSUME ShellInv, Idle, NEW rx \in Arrivals, Edge(rx), ~Writes(rx, 4), ~Writes(rx, 6)
  PROVE  Idle'
<1>1. Acc(rx) = {} /\ Fetched = {} /\ wbCntr \in Entries
  BY NoRequestArrives, Fetches, FetchableFacts DEF Idle, ShellInv, ShellTypeOK
<1>2. Ans(rx) = {} /\ responses' = {}
  BY AnswerFacts DEF Idle, Answered, Answers
<1>3. \A e \in Entries : entry'[e] = "free"
  BY <1>1, CoreEffects DEF Idle
<1>4. infetch' = {} /\ total_mem_req' = 0
  BY <1>1, <1>2, Fetches DEF Idle
<1>5. c0' = None
  BY <1>1, Fetches
<1>6. c1' = None /\ writes' = {} /\ reads' = {}
  BY <1>1, WriteEffects DEF Idle
<1>7. ~read_meta_data'
  BY DEF Edge, Clock, ControlRegisters, NextReadMetaData
<1>8. report' = None
  BY DEF Edge, Clock, Idle
<1> QED
  BY <1>2, <1>3, <1>4, <1>5, <1>6, <1>7, <1>8 DEF Idle

LEMMA ClockDiscovers ==
  ASSUME ShellInv, NEW rx \in Arrivals, Edge(rx), phase \in {"discover", "setup"}
  PROVE  DiscoverInv' /\ NamedInv' /\ ClosedInv'
<1>1. /\ IsSeq(mmio') /\ Len(mmio) \in Nat /\ Len(mmio') \in Nat
      /\ DOMAIN mmio = 1..Len(mmio) /\ DOMAIN mmio' = 1..Len(mmio')
      /\ \/ rx.kind \in {"none", "response"} /\ mmio' = mmio
         \/ Taken(rx) /\ rx.kind \in {"read", "write"}
  BY AccessFacts
<1>2. DiscoverInv /\ Idle
  BY DEF ShellInv, DiscoverInv
<1>3. rx.kind # "write"
  BY <1>1, OldestAccess
<1>4. Idle'
  BY <1>2, <1>3, IdleStays
<1>5. /\ req_base_address' = req_base_address /\ resp_base_address' = resp_base_address
      /\ c2' = NextC2(rx) /\ UNCHANGED <<waiting, asked>>
      /\ idWords' = IF c2 # None /\ c2 = IdWord[idWords + 1] THEN idWords + 1 ELSE idWords
      /\ phase' = IF phase = "discover" /\ idWords' = 2 THEN "setup" ELSE phase
  BY <1>3 DEF Edge, Clock, ControlRegisters, NextRespBase
<1>6. phase' \in {"discover", "setup"}
  BY <1>5
<1>7. Len(mmio') <= 1 /\ \A n \in DOMAIN mmio' : mmio'[n].kind = "read"
  <2>1. Len(mmio) <= 1 /\ \A n \in DOMAIN mmio : mmio[n].kind = "read"
    BY <1>2 DEF DiscoverInv
  <2>2. CASE mmio' = mmio
    BY <2>1, <2>2
  <2>3. CASE Taken(rx)
    <3>1. Len(mmio') = 0
      BY <1>1, <2>1, <2>3 DEF Taken
    <3> QED
      BY <1>1, <3>1
  <2> QED
    BY <1>1, <2>2, <2>3
<1>8. mmio' = <<>> \/ c2' = None
  <2>1. CASE rx.kind = "read"
    <3>1. Len(mmio') = 0
      BY <1>1, <1>2, <2>1 DEF DiscoverInv, Taken
    <3> QED
      BY <1>1, <3>1, SeqFacts
  <2>2. CASE rx.kind # "read"
    BY <1>5, <2>2 DEF NextC2
  <2> QED
    BY <2>1, <2>2
<1>9. phase' = "setup" => mmio' = <<>>
  <2>1. mmio = <<>> => mmio' = <<>>
    <3>1. mmio = <<>> => Len(mmio) = 0
      OBVIOUS
    <3> QED
      BY <1>1, <3>1 DEF Taken
  <2>2. phase' = "setup" => mmio = <<>>
    BY <1>2, <1>5 DEF DiscoverInv
  <2> QED
    BY <2>1, <2>2
<1>10. phase' = "discover" => idWords' # 2
  BY <1>5
<1> QED
  BY <1>2, <1>4, <1>5, <1>6, <1>7, <1>8, <1>9, <1>10 DEF DiscoverInv, NamedInv, ClosedInv

LEMMA ClockNames ==
  ASSUME ShellInv, NEW rx \in Arrivals, Edge(rx), phase \in {"run", "compute", "poll"}
  PROVE  /\ DiscoverInv' /\ NamedInv' /\ ClosedInv' /\ phase' = phase
         /\ rx.kind \in {"none", "response"} => BasesLeft' = BasesLeft
         /\ BasesLeft = 0 => BasesLeft' = 0
         /\ Taken(rx) /\ BasesLeft > 0 => BasesLeft' = BasesLeft - 1
<1>1. /\ IsSeq(mmio') /\ Len(mmio) \in Nat /\ Len(mmio') \in Nat
      /\ DOMAIN mmio = 1..Len(mmio) /\ DOMAIN mmio' = 1..Len(mmio')
      /\ \/ rx.kind \in {"none", "response"} /\ mmio' = mmio
         \/ Taken(rx) /\ rx.kind \in {"read", "write"}
  BY AccessFacts
<1>2. NamedInv /\ BasesLeft \in {0, 1, 2}
  BY DEF ShellInv, BasesLeft
<1>3. phase' = phase /\ phase # "closed"
  BY DEF Edge, Clock
<1>4. DiscoverInv' /\ ClosedInv'
  BY <1>3 DEF DiscoverInv, ClosedInv
<1>5. /\ req_base_address' = IF Writes(rx, 0) THEN rx.data ELSE req_base_address
      /\ resp_base_address' = IF Writes(rx, 2) THEN rx.data ELSE resp_base_address
  BY DEF Edge, Clock, ControlRegisters, NextRespBase
<1>6. CASE rx.kind \in {"none", "response"} /\ mmio' = mmio
  <2>1. /\ req_base_address' = req_base_address /\ resp_base_address' = resp_base_address
        /\ BasesLeft' = BasesLeft
    BY <1>5, <1>6 DEF BasesLeft
  <2>2. Idle => Idle'
    BY <1>6, IdleStays
  <2>3. RequestsFrom(BasesLeft + 1)'
    BY <1>2, <1>6, <2>1 DEF NamedInv, RequestsFrom
  <2>4. NamedInv'
    BY <1>2, <1>3, <1>6, <2>1, <2>2, <2>3 DEF NamedInv
  <2> QED
    BY <1>3, <1>4, <1>6, <2>1, <2>4 DEF Taken
<1>7. CASE Taken(rx) /\ rx.kind \in {"read", "write"}
  <2>1. \/ BasesLeft = 2 /\ rx = CsrWrite(0, "req")
        \/ BasesLeft = 1 /\ rx = CsrWrite(2, "result")
        \/ BasesLeft = 0 /\ Writes(rx, 4)
        \/ BasesLeft = 0 /\ Writes(rx, 6)
    BY <1>1, <1>3, <1>7, OldestAccess
  <2>2. ASSUME NEW k \in Nat, RequestsFrom(k + 1)
        PROVE  \A n \in DOMAIN mmio' : n >= k =>
                 \/ Writes(mmio'[n], 4) /\ mmio'[n] \in RequestAccess
                 \/ Writes(mmio'[n], 6) /\ mmio'[n] = PollAccess /\ n = Len(mmio')
    <3> TAKE n \in DOMAIN mmio'
    <3> HAVE n >= k
    <3>1. n + 1 \in DOMAIN mmio /\ n + 1 >= k + 1 /\ mmio'[n] = mmio[n + 1]
          /\ (n + 1 = Len(mmio) => n = Len(mmio'))
      BY <1>1, <1>7 DEF Taken
    <3> QED
      BY <2>2, <3>1 DEF RequestsFrom
  <2>3. CASE BasesLeft = 2 /\ rx = CsrWrite(0, "req")
    <3>1. Writes(rx, 0) /\ ~Writes(rx, 2) /\ ~Writes(rx, 4) /\ ~Writes(rx, 6) /\ rx.data = "req"
      BY <2>3 DEF CsrWrite
    <3>2. req_base_address' = "req" /\ resp_base_address' = None /\ BasesLeft' = 1
      BY <1>5, <2>3, <3>1, NoneIsApart DEF BasesLeft
    <3>3. Idle'
      BY <1>2, <2>3, <3>1, IdleStays DEF NamedInv
    <3>4. Len(mmio') >= 1 /\ mmio'[1] = CsrWrite(2, "result")
      BY <1>1, <1>2, <1>7, <2>3 DEF NamedInv, Taken
    <3>5. RequestsFrom(2)'
      <4>1. RequestsFrom(2 + 1)
        BY <1>2, <2>3 DEF NamedInv
      <4> QED
        BY <4>1, <2>2 DEF RequestsFrom
    <3>6. RequestsFrom(BasesLeft + 1)'
      BY <3>2, <3>5 DEF RequestsFrom
    <3>7. NamedInv'
      BY <3>2, <3>3, <3>4, <3>6 DEF NamedInv
    <3> QED
      BY <1>3, <1>4, <1>7, <2>3, <3>2, <3>7
  <2>4. CASE BasesLeft = 1 /\ rx = CsrWrite(2, "result")
    <3>1. Writes(rx, 2) /\ ~Writes(rx, 0) /\ ~Writes(rx, 4) /\ ~Writes(rx, 6) /\ rx.data = "result"
      BY <2>4 DEF CsrWrite
    <3>2. req_base_address' = "req" /\ resp_base_address' = "result" /\ BasesLeft' = 0
      BY <1>2, <1>5, <2>4, <3>1, NoneIsApart DEF BasesLeft, NamedInv
    <3>3. RequestsFrom(1)'
      <4>1. RequestsFrom(1 + 1)
        BY <1>2, <2>4 DEF NamedInv
      <4> QED
        BY <4>1, <2>2 DEF RequestsFrom
    <3>4. RequestsFrom(BasesLeft + 1)'
      BY <3>2, <3>3 DEF RequestsFrom
    <3>5. NamedInv'
      BY <3>2, <3>4 DEF NamedInv
    <3> QED
      BY <1>3, <1>4, <1>7, <2>4, <3>2, <3>5
  <2>5. CASE BasesLeft = 0 /\ (Writes(rx, 4) \/ Writes(rx, 6))
    <3>1. ~Writes(rx, 0) /\ ~Writes(rx, 2)
      BY <2>5
    <3>2. /\ req_base_address' = req_base_address /\ resp_base_address' = resp_base_address
          /\ BasesLeft' = 0
      BY <1>5, <2>5, <3>1 DEF BasesLeft
    <3>3. RequestsFrom(1)'
      <4>1. RequestsFrom(0 + 1)
        BY <1>2, <2>5 DEF NamedInv
      <4>2. \A n \in DOMAIN mmio' : n >= 0 =>
                 \/ Writes(mmio'[n], 4) /\ mmio'[n] \in RequestAccess
                 \/ Writes(mmio'[n], 6) /\ mmio'[n] = PollAccess /\ n = Len(mmio')
        BY <4>1, <2>2
      <4> QED
        BY <1>1, <4>2 DEF RequestsFrom
    <3>4. RequestsFrom(BasesLeft + 1)'
      BY <3>2, <3>3 DEF RequestsFrom
    <3>5. NamedInv'
      BY <1>2, <2>5, <3>2, <3>4 DEF NamedInv
    <3> QED
      BY <1>3, <1>4, <1>7, <2>5, <3>2, <3>5
  <2> QED
    BY <2>1, <2>3, <2>4, <2>5
<1> QED
  BY <1>1, <1>6, <1>7

\* With no access under way none arrives.
LEMMA NothingTaken ==
  ASSUME ShellInv, NEW rx \in Arrivals, Edge(rx), mmio = <<>>
  PROVE  mmio' = <<>> /\ ~Writes(rx, 6)
<1>1. ~Taken(rx)
  BY DEF Taken
<1>2. rx.kind \in {"none", "response"} /\ mmio' = mmio
  BY <1>1, AccessFacts
<1> QED
  BY <1>2

LEMMA PollArrives ==
  ASSUME ShellInv, NEW rx \in Arrivals, Edge(rx), Writes(rx, 6)
  PROVE  /\ PollUnderWay /\ ~PollUnderWay' /\ mmio' = <<>>
         /\ phase' = "poll" /\ meta_data_offset' = MetaLine
         /\ resp_base_address' = "result"
<1>1. /\ IsSeq(mmio') /\ Len(mmio) \in Nat /\ DOMAIN mmio = 1..Len(mmio) /\ Taken(rx)
  BY AccessFacts
<1>2. phase # "closed"
  BY DEF Edge, Clock
<1>3. BasesLeft = 0 /\ rx = PollAccess /\ Len(mmio) = 1 /\ phase \in {"run", "compute", "poll"}
  BY <1>1, <1>2, OldestAccess DEF CsrWrite, RequestAccess
<1>4. PollUnderWay
  <2>1. 1 \in DOMAIN mmio /\ mmio[1] = rx
    BY <1>1 DEF Taken
  <2> QED
    BY <2>1
<1>5. mmio' = <<>>
  <2>1. Len(mmio') = 0
    BY <1>1, <1>3 DEF Taken
  <2> QED
    BY <1>1, <2>1, SeqFacts
<1>6. ~PollUnderWay'
  BY <1>5
<1>7. phase = "poll"
  BY <1>4 DEF ShellInv, PollInv
<1>8. phase' = "poll"
  BY <1>7 DEF Edge, Clock
<1>9. meta_data_offset' = MetaLine
  BY <1>3 DEF Edge, Clock, ControlRegisters, PollAccess, CsrWrite
<1>10. ~Writes(rx, 2) /\ ~Writes(rx, 4)
  OBVIOUS
<1>11. resp_base_address = "result"
  BY <1>3, <1>7 DEF ShellInv, NamedInv, BasesLeft
<1>12. resp_base_address' = "result"
  BY <1>10, <1>11 DEF Edge, Clock, ControlRegisters, NextRespBase
<1> QED
  BY <1>4, <1>5, <1>6, <1>8, <1>9, <1>12

LEMMA ReportLeaves ==
  ASSUME ShellInv, NEW rx \in Arrivals, Edge(rx)
  PROVE  /\ ReportInPort' <=> read_meta_data
         /\ c1' = None \/ c1' \in {ResultOf(e) : e \in Entries} \/ IsReport(c1')
         /\ read_meta_data => c1'.data.total = total_mem_req
<1>1. perf_cycle_array \in [Buckets -> Nat] /\ total_mem_req \in Nat /\ wbCntr \in Entries
  BY DEF ShellInv, ShellTypeOK
<1>2. perf_cycle_array' \in [Buckets -> Nat]
  BY ClockTypes DEF ShellTypeOK
<1>3. CASE read_meta_data
  <2>1. PICK array \in [Buckets -> Nat] :
           c1' = [buffer |-> "result", line |-> MetaLine,
                  data |-> [kind |-> "report", total |-> total_mem_req, array |-> array]]
    BY <1>1, <1>2, <1>3, WriteEffects
  <2>2. IsReport(c1')
    BY <1>1, <2>1 DEF IsReport, ReportWrites, Reports
  <2>3. c1'.data.total = total_mem_req
    BY <2>1
  <2> QED
    BY <1>3, <2>2, <2>3
<1>4. CASE ~read_meta_data
  BY <1>1, <1>4, WriteEffects, ResultsApart, NoneIsNoReport
<1> QED
  BY <1>3, <1>4

\* A program that waits for its results before it polls leaves nothing to fetch.
LEMMA NothingIsFetched ==
  ASSUME ShellInv, NEW rx \in Arrivals, Edge(rx), phase = "poll", ~careless
  PROVE  total_mem_req' = total_mem_req
<1>1. waiting = {}
  BY DEF ShellInv, PollInv
<1>2. \A e \in Entries : entry[e] = "free"
  BY <1>1 DEF ShellInv, PlacesInv
<1>3. Fetched = {}
  BY <1>2, Fetches, FetchableFacts
<1>4. total_mem_req \in Nat
  BY DEF ShellInv, ShellTypeOK
<1> QED
  BY <1>3, <1>4, Fetches

LEMMA ClockReports ==
  ASSUME ShellInv, NEW rx \in Arrivals, Edge(rx)
  PROVE  PollInv'
<1>1. PollInv
  BY DEF ShellInv
<1>2. /\ report' = report /\ waiting' = waiting /\ careless' = careless
      /\ phase # "discover" => phase' = phase
      /\ phase' = "poll" => phase = "poll"
  BY DEF Edge, Clock
<1>3. /\ writes' = IF c1 = None THEN writes ELSE writes \cup {c1}
  BY WriteEffects
<1>4. /\ ReportInPort' <=> read_meta_data
      /\ c1' = None \/ c1' \in {ResultOf(e) : e \in Entries} \/ IsReport(c1')
      /\ read_meta_data => c1'.data.total = total_mem_req
  BY ReportLeaves
<1>5. read_meta_data' <=> ~read_meta_data /\ Writes(rx, 6)
  BY DEF Edge, Clock, ControlRegisters, NextReadMetaData
<1>6. PollUnderWay' <=> PollUnderWay /\ ~Writes(rx, 6)
  BY AskedNext
<1>7. ReportOnItsWay' <=> ReportOnItsWay \/ ReportInPort
  BY <1>3, NoneIsNoReport
<1>8. mmio = <<>> => mmio' = <<>> /\ ~Writes(rx, 6)
  BY NothingTaken
<1>9. Writes(rx, 6) => /\ PollUnderWay /\ mmio' = <<>>
                       /\ phase' = "poll" /\ meta_data_offset' = MetaLine
                       /\ resp_base_address' = "result"
  BY PollArrives
<1>10. phase = "poll" /\ ~careless => total_mem_req' = total_mem_req
  BY NothingIsFetched
<1>11. \A w \in writes' : w \in {ResultOf(e) : e \in Entries} \/ IsReport(w)
  BY <1>1, <1>3 DEF PollInv
<1>12. \A w, v \in writes' : IsReport(w) /\ IsReport(v) => w = v
  BY <1>1, <1>3 DEF PollInv
<1>13. \A w \in writes' : IsReport(w) /\ ~careless => w.data.total = total_mem_req'
  <2>1. \A w \in writes' : IsReport(w) /\ ~careless =>
          phase = "poll" /\ w.data.total = total_mem_req
    BY <1>1, <1>3 DEF PollInv
  <2> QED
    BY <1>10, <2>1
<1> HIDE DEF PollUnderWay, ReportInPort, ReportOnItsWay, Writes
<1>14. PollUnderWay' => /\ phase' = "poll" /\ ~read_meta_data' /\ ~ReportInPort'
                        /\ ~ReportOnItsWay' /\ report' = None
  BY <1>1, <1>2, <1>4, <1>5, <1>6, <1>7, <1>9 DEF PollInv
<1>15. read_meta_data' => /\ phase' = "poll" /\ ~ReportInPort' /\ ~ReportOnItsWay'
                          /\ report' = None /\ mmio' = <<>>
                          /\ meta_data_offset' = MetaLine
                          /\ resp_base_address' = "result"
  BY <1>1, <1>2, <1>4, <1>5, <1>7, <1>9 DEF PollInv
<1>16. ReportInPort' => /\ phase' = "poll" /\ ~ReportOnItsWay' /\ report' = None
                        /\ mmio' = <<>>
                        /\ ~careless => c1'.data.total = total_mem_req'
  BY <1>1, <1>2, <1>4, <1>7, <1>8, <1>10 DEF PollInv
<1>17. ReportOnItsWay' => phase' = "poll" /\ report' = None /\ mmio' = <<>>
  BY <1>1, <1>2, <1>7, <1>8 DEF PollInv
<1>18. phase' = "poll" /\ report' # None =>
         mmio' = <<>> /\ (~careless => report'.total = total_mem_req')
  BY <1>1, <1>2, <1>8, <1>10 DEF PollInv
<1>19. (report' = None \/ report' \in Reports) /\ (phase' = "poll" /\ waiting' # {} => careless')
  BY <1>1, <1>2 DEF PollInv
<1> QED
  BY <1>2, <1>4, <1>11, <1>12, <1>13, <1>14, <1>15, <1>16, <1>17, <1>18, <1>19 DEF PollInv

LEMMA ResponsesCounted ==
  ASSUME ShellInv, NEW rx \in Arrivals, Edge(rx)
  PROVE  /\ SumCounts(perf_cycle_array) \in Nat /\ SumCounts(perf_cycle_array') \in Nat
         /\ SumCounts(perf_cycle_array') <= SumCounts(perf_cycle_array) + 1
         /\ Ans(rx) = {} => SumCounts(perf_cycle_array') = SumCounts(perf_cycle_array)
<1>1. PICK counted \in Counted(rx) : perf_cycle_array' = NextArray(counted)
  BY DEF Edge, Clock
<1>2. perf_cycle_array \in [Buckets -> Nat] /\ perf_cycle_cnt \in [Cachelines -> 0 .. CountBound]
  BY DEF ShellInv, ShellTypeOK
<1>3. Ans(rx) = {} => counted = {}
  BY <1>1, AnswerFacts DEF Counted
<1>4. \A a, b \in counted : a = b
  <2>1. CASE counted = {}
    BY <2>1
  <2>2. CASE \E c \in CountRead(rx.tag) : counted = BucketOf(c)
    <3>1. CountRead(rx.tag) \subseteq Nat
      BY <1>2, Positions DEF CountRead
    <3> QED
      BY <2>2, <3>1, OneBucket
  <2> QED
    BY <1>1, <2>1, <2>2 DEF Counted
<1>5. perf_cycle_array' = [b \in Buckets |-> perf_cycle_array[b] + IF b \in counted THEN 1 ELSE 0]
  BY <1>1 DEF NextArray
<1>6. /\ perf_cycle_array' \in [Buckets -> Nat]
      /\ SumCounts(perf_cycle_array') <= SumCounts(perf_cycle_array) + 1
      /\ counted = {} => SumCounts(perf_cycle_array') = SumCounts(perf_cycle_array)
  BY <1>2, <1>4, <1>5, OneMore
<1> QED
  BY <1>2, <1>3, <1>6, SumIsNatural



\* One read leaves the set when it is answered, one enters it when it is issued.
LEMMA UnderWayCounted ==
  ASSUME ShellInv, NEW rx \in Arrivals, Edge(rx)
  PROVE  /\ Cardinality(infetch) \in Nat /\ Cardinality(infetch') \in Nat
         /\ Cardinality(infetch') = Cardinality(infetch) + (IF Fetched = {} THEN 0 ELSE 1)
                                    - (IF Ans(rx) = {} THEN 0 ELSE 1)
         /\ Ans(rx) # {} => Cardinality(infetch) >= 1
<1> DEFINE kept == infetch \ Ans(rx)
           i == Cardinality(infetch)
           k == Cardinality(kept)
<1>1. IsFiniteSet(infetch) /\ i \in Nat /\ Cardinality(infetch') \in Nat
  <2>1. infetch \in SUBSET Cachelines /\ infetch' \in SUBSET Cachelines
    BY FetchableFacts, ClockTypes DEF ShellTypeOK
  <2> QED
    BY <2>1, LinesAreFinite
<1>2. infetch' = kept \cup Fetched /\ Fetched \cap infetch = {} /\ \A l, m \in Fetched : l = m
  BY Fetches, FetchableFacts
<1> HIDE DEF Fetched
<1>3. IsFiniteSet(kept) /\ k \in Nat /\ k = i - (IF Ans(rx) = {} THEN 0 ELSE 1)
  <2>1. CASE Ans(rx) = {}
    <3>1. kept = infetch
      BY <2>1
    <3> QED
      BY <1>1, <2>1, <3>1
  <2>2. CASE Ans(rx) # {}
    <3>1. PICK l \in Ans(rx) : TRUE
      BY <2>2
    <3>2. Ans(rx) = {l} /\ l \in infetch
      BY <3>1, AnswerFacts, AnsweredAreUnderWay
    <3>3. kept = infetch \ {l}
      BY <3>2
    <3> HIDE DEF kept
    <3>4. IsFiniteSet(infetch \ {l}) /\ Cardinality(infetch \ {l}) = Cardinality(infetch) - 1
      BY <1>1, <3>2, FS_RemoveElement
    <3>5. Cardinality(infetch \ {l}) \in Nat
      BY <3>4, FS_CardinalityType
    <3> QED
      BY <2>2, <3>3, <3>4, <3>5
  <2> QED
    BY <2>1, <2>2
<1>4. Cardinality(infetch') = k + (IF Fetched = {} THEN 0 ELSE 1)
  <2>1. CASE Fetched = {}
    <3>1. infetch' = kept
      BY <1>2, <2>1
    <3> QED
      BY <1>3, <2>1, <3>1
  <2>2. CASE Fetched # {}
    <3>1. PICK l \in Fetched : TRUE
      BY <2>2
    <3>2. Fetched = {l} /\ l \notin kept
      BY <1>2, <3>1
    <3>3. infetch' = kept \cup {l}
      BY <1>2, <3>2
    <3> HIDE DEF kept
    <3>4. Cardinality(kept \cup {l}) = IF l \in kept THEN k ELSE k + 1
      BY <1>3, FS_AddElement
    <3> QED
      BY <2>2, <3>2, <3>3, <3>4
  <2> QED
    BY <2>1, <2>2
<1> HIDE DEF i, k
<1>5. Cardinality(infetch') = i + (IF Fetched = {} THEN 0 ELSE 1)
                                - (IF Ans(rx) = {} THEN 0 ELSE 1)
      /\ (Ans(rx) # {} => i >= 1)
  BY <1>1, <1>3, <1>4
<1> QED
  BY <1>1, <1>5 DEF i

\* A clock adds nothing to what is wanted, and a response takes something from it.
LEMMA WantedCounted ==
  ASSUME ShellInv, NEW rx \in Arrivals, Edge(rx)
  PROVE  /\ Cardinality(Wanted) \in Nat /\ Cardinality(Wanted') \in Nat
         /\ Cardinality(Wanted') <= Cardinality(Wanted) - (IF Ans(rx) = {} THEN 0 ELSE 1)
<1>1. \A e \in Entries : \A l \in Cachelines :
        <<e, l>> \in Wanted' =>
          l \in need'[e] \/ \E n \in DOMAIN mmio' : RequestAt(n, e)' /\ l \in mmio'[n].data.lines
  BY DEF Wanted, Unread
<1>2. Wanted' \in SUBSET (Entries \X Cachelines) /\ Wanted \in SUBSET (Entries \X Cachelines)
  BY DEF Wanted
<1>3. ASSUME NEW e \in Entries, NEW l \in Cachelines, <<e, l>> \in Wanted'
      PROVE  <<e, l>> \in Wanted
  <2>1. CASE l \in need'[e] /\ e \in Acc(rx)
    <3>1. Writes(rx, 4)
      BY <2>1, NoRequestArrives
    <3>2. Taken(rx) /\ RequestAt(1, e) /\ l \in rx.data.lines
      BY <2>1, <3>1, RequestArrives, CoreEffects
    <3>3. 1 \in DOMAIN mmio /\ mmio[1] = rx
      BY <3>2 DEF Taken
    <3> QED
      BY <3>2, <3>3, WantedMembers
  <2>2. CASE l \in need'[e] /\ e \notin Acc(rx)
    <3>1. l \in need[e]
      BY <2>2, CoreEffects
    <3> QED
      BY <3>1, WantedMembers
  <2>3. ASSUME NEW n \in DOMAIN mmio', RequestAt(n, e)', l \in mmio'[n].data.lines
        PROVE  <<e, l>> \in Wanted
    <3>1. \/ mmio' = mmio
          \/ n + 1 \in DOMAIN mmio /\ mmio'[n] = mmio[n + 1]
      BY <2>3, AccessFacts DEF Taken
    <3>2. \E m \in DOMAIN mmio : RequestAt(m, e) /\ l \in mmio[m].data.lines
      BY <2>3, <3>1
    <3> QED
      BY <3>2, WantedMembers
  <2> QED
    BY <1>1, <1>3, <2>1, <2>2, <2>3
<1>4. Wanted' \subseteq Wanted
  BY <1>2, <1>3
<1>5. ASSUME NEW l \in Ans(rx)
      PROVE  \E e \in Entries : <<e, l>> \in Wanted /\ <<e, l>> \notin Wanted'
  <2>1. PICK e \in Entries : l \in Filled(rx, e)
    BY <1>5, FillFacts
  <2>2. l \in need[e] /\ l \in Cachelines /\ entry[e] = "waits"
    BY <1>5, <2>1, FillFacts, AnswerFacts DEF ShellInv, FetchInv
  <2>3. e \notin Acc(rx)
    BY <2>2 DEF Acc, Accepts
  <2>4. l \notin need'[e]
    BY <2>1, <2>3, CoreEffects
  <2>5. ~Asked(e)
    BY <2>2 DEF ShellInv, PlacesInv
  <2>6. ~Asked(e)'
    BY <2>5, AskedNext
  <2>7. <<e, l>> \in Wanted
    BY <2>2, WantedMembers
  <2>8. <<e, l>> \notin Wanted'
    BY <1>1, <2>2, <2>4, <2>6
  <2> QED
    BY <2>7, <2>8
<1> DEFINE w == Cardinality(Wanted)
           v == Cardinality(Wanted')
<1>6. w \in Nat /\ v \in Nat /\ IsFiniteSet(Wanted)
  BY <1>2, LinesAreFinite
<1>7. CASE Ans(rx) = {}
  <2>1. v <= w
    BY <1>4, <1>6, FS_Subset
  <2> QED
    BY <1>6, <1>7, <2>1
<1>8. CASE Ans(rx) # {}
  <2>1. PICK l \in Ans(rx) : TRUE
    BY <1>8
  <2>2. PICK e \in Entries : <<e, l>> \in Wanted /\ <<e, l>> \notin Wanted'
    BY <1>5
  <2> DEFINE p == <<e, l>>
  <2>3. p \in Wanted /\ Wanted' \subseteq Wanted \ {p}
    BY <1>4, <2>2
  <2> HIDE DEF p
  <2>4. IsFiniteSet(Wanted \ {p}) /\ Cardinality(Wanted \ {p}) = w - 1
    BY <1>6, <2>3, FS_RemoveElement
  <2>5. v <= w - 1
    BY <2>3, <2>4, FS_Subset
  <2> QED
    BY <1>6, <1>8, <2>5
<1> QED
  BY <1>7, <1>8

LEMMA ClockCounts ==
  ASSUME ShellInv, NEW rx \in Arrivals, Edge(rx)
  PROVE  CountInv'
<1>1. CountInv /\ total_mem_req \in Nat /\ asked \in Nat /\ phase # "closed"
  BY DEF ShellInv, ShellTypeOK, Edge, Clock
<1>2. asked' = asked /\ report' = report
  BY DEF Edge, Clock
<1> DEFINE s == SumCounts(perf_cycle_array)
           t == SumCounts(perf_cycle_array')
           i == Cardinality(infetch)
           j == Cardinality(infetch')
           w == Cardinality(Wanted)
           v == Cardinality(Wanted')
           f == IF Fetched = {} THEN 0 ELSE 1
           a == IF Ans(rx) = {} THEN 0 ELSE 1
<1>3. total_mem_req' = total_mem_req + f /\ f \in {0, 1} /\ a \in {0, 1}
  BY Fetches
<1>4. s \in Nat /\ t \in Nat /\ t <= s + a
  BY ResponsesCounted
<1>5. i \in Nat /\ j \in Nat /\ j = i + f - a /\ a <= i
  BY UnderWayCounted
<1>6. w \in Nat /\ v \in Nat /\ v <= w - a
  BY WantedCounted
<1>7. s + i <= total_mem_req /\ total_mem_req + w <= asked + i
  BY <1>1 DEF CountInv
<1>8. i <= w
  BY <1>1, ReadsAreWanted
<1> HIDE DEF s, t, i, j, w, v, f, a
<1>9. t + j <= total_mem_req' /\ total_mem_req' + v <= asked + j
  BY <1>1, <1>3, <1>4, <1>5, <1>6, <1>7
<1>10. s <= total_mem_req /\ t <= total_mem_req /\ total_mem_req <= asked
  BY <1>1, <1>3, <1>4, <1>5, <1>6, <1>7, <1>8
<1>11. IsReport(c1') => SumCounts(c1'.data.array) <= c1'.data.total /\ c1'.data.total <= asked
  <2>1. IsReport(c1') => read_meta_data
    BY ReportLeaves
  <2>2. ASSUME read_meta_data
        PROVE  SumCounts(c1'.data.array) <= c1'.data.total /\ c1'.data.total <= asked
    <3>1. PICK array \in {perf_cycle_array, perf_cycle_array'} :
             c1' = [buffer |-> "result", line |-> MetaLine,
                    data |-> [kind |-> "report", total |-> total_mem_req,
                              array |-> array]]
      BY <2>2, WriteEffects
    <3>2. c1'.data.array = array /\ c1'.data.total = total_mem_req
      BY <3>1
    <3>3. SumCounts(array) \in {s, t}
      BY DEF s, t
    <3> QED
      BY <1>10, <3>2, <3>3
  <2> QED
    BY <2>1, <2>2
<1>12. \A x \in writes' : IsReport(x) =>
         SumCounts(x.data.array) <= x.data.total /\ x.data.total <= asked
  <2>1. \A x \in writes' : x \in writes \/ x = c1
    BY WriteEffects
  <2> QED
    BY <1>1, <2>1 DEF CountInv, Sound
<1>13. report' # None => Sound(report)'
  BY <1>1, <1>2 DEF CountInv, Sound
<1>14. (IsReport(c1) => Sound(c1.data))'
  BY <1>2, <1>11 DEF Sound
<1>15. (\A x \in writes : IsReport(x) => Sound(x.data))'
  BY <1>2, <1>12 DEF Sound
<1> QED
  BY <1>2, <1>9, <1>13, <1>14, <1>15 DEF CountInv, t, j, v

LEMMA ClockKeeps ==
  ASSUME ShellInv, Tick
  PROVE  ShellInv'
<1>1. PICK rx \in Arrivals : Edge(rx)
  BY DEF Tick, Edge
<1>2. ShellTypeOK'
  BY <1>1, ClockTypes
<1>3. IsSeq(mmio')
  BY <1>1, AccessFacts
<1>4. DiscoverInv' /\ NamedInv' /\ ClosedInv'
  <2>1. phase \in {"discover", "setup"} \/ phase \in {"run", "compute", "poll"}
    BY <1>1 DEF Edge, Clock, ShellInv, ShellTypeOK
  <2> QED
    BY <1>1, <2>1, ClockDiscovers, ClockNames
<1>5. PlacesInv' /\ FetchInv'
  BY <1>1, ClockRequests, ClockReads
<1>6. PollInv' /\ CountInv'
  BY <1>1, ClockReports, ClockCounts
<1> QED
  BY <1>2, <1>3, <1>4, <1>5, <1>6 DEF ShellInv

LEMMA StutterKeeps ==
  ASSUME ShellInv, UNCHANGED vars
  PROVE  ShellInv'
<1> USE DEF vars, hostVars, shellVars, coreVars, fabricVars
<1>1. ShellTypeOK' /\ IsSeq(mmio')
  BY DEF ShellInv, ShellTypeOK
<1>2. BasesLeft' = BasesLeft
  BY DEF BasesLeft
<1>3. DiscoverInv' /\ NamedInv' /\ ClosedInv'
  BY <1>2 DEF ShellInv, DiscoverInv, NamedInv, ClosedInv, Idle, RequestsFrom
<1>4. PlacesInv' /\ FetchInv'
  BY DEF ShellInv, PlacesInv, FetchInv, Serves, Answered, Answers
<1>5. PollInv' /\ CountInv'
  BY DEF ShellInv, PollInv, CountInv, Wanted, Unread, Sound
<1> QED
  BY <1>1, <1>3, <1>4, <1>5 DEF ShellInv

-----------------------------------------------------------------------------
(* The invariant, and what follows from it.                                *)

\* Where the host, each request, each read and each report are, and what has been
\* counted, in every state (Posit.sv L60-448, hardposit.cpp L30-114).
THEOREM ShellInvariant == Spec => []ShellInv
<1>1. Init => ShellInv
  BY InitHolds
<1>2. ShellInv /\ [Next]_vars => ShellInv'
  <2> SUFFICES ASSUME ShellInv, [Next]_vars PROVE ShellInv'
    OBVIOUS
  <2>1. CASE ReadIdWord
    BY <2>1, ReadIdWordKeeps
  <2>2. CASE SetUp
    BY <2>2, SetUpKeeps
  <2>3. CASE SendRequest
    BY <2>3, SendRequestKeeps
  <2>11. ASSUME NEW ls \in LineSets, PlaceOperands(ls) PROVE ShellInv'
    BY <2>11, PlaceOperandsKeeps
  <2>4. CASE Poll
    BY <2>4, PollKeeps
  <2>5. CASE PollReturn
    BY <2>5, PollReturnKeeps
  <2>6. CASE Close
    BY <2>6, CloseKeeps
  <2>7. CASE Tick
    BY <2>7, ClockKeeps
  <2>8. ASSUME NEW r \in reads, Sample(r) PROVE ShellInv'
    BY <2>8, SampleKeeps
  <2>9. ASSUME NEW w \in writes, DeliverWrite(w) PROVE ShellInv'
    BY <2>9, DeliverWriteKeeps
  <2>10. CASE UNCHANGED vars
    BY <2>10, StutterKeeps
  <2> QED
    BY <2>1, <2>2, <2>3, <2>4, <2>5, <2>6, <2>7, <2>8, <2>9, <2>10, <2>11 DEF Next
<1> QED
  BY <1>1, <1>2, PTL DEF Spec

\* Type correctness of the shell, its host, its core and the fabric.
THEOREM ShellTypeCorrect == Spec => []ShellTypeOK
<1>1. ShellInv => ShellTypeOK
  BY DEF ShellInv
<1> QED
  BY <1>1, ShellInvariant, PTL

\* Nothing leaves the shell for an address outside the two buffers, also not
\* before the host has named them or after it has polled (Posit.sv L161-181,
\* L409-448).
THEOREM BuffersAreKept == Spec => []BuffersOnly
<1>1. ShellInv => BuffersOnly
  <2> SUFFICES ASSUME ShellInv PROVE BuffersOnly
    OBVIOUS
  <2>1. \A l \in Cachelines : InRing(ReadOf(l))
    BY DEF InRing, ReadOf
  <2>2. \A e \in Entries : InBuffer(ResultOf(e))
    BY DEF InBuffer, ResultOf
  <2>3. \A w : IsReport(w) => InBuffer(w)
    BY DEF IsReport, ReportWrites, Reports, InBuffer
  <2>4. \A r \in reads \cup ({c0} \ {None}) : \E l \in Cachelines : r = ReadOf(l)
    BY DEF ShellInv, FetchInv
  <2>5. \A w \in writes \cup ({c1} \ {None}) :
          IsReport(w) \/ \E e \in Entries : w = ResultOf(e)
    BY DEF ShellInv, PollInv
  <2> QED
    BY <2>1, <2>2, <2>3, <2>4, <2>5 DEF BuffersOnly
<1> QED
  BY <1>1, ShellInvariant, PTL

\* A set of which every member is x counts one if x is in it and else none.
LEMMA CountOfOne ==
  ASSUME NEW S, NEW x, S \subseteq {x}
  PROVE  Cardinality(S) = IF x \in S THEN 1 ELSE 0
<1>1. CASE x \in S
  <2>1. S = {x}
    BY <1>1
  <2>2. Cardinality({x}) = 1
    BY FS_Singleton
  <2> QED
    BY <1>1, <2>1, <2>2
<1>2. CASE x \notin S
  <2>1. S = {}
    BY <1>2
  <2> QED
    BY <1>2, <2>1, FS_EmptySet
<1> QED
  BY <1>1, <1>2

\* The shell loses no request and answers none twice: it is on its way to the
\* core, in it, in c1 or on its way back, unless a metadata write took the port
\* of its result while the program polled too early (Posit.sv L409-448).
THEOREM RequestsAreInOnePlace == Spec => []RequestIsInOnePlace
<1>1. ShellInv => RequestIsInOnePlace
  <2> SUFFICES ASSUME ShellInv, NEW e \in Entries
               PROVE  IF e \in waiting THEN Places(e) = 1 \/ (Places(e) = 0 /\ careless)
                      ELSE Places(e) = 0
    BY DEF RequestIsInOnePlace
  <2> DEFINE Ahead == {n \in DOMAIN mmio : Writes(mmio[n], 4) /\ mmio[n].data.wr_addr = e}
             Back == {w \in writes : IsResultOf(w, e)}
  <2>1. \A w : w \in {ResultOf(f) : f \in Entries} \/ IsReport(w) =>
           (IsResultOf(w, e) <=> w = ResultOf(e))
    <3>1. \A w : IsReport(w) => ~IsResultOf(w, e) /\ w # ResultOf(e)
      BY DEF IsReport, ReportWrites, Reports, IsResultOf, ResultOf
    <3>2. \A f \in Entries : IsResultOf(ResultOf(f), e) <=> f = e
      BY NoneIsApart DEF IsResultOf, ResultOf
    <3> QED
      BY <3>1, <3>2, ResultsApart
  <2>2. \A w \in writes : IsResultOf(w, e) <=> w = ResultOf(e)
    BY <2>1 DEF ShellInv, PollInv
  <2>3. IsResultOf(c1, e) <=> c1 = ResultOf(e)
    BY <2>1, ResultsApart DEF ShellInv, PollInv, IsResultOf
  <2>4. Cardinality(Back) = IF OnItsWay(e) THEN 1 ELSE 0
    <3>1. Back \subseteq {ResultOf(e)} /\ (ResultOf(e) \in Back <=> OnItsWay(e))
      BY <2>2
    <3> HIDE DEF Back
    <3> QED
      BY <3>1, CountOfOne
  <2>5. Cardinality(Ahead) = IF Asked(e) THEN 1 ELSE 0
    <3>1. CASE Asked(e)
      <4>1. PICK n \in DOMAIN mmio : RequestAt(n, e)
        BY <3>1
      <4>2. Ahead = {n}
        BY <4>1 DEF ShellInv, PlacesInv
      <4> QED
        BY <3>1, <4>2, FS_Singleton
    <3>2. CASE ~Asked(e)
      <4>1. Ahead = {}
        BY <3>2
      <4> QED
        BY <3>2, <4>1, FS_EmptySet
    <3> QED
      BY <3>1, <3>2
  <2>6. Places(e) = (IF Asked(e) THEN 1 ELSE 0) + (IF ~InCore(e) THEN 0 ELSE 1)
                    + (IF InPort(e) THEN 1 ELSE 0) + (IF OnItsWay(e) THEN 1 ELSE 0)
    <3>1. Places(e) = Cardinality(Ahead) + (IF ~InCore(e) THEN 0 ELSE 1)
                      + (IF IsResultOf(c1, e) THEN 1 ELSE 0) + Cardinality(Back)
      BY DEF Places
    <3> HIDE DEF Asked, InCore, OnItsWay, Ahead, Back
    <3> QED
      BY <2>3, <2>4, <2>5, <3>1
  <2>7. /\ Asked(e) => ~InCore(e) /\ ~InPort(e) /\ ~OnItsWay(e)
        /\ InCore(e) => ~InPort(e) /\ ~OnItsWay(e)
        /\ InPort(e) => ~OnItsWay(e)
        /\ Asked(e) \/ InCore(e) \/ InPort(e) \/ OnItsWay(e) => e \in waiting
        /\ e \in waiting /\ ~careless => Asked(e) \/ InCore(e) \/ InPort(e) \/ OnItsWay(e)
    BY DEF ShellInv, PlacesInv
  <2> HIDE DEF Asked, InCore, InPort, OnItsWay
  <2> QED
    BY <2>6, <2>7
<1> QED
  BY <1>1, ShellInvariant, PTL

\* The core's set of cachelines under way is the set of reads that left the shell
\* and whose response has not come; an orderly close_accel leaves none
\* (Posit.sv L303-320, hardposit.cpp L71-78).
THEOREM ReadsAreInOnePlace == Spec => []ReadIsInOnePlace
<1>1. ShellInv => ReadIsInOnePlace
  <2> SUFFICES ASSUME ShellInv, phase # "closed" \/ ~careless, NEW l \in Cachelines
               PROVE  Cardinality({r \in reads : r.tag = TagOf(l)})
                      + (IF c0 # None /\ c0.tag = TagOf(l) THEN 1 ELSE 0)
                      + Cardinality({r \in responses : r.tag = TagOf(l)})
                      = (IF l \in infetch THEN 1 ELSE 0)
    BY DEF ReadIsInOnePlace
  <2> DEFINE Under == {r \in reads : r.tag = TagOf(l)}
  <2>1. \A m \in Cachelines : ReadOf(m).tag = TagOf(l) <=> m = l
    BY TagsApart DEF ReadOf
  <2>2. \A r \in reads : r.tag = TagOf(l) <=> r = ReadOf(l)
    BY <2>1 DEF ShellInv, FetchInv
  <2>3. c0 # None /\ c0.tag = TagOf(l) <=> Issued(l)
    BY <2>1, ReadsApart DEF ShellInv, FetchInv
  <2>4. Cardinality(Under) = IF InFabric(l) THEN 1 ELSE 0
    <3>1. Under \subseteq {ReadOf(l)} /\ (ReadOf(l) \in Under <=> InFabric(l))
      BY <2>2
    <3> HIDE DEF Under
    <3> QED
      BY <3>1, CountOfOne
  <2>5. /\ l \in infetch <=> Issued(l) \/ InFabric(l) \/ Answered(l)
        /\ ~(Issued(l) /\ InFabric(l)) /\ ~(Issued(l) /\ Answered(l))
        /\ ~(InFabric(l) /\ Answered(l))
        /\ \A r, q \in Answers(l) : r = q
    <3>1. CASE phase # "closed"
      BY <3>1 DEF ShellInv, FetchInv
    <3>2. CASE phase = "closed"
      BY <3>2, ReadsApart DEF ShellInv, ClosedInv, Answered, Answers
    <3> QED
      BY <3>1, <3>2
  <2>6. Cardinality(Answers(l)) = IF Answered(l) THEN 1 ELSE 0
    <3>1. CASE Answered(l)
      <4>1. PICK r : Answers(l) = {r}
        BY <2>5, <3>1 DEF Answered
      <4> QED
        BY <3>1, <4>1, FS_Singleton
    <3>2. CASE ~Answered(l)
      BY <3>2, FS_EmptySet DEF Answered
    <3> QED
      BY <3>1, <3>2
  <2> HIDE DEF Issued, InFabric, Under
  <2>7. Cardinality(Under) + (IF c0 # None /\ c0.tag = TagOf(l) THEN 1 ELSE 0)
          + Cardinality(Answers(l))
        = (IF l \in infetch THEN 1 ELSE 0)
    <3> DEFINE x == c0 # None /\ c0.tag = TagOf(l)
               z == l \in infetch
    <3>1. (x <=> Issued(l)) /\ (z <=> Issued(l) \/ InFabric(l) \/ Answered(l))
      BY <2>3, <2>5
    <3> HIDE DEF x, z
    <3>2. Cardinality(Under) + (IF x THEN 1 ELSE 0) + Cardinality(Answers(l))
          = IF z THEN 1 ELSE 0
      BY <2>4, <2>5, <2>6, <3>1
    <3> QED
      BY <3>2 DEF x, z
  <2> QED
    BY <2>7 DEF Under, Answers
<1> QED
  BY <1>1, ShellInvariant, PTL

\* A report counts no read twice and no more than there are cachelines in the
\* requests, however often one has to be read again (POSIT_Locality.scala
\* L137-139, L160-170), and one that was asked for with nothing outstanding has
\* the final total (Posit.sv L360-401, L430-447).
THEOREM ReportsCount == Spec => []ReportCountsReads
<1>1. ShellInv => ReportCountsReads
  BY DEF ShellInv, PollInv, CountInv, Sound, ReportCountsReads
<1> QED
  BY <1>1, ShellInvariant, PTL
=============================================================================

---------------------------- MODULE CcipShellInv ----------------------------
(***************************************************************************)
(* The inductive invariant of the shell and its neighbours, part by part:  *)
(* how far the host is, where a request is, where the read of a cacheline  *)
(* is, where a report is, and what has been counted.                       *)
(***************************************************************************)
EXTENDS CcipShell

Requests       == [wr_addr : Entries, lines : LineSets]
RequestAccess  == {CsrWrite(4, r) : r \in Requests}
PollAccess     == CsrWrite(6, MetaLine)
IsReport(w)    == w \in ReportWrites
IsSeq(s)       == Len(s) \in Nat /\ s = [n \in 1..Len(s) |-> s[n]]

\* Nothing has reached the core and nothing has left the shell.
Idle ==
  /\ ~read_meta_data /\ c0 = None /\ c1 = None
  /\ reads = {} /\ responses = {} /\ writes = {} /\ infetch = {}
  /\ \A e \in Entries : entry[e] = "free"
  /\ total_mem_req = 0 /\ report = None

\* While the host looks for the accelerator, one access or its answer is under
\* way, and nothing else.
DiscoverInv ==
  phase \in {"discover", "setup"} =>
    /\ Idle /\ req_base_address = None /\ resp_base_address = None
    /\ waiting = {} /\ asked = 0
    /\ Len(mmio) <= 1
    /\ \A n \in DOMAIN mmio : mmio[n].kind = "read"
    /\ mmio = <<>> \/ c2 = None
    /\ phase = "setup" => mmio = <<>>
    /\ phase = "discover" => idWords # 2

\* From access k on the host has sent requests, and at the end a poll.
RequestsFrom(k) ==
  \A n \in DOMAIN mmio : n >= k =>
     \/ Writes(mmio[n], 4) /\ mmio[n] \in RequestAccess
     \/ Writes(mmio[n], 6) /\ mmio[n] = PollAccess /\ n = Len(mmio)

\* How many of the two base addresses are still to come.
BasesLeft ==
  IF resp_base_address # None THEN 0
  ELSE IF req_base_address # None THEN 1 ELSE 2

NamedInv ==
  phase \in {"run", "compute", "poll"} =>
    /\ req_base_address \in {None, "req"} /\ resp_base_address \in {None, "result"}
    /\ BasesLeft = 0 => req_base_address = "req"
    /\ BasesLeft # 0 => Idle
    /\ BasesLeft = 1 => Len(mmio) >= 1 /\ mmio[1] = CsrWrite(2, "result")
    /\ BasesLeft = 2 => /\ Len(mmio) >= 2
                        /\ mmio[1] = CsrWrite(0, "req") /\ mmio[2] = CsrWrite(2, "result")
    /\ RequestsFrom(BasesLeft + 1)

\* After close_accel the shell and the core are as at reset.
ClosedInv ==
  phase = "closed" =>
    /\ c0 = None /\ c1 = None /\ ~read_meta_data /\ mmio = <<>> /\ infetch = {}
    /\ \A e \in Entries : entry[e] = "free"
    /\ ~careless => reads = {} /\ responses = {}
    /\ total_mem_req = 0

\* Where the request of slot e is; no two of these at a time.
RequestAt(n, e) == n \in DOMAIN mmio /\ Writes(mmio[n], 4) /\ mmio[n].data.wr_addr = e
Asked(e)  == \E n \in DOMAIN mmio : RequestAt(n, e)
InCore(e) == entry[e] # "free"
InPort(e) == c1 = ResultOf(e)
OnItsWay(e) == ResultOf(e) \in writes

PlacesInv ==
  \A e \in Entries :
    /\ \A n, m \in DOMAIN mmio : RequestAt(n, e) /\ RequestAt(m, e) => n = m
    /\ Asked(e) => ~InCore(e) /\ ~InPort(e) /\ ~OnItsWay(e)
    /\ InCore(e) => ~InPort(e) /\ ~OnItsWay(e)
    /\ InPort(e) => ~OnItsWay(e)
    /\ Asked(e) \/ InCore(e) \/ InPort(e) \/ OnItsWay(e) => e \in waiting
    /\ e \in waiting /\ ~careless => Asked(e) \/ InCore(e) \/ InPort(e) \/ OnItsWay(e)

\* Where the read of cacheline l is; no two of these at a time.  It serves an
\* entry: one that waits for an operand of that cacheline, which the response
\* has, or will have when it is sampled.
Issued(l)   == c0 = ReadOf(l)
InFabric(l) == ReadOf(l) \in reads
Answers(l)  == {r \in responses : r.tag = TagOf(l)}
Answered(l) == Answers(l) # {}
Serves(l, e) == l \in need[e] /\ \A r \in Answers(l) : e \in r.found

FetchInv ==
  /\ \A e \in Entries : need[e] # {} => entry[e] = "waits"
  /\ reads \subseteq {ReadOf(l) : l \in Cachelines}
  /\ c0 = None \/ c0 \in {ReadOf(l) : l \in Cachelines}
  /\ phase # "closed" =>
       /\ \A l \in infetch : \E e \in Entries : Serves(l, e)
       /\ \A l \in Cachelines :
            /\ l \in infetch <=> Issued(l) \/ InFabric(l) \/ Answered(l)
            /\ ~(Issued(l) /\ InFabric(l)) /\ ~(Issued(l) /\ Answered(l))
            /\ ~(InFabric(l) /\ Answered(l))
            /\ \A r, q \in Answers(l) : r = q

\* A report is in one place, and only while the host polls for it: asked for,
\* about to be written, in c1, on its way or read.  Where nothing is outstanding
\* no cacheline is left to fetch, and its total stays the final one.
PollUnderWay == \E n \in DOMAIN mmio : Writes(mmio[n], 6)
ReportInPort == IsReport(c1)
ReportOnItsWay == \E w \in writes : IsReport(w)

PollInv ==
  /\ c1 = None \/ c1 \in {ResultOf(e) : e \in Entries} \/ IsReport(c1)
  /\ \A w \in writes : w \in {ResultOf(e) : e \in Entries} \/ IsReport(w)
  /\ \A w, v \in writes : IsReport(w) /\ IsReport(v) => w = v
  /\ report = None \/ report \in Reports
  /\ PollUnderWay => /\ phase = "poll" /\ ~read_meta_data /\ ~ReportInPort
                     /\ ~ReportOnItsWay /\ report = None
  /\ read_meta_data => /\ phase = "poll" /\ ~ReportInPort /\ ~ReportOnItsWay
                       /\ report = None /\ mmio = <<>>
                       /\ meta_data_offset = MetaLine
                       /\ resp_base_address = "result"
  /\ ReportInPort => /\ phase = "poll" /\ ~ReportOnItsWay /\ report = None
                     /\ mmio = <<>>
                     /\ ~careless => c1.data.total = total_mem_req
  /\ ReportOnItsWay => phase = "poll" /\ report = None /\ mmio = <<>>
  /\ \A w \in writes : IsReport(w) /\ ~careless => w.data.total = total_mem_req
  /\ phase = "poll" /\ report # None =>
       mmio = <<>> /\ (~careless => report.total = total_mem_req)
  /\ phase = "poll" /\ waiting # {} => careless

\* Every response that a bucket counts was issued.  What requests asked for has
\* been read, by one read for each cacheline at least, or is still wanted; a read
\* under way is the one that has not yet done so.  A report says no more.
Wanted == {w \in Entries \X Cachelines : w[1] \in Unread(w[2])}
Sound(r) == SumCounts(r.array) <= r.total /\ r.total <= asked

CountInv ==
  /\ phase # "closed" =>
       /\ SumCounts(perf_cycle_array) + Cardinality(infetch) <= total_mem_req
       /\ total_mem_req + Cardinality(Wanted) <= asked + Cardinality(infetch)
  /\ IsReport(c1) => Sound(c1.data)
  /\ \A w \in writes : IsReport(w) => Sound(w.data)
  /\ report # None => Sound(report)

ShellInv ==
  /\ ShellTypeOK /\ IsSeq(mmio) /\ DiscoverInv /\ NamedInv /\ ClosedInv
  /\ PlacesInv /\ FetchInv /\ PollInv /\ CountInv
=============================================================================

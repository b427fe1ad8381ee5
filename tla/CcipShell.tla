------------------------------ MODULE CcipShell ------------------------------
(***************************************************************************)
(* The shell of Posit.sv between CCI-P and the core: control registers,    *)
(* the registers of the four transmit channels, the counters of memory     *)
(* reads and the metadata write that reports them.  Around it are its      *)
(* neighbours as it sees them: the host from discovery through init_accel, *)
(* requests and poll_performance to close_accel, the fabric, and the core, *)
(* reduced to reading the cachelines in which operands of its requests     *)
(* wait, again where a response was sampled too early for one, and handing *)
(* the results over in the order of its write-back counter.  c1TxAlmFull   *)
(* stays low.                                                              *)
(***************************************************************************)
EXTENDS Integers, Sequences, FiniteSets

CONSTANTS
  NumFPGAEntries, NumOperand, NumCacheline,
  Lower, Upper,      \* the bounds of the buckets of perf_cycle_array
  None,
  MaxCsr,            \* bound on the control-register accesses under way
  MaxAsked,          \* bound on the cachelines that requests ask for,
  MaxPolls           \* and on the reports that a program asks for

ASSUME ShellAssumption ==
  /\ NumFPGAEntries \in Nat \ {0} /\ NumOperand \in Nat /\ NumCacheline \in Nat \ {0}
  /\ MaxCsr \in Nat \ {0} /\ MaxAsked \in Nat /\ MaxPolls \in Nat
  /\ Lower \in Seq(Nat) /\ Upper \in Seq(Nat) /\ Len(Lower) = Len(Upper)

Entries    == 0 .. NumFPGAEntries - 1
Cachelines == 0 .. NumCacheline - 1
Buckets    == 1 .. Len(Lower)
MetaLine   == NumFPGAEntries

\* The buckets are in order, and the last one is for long waits (Posit.sv
\* L361-396).
ASSUME BucketsAssumption ==
  /\ Buckets # {} /\ Lower[Len(Lower)] > 0
  /\ \A b, c \in Buckets : b < c => Upper[b] <= Lower[c]

\* The cachelines in which the operands of one request wait: none if they are
\* all references.
LineSets == {ls \in SUBSET Cachelines : Cardinality(ls) <= NumOperand}

\* The tag of a coalesced read, one-hot.
TagOf(l) == 2^l

\* What a response brings: the slots that find their operands in it, valid and
\* with the right id bit, and whether the request being built will.
Response == [tag : {TagOf(l) : l \in Cachelines}, found : SUBSET Entries, early : BOOLEAN]

\* What leaves the shell when it works: the read of a cacheline, the result of
\* a slot, and a report.
ReadOf(l)    == [buffer |-> "req", line |-> l, tag |-> TagOf(l)]
ResultOf(e)  == [buffer |-> "result", line |-> e, data |-> [kind |-> "result"]]
Reports      == [kind : {"report"}, total : Nat, array : [Buckets -> Nat]]
ReportWrites == [buffer : {"result"}, line : {MetaLine}, data : Reports]

ASSUME NoneIsApart ==
  /\ None \notin {"req", "result"}
  /\ None \notin {ReadOf(l) : l \in Cachelines}
  /\ None \notin {ResultOf(e) : e \in Entries}
  /\ None \notin Reports /\ None \notin ReportWrites

VARIABLES
  \* host
  phase, idWords, slot, waiting, report, polls,
  placed,          \* cachelines of the ring that the request being built fills
  asked,           \* history: how many cachelines the requests asked for
  careless,        \* history: asked for a report, or closed, with results
                   \* outstanding
  \* shell
  req_base_address, resp_base_address, read_meta_data, meta_data_offset,
  c0, c1, c2,      \* sTx registers, None when their valid bit is low
  perf_cycle_cnt, perf_cycle_array, total_mem_req,
  \* core
  entry, need, wbCntr, infetch,
  \* fabric
  mmio,            \* control-register accesses under way, oldest first
  reads, responses, writes

hostVars   == <<phase, idWords, slot, waiting, report, polls, placed, asked, careless>>
shellVars  == <<req_base_address, resp_base_address, read_meta_data,
                meta_data_offset, c0, c1, c2, perf_cycle_cnt,
                perf_cycle_array, total_mem_req>>
coreVars   == <<entry, need, wbCntr, infetch>>
fabricVars == <<mmio, reads, responses, writes>>
vars == <<hostVars, shellVars, coreVars, fabricVars>>

ShellReset ==
  [req_base |-> None, resp_base |-> None, meta |-> FALSE, offset |-> 0,
   tx |-> None, cnt |-> [i \in Cachelines |-> 0],
   array |-> [b \in Buckets |-> 0], total |-> 0]
CoreReset ==
  [entry |-> [e \in Entries |-> "free"], need |-> [e \in Entries |-> {}],
   wb |-> 0, infetch |-> {}]

Init ==
  /\ phase = "discover" /\ idWords = 0 /\ slot = 0 /\ waiting = {}
  /\ report = None /\ polls = 0 /\ placed = {} /\ asked = 0 /\ careless = FALSE
  /\ req_base_address = ShellReset.req_base
  /\ resp_base_address = ShellReset.resp_base
  /\ read_meta_data = ShellReset.meta /\ meta_data_offset = ShellReset.offset
  /\ c0 = ShellReset.tx /\ c1 = ShellReset.tx /\ c2 = ShellReset.tx
  /\ perf_cycle_cnt = ShellReset.cnt /\ perf_cycle_array = ShellReset.array
  /\ total_mem_req = ShellReset.total
  /\ entry = CoreReset.entry /\ need = CoreReset.need
  /\ wbCntr = CoreReset.wb /\ infetch = CoreReset.infetch
  /\ mmio = <<>> /\ reads = {} /\ responses = {} /\ writes = {}

-----------------------------------------------------------------------------
(* The host.  Register addresses are those of the shell, in words of 32    *)
(* bits; the host gives them in bytes.                                     *)

CsrRead(a)     == [kind |-> "read", address |-> a]
CsrWrite(a, d) == [kind |-> "write", address |-> a, data |-> d]

Issue(access) == Len(mmio) < MaxCsr /\ mmio' = Append(mmio, access)

\* Discovery reads the two words of the AFU identity and goes on when both
\* are the ones it looks for.
IdWord == <<"afu_id[63:0]", "afu_id[127:64]">>
ReadIdWord ==
  /\ phase = "discover" /\ mmio = <<>> /\ c2 = None
  /\ Issue(CsrRead(2 * (idWords + 1)))
  /\ UNCHANGED <<hostVars, shellVars, coreVars, reads, responses, writes>>

\* init_accel names the two shared buffers; the ring's write goes first.
SetUp ==
  /\ phase = "setup" /\ Len(mmio) + 2 <= MaxCsr
  /\ mmio' = mmio \o <<CsrWrite(0, "req"), CsrWrite(2, "result")>>
  /\ phase' = "run"
  /\ UNCHANGED <<idWords, slot, waiting, report, polls, placed, asked, careless,
                 shellVars, coreVars, reads, responses, writes>>

\* compute() puts its operands into the ring, here into the cachelines ls,
PlaceOperands(ls) ==
  /\ phase = "run" /\ asked + Cardinality(ls) <= MaxAsked
  /\ phase' = "compute" /\ placed' = ls
  /\ UNCHANGED <<idWords, slot, waiting, report, polls, asked, careless, shellVars,
                 coreVars, fabricVars>>

\* and sends the request for the next slot, once the previous result of the
\* slot is seen.
SendRequest ==
  /\ phase = "compute" /\ slot \notin waiting
  /\ Issue(CsrWrite(4, [wr_addr |-> slot, lines |-> placed]))
  /\ phase' = "run" /\ placed' = {}
  /\ waiting' = waiting \cup {slot}
  /\ slot' = (slot + 1) % NumFPGAEntries
  /\ asked' = asked + Cardinality(placed)
  /\ responses' = {[tag |-> r.tag, early |-> FALSE,
                    found |-> IF r.early THEN r.found \cup {slot} ELSE r.found]
                     : r \in responses}
  /\ UNCHANGED <<idWords, report, polls, careless, shellVars, coreVars, reads, writes>>

\* poll_performance clears the report, asks for a new one and waits for it.
Poll ==
  /\ phase = "run" /\ polls < MaxPolls
  /\ Issue(CsrWrite(6, MetaLine))
  /\ report' = None /\ phase' = "poll" /\ polls' = polls + 1
  /\ careless' = (careless \/ waiting # {})
  /\ UNCHANGED <<idWords, slot, waiting, placed, asked, shellVars, coreVars, reads,
                 responses, writes>>

PollReturn ==
  /\ phase = "poll" /\ report # None
  /\ phase' = "run"
  /\ UNCHANGED <<idWords, slot, waiting, report, polls, placed, asked, careless,
                 shellVars, coreVars, fabricVars>>

\* close_accel resets the accelerator and releases the buffers.
Close ==
  /\ phase = "run"
  /\ phase' = "closed"
  /\ careless' = (careless \/ waiting # {})
  /\ req_base_address' = ShellReset.req_base
  /\ resp_base_address' = ShellReset.resp_base
  /\ read_meta_data' = ShellReset.meta /\ meta_data_offset' = ShellReset.offset
  /\ c0' = ShellReset.tx /\ c1' = ShellReset.tx /\ c2' = ShellReset.tx
  /\ perf_cycle_cnt' = ShellReset.cnt /\ perf_cycle_array' = ShellReset.array
  /\ total_mem_req' = ShellReset.total
  /\ entry' = CoreReset.entry /\ need' = CoreReset.need
  /\ wbCntr' = CoreReset.wb /\ infetch' = CoreReset.infetch
  /\ mmio' = <<>>
  /\ UNCHANGED <<idWords, slot, waiting, report, polls, placed, asked, reads,
                 responses, writes>>

-----------------------------------------------------------------------------
(* What arrives on c0 in a clock: a control-register access or the         *)
(* response of a read, or nothing.                                         *)

NoArrival  == [kind |-> "none"]
Answer(r)  == [kind |-> "response", tag |-> r.tag, found |-> r.found]
Arrivals   == {NoArrival} \cup {Answer(r) : r \in responses}
              \cup (IF mmio = <<>> THEN {} ELSE {Head(mmio)})

Writes(rx, a)          == rx.kind = "write" /\ rx.address = a
mem_read_resp_valid(rx) == rx.kind = "response"

\* The core: it takes a request for a free entry; need[e] are the cachelines in
\* which operands of entry e still wait; one read fetches a cacheline for all
\* the entries that wait for it.
Accepts(rx, e) == /\ Writes(rx, 4) /\ rx.data.wr_addr = e
                  /\ entry[e] = "free"
Awaited == UNION {need[e] : e \in Entries}
Fetchable == Awaited \ infetch
WriteValid == entry[wbCntr] = "done"

NextWbCntr_NoWrap == IF WriteValid THEN wbCntr + 1 ELSE wbCntr
NextWbCntr == IF WriteValid THEN (wbCntr + 1) % NumFPGAEntries ELSE wbCntr
Unset(rx) == {l \in infetch : ~(mem_read_resp_valid(rx) /\ rx.tag = TagOf(l))}
NextInfetch_Lost(rx, fetched) == IF mem_read_resp_valid(rx) THEN Unset(rx) ELSE Unset(rx) \cup fetched
NextInfetch(rx, fetched) == Unset(rx) \cup fetched

\* A response fills the operands of its cacheline that are valid in it and have
\* the right id bit; the others wait on.
Filled(rx, e) ==
  {l \in need[e] : mem_read_resp_valid(rx) /\ rx.tag = TagOf(l) /\ e \in rx.found}

\* An entry whose operands have all come is executed, one at a time.
Ready == {e \in Entries : entry[e] = "waits" /\ need[e] = {}}
Executable == {{}} \cup {{e} : e \in Ready}

CoreClock(rx, fetched, executed) ==
  /\ entry' = [e \in Entries |->
       IF Accepts(rx, e) THEN "waits"
       ELSE IF e = wbCntr /\ WriteValid THEN "free"
       ELSE IF e \in executed THEN "done" ELSE entry[e]]
  /\ need' = [e \in Entries |->
       IF Accepts(rx, e) THEN rx.data.lines ELSE need[e] \ Filled(rx, e)]
  /\ wbCntr' = NextWbCntr
  /\ infetch' = NextInfetch(rx, fetched)

-----------------------------------------------------------------------------
(* The shell.                                                              *)

\* The control registers; the accesses to 4 go to the core.
NextReadMetaData_Sticky(rx) == read_meta_data \/ Writes(rx, 6)
NextReadMetaData(rx) == ~read_meta_data /\ Writes(rx, 6)
NextRespBase_Swapped(rx) == IF Writes(rx, 0) THEN rx.data ELSE resp_base_address
NextRespBase(rx) == IF Writes(rx, 2) THEN rx.data ELSE resp_base_address

ControlRegisters(rx) ==
  /\ read_meta_data' = NextReadMetaData(rx)
  /\ req_base_address' = IF Writes(rx, 0) THEN rx.data ELSE req_base_address
  /\ resp_base_address' = NextRespBase(rx)
  /\ meta_data_offset' = IF Writes(rx, 6) THEN rx.data ELSE meta_data_offset

\* The answer to a read of a register leaves in the next clock.
RegisterRead(a) ==
  CASE a = 0 -> "DFH" [] a = 2 -> IdWord[1] [] a = 4 -> IdWord[2] [] OTHER -> 0
NextC2(rx) == IF rx.kind = "read" THEN RegisterRead(rx.address) ELSE None

NextC0_Again(fetched) ==
  IF fetched = {} THEN c0
  ELSE LET l == CHOOSE l \in fetched : TRUE
       IN  [buffer |-> req_base_address, line |-> l, tag |-> TagOf(l)]
NextC0(fetched) ==
  IF fetched = {} THEN None
  ELSE LET l == CHOOSE l \in fetched : TRUE
       IN  [buffer |-> req_base_address, line |-> l, tag |-> TagOf(l)]

\* The counter of the cacheline's number starts with its read, and the one
\* whose index equals the tag of a response, which is one-hot, stops.
CountBound == Lower[Len(Lower)]    \* no bucket tells longer waits apart
NextCount(rx, fetched, i) ==
  IF i \in fetched THEN 1
  ELSE IF mem_read_resp_valid(rx) /\ i = rx.tag THEN 0
  ELSE IF perf_cycle_cnt[i] \in 1 .. (CountBound - 1)
  THEN perf_cycle_cnt[i] + 1 ELSE perf_cycle_cnt[i]

\* The buckets that count a response.  The index is its tag: a tag beyond the
\* array reads an undefined value, which falls in any bucket or in none.
BucketOf(c) == {b \in Buckets : Lower[b] <= c /\ c < Upper[b]}
CountRead(t) == IF t \in Cachelines THEN {perf_cycle_cnt[t]} ELSE 0 .. CountBound
Counted(rx) ==
  IF mem_read_resp_valid(rx) THEN {BucketOf(c) : c \in CountRead(rx.tag)} ELSE {{}}

NextArray(counted) ==
  [b \in Buckets |-> perf_cycle_array[b] + IF b \in counted THEN 1 ELSE 0]

NextTotal(fetched) == total_mem_req + IF fetched # {} THEN 1 ELSE 0

\* The single write port: a metadata write takes it from the core's result.
\* The buckets are assigned with = in one always_ff and read in another: the
\* report has them from before this clock or after.
MetaWrite(array) ==
  [buffer |-> resp_base_address, line |-> meta_data_offset,
   data |-> [kind |-> "report", total |-> total_mem_req, array |-> array]]
ResultWrite ==
  [buffer |-> resp_base_address, line |-> wbCntr, data |-> [kind |-> "result"]]
NextC1_ResultFirst(array) ==
  IF WriteValid THEN ResultWrite
  ELSE IF read_meta_data THEN MetaWrite(array) ELSE None
NextC1(array) ==
  IF read_meta_data THEN MetaWrite(array)
  ELSE IF WriteValid THEN ResultWrite ELSE None

-----------------------------------------------------------------------------
(* An edge of the clock, and the fabric.                                   *)

\* What the transmit registers show enters the fabric; an answer to a register
\* read goes straight to the host.
Clock(rx, executed) ==
  /\ phase # "closed"
  /\ \E fetched \in IF Fetchable = {} THEN {{}} ELSE {{l} : l \in Fetchable},
        counted \in Counted(rx) :
       /\ CoreClock(rx, fetched, executed)
       /\ c0' = NextC0(fetched)
       /\ perf_cycle_cnt' = [i \in Cachelines |-> NextCount(rx, fetched, i)]
       /\ total_mem_req' = NextTotal(fetched)
       /\ perf_cycle_array' = NextArray(counted)
  /\ \E array \in {perf_cycle_array, perf_cycle_array'} : c1' = NextC1(array)
  /\ c2' = NextC2(rx)
  /\ ControlRegisters(rx)
  /\ mmio' = IF rx.kind \in {"read", "write"} THEN Tail(mmio) ELSE mmio
  /\ responses' = {r \in responses : rx # Answer(r)}
  /\ reads' = IF c0 = None THEN reads ELSE reads \cup {c0}
  /\ writes' = IF c1 = None THEN writes ELSE writes \cup {c1}
  /\ idWords' = IF c2 # None /\ c2 = IdWord[idWords + 1] THEN idWords + 1 ELSE idWords
  /\ phase' = IF phase = "discover" /\ idWords' = 2 THEN "setup" ELSE phase
  /\ UNCHANGED <<slot, waiting, report, polls, placed, asked, careless>>

Tick == \E rx \in Arrivals, executed \in Executable : Clock(rx, executed)

\* A read takes its cacheline from the ring, and finds the operands that have
\* been placed there and not been read; its response keeps the tag.
Unread(l) ==
  {e \in Entries :
     \/ l \in need[e]
     \/ \E n \in DOMAIN mmio : /\ Writes(mmio[n], 4) /\ mmio[n].data.wr_addr = e
                              /\ l \in mmio[n].data.lines}
Sample(r) ==
  /\ reads' = reads \ {r}
  /\ responses' = responses \cup
       {[tag |-> r.tag, found |-> Unread(r.line), early |-> r.line \in placed]}
  /\ UNCHANGED <<hostVars, shellVars, coreVars, mmio, writes>>

\* A write reaches the line that its address names.
DeliverWrite(w) ==
  /\ writes' = writes \ {w}
  /\ waiting' = IF w.buffer = "result" THEN waiting \ {w.line} ELSE waiting
  /\ report' = IF w.buffer = "result" /\ w.line = MetaLine THEN w.data ELSE report
  /\ UNCHANGED <<phase, idWords, slot, polls, placed, asked, careless, shellVars,
                 coreVars, mmio, reads, responses>>

Next ==
  \/ ReadIdWord \/ SetUp
  \/ (\E ls \in LineSets : PlaceOperands(ls)) \/ SendRequest
  \/ Poll \/ PollReturn \/ Close
  \/ Tick
  \/ \E r \in reads : Sample(r)
  \/ \E w \in writes : DeliverWrite(w)

\* The clock runs, what is under way arrives, what can be executed is, and a
\* call of the library that can go on does.
Fairness ==
  /\ WF_vars(ReadIdWord) /\ WF_vars(SetUp) /\ WF_vars(SendRequest) /\ WF_vars(PollReturn)
  /\ WF_vars(Tick)
  /\ WF_vars(mmio # <<>> /\ \E executed \in Executable : Clock(Head(mmio), executed))
  /\ \A l \in Cachelines :
       WF_vars(\E r \in responses, executed \in Executable :
                 r.tag = TagOf(l) /\ Clock(Answer(r), executed))
  /\ WF_vars(\E rx \in Arrivals, e \in Ready : Clock(rx, {e}))
  /\ WF_vars(\E r \in reads : Sample(r))
  /\ WF_vars(\E w \in writes : DeliverWrite(w))

Spec == Init /\ [][Next]_vars
FairSpec == Spec /\ Fairness

-----------------------------------------------------------------------------
(* Properties.                                                             *)

InRing(r)   == r.buffer = "req" /\ r.line \in Cachelines /\ r.tag = TagOf(r.line)
InBuffer(w) == /\ w.buffer = "result"
               /\ w.line \in IF w.data.kind = "report" THEN {MetaLine} ELSE Entries

ShellTypeOK ==
  /\ phase \in {"discover", "setup", "run", "compute", "poll", "closed"}
  /\ waiting \subseteq Entries /\ slot \in Entries /\ wbCntr \in Entries
  /\ entry \in [Entries -> {"free", "waits", "done"}]
  /\ need \in [Entries -> SUBSET Cachelines] /\ infetch \subseteq Cachelines
  /\ perf_cycle_cnt \in [Cachelines -> 0 .. CountBound]
  /\ perf_cycle_array \in [Buckets -> Nat] /\ total_mem_req \in Nat
  /\ placed \in LineSets /\ asked \in Nat /\ responses \subseteq Response
  /\ read_meta_data \in BOOLEAN /\ Len(mmio) <= MaxCsr

\* Every read lies in the operand ring, at the cacheline of its tag, and every
\* write in the result buffer: a result in the line of its slot, a report
\* behind them all.  The shell has no base address until the host's two
\* writes have come (Posit.sv L161-181, hardposit.cpp L79-114); nothing may
\* leave before.
BuffersOnly ==
  /\ \A r \in reads \cup ({c0} \ {None}) : InRing(r)
  /\ \A w \in writes \cup ({c1} \ {None}) : InBuffer(w)

\* Where the request of slot e is: on its way, in the core, in c1, or on its
\* way back.
IsResultOf(w, e) == w # None /\ w.line = e /\ w.data.kind = "result"
Places(e) ==
  Cardinality({n \in DOMAIN mmio : Writes(mmio[n], 4) /\ mmio[n].data.wr_addr = e})
  + (IF entry[e] = "free" THEN 0 ELSE 1)
  + (IF IsResultOf(c1, e) THEN 1 ELSE 0)
  + Cardinality({w \in writes : IsResultOf(w, e)})

\* A request that the host waits for is in exactly one place, and no other
\* leaves a trace: the shell loses no result and sends none twice.  The one
\* exception is a metadata write that takes the port in the clock in which
\* the core hands a result over (Posit.sv L415, L447): it needs a program
\* that polls, or closes, with results outstanding.
RequestIsInOnePlace ==
  \A e \in Entries :
    IF e \in waiting THEN Places(e) = 1 \/ (Places(e) = 0 /\ careless)
    ELSE Places(e) = 0

\* A cacheline is under way in the core's eyes exactly while one read of it is
\* in c0, in the fabric, or on its way back; after an orderly close_accel no
\* read is left that would reach the released buffer.
ReadIsInOnePlace ==
  phase # "closed" \/ ~careless =>
    \A l \in Cachelines :
      Cardinality({r \in reads : r.tag = TagOf(l)})
      + (IF c0 # None /\ c0.tag = TagOf(l) THEN 1 ELSE 0)
      + Cardinality({r \in responses : r.tag = TagOf(l)})
      = (IF l \in infetch THEN 1 ELSE 0)

\* What the buckets of an array have counted, one pair for each response.
SumCounts(array) == Cardinality(UNION {{b} \X (1 .. array[b]) : b \in Buckets})

\* A report counts no read twice, although its buckets and its total come from
\* blocks that race (Posit.sv L367, L447).  The core reads a cacheline again
\* when a response came too early for an operand (POSIT_Locality.scala
\* L137-139), but no more often than there are cachelines in requests: each
\* read serves a request that no other read served there.  A report that was
\* asked for with nothing outstanding has the final total.
ReportCountsReads ==
  report # None =>
    /\ SumCounts(report.array) <= report.total /\ report.total <= asked
    /\ phase = "poll" /\ ~careless => report.total = total_mem_req

\* The driver finds the accelerator; poll_performance returns, also when
\* results are handed over around the metadata write; and with no poll and no
\* close while results are outstanding every request gets its result, several
\* of them from one read.
HostGetsAnswers ==
  /\ phase = "discover" ~> phase # "discover"
  /\ phase = "compute" ~> phase # "compute" \/ careless
  /\ phase = "poll" ~> phase # "poll"
  /\ \A e \in Entries : e \in waiting ~> e \notin waiting \/ careless
=============================================================================

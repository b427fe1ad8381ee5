# hardposit-fpga in TLA+

A verification development for the posit accelerator of this repository: the
out-of-order core written in Chisel (`src/src/main/scala`), the CCI-P shell
around it (`src/hw/rtl/Posit.sv`) and the host library that drives it
(`src/sw/Hardposit`). TLC checks small instances; TLAPS proves theorems for all
values of the constants.

## The system

A C++ program uses objects of class `Hardposit`. An operation on them becomes a
request: one write of a control register that names an instruction, a result
slot and up to three operands. An operand is a position of a ring in host
memory, where the library has just written the value, or the number of a slot
whose result the accelerator still holds. The core keeps the requests in a
reorder buffer with one entry per slot, reads operands from the ring over CCI-P,
forwards results between entries, hands ready entries to one processing element
and writes results back to the slots, where the library polls for them.

| component | source | state | operations |
|---|---|---|---|
| arbiter | `DispatchArbiter.scala` | none | choose |
| processing element | `POSIT.scala` | init, exec, dispatched, result registers | accept, load exec, start core, hand over |
| core | `POSIT_Locality.scala`, `RB.scala` | entries (valid, completed, dispatched, written, request, result), write-back counter, cachelines under way | accept request, forward, take response, fetch, dispatch, complete, write back |
| shell | `Posit.sv` | base addresses, counters, pipeline registers of the CCI-P channels | decode and answer CSR accesses, issue reads and writes, count, write metadata |
| device set-up | `hardposit.cpp` L30-114 | the accelerator's identity, the shared buffers | `init_accel`, `poll_performance`, `close_accel` |
| host library | `hardposit.cpp`, `hardposit.h`, `config.h` | `global_counter`, `req_q_pointer`, `result_track`, the objects, two shared buffers | construct, copy, assign, destroy, compute, read value |
| arithmetic | `PositAdd/Mul/FMA/Compare/DivSqrt.scala`, extractor, generator | the iterative core's registers | compute |

What makes each part correct:

- arbiter: it grants a requester if there is one, the first in rotation.
- processing element: every accepted operation comes out once, in order, with
  its own result; a core is started once for each.
- core: an entry passes through its life in order whatever arrives in the same
  clock; an operand is satisfied by the value meant, never by a stale or a
  neighbouring one; a cacheline is marked as under way exactly while a read of it
  is; a result is written once; every accepted request ends.
- shell: nothing the core hands over is lost, and nothing is sent twice; reads
  and writes stay in the two buffers the host has named; a report counts right.
- device set-up: the driver finds the accelerator, a call for a report returns,
  and after `close_accel` nothing is under way to a buffer that is released.
- host library: a slot is reused only after its result was seen; the list of a slot is exactly
  the objects that stand for its result; an object has the value the program gave
  it, whenever the result arrives; every call returns. A legal C++ program can break the first
  three, and the properties say what it has to do for that.
- arithmetic: a result is the posit nearest to the exact one, or at least next to
  it; a comparison raises exactly one flag; the iterative core answers once, with
  the digits of its own request.

The parts run concurrently: the host writes memory and control registers at its
own pace, the core advances once per clock, and between them CCI-P delivers
memory responses and result writes with any delay and in any order; only
control-register writes stay in order. What is hard, and where, is the list
`hazards` of PROJECT.json. Everything below is arranged around that list.

## Modules

| module | what it is |
|---|---|
| `DispatchArbiter` | the arbiter as an operator, and what it means to be first in rotation |
| `PositPE` | the processing element, one step per clock |
| `OperationFifo` | abstract specification: a queue of operations |
| `PositPECheck`, `PositPEMC` | the element in an environment, its properties, small instances |
| `PositLocality` | the core: wires as operators, one operator `Next...` per register, `LocalityClock` for an edge of the clock |
| `ResultSlots` | abstract specification: the accelerator as a set of futures |
| `PositSystem`, `PositSystemMC` | the core with a host that follows the protocol of `compute()` and with the CCI-P fabric |
| `CcipShell`, `CcipShellMC` | the shell with host, fabric and a core reduced to what it reads and writes: set-up, control registers, reads, writes, counters and reports |
| `PositFormat` | the codec: widths, extractor and generator with its rounding |
| `PositCores` | the cores that take one clock or two: addition, multiplication, fused multiply-add, comparison |
| `PositDivSqrt` | the iterative core for division and square root, one step per clock |
| `PositDatapath` | the processing element with its numbers: those cores between the exec and the result register |
| `PositReference` | reference arithmetic: the value of a posit as an exact number, and what it is to be the nearest one |
| `PositDatapathCheck`, `PositDatapathMC` | what the datapath promises, in terms of the reference; small instances |
| `HostLibrary`, `HostLibraryMC` | the objects of the host library, `result_track` and the calls that wait, with the accelerator as the library sees it |
| `PositSystemInv`, `CcipShellInv`, `HostLibraryInv` | the inductive invariants of these three, part by part |
| `*_proofs` | theorems and their proofs |

### Correspondence

A register of the source is a variable (or a component of one), a wire is an
operator of the same name, and an edge of the clock is one action:
`LocalityClock` conjoins the next value of every register, each computed from
the registers and wires of the ending period, exactly as the hardware does.
Where several `when` blocks assign a register, the order of the IF or of the
disjuncts is that of Chisel's last connection.

- The values are abstract: `Values`, with `Apply` for the arithmetic. An
  operand's mode keeps its encoding (0 value, 1 entry, 2 and 3 ring position with
  id bit). A cacheline, one-hot in the source, is a number and
  `reg_infetch_cacheline` a set.
- The entry field `wr_addr` always equals the index of its entry (L20, L30), and
  is the index. `inFetch` is never written and is left out.
- Each stage of the element holds an operation or `None`: the data registers of
  an empty stage are not distinguished.
- The cores are an operation in `exec` and a count of clocks `peCore`. The
  latency is drawn when the core starts, from the set the instruction allows: 0
  for the combinational cores, 1 for the registered ones, several for division,
  whose time depends on its operands.
- `debug` printing is left out.

The queueing of the element and its numbers are two modules. `PositPE` has the
queue, with latencies for cores and `Apply` for results, and a consumer that may
refuse. `PositDatapath` has the numbers: the exec registers, the register row
inside addition and inside multiply-add, every register of the iterative core,
and the result register. Its operation waits in `init` and its result is always
taken. What the one takes from the other is that a core that was started
answers, once and in the clocks `Latency` allows, and that is `AnswerOnTheWay`.
A bit vector is a natural number below a power of two, a bit field a quotient
and a remainder, an `SInt` an integer that is wrapped where the code can wrap
it. The operands of an operation are held packed and unpacked by `Extract` where
a core reads them; the code unpacks them on the way in. Four registers of the
iterative core have no reset value: `PowerUp` says what they may hold. The
`exceptions` of a result are the register of the iterative core (`execOut`) when
the result is shown (POSIT.scala L271), whatever the instruction, and can be those of an earlier
operation; the shell sends them nowhere (Posit.sv L425-427), and no property
speaks of them.

`CcipShell` has one variable for each register of Posit.sv that a later step
reads; `c0`, `c1` and `c2` are the transmit registers with their valid bit.
The host calls `init_accel`, `compute`, `poll_performance` and `close_accel` in
the order of a program and waits where they wait. `compute()` is two steps: `PlaceOperands` puts
operands into cachelines of the ring (`placed`), `SendRequest` sends the request. The core is what
the shell sees of it: `need[e]` are the cachelines in which operands of entry e still wait, up to
one for each operand; a read is issued for a cacheline that some entry needs and that is not under way,
and its response fills the operands that were in memory when it was sampled (`Unread`, the valid and
id bits of POSIT_Locality.scala L131-139). An operand that was placed after the sample waits on, and the cacheline is read again for it; so
is it for one whose request is accepted after the response.
An entry with nothing left to wait for is executed at some time, one in a clock, and
results are handed over in the order of the counter, for one clock each. What a value is, and where
in a cacheline it stands, is the matter of `PositSystem`.
A register that is assigned with `=` in one `always_ff` and read in
another (the histogram, L367 and L447) is read either before or after the
assignment. A read beyond the array of counters (L361: the index is the one-hot
tag) is undefined and takes any value.

`PositSystem` adds the neighbours. `PutOperand` and `NameEntry` are the two
branches of `compute()` for an operand (hardposit.cpp L211-227), `Submit` its
end (L323-350): the wait for the previous result of the slot, the clearing of
the flags and the write of the control register. `Sample` and `DeliverWrite` are
the fabric: a read takes its copy of the cacheline at some time between request
and response; responses and writes of different slots overtake each other.
`Clock` is an edge of the core's clock with at most one arriving request and one
arriving response, the two ports of the shell.

`HostLibrary` has one action per constructor or operator of `Hardposit` and cuts
the functions that can wait where they wait or talk to the accelerator:
`TakeOperand` once for each operand of `compute()` (L202-317), `ClaimSlot` for
the wait at L323 and what follows it up to the write of the control register,
`SendRequest` for that write, `ReturnVal` for `get_val()`. The rest is one
thread and needs no finer grain. An object is `val`, `valid`, `in_fpga` and
`location`; `was_computed` and `global_location` only feed statistics.
`result_track[s]` is `tracked[s]` (the list) and `requested[s]` (whether `ptr`
is set; it is set again in the same call that clears it, so a slot once used
stays requested). A result buffer whose flags are zero is `None`. The history
variable `meaning` is what a program that computes at once, without an
accelerator, would have in the object. `build` is the -D the library is compiled
with. The program may do anything with its objects. Three things that nothing in the library
keeps it from are named, and `Usage` says which of them it does: dropping the last object
of a result that has not arrived (`"abandon"`), assigning a float to (`"float"`) or negating
(`"negate"`) an object that stands for a result. The repository's own benchmark does the
first two: `rho = rho + r[j]*r[j]` (cg.cpp L383) drops what rho stood for, `sum = 0.0` (L410)
assigns a float to a pending sum. `strayed` remembers which of them have happened, and whether `compute()` has
overrun a slot, that is, taken one whose flags were still zero. The properties are stated over that history:
`OverrunsNeedStraying` and `ListsUntilFloat` for every program, `ValuesInOrder` and
`RequestsInOrder` for every program until the first float, minus or overrun (`InOrder`); what comes after a float or an
overrun is shown by `host_float` and `host_abandon`, and after a minus by the former's cfg with `Usage = {"negate"}`. `goal` is what the latest request for a slot asks for. One
program is not followed: one that destroys a float-assigned object that is still listed. The pointer
left behind is undefined behaviour; the object is taken to live on.
The accelerator here is coarser than in `PositLocality`: a request
gets its entry, completes when its references are there, and is written back in
the order of the counter. That an operand in the ring reaches the entry is shown
by `PositSystem`.

## Runs

| run | question | bounds |
|---|---|---|
| `pe` | is the element a queue that always delivers? | 2 indices, 2 operands, 2 values, latencies 0, 1 and 2 or 3 |
| `pe_backpressure` | and when results can be refused? (no: a result is lost) | the same |
| `system` | does the accelerator implement futures? | 2 entries, 2 operands, ring of 6 in 2 cachelines |
| `system_no_coalesce` | and without coalescing? | 3 entries, 1 operand, ring of 6 in 3 cachelines |
| `system_mixed` | requests dropped, useless reads, repeated writes, and does every result show? | 2 entries, 2 operands, instructions of both arities |
| `host` | do lazy results get to the objects that stand for them, whatever the program does, and until when? | 3 objects, 2 slots, 2 values, builds with reuse and baseline |
| `host_live` | does every call of the library return? | 2 objects, 2 slots, instructions of two and three operands, all builds, no liberties |
| `host_abandon` | is a request dropped when a program drops a pending result? (yes) | as `host`, build with reuse |
| `host_float` | does an object keep its value when another of its slot is assigned a float? (no) | as `host`, build with reuse |
| `datapath` | is every result the one the reference gives, and the answer of its own request? | 7-bit posits with one exponent bit |
| `datapath_difference` | is a difference next to the exact one? (no, when many places cancel) | the same, subtractions only |
| `shell` | is every request and read in one place, every report right, does every call return? | 2 entries, 2 cachelines, 2 operands, 3 buckets, 2 cachelines asked for, 2 reports |

The bounds are chosen so that the ring is as tight as in the code. There it has
32 positions for 3 operands of 8 entries and of the request being built, 27; in
the model 6 positions for 2 operands of 2 entries and one request, 6. That there are
enough is `RingRoomAssumption`; config.h L16 rounds 3 * 8 up to a power of two and gets
enough of them, but the formula does not guarantee it: 2 operands of 8 entries would get
16 positions and need 18. Each
cacheline holds several positions, so that coalesced reads, stale neighbours and
a second turn of the ring with the other id bit all occur. Two entries are
enough for a reference from one to the other, a reuse of an entry that is still
referred to, and a race of forwarding with completion; the run with three
entries adds chains of references and the passing over of an entry by the
write-back counter. `MaxCsr` bounds the control-register writes under way,
`MaxWrites` the repeated writes to a slot under back-pressure. In the runs that
use `TokenSpec` the value written to a ring position is a function of position
and turn, such that neighbours in place and in time differ: a stale or misplaced
operand shows, with far fewer states than free values.

Three objects are two operands and a result, or a result with two copies; with
two slots the third request already reuses a slot. `host` and its companions use the symmetry of
the objects, which the model never orders; `host_live`, where symmetry would be
unsound, does not. `host` stops at the first state that is out of order (`CONSTRAINT InOrder`):
its properties are checked there, and only the theorems speak of what follows. Deadlock is
not checked in it: an overrun makes the core ignore a request, and whoever waits for that
polls for ever. `host` has the two builds that differ most; in the third, which passes by value and
does not wait, no operand is a reference, and it is among the builds of `host_live` and of the theorems. Every
cfg has as many simulated as real entries, as config.h has (8 and 8): `compute()` empties the slot
`SIMULATED_ENTRIES` before the one it takes (L323), which are then the same. The theorems name this as
their assumption `EmptiesItsSlot`.

The datapath runs with 7-bit posits and one exponent bit: three fraction bits,
regimes of up to six bits, and exponents from -10 to 10, so that a result can
overflow, underflow, lose exponent bits to its regime and fall on either side of
every rounding boundary. `addsub`, `mul`, `cmp` and division take all 128 left
operands with zero, NaR, all positive and several negative right ones, the square
root all operands, the multiply-add twelve factors of every regime and sign with
the same right operands in all four modes. Each operation follows a root with an odd
exponent or a negative quotient that does not end, whose digits, remainder and
flags are then still in the registers; the divider has ten digits. Widths follow
from `NBits` and `ES` as in common.scala, and the shift that wraps in PositAdd.scala
L70 wraps at 4 places here as it does at 16 for 32 bits.

In `shell` two cachelines are enough for the index of a counter to be out of
bounds (the tag of the second is 2), and the buckets have the gap the code has
between 700 and 800. A request asks for no, one or both cachelines. `MaxAsked` bounds the cachelines
of all requests together: two are a request with operands in two cachelines, which makes two reads, or two
requests with the same cacheline, which one read serves or, when it was sampled too early for the second, two.
Requests whose operands are all references are not bounded, and bring the slots round. Two
reports bring the second with a changed count. `MaxCsr` is what `init_accel` writes
at once.

Fairness, in `system_mixed`, `host_live`, `pe` and `shell` only: the clock keeps ticking,
a control-register write and a sampled response arrive, a read samples memory
and a write is delivered in the end. That is what a working PCIe link and a
running clock give; the host is not obliged to do anything. For the element
alone it is that its clock ticks. For the library, and for the host in `shell`, it is in
addition that a call goes on when it can: a thread that polls is scheduled. Of the core in `shell`
it is assumed that while some entry has all its operands one is executed in the end; that the whole
core does so is what `EventuallyShown` shows in `system_mixed`.

## What the models show of the code

A run that expects a violation has a finding in PROJECT.json. These do, and so
do some conditions that a passing property had to be given:

- A result that a core finishes while c1TxAlmFull is up is lost (`pe_backpressure`), and
  a result the core offers during that time is sent again in every clock
  (Posit.sv L428; `OneWritePerRequest` fails with `Backpressure = TRUE`).
- A difference that cancels 16 places or more of 32 bits has a wrong exponent
  (`datapath_difference`; PositAdd.scala L70, and PositFMA.scala L78 at 32 places).
  `SumsRounded` holds for all others.
- Zero is added as the number it unpacks to, the fraction 1 with the least exponent
  of all. With one exponent bit or more this is too small to change a posit; without
  any (`AddsTinyZero`), zero plus the smallest posit gives twice the smallest posit.
  The repository's addition tests all have exponent bits (PositAddSpec.scala).
- The sticky bit of addition is computed and never used (PositAdd.scala L43-45): a sum that
  drops places in the alignment is next to the exact one, and need not be the nearest.
- The product of a multiply-add drops its last bit when it is 2 or more
  (PositFMA.scala), and one sticky bit stands for what is dropped in additions and
  subtractions alike. In a sum the fused result is the nearest posit unless both
  the product and the addend behind it lose bits; in a difference when nothing is lost, and the
  places that cancel are all of them or no more than the shift of L78 can express. It is
  next to the exact result when fewer than `FracBits` places cancel, whatever is
  lost (`FusedRounded`). A zero factor with an addend that is not zero is multiplied
  as the tiny number that zero unpacks to; that case is left out of the property.
- Multiplication, division, square root and comparison are the nearest posit, or the right flag,
  for all operands; and every result, of any instruction, carries exactly one flag of
  comparison, which the host relies on when it polls the flag byte (hardposit.cpp L138). The remainder that is not updated in the last clock of a
  division (L100) is made good by the last digit (`QuotientDigits`).
- A metadata write takes the write port from a result (Posit.sv L415): a result is lost when
  a program polls or closes with results outstanding, and only then
  (`RequestIsInOnePlace`, history variable `careless`, which exempts it). A program that closes then also leaves
  reads and writes under way to buffers that are released.
- The counter of a read is started by the number of its cacheline and stopped and read by the one-hot
  tag of the response (L329, L332, L361): its answer is counted in the bucket of another counter, or in an undefined
  one, and the histogram is not one of how long reads took. `ReportCountsReads` shows that no read is counted twice, whichever
  bucket it falls in, and no property claims the bucket. The shell has no bucket for [700, 800), hardposit.cpp L59-62
  prints one: from there on its labels are one bucket off, and the last reads
  `mem_req_cycles[12]` of an array of twelve.
- A request with operands in several cachelines makes several reads, and an operand that a response came too
  early for makes another. There are still no more reads than cachelines in requests, since
  each serves a request that waits for that cacheline and is not served by another.
- A program that drops the last object of a pending result makes the library reuse a busy slot, and the core
  ignore the request (`host_abandon`); nothing else does, but for a float (`OverrunsNeedStraying`).
- An object that is assigned a float stays in the list of its slot, and the copies of the result it stood for
  take the float as their value (`host_float`): `q[j] = sum`, then `sum = 0.0` in cg.cpp.
- An operation on a negated object takes the value without its sign (L391; `ObjectsHoldTheirValue` fails with
  `Usage = {"negate"}`).

## Proofs

`PositLocality_proofs` starts with the arbiter: it grants a position that asked
(`ChosenIsValid`), and no position that asked is met before it in the rotation that
starts behind the last grant (`ChosenIsFirst`), for every width; from the
well-foundedness of the naturals.

`PositPE_proofs` and `PositPECheck_proofs`: the inductive invariant `PEInv` says
that exec and result are never both full, that the core counts only while its
operation is in exec and has been dispatched, and that a start pulse finds it
idle. From it follow type correctness, `ResultRegisterFree`, `CoreStartsOnce`
and, under the assumption that results are always taken, that the element
implements `OperationFifo`: every step of the pipeline is an enqueue, a dequeue,
both, or a stutter of the queue made of result, exec and init.

The rest of `PositLocality_proofs` is about `CoreInv`, the inductive invariant of the core in any
environment that offers well-formed requests and responses. Its parts are the
types, `PEInv`, `EntryLifeCycle` (valid before dispatched before completed
before written) and `StagesMatch` (what the element holds are dispatched entries
that have not completed, each in one stage). The life cycle alone is not
inductive: that a completing entry was dispatched and is not being replaced in
the same clock needs to know what the element holds. One lemma per register
shows what an edge does to it (`StagesMove`, `EntryLifeCycleStep`,
`StagesMatchStep`), `AcceptedIsIdle` that a request is accepted only where no
other block assigns, and `DispatchedIsHeldStep`, under the assumption that
results are always taken, that no dispatched entry is lost.

`PositSystem_proofs`: the invariant of the core together with the types of ring,
fabric and host is inductive for the whole system; type correctness
(`SystemTypeCorrect`), the life cycle (`EntriesLiveInOrder`) and what both arbiters
grant (`GrantsAreInRotation`, from `ChosenIsFirst` and the range of the counters)
follow, with or without back-pressure. Everything else about the system is proved
for `Backpressure = FALSE`, because with it a result is lost and `pe_backpressure` shows
how: `DispatchedAreHeld`, and from `FuturesInv` (`MeaningIsKept`) all the rest.
Its parts say where the request of a slot is (`PlacesInv`), which id bit a position of
the ring has (`RingIds`), what an operand stands for while the request is built, in the
queue of control-register writes and in its entry (`BuildingInv`, `CsrInv`,
`EntryInv`, all by `Stands`), what the stages of the element and the results hold
(`StageInv`, `ResultInv`), and which reads are under way for whom (`FetchInv`,
`ReaderInv`). None of them is inductive alone. A reference stands for the result of the
newest request of its slot only until a newer one is sent, from when on the entry must
already have the result: the host waits for it before it reuses the slot. An
operand in the ring keeps its value because its age, counted in positions
written since, stays below what the host can write before the slot comes round again
(`Room`), and that is below the size of the ring by `RingRoomAssumption`. A response
may be older than the ring, but then what was overwritten was written before the position its
reader waits for, and carries the other id bit. From this follow what the host reads
(`HostReadsWhatItMeant`), `RequestsAreNotDropped`, `RequestsAreWrittenOnce`,
`RingIsNotOverrun`, `ReadsHaveReaders`, `InfetchIsExact` and the refinement of
`ResultSlots` (`AcceleratorIsFutures`), in which only `Submit` and the delivery of a
write are more than a stutter.

`CcipShell_proofs`: `ShellInv` follows the host through its calls and every
message through its places. While the host discovers or sets up, nothing is under way
and one access at a time (`DiscoverInv`); later it may be ahead of the shell, but the two base
addresses are then the first accesses in the queue (`BasesLeft`, `NamedInv`), which is why
nothing leaves for an address that is not named (`BuffersAreKept`). `PlacesInv`,
`FetchInv` and `PollInv` say that a request, the read of a cacheline and a report are each in one place
(`RequestsAreInOnePlace`, `ReadsAreInOnePlace`). `FetchInv` says in addition that every read under way serves
an entry (`Serves`): one that needs the cacheline and is found by the response, if that is sampled already. This
is what makes the count of reads come out although a response can be of no use to some that wait:
`CountInv` bounds the reads made, together with the pairs of an entry and a cacheline that are still
wanted, by the cachelines asked for and the reads under way, so that every answer leaves at least one pair less to
want. It also bounds the sum of the buckets together with the reads under way by the total (`ReportsCount`). The
total of a report is final because a program that polls with no result outstanding has no entry
that could ask for a read any more (`PollInv`, `PlacesInv`). That nobody counts twice although the index of the
histogram may be another read's or undefined needs only that one response raises one
bucket by one. The sum of the buckets is the cardinality of the set of pairs of a bucket and
a number below its count, since a sum over a set is recursive and cannot be proved about.
`BucketsAssumption` and `NoneIsApart` are what the tables of Posit.sv satisfy and what
a model value is for.

`HostLibrary_proofs`: `HostInv` is inductive for every program, with one assumption on the constants,
`EmptiesItsSlot`. It has three layers. `AlwaysInv` holds whatever the program does: objects on lists
live, an object without a value is in the accelerator, requests have their operands
(`HostTypeCorrect`, `MissingValuesAreUnderWay`). `ListsInv` holds until a float is assigned to an object
in the accelerator: lists are exact, the objects of a slot get their value together, and while
nothing was dropped a slot with flags of zero has an object that `compute()` will wait
for (`ListsAreExact`, `OverrunsComeFromTheProgram`). `OrderInv` holds while the program is `InOrder`, dropped results
included. `ObjectsInv` conjoins the values with what the slot was asked for (`goal`, which outlives the
objects of a dropped result). `CallInv` says
what the operands taken so far stand for: an operand by reference is another slot than the one being
filled, which is what the comparison at hardposit.cpp L212 is for. `PlacesInv` says that the request
or the result of a slot is in one place (about to be sent, queued, in its entry, on
its way back), and that the flags of the slot are zero as long as it is: that `compute()` has not
overrun the slot it takes therefore means that it is nowhere, and from this follows that a request meets a free entry
(`RequestsMeetFreeEntries`). `ResultsInv` ties what the entry, the links and the buffer have to
what the slot was asked for. `QueueInv` and `WaitingInv` do so for operands: in the n-th request of the
queue a slot stands for the request before it if there is one, and for the entry
otherwise; in an entry only for an entry that still waits. Together they
give `ValuesAreRight` and, with `BaselineInv` (the one object
without a value is that of the call under way), `BaselineLeavesNothing`. Not `InOrder` is not a corner: the
excluded programs are legal, and the conclusions do fail for them. `list::remove` is stated
by rank (`Removed`), without a recursive operator. `ResetAssumption` and
`ArithmeticAssumption` say that the value of a reset register and the result
of an instruction are values, `NoneIsApart` that the model value `None` is none of them.

`PositDatapath_proofs`, for every format of posit and every sequence of operations,
on the lemmas about formats and cores in `PositFormat_proofs`:
`ControlInv` is `AnswerOnTheWay` together with the fact that the dispatched bit,
which five cores share, is up only for an operation in exec; so a core that starts
finds every other at rest (`AnswersAreOnTheWay`). For the numbers, `DivLoop` and
`RootLoop` say what the registers of the iterative core hold after each clock: the
digits found so far and the remainder they leave, which
is smaller than the divisor, or than the next step of a root. `DigitsInv` conjoins them
with `ControlInv` (the operands stay while the core counts), and with the fact that the
operands are posits, so that `ExtractedFraction` gives each fraction its leading bit: a
division whose divisor had none would not keep its remainder in range.
`QuotientsAreDivided` and `RootsAreExtracted` follow when the count is down to one.
The laws of powers of two that this needs are proved by counting: 2^k is the
number of subsets of 1..k.

`DatapathTypeCorrect` needs `RegisterTypes`, the types of the registers in front of the
cores; that the generator makes a posit of any answer, normalised or not
(`GenerateType`), is most of it: rounding up never carries into the sign.

`PositFormat_proofs` takes the codec apart by runs. `Run` says that a positive posit is a run of equal
bits, the bit that ends it and the rest; `StandsAt` says of an unpacked number
in which regime it is and how far behind the start of it. `ExtractRun` leads from the one to the
other, and `ComparisonsAgree` follows: `PositCompare`, which compares the packed
posits as signed integers, has the order of the unpacked ones. In the other direction,
`GenerateIs` reads the shifts of the generator as quotients and remainders, and
`RoundingIsNearest` reads its guard, round and sticky bits as nearness. Between two powers of the
base the pattern moves linearly with the number, so that rounding to the nearest
pattern needs no value of a posit: `Nearest`, `RoundsRatio` and `RoundsNumber` of
`PositReference` say with integers alone which posit a number num/den * 2^e rounds to.
`GeneratorRounds` says that the generator delivers it for every number whose leading digits it is
handed (`DigitsOf`: its fraction, two more bits, and whether anything follows);
`PackingUndoesUnpacking` is the case of a number that is a posit.

What the runs check is stated with exact values, and so are the theorems about them. `Value` of a
posit is defined from the powers of the base and not from the bit fields; `ValueIs` shows that
the extractor finds it. Exact values are compared as whole numbers of any unit that is
small enough for both (`LessScaled`). The boundary between two neighbours is the posit of one more
bit between them, and `BoundaryAt` says that it stands, between two powers of the base,
where the midpoint of the two patterns stands among the patterns. `RatioRounds` concludes that
what is nearest by patterns is on the right side of both its boundaries; `ProductMeetsValues`,
`QuotientMeetsValues` and `RootMeetsValues` put the exact result into it, the last with squares on both
sides, so that no root is ever taken.

Products, quotients and roots are followed from their operands to the posit. `ExponentFits`: the exponent
registers are wide enough for the sum or the difference of two exponents and one
more. `ProductDigits`, `DivisionAnswers` and `RootAnswers`: the answer has the digits of the
exact product, quotient or root; for the latter two `QuotientFields` and `RootFields` normalise the digits of
`DivLoop` and `RootLoop`, and `FlagsInv` says that the core keeps sign, exponent and flags of the request
under way, whatever the registers without a reset value held before. `ProductsAreRounded` and `QuotientsAreRounded` say of
what the result register shows that it is nearest by patterns, `ProductsAreNearestValues` and
`QuotientsAndRootsAreNearestValues` that it is by values, which is what `datapath` checks.
`ComparisonsOrderValues` follows from `ComparisonsAgree`, the order of signed patterns being that of
values (`SignedValuesOrder`), and is about every instruction: the flags are computed beside each result.

`SumsAreNextToValues` needs no digits of the exact sum, which the adder does not always have. The fractions
are aligned on the larger exponent, and the adder's one differs from the exact one by less than half a unit of
the last place it hands to the generator, on the side of the dropped places, and by nothing
when none are dropped. A posit that the generator makes of a number so near to the exact one is next to
the exact one, because no boundary and no posit lies strictly between the two (`NearPlace`,
`PlaceRounds`). An operand that is zero is not zero to the adder: it is less than a unit of the last place
that the regime of the other leaves room for (`SmallRegime`, `TinyBound`), in sums and in differences, which
borrow, and the other operand comes out (`ZeroSum`). `SumShown`, the invariant, says of
the row of registers that it holds the aligned operands of the operation behind it.

`FusedResultsAreRounded` follows a multiply-add in units of half the last place of the lesser fraction, so that
the bit which the product drops (`gl` or `ll`, behind the greater or the lesser fraction) has a place of its own.
`FusedReads` and `FusedOrdered` say what the two terms are when the greater one has been found,
`FusedExact` what they add up to, and `FusedSums` by how much the sum of the aligned
fractions misses that. `FusedFinish` reads the second half of the core: it knows that something is lost exactly when
something is (`FusedLoses`). `FusedAnswers` normalises the sum: the places that cancel are brought back by the shift,
and its exponent is right when the shift is in the range that L78 can express (`FusedShift`). What is
lost is then a rest that the sticky bit stands for (`FusedRest`, `FusedRestExists`): with
`FusedKnows` it is exactly that rest and the result is the nearest posit, and without it the rest is less than a
posit's place away, so that the result is next to the exact one (`FusedTermsRound`). `FusedShown` is
the invariant of the register row.

Only model-checked: every liveness property. Only proved: `PendingIsInFpga`, the assertion that hardposit.cpp
L157-159 has commented out, which follows from `AlwaysInv`.

Proved for every value of the constants, from the named assumptions of the
modules. Liveness under fairness stays with TLC: the prover has no rule for it
here.

## Plan

The model has every part that was planned: core, library, shell and counters,
iterative core, codec and arithmetic; and every safety property that a passing run checks
is a theorem for every value of the constants.

## Not modelled

`components` in PROJECT.json lists every part with its reason.

- The word of a request: `compute()` packs opcode, modes, slot and operands into 64
  bits (hardposit.cpp L334-346) and Posit.sv L228-246 takes them apart; in the model
  a request is a record. Posit.sv keeps eight of the fourteen bits of an operand's
  value; slots and positions fit them in the configurations of the repository.
- `toDouble`, `toInt` and the comparisons of `Hardposit` apply SoftPosit functions to the value that
  `get_val` returns; only the wait is modelled.
- A second `init_accel` after `close_accel` finds the library already initialised and does
  nothing; a program that goes on then uses released buffers and is taken not to.
- Statistics of the library, allocation and printing, and the OPAE driver below it.
- The generated Verilog (its Scala source is modelled), SoftPosit and the NAS
  benchmarks (third-party; together most of the lines of the repository), test
  harnesses and stand-alone tops, and the converters, which the accelerator
  does not instantiate.

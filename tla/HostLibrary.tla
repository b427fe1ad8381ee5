----------------------------- MODULE HostLibrary -----------------------------
(***************************************************************************)
(* The class Hardposit of the host library (hardposit.cpp, hardposit.h):   *)
(* objects that hold a posit or stand for a result the accelerator has     *)
(* still to deliver, and compute(), which turns an operation on objects    *)
(* into a request.  The program that uses the class is one thread that     *)
(* does whatever it likes with its objects, within the rules of Usage.     *)
(*                                                                         *)
(* The accelerator appears as the library sees it (POSIT_Locality.scala    *)
(* behind Posit.sv): requests arrive in order, a request for an entry that *)
(* is not free is ignored, results are written back in slot order.  What   *)
(* an operand in the ring goes through is the matter of PositSystem; here  *)
(* an operand passed by value carries its value.                           *)
(***************************************************************************)
EXTENDS Integers, Sequences, FiniteSets, SequencesExt

CONSTANTS
  Objs,             \* the objects a program can have at a time
  NumFPGAEntries,   \* config.h: result slots
  SimulatedEntries, \* config.h: as many results are under way at most
  Values,           \* what an object can hold
  Insts,            \* the instructions in use
  Apply(_, _),      \* the result of an instruction on a sequence of values
  Negated(_),       \* the effect of unary minus on a value
  Builds,           \* the builds of the library that are looked at
  Usage,            \* the liberties a program takes, see below
  MaxCsr,           \* bound on the requests under way to the accelerator
  MaxWrites,        \* bound on the results of a slot under way to the host
  None              \* no call, no result

Slots == 0 .. NumFPGAEntries - 1
AllInsts == {"ADDSUB", "MUL", "SQRTDIV", "FMA"}
Arity(i) == IF i = "FMA" THEN 3 ELSE 2
ASSUME EntriesAssumption == NumFPGAEntries \in Nat \ {0}
ASSUME SimulatedAssumption == SimulatedEntries \in 1 .. NumFPGAEntries
ASSUME InstsAssumption == Insts \subseteq AllInsts
ASSUME BuildAssumption == Builds \subseteq {"REUSE", "NOREUSE", "BASELINE"}

\* What nothing in the library keeps a program from, and Usage allows it:
\* "abandon": the last object of a result may go before the result is there;
\* "float": an object that stands for a result may be assigned a float;
\* "negate": unary minus may be applied to such an object.
ASSUME UsageAssumption == Usage \subseteq {"abandon", "float", "negate"}

Object == [val : Values, valid : BOOLEAN, inFpga : BOOLEAN, location : Slots]

\* An operand of a request: a value or the slot of an earlier request.
Immediate == [mode : {0}, value : Values]
Reference == [mode : {1}, value : Slots]
Operand == Immediate \cup Reference
Operands(n) == [1 .. n -> Operand]
Request == [wr_addr : Slots, inst : Insts, ops : Operands(2) \cup Operands(3)]

\* An entry of the accelerator as far as requests and references see it.
Phases == {"empty", "waiting", "completed", "written"}
Entry == [phase : Phases, inst : Insts,
          ops : UNION {Operands(n) : n \in {0, 2, 3}}, result : Values]

Calls ==
  [stage : {"operands", "send", "read"}, object : Objs, inst : Insts,
   args : UNION {[1 .. n -> Objs] : n \in {0, 2, 3}},
   ops : UNION {Operands(n) : n \in 0 .. 3}]

CONSTANTS Zero, AnyInst   \* what the entries hold after reset
ASSUME ResetAssumption == Zero \in Values /\ AnyInst \in Insts
ASSUME ArithmeticAssumption ==
  /\ \A i \in Insts : \A args \in [1 .. Arity(i) -> Values] : Apply(i, args) \in Values
  /\ \A v \in Values : Negated(v) \in Values
ASSUME NoneIsApart == None \notin Values /\ None \notin Calls

VARIABLES
  \* the library
  build,      \* the -D it was compiled with: never changes
  obj,        \* the live objects
  tracked,    \* result_track[slot].crntPosit: the objects of each slot
  requested,  \* result_track[slot].ptr is set
  counter,    \* global_counter % NUM_FPGA_ENTRIES
  call,       \* the library function under way, None if there is none
  meaning,    \* history: the value each live object stands for
  goal,       \* history: the value the latest request for a slot asks for
  strayed,    \* history: the liberties taken so far, and whether compute() has
              \* overrun a slot: taken it with its flags still 0
  \* the result buffer
  shown,      \* None while the flags of the slot are 0
  \* the accelerator and its links
  csr, entry, wbCntr, writes

libraryVars == <<build, obj, tracked, requested, counter, call, meaning, goal, strayed>>
acceleratorVars == <<csr, entry, wbCntr, writes>>
vars == <<libraryVars, shown, acceleratorVars>>

Live == DOMAIN obj

TypeOK ==
  /\ build \in Builds
  /\ Live \subseteq Objs /\ obj \in [Live -> Object]
  /\ tracked \in [Slots -> Seq(Objs)]
  /\ requested \in [Slots -> BOOLEAN]
  /\ counter \in Slots
  /\ call \in Calls \cup {None}
  /\ meaning \in [Live -> Values]
  /\ goal \in [Slots -> Values]
  /\ strayed \subseteq Usage \cup {"overrun"}
  /\ shown \in [Slots -> Values \cup {None}]
  /\ csr \in Seq(Request)
  /\ entry \in [Slots -> Entry]
  /\ wbCntr \in Slots
  /\ writes \in [Slots -> Seq(Values)]

EmptyEntry == [phase |-> "empty", inst |-> AnyInst, ops |-> <<>>, result |-> Zero]

Init ==
  /\ build \in Builds
  /\ obj = <<>> /\ meaning = <<>>
  /\ goal = [s \in Slots |-> Zero] /\ strayed = {}
  /\ tracked = [s \in Slots |-> <<>>]
  /\ requested = [s \in Slots |-> FALSE]
  /\ counter = 0
  /\ call = None
  /\ shown = [s \in Slots |-> None]
  /\ csr = <<>>
  /\ entry = [s \in Slots |-> EmptyEntry]
  /\ wbCntr = 0
  /\ writes = [s \in Slots |-> <<>>]

-----------------------------------------------------------------------------
(* Objects.                                                                *)

\* list::remove takes every occurrence of x and keeps the rest in order: what
\* is kept with k of its kind up to it comes k-th.
Removed_All(list, x) == <<>>
Removed(list, x) ==
  LET kept == {n \in DOMAIN list : list[n] # x}
      rank == [n \in kept |-> Cardinality({m \in kept : m <= n})]
  IN  [k \in 1 .. Cardinality(kept) |-> list[CHOOSE n \in kept : rank[n] = k]]

\* result_track as the constructors and operators leave it: list::remove and
\* push_back.
Untrack(track, x) ==
  IF obj[x].inFpga
  THEN [track EXCEPT ![obj[x].location] = Removed(@, x)] ELSE track
Track(track, x, o) ==
  IF o.inFpga THEN [track EXCEPT ![o.location] = Append(@, x)] ELSE track

With(f, x, v) == [y \in DOMAIN f \cup {x} |-> IF y = x THEN v ELSE f[y]]
Without(f, x) == [y \in DOMAIN f \ {x} |-> f[y]]

\* x is the only object of a result that has not arrived.
LastOfPending(x) == ~obj[x].valid /\ tracked[obj[x].location] = <<x>>
MayGo(x) == "abandon" \in Usage \/ ~LastOfPending(x)
Strays(kind, does) == strayed' = IF does THEN strayed \cup {kind} ELSE strayed

\* The constructors from a number.
Construct(x, v) ==
  /\ x \notin Live
  /\ obj' = With(obj, x, [val |-> v, valid |-> TRUE, inFpga |-> FALSE, location |-> 0])
  /\ meaning' = With(meaning, x, v)
  /\ UNCHANGED <<tracked, strayed>>

\* The copy constructor.
Copy(x, y) ==
  /\ x \notin Live /\ y \in Live
  /\ obj' = With(obj, x, obj[y])
  /\ meaning' = With(meaning, x, meaning[y])
  /\ tracked' = Track(tracked, x, obj[y])
  /\ UNCHANGED strayed

\* operator=(Hardposit const&).
Assign_KeepsTrack(x, y) ==
  /\ x \in Live /\ y \in Live /\ (x = y \/ MayGo(x))
  /\ obj' = With(obj, x, obj[y])
  /\ meaning' = With(meaning, x, meaning[y])
  /\ tracked' = Track(tracked, x, obj[y])
  /\ Strays("abandon", x # y /\ LastOfPending(x))
Assign(x, y) ==
  /\ x \in Live /\ y \in Live /\ (x = y \/ MayGo(x))
  /\ obj' = With(obj, x, obj[y])
  /\ meaning' = With(meaning, x, meaning[y])
  /\ tracked' = Track(Untrack(tracked, x), x, obj[y])
  /\ Strays("abandon", x # y /\ LastOfPending(x))

\* operator=(float const&): the object stays in the list of its slot.
AssignFloat(x, v) ==
  /\ x \in Live
  /\ obj[x].inFpga => "float" \in Usage
  /\ Strays("float", obj[x].inFpga)
  /\ obj' = With(obj, x, [val |-> v, valid |-> TRUE, inFpga |-> FALSE, location |-> 0])
  /\ meaning' = With(meaning, x, v)
  /\ UNCHANGED tracked

\* The destructor.  An object that was assigned a float while it was tracked
\* would leave a dangling pointer in a list here: it is taken to live on.
Dangles(x) == \E s \in Slots : x \in ToSet(Untrack(tracked, x)[s])
Destroy(x) ==
  /\ x \in Live /\ MayGo(x) /\ ~Dangles(x)
  /\ obj' = Without(obj, x)
  /\ meaning' = Without(meaning, x)
  /\ tracked' = Untrack(tracked, x)
  /\ Strays("abandon", LastOfPending(x))

\* get_val_at_slot(pos, keep) gives every object of the slot the value of the
\* first one or, if that has none, of the result buffer; it waits for the
\* latter, and does nothing to a slot that no object tracks.
First(s) == tracked[s][1]
GetsValAtSlot(s) ==
  tracked[s] # <<>> =>
    obj[First(s)].valid \/ (requested[s] => shown[s] # None)
AfterGetVal(s, keep) ==
  [x \in Live |->
     IF x \in ToSet(tracked[s]) /\ (obj[First(s)].valid \/ requested[s])
     THEN [obj[x] EXCEPT !.inFpga = keep, !.valid = TRUE,
             !.val = IF obj[First(s)].valid THEN obj[First(s)].val ELSE shown[s]]
     ELSE obj[x]]

\* get_val(): returns at once for a valid object.
GetsVal(x) == obj[x].valid \/ GetsValAtSlot(obj[x].location)
ObjAfterGetVal(x) ==
  IF obj[x].valid THEN obj ELSE AfterGetVal(obj[x].location, obj[x].inFpga)

\* Unary minus changes the value, not what it stands for in the accelerator.
Negate(x) ==
  /\ x \in Live
  /\ obj[x].inFpga => "negate" \in Usage
  /\ Strays("negate", obj[x].inFpga)
  /\ GetsVal(x)
  /\ obj' = [ObjAfterGetVal(x) EXCEPT ![x].val = Negated(@)]
  /\ meaning' = [meaning EXCEPT ![x] = Negated(@)]
  /\ UNCHANGED tracked

ObjectStep ==
  /\ call = None
  /\ \/ \E x \in Objs, v \in Values : Construct(x, v)
     \/ \E x, y \in Objs : Copy(x, y)
     \/ \E x, y \in Objs : Assign(x, y)
     \/ \E x \in Objs, v \in Values : AssignFloat(x, v)
     \/ \E x \in Objs : Destroy(x)
     \/ \E x \in Objs : Negate(x)
  /\ UNCHANGED <<build, requested, counter, call, goal, shown, acceleratorVars>>

-----------------------------------------------------------------------------
(* Calls that can wait.                                                    *)

\* Whoever needs the value of an object calls get_val().
CallGetVal(x) ==
  /\ call = None /\ x \in Live
  /\ call' = [stage |-> "read", object |-> x, inst |-> AnyInst,
              args |-> <<>>, ops |-> <<>>]
  /\ UNCHANGED <<build, obj, tracked, requested, counter, meaning, goal, strayed,
                 shown, acceleratorVars>>

ReturnVal ==
  /\ call # None /\ call.stage = "read"
  /\ GetsVal(call.object)
  /\ obj' = ObjAfterGetVal(call.object)
  /\ call' = None
  /\ UNCHANGED <<build, tracked, requested, counter, meaning, goal, strayed,
                 shown, acceleratorVars>>

\* compute() is called for instruction i on args; r is where its result goes.
CallCompute(r, args, i) ==
  /\ call = None /\ r \notin Live
  /\ call' = [stage |-> "operands", object |-> r, inst |-> i, args |-> args,
              ops |-> <<>>]
  /\ UNCHANGED <<build, obj, tracked, requested, counter, meaning, goal, strayed,
                 shown, acceleratorVars>>

\* The next operand is put into the request: by reference if the build reuses
\* results and the accelerator has it in another slot, else by value.
ByReference_SameSlot(x) == build = "REUSE" /\ obj[x].inFpga
ByReference(x) ==
  /\ build = "REUSE"
  /\ obj[x].inFpga
  /\ obj[x].location # counter
TakeOperand ==
  /\ call # None /\ call.stage = "operands" /\ Len(call.ops) < Arity(call.inst)
  /\ LET x == call.args[Len(call.ops) + 1]
     IN  \/ /\ ByReference(x)
            /\ call' = [call EXCEPT !.ops =
                          Append(@, [mode |-> 1, value |-> obj[x].location])]
            /\ UNCHANGED obj
         \/ /\ ~ByReference(x)
            /\ GetsVal(x)
            /\ obj' = ObjAfterGetVal(x)
            /\ call' = [call EXCEPT !.ops =
                          Append(@, [mode |-> 0, value |-> obj'[x].val])]
  /\ UNCHANGED <<build, tracked, requested, counter, meaning, goal, strayed,
                 shown, acceleratorVars>>

\* compute() makes room in the slot SimulatedEntries before the one it takes:
\* the same one if all entries are in use.
SlotToEmpty(q) == (q + NumFPGAEntries - SimulatedEntries) % NumFPGAEntries

\* The flags of the slot are zeroed before the request goes out.
ClearedFlags_Not(s) == shown
ClearedFlags(s) == [shown EXCEPT ![s] = None]

\* The slot is taken for the new result: once its previous result has been
\* given to the objects that track it, the list and the flags are cleared.  A
\* slot no object tracks is taken at once.
ClaimSlot ==
  /\ call # None /\ call.stage = "operands" /\ Len(call.ops) = Arity(call.inst)
  /\ GetsValAtSlot(SlotToEmpty(counter))
  /\ obj' = With(AfterGetVal(SlotToEmpty(counter), FALSE), call.object,
                 [val |-> Zero, valid |-> FALSE, inFpga |-> TRUE,
                  location |-> counter])
  /\ LET result == Apply(call.inst, [n \in DOMAIN call.args |-> meaning[call.args[n]]])
     IN  /\ meaning' = With(meaning, call.object, result)
         /\ goal' = [goal EXCEPT ![counter] = result]
  /\ Strays("overrun", requested[counter] /\ shown[counter] = None)
  /\ tracked' = [tracked EXCEPT ![counter] = <<call.object>>]
  /\ requested' = [requested EXCEPT ![counter] = TRUE]
  /\ shown' = ClearedFlags(counter)
  /\ counter' = (counter + 1) % NumFPGAEntries
  /\ call' = [call EXCEPT !.stage = "send"]
  /\ UNCHANGED <<build, acceleratorVars>>

\* The request goes out; the baseline build then waits for its result.
AfterSend_NoWait == None
AfterSend == IF build = "BASELINE" THEN [call EXCEPT !.stage = "read"] ELSE None
SendRequest ==
  /\ call # None /\ call.stage = "send" /\ Len(csr) < MaxCsr
  /\ csr' = Append(csr, [wr_addr |-> obj[call.object].location,
                         inst |-> call.inst, ops |-> call.ops])
  /\ call' = AfterSend
  /\ UNCHANGED <<build, obj, tracked, requested, counter, meaning, goal, strayed,
                 shown, entry, wbCntr, writes>>

CallStep == ReturnVal \/ TakeOperand \/ ClaimSlot \/ SendRequest

-----------------------------------------------------------------------------
(* The accelerator.                                                        *)

\* An operand that names a slot is replaced once the result of that is there.
HasResult(e) == e.phase \in {"completed", "written"}
Forwarded(ops, entries) ==
  [n \in DOMAIN ops |->
     IF ops[n].mode = 1 /\ HasResult(entries[ops[n].value])
     THEN [mode |-> 0, value |-> entries[ops[n].value].result]
     ELSE ops[n]]

IsFree(s) == entry[s].phase \in {"empty", "written"}

\* A request arrives; the core ignores it if the entry is not free.
Arrive ==
  /\ csr # <<>>
  /\ csr' = Tail(csr)
  /\ LET req == Head(csr)
         accepted == [entry EXCEPT ![req.wr_addr] =
                        [phase |-> "waiting", inst |-> req.inst,
                         ops |-> req.ops, result |-> Zero]]
     IN  entry' = IF IsFree(req.wr_addr)
                  THEN [accepted EXCEPT ![req.wr_addr].ops = Forwarded(@, accepted)]
                  ELSE entry
  /\ UNCHANGED <<libraryVars, shown, wbCntr, writes>>

\* The result of an entry is there, for itself and for those that wait for it.
Complete(s) ==
  /\ entry[s].phase = "waiting"
  /\ \A n \in DOMAIN entry[s].ops : entry[s].ops[n].mode = 0
  /\ LET values == [n \in DOMAIN entry[s].ops |-> entry[s].ops[n].value]
         done == [entry EXCEPT ![s].phase = "completed",
                               ![s].result = Apply(entry[s].inst, values)]
     IN  entry' = [e \in Slots |->
                     [done[e] EXCEPT !.ops = Forwarded(@, done)]]
  /\ UNCHANGED <<libraryVars, shown, csr, wbCntr, writes>>

NextSlot_NoWrap(s) == s + 1
NextSlot(s) == (s + 1) % NumFPGAEntries
WriteBack ==
  /\ entry[wbCntr].phase = "completed" /\ Len(writes[wbCntr]) < MaxWrites
  /\ entry' = [entry EXCEPT ![wbCntr].phase = "written"]
  /\ writes' = [writes EXCEPT ![wbCntr] = Append(@, entry[wbCntr].result)]
  /\ wbCntr' = NextSlot(wbCntr)
  /\ UNCHANGED <<libraryVars, shown, csr>>

DeliverWrite(s) ==
  /\ \E n \in 1 .. Len(writes[s]) :
       /\ shown' = [shown EXCEPT ![s] = writes[s][n]]
       /\ writes' = [writes EXCEPT ![s] = RemoveAt(@, n)]
  /\ UNCHANGED <<libraryVars, csr, entry, wbCntr>>

AcceleratorStep ==
  \/ Arrive
  \/ \E s \in Slots : Complete(s)
  \/ WriteBack
  \/ \E s \in Slots : DeliverWrite(s)

Next ==
  \/ ObjectStep
  \/ \E x \in Objs : CallGetVal(x)
  \/ \E i \in Insts, r \in Objs :
       \E args \in [1 .. Arity(i) -> Live] : CallCompute(r, args, i)
  \/ CallStep
  \/ AcceleratorStep

Spec == Init /\ [][Next]_vars

\* A call runs when it can, the accelerator works and its links deliver.  The
\* program is not obliged to call anything.
Fairness ==
  /\ WF_vars(CallStep)
  /\ WF_vars(Arrive)
  /\ WF_vars(WriteBack)
  /\ \A s \in Slots : WF_vars(Complete(s)) /\ WF_vars(DeliverWrite(s))
FairSpec == Spec /\ Fairness

-----------------------------------------------------------------------------
(* Properties.                                                             *)

\* An object that has a value has the value it stands for, so that print_val
\* does "print the value of the hardposit" (hardposit.cpp L117-120).  Nothing
\* in the library warns of the liberties of Usage, which break it.
ObjectsHoldTheirValue == \A x \in Live : obj[x].valid => obj[x].val = meaning[x]

\* It is so, whatever is copied, assigned, destroyed and computed and in
\* whatever order requests, results and reads meet, in a program that has
\* neither assigned a float to nor negated an object in the accelerator, as
\* long as compute() has overrun no slot.
InOrder == strayed \subseteq {"abandon"}
ValuesInOrder == InOrder => ObjectsHoldTheirValue

\* compute() waits for the previous result of the slot it takes: it overruns one
\* only if the program has dropped the last object of a result that was still
\* to come, or assigned a float to an object in the accelerator.
OverrunsNeedStraying ==
  "overrun" \in strayed => "abandon" \in strayed \/ "float" \in strayed

\* result_track lists the objects that stand for the result of a slot, each
\* once, and no object that is gone: get_val_at_slot writes through every
\* pointer of the list, and only the objects on it get their value.
TrackedExactly ==
  \A s \in Slots :
    /\ ToSet(tracked[s]) = {x \in Live : obj[x].inFpga /\ obj[x].location = s}
    /\ IsInjective(tracked[s])

\* It is so whatever the program does, overrun slots included, until it assigns
\* a float to an object in the accelerator: operator=(float const&) leaves the
\* object on its list (hardposit.cpp L425-431).
ListsUntilFloat == "float" \in strayed \/ TrackedExactly

\* An object without a value is one the accelerator will give a value to: the
\* assertion that hardposit.cpp L157-159 has commented out.
PendingIsInFpga == \A x \in Live : ~obj[x].valid => obj[x].inFpga

\* A request meets a free entry.  The test sends one only while the core is
\* ready (PositLocalitySpec.scala L33); the library and Posit.sv never look.
NoRequestDropped == csr # <<>> => IsFree(Head(csr).wr_addr)

\* It is so as long as compute() has overrun no slot and the program has neither
\* assigned a float to nor negated an object in the accelerator.
RequestsInOrder == InOrder => NoRequestDropped

\* The baseline build waits in compute(): between two calls every object has
\* its value and the accelerator has nothing left to do.
BaselineWaits ==
  (build = "BASELINE" /\ call = None) =>
    /\ \A x \in Live : obj[x].valid
    /\ csr = <<>> /\ \A s \in Slots : IsFree(s)

\* A call returns: no get_val() and no compute() waits for ever.
CallsReturn == (call # None) ~> (call = None)
=============================================================================

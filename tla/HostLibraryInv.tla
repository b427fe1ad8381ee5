--------------------------- MODULE HostLibraryInv ---------------------------
(***************************************************************************)
(* The inductive invariant of the host library and the accelerator it      *)
(* drives, part by part: the objects and the list of each slot, the call   *)
(* under way, where the request or the result of a slot is, and what the   *)
(* operands on their way mean.                                             *)
(***************************************************************************)
EXTENDS HostLibrary

\* compute() empties the slot it takes, as it does with the numbers of config.h.
EmptiesItsSlot == SimulatedEntries = NumFPGAEntries

Tracks(x, s) == x \in Live /\ obj[x].inFpga /\ obj[x].location = s

\* What the latest request for slot s asks for.
Meant(s) == goal[s]

\* The request for slot s is about to be sent; is in the queue, before the n-th
\* request or at all; is under way at all, or its result is.
Claimed(s)   == call # None /\ call.stage = "send" /\ obj[call.object].location = s
Before(n, s) == \E m \in 1 .. n - 1 : csr[m].wr_addr = s
Queued(s)    == \E m \in 1 .. Len(csr) : csr[m].wr_addr = s
Pending(s)   == Claimed(s) \/ Queued(s) \/ ~IsFree(s) \/ writes[s] # <<>>

-----------------------------------------------------------------------------
\* Whatever the program does: every object on a list lives, an object without a
\* value is in the accelerator, and requests have the operands they need.
CallShape ==
  call # None =>
    /\ call.stage = "operands" <=> call.object \notin Live
    /\ call.stage # "read" =>
         /\ call.args \in [1 .. Arity(call.inst) -> Live]
         /\ Len(call.ops) <= Arity(call.inst)
    /\ call.stage = "send" => Len(call.ops) = Arity(call.inst)

AlwaysInv ==
  /\ TypeOK /\ PendingIsInFpga /\ CallShape
  /\ \A s \in Slots : ToSet(tracked[s]) \subseteq Live
  /\ \A n \in 1 .. Len(csr) : DOMAIN csr[n].ops = 1 .. Arity(csr[n].inst)
  /\ \A s \in Slots :
       entry[s].phase = "waiting" => DOMAIN entry[s].ops = 1 .. Arity(entry[s].inst)

\* Until a float is assigned to an object in the accelerator: the objects of a
\* slot have their value together, and not before its flags are set; one of
\* them is left until then if none was abandoned.
ListsInv ==
  /\ TrackedExactly
  /\ \A s \in Slots : \A x \in Live : Tracks(x, s) =>
       /\ requested[s]
       /\ shown[s] = None => ~obj[x].valid
       /\ \A y \in Live : Tracks(y, s) => obj[x].valid = obj[y].valid
  /\ "abandon" \notin strayed =>
       /\ "overrun" \notin strayed
       /\ \A s \in Slots : requested[s] /\ shown[s] = None => tracked[s] # <<>>

LibraryInv == AlwaysInv /\ ("float" \notin strayed => ListsInv)

-----------------------------------------------------------------------------
\* While the program is in order: objects have and stand for the right values.
ObjectsInv ==
  /\ ObjectsHoldTheirValue
  /\ \A s \in Slots : \A x \in Live : Tracks(x, s) => meaning[x] = Meant(s)

\* An operand taken from x, for the request of slot s: the value x means, or
\* the slot of x, which is another one.
OperandOf(op, x, s) ==
  IF op.mode = 0 THEN op.value = meaning[x]
  ELSE Tracks(x, op.value) /\ op.value # s

ResultSlot == IF call.stage = "operands" THEN counter ELSE obj[call.object].location

CallInv ==
  call # None =>
    /\ call.stage # "read" => \A n \in 1 .. Len(call.ops) :
         OperandOf(call.ops[n], call.args[n], ResultSlot)
    /\ call.stage = "send" =>
         /\ Tracks(call.object, ResultSlot) /\ ~obj[call.object].valid
         /\ meaning[call.object] =
              Apply(call.inst, [n \in DOMAIN call.args |-> meaning[call.args[n]]])

\* The request or the result of a slot is in one place, and as long as it is
\* under way the flags of the slot are 0.
PlacesInv ==
  /\ \A m, n \in 1 .. Len(csr) : csr[m].wr_addr = csr[n].wr_addr => m = n
  /\ \A s \in Slots :
       /\ Claimed(s) => ~Queued(s)
       /\ Claimed(s) \/ Queued(s) => IsFree(s) /\ writes[s] = <<>>
       /\ ~IsFree(s) => writes[s] = <<>>
       /\ Len(writes[s]) <= 1
       /\ Pending(s) => requested[s] /\ shown[s] = None

\* The result of a slot was requested and is what the request asked for.
ResultsInv ==
  \A s \in Slots : requested[s] =>
    /\ Claimed(s) \/ Queued(s) \/ entry[s].phase # "empty"
    /\ HasResult(entry[s]) /\ ~Claimed(s) /\ ~Queued(s) => entry[s].result = Meant(s)
    /\ \A n \in 1 .. Len(writes[s]) : writes[s][n] = Meant(s)
    /\ shown[s] # None => shown[s] = Meant(s)

\* What an operand means: in the n-th request of the queue, where a slot is that
\* of the request before it or the one the accelerator has; and in an entry.
EntryMeans(s)   == IF HasResult(entry[s]) THEN entry[s].result ELSE Meant(s)
QueuedMeans(op, n) ==
  IF op.mode = 0 THEN op.value
  ELSE IF Before(n, op.value) THEN Meant(op.value) ELSE EntryMeans(op.value)
WaitingMeans(op) == IF op.mode = 0 THEN op.value ELSE Meant(op.value)

QueueInv ==
  \A n \in 1 .. Len(csr) :
    LET req == csr[n]
    IN  /\ \A k \in DOMAIN req.ops : req.ops[k].mode = 1 =>
             /\ req.ops[k].value # req.wr_addr
             /\ Before(n, req.ops[k].value) \/ entry[req.ops[k].value].phase # "empty"
        /\ Meant(req.wr_addr) =
             Apply(req.inst, [k \in DOMAIN req.ops |-> QueuedMeans(req.ops[k], n)])

WaitingInv ==
  \A s \in Slots : entry[s].phase = "waiting" =>
    LET ops == entry[s].ops
    IN  /\ \A k \in DOMAIN ops : ops[k].mode = 1 => entry[ops[k].value].phase = "waiting"
        /\ Meant(s) = Apply(entry[s].inst, [k \in DOMAIN ops |-> WaitingMeans(ops[k])])

\* The baseline build waits for the result of the call under way, and has no
\* object without a value but that of this call.
BaselineInv ==
  build = "BASELINE" =>
    /\ \A x \in Live : ~obj[x].valid =>
         call # None /\ call.object = x /\ call.stage \in {"send", "read"}
    /\ \A s \in Slots : requested[s] /\ shown[s] = None =>
         call # None /\ call.stage \in {"send", "read"} /\ Tracks(call.object, s)

OrderInv ==
  /\ ObjectsInv /\ CallInv /\ PlacesInv /\ ResultsInv
  /\ QueueInv /\ WaitingInv /\ BaselineInv

HostInv == LibraryInv /\ (InOrder => OrderInv)
=============================================================================

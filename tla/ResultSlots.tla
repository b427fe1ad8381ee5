---------------------------- MODULE ResultSlots ----------------------------
(***************************************************************************)
(* What the accelerator promises the host: result slots that behave like   *)
(* futures.  A request applies its instruction to the values of its        *)
(* sources as they are when it is submitted, a source being a value or the *)
(* outcome, visible or still to come, of another slot.  The result appears *)
(* once, in the slot of the request; slots may become visible in any order.*)
(***************************************************************************)
CONSTANTS Entries, Operands, Values, Insts, Apply(_, _), None

VARIABLES
  pending,    \* the result a slot is going to show, None if it owes none
  published   \* the result a slot shows, None while it shows none

slotVars == <<pending, published>>

Source == [kind : {"value"}, ref : Values] \cup [kind : {"slot"}, ref : Entries]

SlotsTypeOK ==
  /\ pending \in [Entries -> Values \cup {None}]
  /\ published \in [Entries -> Values \cup {None}]

Outcome(k) == IF published[k] # None THEN published[k] ELSE pending[k]
Usable(k, s) == s.kind = "slot" => s.ref # k /\ Outcome(s.ref) # None
ValueOf(s) == IF s.kind = "value" THEN s.ref ELSE Outcome(s.ref)

SlotsInit ==
  /\ pending = [k \in Entries |-> None]
  /\ published = [k \in Entries |-> None]

\* The host submits a request in a slot that owes no result.
Submit(k, inst, sources) ==
  /\ pending[k] = None
  /\ \A o \in Operands : Usable(k, sources[o])
  /\ pending' = [pending EXCEPT
       ![k] = Apply(inst, [o \in Operands |-> ValueOf(sources[o])])]
  /\ published' = [published EXCEPT ![k] = None]

\* The result of slot k becomes visible to the host.
Publish(k) ==
  /\ pending[k] # None
  /\ pending' = [pending EXCEPT ![k] = None]
  /\ published' = [published EXCEPT ![k] = pending[k]]

SlotsNext ==
  \E k \in Entries :
    \/ Publish(k)
    \/ \E inst \in Insts, sources \in [Operands -> Source] :
         Submit(k, inst, sources)

SlotsSpec == SlotsInit /\ [][SlotsNext]_slotVars
=============================================================================

--------------------------- MODULE PositSystemInv ---------------------------
(***************************************************************************)
(* The inductive invariant of the accelerator between host and memory:     *)
(* where the request of a slot is, what its operands stand for in each     *)
(* place, and what keeps a position of the ring from being overwritten     *)
(* while somebody still has to read it.                                    *)
(***************************************************************************)
EXTENDS PositSystem

-----------------------------------------------------------------------------
(* Places.                                                                 *)

\* The newest request of slot e is still on its way to the core.
InCsr(e) == \E n \in 1 .. Len(csr) : csr[n].wr_addr = e

\* Entry e has the newest request of its slot.
HasGoal(e) == valid[e] /\ ~InCsr(e)

\* The request of a slot is on its way, in its entry, or on its way back as a
\* result, and nowhere once the host has seen the result.
PlacesInv ==
  /\ \A e \in Entries :
       /\ goal[e] # None <=> InCsr(e) \/ valid[e]
       /\ goal[e] = None => shown[e] = None
       /\ InCsr(e) => RequestReady(e)
       /\ InCsr(e) \/ ~RequestReady(e) \/ writes[e] # <<>> => Outstanding(e)
       /\ InCsr(e) \/ ~RequestReady(e) => writes[e] = <<>>
       /\ Len(writes[e]) <= 1
       /\ ~valid[e] => OperandsValid(e)
  /\ \A m, n \in 1 .. Len(csr) : csr[m].wr_addr = csr[n].wr_addr => m = n

-----------------------------------------------------------------------------
(* The ring.                                                               *)

\* With the pointer at position top: how many positions were written after
\* position a.
AgeAt(top, a) == IF a < top THEN top - 1 - a ELSE top - 1 - a + NumOperandEntries
Age(a) == AgeAt(Address(ringPtr), a)

\* With slot s to be used next: how many requests were made after the last one
\* of slot e.
BackFrom(s, e) == IF e < s THEN s - 1 - e ELSE s - 1 - e + NumFPGAEntries

\* With so many operands of the next request given: the operands of the last
\* request of a slot so far back are no older than this.
RoomFor(back, given) == (back + 1) * NumOperand + given
Room(e) == RoomFor(BackFrom(slot, e), Len(building))

\* A position has the id bit of this turn once the pointer has passed it.
RingIds ==
  \A a \in Addresses :
    ring[a].v = 1 =>
      ring[a].id = IF a < Address(ringPtr) THEN IdBit(ringPtr) ELSE 1 - IdBit(ringPtr)

-----------------------------------------------------------------------------
(* Meaning.                                                                *)

\* Operand op stands for the value meant.  A reference stands for the result
\* of the newest request of its slot, unless a newer request follows on its
\* way to the core: then it is the result that the entry already has.
Stands(op, meant, newer, room) ==
  /\ op.mode = 0 => op.value = meant
  /\ op.mode = 1 =>
       IF newer THEN completed[op.value] /\ result[op.value] = meant
                ELSE goal[op.value] # None /\ meant = GoalResult(op.value)
  /\ op.mode \in {2, 3} => RingHolds(op, meant) /\ Age(op.value) < room

\* Behind position n on the way to the core there is a request for slot e.
Follows(e, n) == \E m \in 1 .. Len(csr) : m > n /\ csr[m].wr_addr = e

BuildingInv ==
  \A n \in 1 .. Len(building) :
    LET op == building[n].operand
    IN  /\ Stands(op, building[n].value, FALSE, Len(building))
        /\ op.mode = 1 => op.value # slot
CsrInv ==
  \A n \in 1 .. Len(csr) :
    LET e == csr[n].wr_addr
    IN  /\ csr[n].inst = goal[e].inst
        /\ \A o \in Operands :
             LET op == csr[n].operands[o]
             IN  /\ Stands(op, goal[e].args[o], Follows(op.value, n), Room(e))
                 /\ op.mode = 1 => op.value # e
EntryInv ==
  \A e \in Entries :
    HasGoal(e) =>
      /\ inst[e] = goal[e].inst
      /\ \A o \in Operands :
           Stands(operands[e][o], goal[e].args[o], InCsr(operands[e][o].value), Room(e))
StageInv ==
  \A e \in Entries :
    /\ HeldBy(peInit, e) => peInit.inst = goal[e].inst /\ peInit.args = goal[e].args
    /\ HeldBy(peExec, e) => peExec.inst = goal[e].inst /\ peExec.args = goal[e].args
    /\ HeldBy(peResult, e) => peResult.out = GoalResult(e)

\* What the host sees in a slot is the result of the request that it made last,
\* on the values that it meant.
ShownIsMeant == \A e \in Entries : shown[e] # None => shown[e] = GoalResult(e)

ResultInv ==
  \A e \in Entries :
    /\ HasGoal(e) /\ completed[e] => result[e] = GoalResult(e)
    /\ writes[e] # <<>> => writes[e][1] = GoalResult(e)
    /\ shown[e] # None => shown[e] = GoalResult(e)

-----------------------------------------------------------------------------
(* Reads.                                                                  *)

\* Every cacheline marked as under way has one read or one response.
FetchInv ==
  /\ \A t \in reads : CachelineOfTag(t) \in infetch
  /\ \A r \in responses : CachelineOfTag(r.tag) \in infetch
  /\ \A l \in infetch :
       \/ \E t \in reads : CachelineOfTag(t) = l
       \/ \E r \in responses : CachelineOfTag(r.tag) = l
  /\ \A t, u \in reads : CachelineOfTag(t) = CachelineOfTag(u) => t = u
  /\ \A r, q \in responses : CachelineOfTag(r.tag) = CachelineOfTag(q.tag) => r = q
  /\ \A t \in reads, r \in responses : CachelineOfTag(t) # CachelineOfTag(r.tag)

\* The operand in s waits for the response of tag t.
WaitsFor(s, t) == OperandAt(s).mode \in {2, 3} /\ TagOf(OperandAt(s).value) = t

\* A read has somebody waiting for it, and what a response has of a position is
\* what the ring has, or was overwritten after the position the reader waits for
\* was written, and then has the other id bit.
ReaderInv ==
  /\ \A t \in reads : \E s \in Slots : WaitsFor(s, t)
  /\ \A r \in responses :
       \E s \in Slots :
         /\ WaitsFor(s, r.tag)
         /\ \A a \in AddressesIn(CachelineOfTag(r.tag)) :
              \/ r.data[a].v = 0
              \/ r.data[a] = ring[a]
              \/ /\ r.data[a].id # ring[a].id
                 /\ Age(a) < Age(OperandAt(s).value)

FuturesInv ==
  /\ PlacesInv
  /\ RingIds
  /\ BuildingInv /\ CsrInv /\ EntryInv /\ StageInv /\ ResultInv
  /\ FetchInv /\ ReaderInv
=============================================================================

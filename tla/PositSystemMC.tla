--------------------------- MODULE PositSystemMC ---------------------------
(***************************************************************************)
(* Small instances of the system.  An instruction is one more than the sum *)
(* of its operands, on a registered core ("add", "fma") or the iterative   *)
(* one ("div"), or on the combinational one with one operand ("mul"): a    *)
(* wrong operand always shows in the result.                               *)
(***************************************************************************)
EXTENDS PositSystem

MCApply(i, args) ==
  LET used == IF i = "mul" THEN {0} ELSE Operands
  IN  FoldFunctionOnSet(+, 1, args, used) % Cardinality(Values)

Add == {"add"}
Div == {"div"}
MulFma == {"mul", "fma"}
Fma == {"fma"}
LatencyOf == [add |-> {1}, fma |-> {1}, mul |-> {0}, div |-> {2, 3}]
MCLatency == [i \in Insts |-> LatencyOf[i]]

\* The host writes at each turn of the ring a value that tells the position
\* and the turn from its neighbours in place and in time, and no other: with
\* the values determined by the pointer, a stale or misplaced operand still
\* shows, and the instances can be larger.
Token(ptr) == (ptr + ptr \div NumOperandEntries) % 2
TokenSpec ==
  Init /\ [][Next /\ (ringPtr' # ringPtr =>
                       ring'[Address(ringPtr)].val = Token(ringPtr))]_vars
=============================================================================

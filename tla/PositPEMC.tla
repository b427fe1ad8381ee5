------------------------------ MODULE PositPEMC ------------------------------
(***************************************************************************)
(* A small element: two entries, two operands of one bit, an instruction   *)
(* for each kind of core: mul answers at once, add is registered, div      *)
(* takes the short count of its special cases or a longer one.             *)
(***************************************************************************)
EXTENDS PositPECheck

MCInsts == {"mul", "add", "div"}
MCApply(inst, args) ==
  IF inst = "mul" THEN args[0] * args[1] ELSE (args[0] + args[1]) % 2
MCLatency == [inst \in MCInsts |-> CASE inst = "mul" -> {0}
                                     [] inst = "add" -> {1}
                                     [] inst = "div" -> {2, 3}]
=============================================================================

--------------------------- MODULE HostLibraryMC ---------------------------
(***************************************************************************)
(* Small instances of the host library.  The one instruction is one more   *)
(* than the sum of its operands, unary minus the other value of two.       *)
(***************************************************************************)
EXTENDS HostLibrary, TLC

MCApply(i, args) == FoldSeq(LAMBDA v, sum : sum + v, 1, args) % 2
MCNegated(v) == 1 - v
ObjSymmetry == Permutations(Objs)
=============================================================================

--------------------------- MODULE PositDatapath ---------------------------
(***************************************************************************)
(* A processing element (POSIT.scala) with its numbers: the exec registers *)
(* that feed the five cores, the register rows inside add and multiply-    *)
(* add, the iterative core, and the result register with the generator     *)
(* behind it.  PositPE has the same element with its queueing, its init    *)
(* register and a consumer that may refuse; here the operation waits in    *)
(* init and the consumer takes every result.  An operation holds its three *)
(* operands as packed posits; the unpacked registers are Extract of them.  *)
(***************************************************************************)
EXTENDS PositCores, PositDivSqrt

CONSTANTS FirstOps,   \* operations the element may start with,
          NextOps     \* and the ones that may follow

Insts == {"addsub", "cmp", "fma", "mul", "sqrtdiv"}

\* mode[0] is sub, or the square root; mode[1] negates a product.
Op(inst, mode, num1, num2, num3) ==
  [inst |-> inst, mode |-> mode, num1 |-> num1, num2 |-> num2, num3 |-> num3]

ASSUME OperationsAssumption ==
  FirstOps \cup NextOps \subseteq
    [inst : Insts, mode : 0..3, num1 : Posits, num2 : Posits, num3 : Posits]

VARIABLES issued,       \* how many operations have come, at most 2
          exec, execValid, dispatched,
          addReg, addValid, fmaReg, fmaValid,
          resultValid, result,
          resultOp      \* history: the operation whose result is shown

elementVars == <<issued, exec, execValid, dispatched, addReg, addValid,
                 fmaReg, fmaValid, resultValid, result, resultOp>>
vars == <<elementVars, divVars>>

num1 == Extract(exec.num1)
num2 == Extract(exec.num2)
num3 == Extract(exec.num3)
subMode    == exec.mode % 2 = 1
negateMode == exec.mode \div 2 = 1

\* The one-clock start pulse of a core.
Starts_Again(inst) == execValid /\ exec.inst = inst
Starts(inst) == execValid /\ exec.inst = inst /\ ~dispatched

addOut == AddFinish(addReg, num1, num2)
fmaOut == FMAFinish(fmaReg, num1, num2)

newResultValid ==
  \/ Starts("cmp") \/ Starts("mul")
  \/ validOut
  \/ addValid \/ fmaValid

\* MuxLookup on exec_inst; a comparison leaves the default.
CoreAnswer ==
  CASE exec.inst = "addsub"  -> addOut
    [] exec.inst = "fma"     -> fmaOut
    [] exec.inst = "mul"     -> Multiply(num1, num2)
    [] exec.inst = "sqrtdiv" -> DivSqrtOut
    [] OTHER                 -> Answer(NoOperand, 0, FALSE)

NoFlags == [lt |-> FALSE, eq |-> FALSE, gt |-> FALSE]

Init ==
  /\ issued = 0
  /\ exec = Op("cmp", 0, 0, 0, 0)
  /\ execValid = FALSE /\ dispatched = FALSE
  /\ addReg = AddAlign(NoOperand, NoOperand, FALSE) /\ addValid = FALSE
  /\ fmaReg = FMAProduct(NoOperand, NoOperand, NoOperand, FALSE, FALSE)
  /\ fmaValid = FALSE
  /\ resultValid = FALSE
  /\ result = [answer |-> Answer(NoOperand, 0, FALSE), flags |-> NoFlags]
  /\ resultOp = exec
  /\ DivInit

Waiting == IF issued = 0 THEN FirstOps ELSE IF issued = 1 THEN NextOps ELSE {}

\* init moves to exec when no result and no operation is ahead of it.
Load ==
  /\ ~resultValid /\ ~execValid
  /\ exec' \in Waiting
  /\ execValid' = TRUE
  /\ issued' = issued + 1

Hold ==
  /\ execValid' = (execValid /\ ~newResultValid)
  /\ UNCHANGED <<issued, exec>>

\* What every clock does, whether or not an operation comes in.
Registers ==
  /\ dispatched' = (~newResultValid /\ (execValid \/ dispatched))
  /\ addReg' = AddAlign(num1, num2, subMode)
  /\ addValid' = Starts("addsub")
  /\ fmaReg' = FMAProduct(num1, num2, num3, subMode, negateMode)
  /\ fmaValid' = Starts("fma")
  /\ DivClock(Starts("sqrtdiv"), subMode, num1, num2)
  /\ resultValid' = newResultValid
  /\ result' = [answer |-> CoreAnswer, flags |-> Compare(exec.num1, exec.num2)]
  /\ resultOp' = exec

Clock == Registers /\ (Load \/ Hold)

Next == Clock
Spec == Init /\ [][Next]_vars

\* io.result.bits.
Output == Generate(result.answer.out, result.answer.trailing, result.answer.sticky)
=============================================================================

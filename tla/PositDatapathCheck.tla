------------------------- MODULE PositDatapathCheck -------------------------
(***************************************************************************)
(* The datapath of the processing element against PositReference: what an  *)
(* operation shows in the result register, compared with the exact result  *)
(* of its operands.  The conditions name the cases where the code does not *)
(* deliver the nearest posit.                                              *)
(***************************************************************************)
EXTENDS PositDatapath, PositReference

Val(p)      == Value(p, NBits, ES)
IsSub(op)   == op.mode % 2 = 1
Negates(op) == op.mode \div 2 = 1
IsSqrt(op)  == op.mode % 2 = 1

Shows(inst) == resultValid /\ resultOp.inst = inst
Rounds(x)   == RoundsTo(Output, NBits, ES, x)
IsNeighbourOf(x) == Surrounds(Output, NBits, ES, x)

DatapathTypeOK ==
  /\ issued \in 0..2
  /\ execValid \in BOOLEAN /\ dispatched \in BOOLEAN /\ resultValid \in BOOLEAN
  /\ addValid \in BOOLEAN /\ fmaValid \in BOOLEAN
  /\ cycleCount \in 0..DivBits
  /\ divSqrtFrac \in 0..(2^DivBits - 1) /\ remHi \in 0..(2^DivBits - 1)
  /\ remLo \in 0..(2^(HiddenBits+1) - 1) /\ divisor \in 0..(2^HiddenBits - 1)
  /\ execOut \in {0, 8}
  /\ Output \in Posits

-----------------------------------------------------------------------------
\* What is lost when the smaller of two aligned fractions is shifted by d.
Drops(fraction, d) == fraction # 0 /\ Low(fraction, Min2(d, MulBits + AdderBits)) # 0

AddDrops(op) ==
  LET x == Extract(op.num1)
      y == Extract(op.num2)
      large == IF FirstIsLarger(x, y) THEN x ELSE y
      small == IF FirstIsLarger(x, y) THEN y ELSE x
  IN  Drops(small.fraction * 2^3, large.exponent - small.exponent)

\* A difference that is smaller than its larger operand by k places or more, but
\* not zero.
AddCancels(op, k) ==
  LET r == AddAlign(Extract(op.num1), Extract(op.num2), IsSub(op))
  IN  ~r.isAddition /\ r.largeFrac - r.smallFrac \in 1 .. (2^(AdderBits-1-k) - 1)

\* Zero unpacks to the fraction 1 with the least exponent of all, which is added
\* to the other operand. Without exponent bits the smallest posits are near enough
\* to this number to be changed by it.
AddsTinyZero(op) == ES = 0 /\ op.num1 # op.num2 /\ 0 \in {op.num1, op.num2}

\* The places that the normalisation shift can express: its topmost bit is
\* read as a sign.
ShiftRange(w) == 2^(NormBits(w) - 1)

ExactSum(op) ==
  Plus(Val(op.num1), IF IsSub(op) THEN Negative(Val(op.num2)) ELSE Val(op.num2))

\* A sum is one of the two posits next to the exact sum, although the sticky
\* bit of the smaller operand is computed and never used (PositAdd.scala
\* L43-45), and it is the nearer one when the alignment drops nothing; both
\* as long as a difference cancels no more places than the shift of L70 can
\* express, and no operand is a zero that counts.
SumsRounded ==
  Shows("addsub") =>
    IF NaR \in {resultOp.num1, resultOp.num2} THEN Output = NaR
    ELSE ~AddCancels(resultOp, ShiftRange(AdderBits-1)) /\ ~AddsTinyZero(resultOp) =>
           /\ IsNeighbourOf(ExactSum(resultOp))
           /\ ~AddDrops(resultOp) => Rounds(ExactSum(resultOp))

\* A product is the posit nearest to the exact product (PositMul.scala).
ProductsRounded ==
  Shows("mul") =>
    IF NaR \in {resultOp.num1, resultOp.num2} THEN Output = NaR
    ELSE Rounds(Times(Val(resultOp.num1), Val(resultOp.num2)))

\* A quotient or a root is the posit nearest to the exact one, whatever the
\* iterative core did before (PositDivSqrt.scala); a division by zero and a
\* root of a negative number are NaR.
QuotientsAndRootsRounded ==
  Shows("sqrtdiv") =>
    LET x == resultOp.num1
        y == resultOp.num2
    IN  IF IsSqrt(resultOp)
        THEN IF x >= NaR THEN Output = NaR ELSE RootRoundsTo(Output, NBits, ES, Val(x))
        ELSE IF NaR \in {x, y} \/ y = 0 THEN Output = NaR
             ELSE QuotientRoundsTo(Output, NBits, ES, Val(x), Val(y))

\* With every result exactly one flag is up, the one of the order of the first
\* two operands, with NaR below every number (PositCompare.scala): the host
\* waits for a flag byte that is not zero (hardposit.cpp L138), so that a
\* result without a flag, of whatever instruction, would never be seen.
ComparisonsOrder ==
  resultValid =>
    LET Below(x, y) == IF x = NaR THEN y # NaR
                       ELSE y # NaR /\ DyadicLess(Val(x), Val(y))
    IN  /\ result.flags.lt = Below(resultOp.num1, resultOp.num2)
        /\ result.flags.gt = Below(resultOp.num2, resultOp.num1)
        /\ result.flags.eq = (resultOp.num1 = resultOp.num2)

-----------------------------------------------------------------------------
FMAOperands(op) ==
  FMAProduct(Extract(op.num1), Extract(op.num2), Extract(op.num3), IsSub(op), Negates(op))
Greater(r) == IF r.addendIsLarger THEN r.addend ELSE r.product
Lesser(r)  == IF r.addendIsLarger THEN r.product ELSE r.addend

\* Alignment drops bits of the lesser operand, or the product drops its last
\* bit to fit.
AlignmentDrops(r) == Drops(Lesser(r).fraction, Greater(r).exponent - Lesser(r).exponent)
ProductDrops(op) ==
  LET p == Extract(op.num1).fraction * Extract(op.num2).fraction
  IN  p >= 2^(MulBits-1) /\ p % 2 = 1

\* What is left of the greater fraction when the aligned lesser one is taken away, and
\* whether that is smaller by k places or more.
FMADifference(r) ==
  LET d == Greater(r).exponent - Lesser(r).exponent
      shifted == IF Lesser(r).fraction = 0 \/ d >= MulBits - 1 THEN 0
                 ELSE Lesser(r).fraction \div 2^d
  IN  Greater(r).fraction - shifted
FMACancels(r, k) == /\ Greater(r).sign # Lesser(r).sign
                    /\ FMADifference(r) \in 0 .. (2^(MulBits-1-k) - 1)

ExactFMA(op) ==
  LET sum == Plus(Times(Val(op.num1), Val(op.num2)),
                  IF IsSub(op) THEN Negative(Val(op.num3)) ELSE Val(op.num3))
  IN  IF Negates(op) THEN Negative(sum) ELSE sum

\* A fused multiply-add is the nearest posit when what is dropped is dropped of a
\* sum, and not both behind the greater fraction and behind the lesser one; in a
\* difference when nothing is dropped, and the places that cancel are all of them or
\* no more than the shift of L78 can express.  It is next to the exact result when
\* fewer than FracBits places cancel (PositFMA.scala).  A zero factor with an addend
\* that is not zero is left out: the core multiplies with the tiny number that zero
\* unpacks to.
FusedRounded ==
  Shows("fma") =>
    LET op == resultOp
        r  == FMAOperands(op)
        adds == Greater(r).sign = Lesser(r).sign
    IN  IF NaR \in {op.num1, op.num2, op.num3} THEN Output = NaR
        ELSE 0 \notin {op.num1, op.num2} \/ op.num3 = 0 =>
          LET exact == ExactFMA(op) IN
             /\ (IF adds THEN ~(AlignmentDrops(r) /\ ProductDrops(op) /\ ~r.addendIsLarger)
                 ELSE /\ ~AlignmentDrops(r) /\ ~ProductDrops(op)
                      /\ FMADifference(r) = 0 \/ ~FMACancels(r, ShiftRange(MulBits)))
                => Rounds(exact)
             /\ ~FMACancels(r, FracBits) => IsNeighbourOf(exact)

-----------------------------------------------------------------------------
\* exec holds a division, or a root, that takes the long way.
NormalDivision == ~subMode /\ ~AnswerIsNaR(FALSE, num1, num2) /\ ~num1.isZero
NormalRoot     == subMode /\ ~AnswerIsNaR(TRUE, num1, num2) /\ ~num1.isZero

\* When the iterative core answers, its digits are the quotient of the
\* fractions cut off after DivBits digits, and it knows whether anything was
\* cut off: the remainder is not updated in the last clock (L100), so that a
\* last digit 1 has to stand for it.
QuotientDigits ==
  validOut /\ NormalDivision =>
    LET dividend == num1.fraction * 2^(DivBits-1)
        low  == divSqrtFrac * num2.fraction
    IN  /\ low <= dividend /\ dividend < low + num2.fraction
        /\ low # dividend => divSqrtFrac % 2 = 1 \/ remHi # 0

\* The digits of a root, in the same way.
RootDigits ==
  validOut /\ NormalRoot =>
    LET unit == 2^(HiddenBits+1)
        radicand == Radicand(TRUE, num1) * 2^(2*DivBits)
    IN  /\ divSqrtFrac * divSqrtFrac * unit <= radicand
        /\ radicand < (divSqrtFrac+1) * (divSqrtFrac+1) * unit

\* The tests call it "the subtracted value": a difference is next to the exact
\* difference, however many places cancel.
DifferencesReturned ==
  Shows("addsub") /\ NaR \notin {resultOp.num1, resultOp.num2} =>
    IsNeighbourOf(ExactSum(resultOp))

\* An operation that a core has been started on has an answer on its way, from
\* the core of its instruction and from no other, and no core answers an
\* operation that is gone (POSIT.scala L110-160, one dispatched bit for five
\* cores of different latency).
AnswerOnTheWay ==
  /\ execValid /\ dispatched <=> addValid \/ fmaValid \/ cycleCount > 0
  /\ addValid => exec.inst = "addsub"
  /\ fmaValid => exec.inst = "fma"
  /\ cycleCount > 0 => exec.inst = "sqrtdiv" /\ sqrtOpStored = subMode
=============================================================================

----------------------------- MODULE PositCores -----------------------------
(***************************************************************************)
(* The cores of a processing element that answer after a fixed number of   *)
(* clocks: add, multiply, fused multiply-add and compare, as functions of  *)
(* unpacked operands.  Add and multiply-add have one row of registers in   *)
(* the middle: their first half is what the registers load, their second   *)
(* half is what the outputs show one clock later.  An answer is the        *)
(* unpacked result with its trailing and sticky bits.                      *)
(***************************************************************************)
EXTENDS PositFormat

Answer(out, trailing, sticky) ==
  [out |-> out, trailing |-> trailing, sticky |-> sticky]

\* num1magGt: a tie takes the second operand.
FirstIsLarger_Exponent(x, y) == x.exponent > y.exponent
FirstIsLarger(x, y) ==
  \/ x.exponent > y.exponent
  \/ x.exponent = y.exponent /\ x.fraction > y.fraction

\* countLeadingZeros(x).asSInt: the encoder answers in just enough bits for
\* its last position, and asSInt reads the topmost of them as a sign.
NormBits(w)     == Log2Ceil(w)
NormShift(x, w) == Signed(LeadingZeros(x, w), NormBits(w))

-----------------------------------------------------------------------------
\* PositAddCore, first half: align the smaller operand.
AddAlign(num1, num2, sub) ==
  LET adjusted == [num2 EXCEPT !.sign = (@ # sub)]
      first    == FirstIsLarger(num1, num2)
      large    == IF first THEN num1 ELSE adjusted
      small    == IF first THEN adjusted ELSE num1
      expDiff  == large.exponent - small.exponent
  IN  [isAddition |-> large.sign = small.sign,
       largeSign  |-> large.sign,
       largeExp   |-> large.exponent,
       largeFrac  |-> large.fraction * 2^3,
       smallFrac  |-> IF expDiff < AdderBits - 1
                      THEN (small.fraction * 2^3) \div 2^expDiff ELSE 0]

\* The second half: add or subtract, put a carry back, normalise.  The sign,
\* isZero and isNaR come from the operands, which the element still holds
\* (PositAdd.scala L73-75): while it does, the sign is the one of the first half,
\* and is read from its row here.
AddFinish(r, num1, num2) ==
  LET w        == AdderBits - 1
      addend   == IF r.isAddition THEN r.smallFrac ELSE Negated(r.smallFrac, w)
      sum      == r.largeFrac + addend
      overflow == r.isAddition /\ sum >= 2^w
      frac     == IF overflow THEN sum \div 2 ELSE Low(sum, w)
      exp      == r.largeExp + IF overflow THEN 1 ELSE 0
      norm     == Low(frac * 2^LeadingZeros(frac, w), w)
      out      == [sign     |-> r.largeSign,
                   exponent |-> Signed(exp - NormShift(frac, w), ExpBits),
                   fraction |-> norm \div 2^3,
                   isZero   |-> (num1.isZero /\ num2.isZero) \/ sum = 0,
                   isNaR    |-> num1.isNaR \/ num2.isNaR]
  IN  Answer(out, Low(norm \div 2, TrailingBits),
             (overflow /\ sum % 2 = 1) \/ norm % 2 = 1)

-----------------------------------------------------------------------------
\* PositMulCore.
Multiply(num1, num2) ==
  LET product  == num1.fraction * num2.fraction
      overflow == product >= 2^(MulBits-1)
      norm     == IF overflow THEN product ELSE 2 * product
      exp      == num1.exponent + num2.exponent + IF overflow THEN 1 ELSE 0
      out      == [sign     |-> num1.sign # num2.sign,
                   exponent |-> Signed(exp, ExpBits),
                   fraction |-> norm \div 2^HiddenBits,
                   isZero   |-> num1.isZero \/ num2.isZero,
                   isNaR    |-> num1.isNaR \/ num2.isNaR]
  IN  Answer(out, Low(norm \div 2^(HiddenBits-TrailingBits), TrailingBits),
             Low(norm, HiddenBits-TrailingBits) # 0)

-----------------------------------------------------------------------------
\* PositFMACore, first half: the product and the addend.  A zero addend gets
\* fraction 0; a zero factor is multiplied as the fraction 1.0 it unpacks to.
FMAProduct(num1, num2, num3, sub, negate) ==
  LET product  == num1.fraction * num2.fraction
      overflow == product >= 2^(MulBits-1)
      exp      == num1.exponent + num2.exponent + IF overflow THEN 1 ELSE 0
      frac     == IF overflow THEN product \div 2 ELSE product
      prod == [sign |-> (num1.sign # num2.sign) # negate, exponent |-> exp,
               fraction |-> frac]
      addend == [sign |-> (num3.sign # negate) # sub, exponent |-> num3.exponent,
                 fraction |-> IF num3.isZero THEN 0 ELSE num3.fraction * 2^FracBits]
  IN  [product |-> prod, addend |-> addend,
       addendIsLarger |-> ~num3.isZero /\ FirstIsLarger(addend, prod),
       isNaR  |-> num1.isNaR \/ num2.isNaR \/ num3.isNaR,
       isZero |-> (num1.isZero \/ num2.isZero) /\ num3.isZero]

\* The second half.  The sticky bit of the product comes from the operands,
\* which the element still holds.
FMAFinish(r, num1, num2) ==
  LET great == IF r.addendIsLarger THEN r.addend ELSE r.product
      less  == IF r.addendIsLarger THEN r.product ELSE r.addend
      expDiff  == Low(great.exponent - less.exponent, ExpBits+1)
      shifted  == IF expDiff < MulBits - 1 THEN less.fraction \div 2^expDiff ELSE 0
      lost     == Low(less.fraction, Min2(expDiff, MulBits)) # 0
      product  == num1.fraction * num2.fraction
      prodLost == product >= 2^(MulBits-1) /\ product % 2 = 1
      isAddition == great.sign = less.sign
      sum      == Low(great.fraction
                       + IF isAddition THEN shifted ELSE Negated(shifted, MulBits), MulBits)
      overflow == isAddition /\ sum >= 2^(MulBits-1)
      frac     == IF overflow THEN sum ELSE 2 * Low(sum, MulBits-1)
      exp      == great.exponent + IF overflow THEN 1 ELSE 0
      norm     == Low(frac * 2^LeadingZeros(frac, MulBits), MulBits)
      out      == [sign     |-> great.sign,
                   exponent |-> Signed(exp - NormShift(frac, MulBits), ExpBits),
                   fraction |-> norm \div 2^HiddenBits,
                   isZero   |-> ~r.isNaR /\ r.isZero,
                   isNaR    |-> r.isNaR]
  IN  Answer(out, Low(norm \div 2^(HiddenBits-TrailingBits), TrailingBits),
             prodLost \/ lost \/ Low(norm, HiddenBits-TrailingBits) # 0)

-----------------------------------------------------------------------------
\* PositCompare works on the packed operands as signed integers.
Compare_Unsigned(num1, num2) ==
  [lt |-> num1 < num2, eq |-> num1 = num2, gt |-> num1 > num2]
Compare(num1, num2) ==
  LET x == Signed(num1, NBits)
      y == Signed(num2, NBits)
  IN  [lt |-> x < y, eq |-> x = y, gt |-> ~(x < y) /\ ~(x = y)]
=============================================================================

---------------------------- MODULE PositDivSqrt ----------------------------
(***************************************************************************)
(* The iterative core for division and square root: one quotient or root   *)
(* digit per clock, by restoring subtraction.  cycleCount counts a request *)
(* down to its answer, which is valid in the clock where the count is 1;   *)
(* a special operand goes straight to 2.  The registers keep moving when   *)
(* the core is idle, so that a request starts on what the last one left.   *)
(***************************************************************************)
EXTENDS PositFormat

CONSTANT PowerUp   \* what a register without a reset value may power up with
ASSUME PowerUpAssumption == PowerUp \subseteq BOOLEAN

VARIABLES cycleCount,    \* clocks left until the answer has been shown
          sqrtOpStored,  \* the request under way is a square root
          isNaROut, isZeroOut, signOut,
          execOut,       \* exceptions: 8 is a division by zero
          divSqrtExp, divSqrtFrac,
          remLo, remHi,  \* unused digits of the radicand, partial remainder
          divisor

divVars == <<cycleCount, sqrtOpStored, isNaROut, isZeroOut, signOut, execOut,
             divSqrtExp, divSqrtFrac, remLo, remHi, divisor>>

\* Four registers have no reset value.
DivInit ==
  /\ sqrtOpStored \in PowerUp /\ isNaROut \in PowerUp
  /\ isZeroOut \in PowerUp /\ signOut \in PowerUp
  /\ cycleCount = 0 /\ execOut = 0
  /\ divSqrtExp = 0 /\ divSqrtFrac = 0
  /\ remLo = 0 /\ remHi = 0 /\ divisor = 0

readyIn  == cycleCount <= 1
validOut == cycleCount = 1

DividesByZero(sqrtOp, num2)      == ~sqrtOp /\ num2.isZero
AnswerIsNaR(sqrtOp, num1, num2)  ==
  IF sqrtOp THEN num1.sign \/ num1.isNaR
  ELSE num1.isNaR \/ num2.isNaR \/ DividesByZero(sqrtOp, num2)

\* An odd exponent is halved after moving one factor 2 to the fraction.
Radicand_Even(sqrtOp, num1) == num1.fraction
Radicand(sqrtOp, num1) ==
  IF sqrtOp /\ Bit(num1.exponent, 0) = 1 THEN 2 * num1.fraction ELSE num1.fraction

\* The minuend and the subtrahend of this clock's digit.
Rem(sqrtOp, num1) ==
  IF readyIn
  THEN IF sqrtOp THEN Radicand(sqrtOp, num1) \div 2^(HiddenBits-1)
       ELSE num1.fraction
  ELSE IF sqrtOpStored THEN 4 * remHi + remLo \div 2^FracBits ELSE 2 * remHi

TestDiv_Half(sqrtOp, num2) ==
  IF readyIn THEN IF sqrtOp THEN 1 ELSE num2.fraction
  ELSE IF sqrtOpStored THEN 2 * divSqrtFrac + 1 ELSE divisor
TestDiv(sqrtOp, num2) ==
  IF readyIn THEN IF sqrtOp THEN 1 ELSE num2.fraction
  ELSE IF sqrtOpStored THEN 4 * divSqrtFrac + 1 ELSE divisor

\* This clock's digit.
NextBit_Strict(rem, testDiv) == IF rem > testDiv THEN 1 ELSE 0
NextBit(rem, testDiv) == IF rem >= testDiv THEN 1 ELSE 0

NextCycleCount_Underflow(starting, special) ==
  IF starting THEN IF special THEN 2 ELSE DivBits ELSE cycleCount - 1
NextCycleCount(starting, special) ==
  IF starting THEN IF special THEN 2 ELSE DivBits
  ELSE IF cycleCount = 0 THEN 0 ELSE cycleCount - 1

\* One clock of the core with these inputs.
DivClock(validIn, sqrtOp, num1, num2) ==
  LET isNaR    == AnswerIsNaR(sqrtOp, num1, num2)
      special  == isNaR \/ num1.isZero
      starting == readyIn /\ validIn
      normally == starting /\ ~special
      rem      == Rem(sqrtOp, num1)
      testDiv  == TestDiv(sqrtOp, num2)
      nextBit  == NextBit(rem, testDiv)
  IN  /\ cycleCount' = NextCycleCount(starting, special)
      /\ IF starting
         THEN /\ sqrtOpStored' = sqrtOp
              /\ isNaROut' = isNaR
              /\ isZeroOut' = num1.isZero
              /\ execOut' = IF DividesByZero(sqrtOp, num2) THEN 8 ELSE 0
         ELSE UNCHANGED <<sqrtOpStored, isNaROut, isZeroOut, execOut>>
      /\ IF normally
         THEN /\ signOut' = (~sqrtOp /\ num1.sign # num2.sign)
              /\ divSqrtExp' = IF sqrtOp THEN num1.exponent \div 2
                               ELSE Signed(num1.exponent - num2.exponent, ExpBits)
         ELSE UNCHANGED <<signOut, divSqrtExp>>
      /\ divisor' = IF normally /\ ~sqrtOp THEN num2.fraction ELSE divisor
      /\ remLo' = Low(IF readyIn THEN IF sqrtOp THEN 4 * Radicand(sqrtOp, num1) ELSE 0
                      ELSE IF sqrtOpStored THEN 4 * remLo ELSE 0, HiddenBits+1)
      /\ remHi' = IF normally \/ cycleCount > 2
                  THEN Low(rem - nextBit * testDiv, DivBits) ELSE remHi
      /\ divSqrtFrac' = IF readyIn THEN IF normally THEN nextBit ELSE 0
                        ELSE Low(2 * divSqrtFrac + nextBit, DivBits)

\* The outputs: normalised by one place when the first digit was 0.
DivSqrtOut ==
  LET normReq == divSqrtFrac < 2^(DivBits-1)
      frac    == IF normReq THEN 2 * divSqrtFrac ELSE divSqrtFrac
  IN  [out |-> [sign     |-> signOut,
                exponent |-> Signed(divSqrtExp - (IF normReq THEN 1 ELSE 0), ExpBits),
                fraction |-> frac \div 2^(DivBits-HiddenBits),
                isZero   |-> isZeroOut,
                isNaR    |-> isNaROut],
       trailing |-> Low(frac \div 2^TrailingBits, TrailingBits),
       sticky   |-> Low(frac, TrailingBits) # 0 \/ remHi # 0]
=============================================================================

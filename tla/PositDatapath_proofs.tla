------------------------ MODULE PositDatapath_proofs ------------------------
(***************************************************************************)
(* For every posit format and every sequence of operations: that the cores *)
(* of a processing element and its one dispatched bit stay in step, that   *)
(* the digits of the iterative core are those of the quotient or of the    *)
(* root, that every register fits and what comes out is a posit, that      *)
(* products, quotients and roots come out rounded, that comparisons order  *)
(* values, that sums come out next to the exact ones, and when a fused     *)
(* multiply-add comes out rounded or next to the exact result.             *)
(***************************************************************************)
EXTENDS PositDatapathCheck, PositFormat_proofs

-----------------------------------------------------------------------------
(* The cores and the dispatched bit.                                       *)

\* The iterative core has more than the two clocks of its short path.
LEMMA DivBitsRange == DivBits \in Nat /\ DivBits > 5
  BY FormatAssumption DEF DivBits, HiddenBits, FracBits, TrailingBits

\* The registers that decide what happens have their types.
ControlTypes ==
  /\ execValid \in BOOLEAN /\ dispatched \in BOOLEAN
  /\ addValid \in BOOLEAN /\ fmaValid \in BOOLEAN
  /\ cycleCount \in 0..DivBits
  /\ exec.inst \in Insts

\* AnswerOnTheWay is inductive once the dispatched bit is known to belong to
\* an operation in exec.
ControlInv == ControlTypes /\ (dispatched => execValid) /\ AnswerOnTheWay

LEMMA ControlInit == ASSUME Init PROVE ControlInv
<1>1. /\ execValid = FALSE /\ dispatched = FALSE
      /\ addValid = FALSE /\ fmaValid = FALSE /\ cycleCount = 0
  BY DEF Init, DivInit
<1>2. exec.inst \in Insts
  BY DEF Init, Op, Insts
<1>3. cycleCount \in 0..DivBits /\ ~(cycleCount > 0)
  BY <1>1, DivBitsRange
<1>4. AnswerOnTheWay
  BY <1>1, <1>3 DEF AnswerOnTheWay
<1> QED
  BY <1>1, <1>2, <1>3, <1>4 DEF ControlInv, ControlTypes

\* An operation that comes from the environment has one of the instructions.
LEMMA LoadedInst == ASSUME exec' \in Waiting PROVE exec'.inst \in Insts
  BY OperationsAssumption DEF Waiting

\* While nothing is in exec every core is at rest, and a new operation finds
\* it so.
LEMMA LoadRests ==
  ASSUME ControlInv, Registers, Load
  PROVE  cycleCount = 0 /\ cycleCount' = 0
<1>1. ~execValid /\ cycleCount = 0
  BY DEF ControlInv, ControlTypes, AnswerOnTheWay, Load
<1> QED
  BY <1>1 DEF Registers, Starts, DivClock, NextCycleCount

LEMMA LoadStep ==
  ASSUME ControlInv, Registers, Load
  PROVE  ControlInv'
<1>1. ~execValid /\ ~dispatched /\ ~addValid /\ ~fmaValid /\ cycleCount = 0
  BY DEF ControlInv, ControlTypes, AnswerOnTheWay, Load
<1>2. ~newResultValid
  BY <1>1 DEF newResultValid, Starts, validOut
<1>3. ~dispatched' /\ ~addValid' /\ ~fmaValid' /\ cycleCount' = 0
  BY <1>1, <1>2 DEF Registers, Starts, DivClock, NextCycleCount
<1>4. execValid' = TRUE /\ exec'.inst \in Insts
  BY LoadedInst DEF Load
<1>5. cycleCount' \in 0..DivBits /\ ~(cycleCount' > 0)
  BY <1>3, DivBitsRange
<1>6. /\ dispatched' \in BOOLEAN /\ addValid' \in BOOLEAN /\ fmaValid' \in BOOLEAN
  BY <1>1, <1>2 DEF Registers, Starts
<1>7. AnswerOnTheWay'
  BY <1>3, <1>5 DEF AnswerOnTheWay
<1> QED
  BY <1>3, <1>4, <1>5, <1>6, <1>7 DEF ControlInv, ControlTypes

\* The count of the iterative core stays in its range, and is up after a start.
LEMMA CountStep ==
  ASSUME ControlInv, Registers
  PROVE  /\ cycleCount' \in 0..DivBits
         /\ Starts("sqrtdiv") => cycleCount' > 0
         /\ ~Starts("sqrtdiv") => cycleCount' = IF cycleCount = 0 THEN 0 ELSE cycleCount - 1
<1>1. Starts("sqrtdiv") => cycleCount = 0
  BY DEF ControlInv, ControlTypes, AnswerOnTheWay, Starts
<1>2. cycleCount \in 0..DivBits
  BY DEF ControlInv, ControlTypes
<1>3. PICK special \in BOOLEAN :
        cycleCount' = NextCycleCount(readyIn /\ Starts("sqrtdiv"), special)
  BY DEF Registers, DivClock
<1> QED
  BY <1>1, <1>2, <1>3, DivBitsRange DEF NextCycleCount, readyIn

\* An operation in exec is started in its first clock there, and leaves in the
\* clock of its answer.
LEMMA HoldStep ==
  ASSUME ControlInv, Registers, Hold
  PROVE  ControlInv'
<1>1. exec' = exec
  BY DEF Hold
<1>2. /\ execValid' = (execValid /\ ~newResultValid)
      /\ dispatched' = (~newResultValid /\ (execValid \/ dispatched))
      /\ addValid' = Starts("addsub") /\ fmaValid' = Starts("fma")
  BY DEF Hold, Registers
<1>3. ControlTypes'
  <2>1. cycleCount' \in 0..DivBits
    BY CountStep
  <2> QED
    BY <1>1, <1>2, <2>1 DEF ControlInv, ControlTypes, Starts
<1>4. dispatched' => execValid'
  BY <1>2 DEF ControlInv, ControlTypes
<1>5. cycleCount' > 0 => exec.inst = "sqrtdiv" /\ sqrtOpStored' = subMode
  <2>1. CASE Starts("sqrtdiv")
    <3>1. cycleCount = 0
      BY <2>1 DEF ControlInv, ControlTypes, AnswerOnTheWay, Starts
    <3>2. sqrtOpStored' = subMode
      BY <2>1, <3>1 DEF Registers, DivClock, readyIn
    <3> QED
      BY <2>1, <3>2 DEF Starts
  <2>2. CASE ~Starts("sqrtdiv")
    <3>1. sqrtOpStored' = sqrtOpStored
      BY <2>2 DEF Registers, DivClock
    <3>2. cycleCount' > 0 => cycleCount > 0
      BY <2>2, CountStep DEF ControlInv, ControlTypes
    <3> QED
      BY <3>1, <3>2 DEF ControlInv, AnswerOnTheWay
  <2> QED
    BY <2>1, <2>2
<1>6. execValid' /\ dispatched' <=> addValid' \/ fmaValid' \/ cycleCount' > 0
  <2>1. CASE ~execValid
    <3>1. ~dispatched /\ ~addValid /\ ~fmaValid /\ cycleCount = 0
      BY <2>1 DEF ControlInv, ControlTypes, AnswerOnTheWay
    <3> QED
      BY <1>2, <2>1, <3>1, CountStep DEF Starts
  <2>2. CASE execValid /\ dispatched
    <3>1. addValid \/ fmaValid \/ cycleCount > 0
      BY <2>2 DEF ControlInv, AnswerOnTheWay
    <3>2. ~addValid' /\ ~fmaValid' /\ ~Starts("sqrtdiv")
      BY <1>2, <2>2 DEF Starts
    <3>3. newResultValid <=> addValid \/ fmaValid \/ cycleCount = 1
      BY <2>2 DEF newResultValid, Starts, validOut
    <3>4. addValid \/ fmaValid => cycleCount = 0
      BY DEF ControlInv, ControlTypes, AnswerOnTheWay
    <3>5. cycleCount \in Nat
      BY DivBitsRange DEF ControlInv, ControlTypes
    <3>6. cycleCount' = IF cycleCount = 0 THEN 0 ELSE cycleCount - 1
      BY <3>2, CountStep
    <3>7. CASE addValid \/ fmaValid
      <4>1. newResultValid /\ ~(cycleCount' > 0)
        BY <3>3, <3>4, <3>6, <3>7
      <4> QED
        BY <1>2, <3>2, <4>1
    <3>8. CASE ~addValid /\ ~fmaValid
      <4>1. newResultValid <=> ~(cycleCount' > 0)
        BY <3>1, <3>3, <3>5, <3>6, <3>8
      <4> QED
        BY <1>2, <2>2, <3>2, <4>1
    <3> QED
      BY <3>7, <3>8
  <2>3. CASE execValid /\ ~dispatched
    <3>1. ~addValid /\ ~fmaValid /\ cycleCount = 0
      BY <2>3 DEF ControlInv, ControlTypes, AnswerOnTheWay
    <3>2. newResultValid <=> exec.inst \in {"cmp", "mul"}
      BY <2>3, <3>1 DEF newResultValid, Starts, validOut
    <3>3. addValid' <=> exec.inst = "addsub"
      BY <1>2, <2>3 DEF Starts
    <3>4. fmaValid' <=> exec.inst = "fma"
      BY <1>2, <2>3 DEF Starts
    <3>5. Starts("sqrtdiv") <=> exec.inst = "sqrtdiv"
      BY <2>3 DEF Starts
    <3>6. cycleCount' > 0 <=> exec.inst = "sqrtdiv"
      BY <3>1, <3>5, CountStep
    <3>7. exec.inst \in Insts
      BY DEF ControlInv, ControlTypes
    <3> QED
      BY <1>2, <2>3, <3>2, <3>3, <3>4, <3>6, <3>7 DEF Insts
  <2> QED
    BY <2>1, <2>2, <2>3 DEF ControlInv, ControlTypes
<1>7. (addValid' => exec.inst = "addsub") /\ (fmaValid' => exec.inst = "fma")
  BY <1>2 DEF Starts
<1>8. AnswerOnTheWay'
  BY <1>1, <1>5, <1>6, <1>7 DEF AnswerOnTheWay, subMode
<1> QED
  BY <1>3, <1>4, <1>8 DEF ControlInv

\* An operation that a core has been started on has an answer on its way, from
\* the core of its instruction and from no other (POSIT.scala L110-160): for
\* every width of posit and every sequence of operations.
THEOREM AnswersAreOnTheWay == Spec => []AnswerOnTheWay
<1>1. ControlInv /\ [Next]_vars => ControlInv'
  <2>1. ASSUME ControlInv, Next PROVE ControlInv'
    BY <2>1, LoadStep, HoldStep DEF Next, Clock
  <2>2. ASSUME ControlInv, UNCHANGED vars PROVE ControlInv'
    BY <2>2 DEF vars, elementVars, divVars, ControlInv, ControlTypes,
                AnswerOnTheWay, subMode
  <2> QED
    BY <2>1, <2>2
<1> QED
  BY ControlInit, <1>1, PTL DEF Spec, ControlInv

-----------------------------------------------------------------------------
(* Division.                                                               *)

\* The operands of an operation in exec are posits.
OperandsArePosits == exec.num1 \in Posits /\ exec.num2 \in Posits

LEMMA Fractions ==
  ASSUME OperandsArePosits
  PROVE  /\ num1.fraction \in 2^FracBits .. (2 * 2^FracBits - 1)
         /\ num2.fraction \in 2^FracBits .. (2 * 2^FracBits - 1)
  BY ExtractedFraction DEF OperandsArePosits, num1, num2

\* q and r are quotient and remainder of d by b.
Divided(d, b, q, r) == d = q * b + r /\ r \in 0..(b-1)

\* One digit of a restoring division: the next digit doubles the quotient and
\* the remainder so far.
LEMMA QuotientStep ==
  ASSUME NEW d \in Nat, NEW b \in Nat, NEW q \in Nat, NEW r, Divided(d, b, q, r)
  PROVE  LET n == NextBit(2 * r, b)
         IN  n \in {0, 1} /\ Divided(2 * d, b, 2 * q + n, 2 * r - n * b)
<1>1. r \in Nat /\ r < b /\ d = q * b + r
  BY DEF Divided
<1>2. 2 * d = (2 * q) * b + 2 * r
  BY <1>1
<1>3. CASE 2 * r >= b
  <2>1. (2 * q + 1) * b = (2 * q) * b + b
    OBVIOUS
  <2>2. 2 * d = (2 * q + 1) * b + (2 * r - 1 * b)
    BY <1>1, <1>2, <2>1
  <2> QED
    BY <1>1, <1>3, <2>2 DEF NextBit, Divided
<1>4. CASE ~(2 * r >= b)
  BY <1>1, <1>2, <1>4 DEF NextBit, Divided
<1> QED
  BY <1>3, <1>4

\* What the divider's registers load in the first clock of a division, and in
\* the clocks after it.
LEMMA DivisionStarts ==
  ASSUME Registers, Starts("sqrtdiv"), cycleCount = 0, NormalDivision
  PROVE  LET n == NextBit(num1.fraction, num2.fraction)
         IN  /\ cycleCount' = DivBits
             /\ divisor' = num2.fraction
             /\ divSqrtFrac' = n
             /\ remHi' = Low(num1.fraction - n * num2.fraction, DivBits)
<1>1. subMode = FALSE /\ ~AnswerIsNaR(subMode, num1, num2) /\ ~num1.isZero
  BY DEF NormalDivision, subMode
<1>2. readyIn /\ DivClock(Starts("sqrtdiv"), subMode, num1, num2)
  BY DEF Registers, readyIn
<1>3. ~AnswerIsNaR(FALSE, num1, num2)
  BY DEF NormalDivision
<1> QED
  BY <1>1, <1>2, <1>3 DEF DivClock, Rem, TestDiv, NextCycleCount

LEMMA DivisionGoesOn ==
  ASSUME Registers, cycleCount \in Nat, cycleCount > 1, ~sqrtOpStored
  PROVE  LET n == NextBit(2 * remHi, divisor)
         IN  /\ divisor' = divisor
             /\ divSqrtFrac' = Low(2 * divSqrtFrac + n, DivBits)
             /\ remHi' = IF cycleCount > 2 THEN Low(2 * remHi - n * divisor, DivBits)
                         ELSE remHi
<1>1. ~readyIn /\ cycleCount # 0
  BY DEF readyIn
<1>2. DivClock(Starts("sqrtdiv"), subMode, num1, num2)
  BY DEF Registers
<1> QED
  BY <1>1, <1>2 DEF DivClock, Rem, TestDiv

\* The loop invariant of a division.  With c clocks left the digits so far and
\* the partial remainder divide the dividend, scaled by the clocks gone; in
\* the last clock the remainder is not updated, but a last digit 1 or the old
\* remainder shows whether one is left.
DivLoop(c, a, b, q, r) ==
  /\ q \in Nat /\ r \in Nat
  /\ c > 1 => Divided(a * 2^(DivBits-c), b, q, r) /\ q < 2^(DivBits-c+1)
  /\ c = 1 => \E rest \in Nat : /\ Divided(a * 2^(DivBits-1), b, q, rest)
                                /\ rest # 0 => q % 2 = 1 \/ r # 0
                                /\ r # 0 => q % 2 = 1 \/ rest # 0

DivInv ==
  cycleCount > 0 /\ NormalDivision =>
    /\ divisor = num2.fraction
    /\ DivLoop(cycleCount, num1.fraction, num2.fraction, divSqrtFrac, remHi)

LEMMA DivLoopStarts ==
  ASSUME NEW a \in 2^FracBits .. (2 * 2^FracBits - 1),
         NEW b \in 2^FracBits .. (2 * 2^FracBits - 1)
  PROVE  LET n == NextBit(a, b)
         IN  DivLoop(DivBits, a, b, n, Low(a - n * b, DivBits))
<1> DEFINE m == 2^FracBits
           n == NextBit(a, b)
           r == a - n * b
<1>1. m \in Nat /\ m > 0
  BY Widths, PowerPositive
<1>2. a \in Nat /\ b \in Nat /\ b > 0 /\ a < 2 * b /\ b < 2 * m
  <2>1. a \in m .. (2 * m - 1) /\ b \in m .. (2 * m - 1)
    OBVIOUS
  <2> HIDE DEF m
  <2> QED
    BY <1>1, <2>1
<1>3. n \in {0, 1} /\ r \in 0..(b-1) /\ a = n * b + r
  BY <1>2 DEF NextBit
<1>4. r \in 0..(2^DivBits - 1)
  <2>1. 2 * m <= 2^DivBits /\ 2^DivBits \in Nat
    BY FractionBelow DEF m
  <2> HIDE DEF m, n, r
  <2> QED
    BY <1>1, <1>2, <1>3, <2>1
<1>5. Low(r, DivBits) = r
  <2> HIDE DEF r
  <2> QED
    BY <1>4, Widths, LowOfSmall
<1>6. 2^(DivBits-DivBits) = 1 /\ 2^(DivBits-DivBits+1) = 2
  <2> DEFINE z == DivBits - DivBits
  <2>1. z = 0
    BY Widths
  <2> HIDE DEF z
  <2>2. 2^z = 1 /\ 2^(z+1) = 2 * 2^z
    BY <2>1, PowerZero, PowerNext
  <2> QED
    BY <2>2 DEF z
<1> HIDE DEF m, n, r
<1>7. DivLoop(DivBits, a, b, n, r)
  BY <1>2, <1>3, <1>6, Widths DEF DivLoop, Divided
<1> QED
  BY <1>5, <1>7 DEF n, r

LEMMA DivLoopGoesOn ==
  ASSUME NEW c \in 2..DivBits,
         NEW a \in Nat, NEW b \in 1..(2^DivBits - 1),
         NEW q, NEW r, DivLoop(c, a, b, q, r)
  PROVE  LET n == NextBit(2 * r, b)
         IN  DivLoop(c-1, a, b, Low(2 * q + n, DivBits),
                     IF c > 2 THEN Low(2 * r - n * b, DivBits) ELSE r)
<1> DEFINE k == DivBits - c
           n == NextBit(2 * r, b)
           q2 == 2 * q + n
           r2 == 2 * r - n * b
<1>1. k \in Nat /\ k + 2 <= DivBits /\ DivBits-(c-1) = k+1
  BY Widths
<1>2. b \in Nat /\ 2^DivBits \in Nat
  BY Widths, PowerPositive
<1>3. q \in Nat /\ r \in Nat /\ Divided(a * 2^k, b, q, r) /\ q < 2^(k+1)
  BY DEF DivLoop
<1>4. /\ 2^k \in Nat /\ 2^(k+1) = 2 * 2^k /\ 2^(k+2) = 2 * 2^(k+1)
      /\ 2^(k+2) <= 2^DivBits
  BY <1>1, Widths, PowersUpTo
<1>5. n \in {0, 1} /\ Divided(a * 2^(k+1), b, q2, r2)
  <2> DEFINE d == a * 2^k
  <2>1. d \in Nat /\ a * 2^(k+1) = 2 * d
    BY <1>4
  <2>2. Divided(d, b, q, r)
    BY <1>3
  <2> HIDE DEF d
  <2> QED
    BY <1>2, <1>3, <2>1, <2>2, QuotientStep
<1>6. q2 \in Nat /\ q2 < 2^(k+2) /\ q2 \in 0..(2^DivBits - 1)
  <2> HIDE DEF n
  <2> QED
    BY <1>2, <1>3, <1>4, <1>5
<1>7. r2 \in 0..(2^DivBits - 1) /\ r2 < b
  <2> HIDE DEF r2
  <2> QED
    BY <1>2, <1>5 DEF Divided
<1>8. Low(q2, DivBits) = q2 /\ Low(r2, DivBits) = r2
  <2> HIDE DEF q2, r2
  <2> QED
    BY <1>6, <1>7, Widths, LowOfSmall
<1>9. CASE c > 2
  <2>1. /\ 2^(DivBits-(c-1)) = 2^(k+1) /\ 2^(DivBits-(c-1)+1) = 2^(k+2)
        /\ c-1 # 1 /\ r2 \in Nat
    BY <1>1, <1>7, <1>9
  <2> HIDE DEF q2, r2, n
  <2>2. DivLoop(c-1, a, b, q2, r2)
    BY <1>5, <1>6, <2>1 DEF DivLoop
  <2> QED
    BY <1>8, <1>9, <2>2 DEF q2, r2, n
<1>10. CASE c = 2
  <2>1. 2^(DivBits-1) = 2^(k+1) /\ c-1 = 1 /\ ~(c-1 > 1)
    BY <1>10, Widths
  <2>2. (r2 # 0 => q2 % 2 = 1 \/ r # 0) /\ (r # 0 => q2 % 2 = 1 \/ r2 # 0)
    <3>1. (r2 # 0 /\ r = 0 => n = 1) /\ (r # 0 /\ r2 = 0 => n = 1)
      <4> HIDE DEF n
      <4> QED
        BY <1>2, <1>3, <1>5
    <3>2. n = 1 => (2 * q + n) % 2 = 1
      BY <1>3
    <3> QED
      BY <3>1, <3>2
  <2>3. r2 \in Nat /\ q2 \in Nat
    BY <1>6, <1>7
  <2> HIDE DEF q2, r2, n
  <2>4. DivLoop(c-1, a, b, q2, r)
    BY <1>3, <1>5, <2>1, <2>2, <2>3 DEF DivLoop
  <2> QED
    BY <1>8, <1>10, <2>4 DEF q2, n
<1> QED
  BY <1>9, <1>10

\* An operation stays in exec as it is, and what comes in has posits.
LEMMA OperandsStep ==
  ASSUME OperandsArePosits, Next
  PROVE  OperandsArePosits'
<1>1. CASE Load
  <2>1. exec' \in Waiting
    BY <1>1 DEF Load
  <2> QED
    BY <2>1, OperationsAssumption DEF Waiting, OperandsArePosits, Posits
<1>2. CASE Hold
  BY <1>2 DEF Hold, OperandsArePosits, Posits
<1> QED
  BY <1>1, <1>2 DEF Next, Clock

\* In a clock that keeps exec the divider starts, goes on or rests.
LEMMA DivInvStep ==
  ASSUME ControlInv, OperandsArePosits, DivInv, Registers, Hold
  PROVE  DivInv'
<1>1. exec' = exec
  BY DEF Hold
<1>2. num1' = num1 /\ num2' = num2 /\ (NormalDivision' <=> NormalDivision)
  <2>1. num1' = num1 /\ num2' = num2
    BY <1>1 DEF num1, num2
  <2>2. exec'.mode = exec.mode
    BY <1>1
  <2> QED
    BY <2>1, <2>2 DEF NormalDivision, subMode
<1> DEFINE a == num1.fraction
           b == num2.fraction
<1>3. a \in 2^FracBits .. (2 * 2^FracBits - 1) /\ b \in 2^FracBits .. (2 * 2^FracBits - 1)
  BY Fractions
<1>4. a \in Nat /\ b \in 1..(2^DivBits - 1)
  <2> DEFINE m == 2^FracBits
  <2>1. m \in Nat /\ m > 0 /\ 2 * m <= 2^DivBits /\ 2^DivBits \in Nat
    BY Widths, PowerPositive, FractionBelow
  <2>2. a \in m .. (2 * m - 1) /\ b \in m .. (2 * m - 1)
    BY <1>3
  <2> HIDE DEF m, a, b
  <2> QED
    BY <2>1, <2>2
<1>5. cycleCount \in 0..DivBits
  BY DEF ControlInv, ControlTypes
<1>6. SUFFICES ASSUME cycleCount' > 0, NormalDivision
               PROVE  divisor' = b /\ DivLoop(cycleCount', a, b, divSqrtFrac', remHi')
  BY <1>2, <1>6 DEF DivInv
<1>7. CASE Starts("sqrtdiv")
  <2>1. cycleCount = 0
    BY <1>7 DEF ControlInv, ControlTypes, AnswerOnTheWay, Starts
  <2> DEFINE n == NextBit(a, b)
  <2>2. /\ cycleCount' = DivBits /\ divisor' = b
        /\ divSqrtFrac' = n /\ remHi' = Low(a - n * b, DivBits)
    BY <1>6, <1>7, <2>1, DivisionStarts
  <2>3. DivLoop(DivBits, a, b, n, Low(a - n * b, DivBits))
    BY <1>3, DivLoopStarts
  <2> QED
    BY <2>2, <2>3
<1>8. CASE ~Starts("sqrtdiv")
  <2>1. cycleCount \in 2..DivBits /\ cycleCount' = cycleCount - 1
    BY <1>5, <1>6, <1>8, CountStep, Widths
  <2>2. ~sqrtOpStored
    <3>1. sqrtOpStored = subMode
      BY <2>1 DEF ControlInv, AnswerOnTheWay
    <3> QED
      BY <1>6, <3>1 DEF NormalDivision
  <2>3. divisor = b /\ DivLoop(cycleCount, a, b, divSqrtFrac, remHi)
    BY <1>6, <2>1 DEF DivInv
  <2> DEFINE n == NextBit(2 * remHi, divisor)
  <2>4. /\ divisor' = divisor
        /\ divSqrtFrac' = Low(2 * divSqrtFrac + n, DivBits)
        /\ remHi' = IF cycleCount > 2 THEN Low(2 * remHi - n * divisor, DivBits) ELSE remHi
    BY <2>1, <2>2, DivisionGoesOn
  <2>5. DivLoop(cycleCount - 1, a, b, Low(2 * divSqrtFrac + NextBit(2 * remHi, b), DivBits),
                IF cycleCount > 2 THEN Low(2 * remHi - NextBit(2 * remHi, b) * b, DivBits)
                ELSE remHi)
    <3> HIDE DEF a, b
    <3> QED
      BY <1>4, <2>1, <2>3, DivLoopGoesOn
  <2> QED
    BY <2>1, <2>3, <2>4, <2>5
<1> QED
  BY <1>7, <1>8

-----------------------------------------------------------------------------
(* Square root.                                                            *)

\* Quotient and remainder are what they were made from.
LEMMA DivMod ==
  ASSUME NEW m \in Nat, m > 0, NEW t \in Nat, NEW s \in 0..(m-1)
  PROVE  (t * m + s) % m = s
<1> DEFINE x == t * m + s
           k == x \div m
           y == x % m
<1>1. x \in Nat /\ k \in Int /\ y \in 0..(m-1) /\ x = m * k + y
  OBVIOUS
<1>2. x = m * t + s
  OBVIOUS
<1> HIDE DEF x, k, y
<1>3. ~(k < t)
  <2> SUFFICES ASSUME k + 1 <= t PROVE FALSE
    BY <1>1
  <2>1. m * (k + 1) <= m * t
    BY <1>1
  <2>2. m * (k + 1) = m * k + m
    BY <1>1
  <2> QED
    BY <1>1, <1>2, <2>1, <2>2
<1>4. ~(t < k)
  <2> SUFFICES ASSUME t + 1 <= k PROVE FALSE
    BY <1>1
  <2>1. m * (t + 1) <= m * k
    BY <1>1
  <2>2. m * (t + 1) = m * t + m
    OBVIOUS
  <2> QED
    BY <1>1, <1>2, <2>1, <2>2
<1>5. k = t
  BY <1>1, <1>3, <1>4
<1>6. y = s
  BY <1>1, <1>2, <1>5
<1> QED
  BY <1>6 DEF x, y

\* The width of remLo is that of a fraction and two digits: shifting it by two
\* moves its two topmost bits out.
Unit == 2^(HiddenBits+1)

LEMMA UnitIs ==
  /\ 2^FracBits \in Nat /\ 2^FracBits > 0 /\ Unit = 4 * 2^FracBits /\ Unit \in Nat
  /\ 2^(HiddenBits-1) = 2^FracBits
<1>1. 2^FracBits \in Nat /\ 2^FracBits > 0
  BY Widths, PowerPositive
<1>2. 2^(FracBits+1) = 2 * 2^FracBits /\ 2^(FracBits+2) = 2 * 2^(FracBits+1)
  BY Widths, PowersUpTo
<1>3. Unit = 2^(FracBits+2) /\ 2^(HiddenBits-1) = 2^FracBits
  <2>1. HiddenBits+1 = FracBits+2 /\ HiddenBits-1 = FracBits
    BY Widths
  <2> QED
    BY <2>1 DEF Unit
<1> QED
  BY <1>1, <1>2, <1>3

LEMMA ShiftOut ==
  ASSUME NEW x \in Nat
  PROVE  /\ x \div 2^FracBits \in Nat
         /\ Low(4 * x, HiddenBits+1) \in 0..(Unit - 1)
         /\ 4 * x = (x \div 2^FracBits) * Unit + Low(4 * x, HiddenBits+1)
<1> DEFINE m == 2^FracBits
           t == x \div m
           s == x % m
<1>1. m \in Nat /\ m > 0 /\ Unit = 4 * m
  BY UnitIs
<1> HIDE DEF m
<1>2. t \in Nat /\ s \in 0..(m-1) /\ x = m * t + s
  BY <1>1
<1> HIDE DEF t, s
<1>3. 4 * x = t * Unit + 4 * s /\ 4 * s \in 0..(Unit - 1)
  <2>1. t * (4 * m) = 4 * (m * t)
    BY <1>1, <1>2
  <2> QED
    BY <1>1, <1>2, <2>1
<1>4. (t * Unit + 4 * s) % Unit = 4 * s
  <2> DEFINE u == Unit
             v == 4 * s
  <2>1. u \in Nat /\ u > 0 /\ v \in 0..(u-1)
    BY <1>1, <1>3
  <2> HIDE DEF u, v
  <2>2. (t * u + v) % u = v
    BY <1>2, <2>1, DivMod
  <2> QED
    BY <2>2 DEF u, v
<1>5. Low(4 * x, HiddenBits+1) = 4 * s
  BY <1>3, <1>4 DEF Low, Unit
<1> QED
  BY <1>2, <1>3, <1>5 DEF t, m

\* What the digits of a quotient or a root leave over, and what stands for it in the core.
LeftOver(q, r, rem) ==
  /\ r # 0 => q % 2 = 1 \/ rem # 0
  /\ rem # 0 => q % 2 = 1 \/ r # 0

\* q and r are the integer root and the remainder of the digits of d above l.
Rooted(d, q, r, l) ==
  /\ d = (q * q + r) * Unit + l
  /\ r \in 0..(2*q) /\ l \in 0..(Unit - 1)

\* One digit of a root: two more digits of the radicand come in from l.
LEMMA RootStep ==
  ASSUME NEW d \in Nat, NEW q \in Nat, NEW r, NEW l, Rooted(d, q, r, l),
         l \in Nat, l \div 2^FracBits \in 0..3
  PROVE  LET rem == 4 * r + l \div 2^FracBits
             n   == NextBit(rem, 4 * q + 1)
         IN  /\ n \in {0, 1}
             /\ Rooted(4 * d, 2 * q + n, rem - n * (4 * q + 1), Low(4 * l, HiddenBits+1))
<1> DEFINE t   == l \div 2^FracBits
           low == Low(4 * l, HiddenBits+1)
           rem == 4 * r + t
           n   == NextBit(rem, 4 * q + 1)
           S   == q * q
<1>1. d = (S + r) * Unit + l /\ r \in 0..(2*q) /\ S \in Nat
  BY DEF Rooted
<1>2. t \in 0..3 /\ low \in 0..(Unit - 1) /\ 4 * l = t * Unit + low
  BY ShiftOut
<1>3. Unit \in Nat
  BY UnitIs
<1> HIDE DEF t, low
<1>4. 4 * d = (4 * S + rem) * Unit + low
  <2> HIDE DEF S
  <2>1. 4 * ((S + r) * Unit) = (4 * S + 4 * r) * Unit
    BY <1>1, <1>3
  <2>2. (4 * S + 4 * r) * Unit + t * Unit = (4 * S + (4 * r + t)) * Unit
    BY <1>1, <1>2, <1>3
  <2>3. 4 * d = 4 * ((S + r) * Unit) + 4 * l
    BY <1>1, <1>3
  <2>4. (4 * S + 4 * r) * Unit \in Nat /\ t * Unit \in Nat
    BY <1>1, <1>2, <1>3
  <2> QED
    BY <1>2, <2>1, <2>2, <2>3, <2>4
<1>5. rem \in 0..(8 * q + 3)
  BY <1>1, <1>2
<1> HIDE DEF rem
<1>6. CASE rem >= 4 * q + 1
  <2>1. (2 * q + 1) * (2 * q + 1) = 4 * S + 4 * q + 1
    OBVIOUS
  <2> HIDE DEF S
  <2>2. (2 * q + 1) * (2 * q + 1) + (rem - 1 * (4 * q + 1)) = 4 * S + rem
    BY <1>1, <1>5, <2>1
  <2>3. rem - 1 * (4 * q + 1) \in 0 .. (2 * (2 * q + 1))
    BY <1>5, <1>6
  <2>4. n = 1
    BY <1>6 DEF NextBit
  <2>5. Rooted(4 * d, 2 * q + 1, rem - 1 * (4 * q + 1), low)
    BY <1>2, <1>4, <2>2, <2>3 DEF Rooted
  <2> HIDE DEF n
  <2>6. n \in {0, 1} /\ Rooted(4 * d, 2 * q + n, rem - n * (4 * q + 1), low)
    BY <2>4, <2>5
  <2> QED
    BY <2>6 DEF n, rem, low, t
<1>7. CASE ~(rem >= 4 * q + 1)
  <2>1. (2 * q) * (2 * q) = 4 * S
    OBVIOUS
  <2> HIDE DEF S
  <2>2. (2 * q) * (2 * q) + rem = 4 * S + rem /\ rem \in 0 .. (2 * (2 * q))
    BY <1>1, <1>5, <1>7, <2>1
  <2>3. n = 0
    BY <1>7 DEF NextBit
  <2>4. Rooted(4 * d, 2 * q, rem, low)
    BY <1>2, <1>4, <2>2 DEF Rooted
  <2>5. 2 * q + 0 = 2 * q /\ rem - 0 * (4 * q + 1) = rem
    BY <1>5
  <2> HIDE DEF n
  <2>6. n \in {0, 1} /\ Rooted(4 * d, 2 * q + n, rem - n * (4 * q + 1), low)
    BY <2>3, <2>4, <2>5
  <2> QED
    BY <2>6 DEF n, rem, low, t
<1> QED
  BY <1>6, <1>7

\* What the registers load in the first clock of a root, and after it.
LEMMA RootStarts ==
  ASSUME Registers, Starts("sqrtdiv"), cycleCount = 0, NormalRoot
  PROVE  LET radicand == Radicand(TRUE, num1)
             rem == radicand \div 2^(HiddenBits-1)
             n   == NextBit(rem, 1)
         IN  /\ cycleCount' = DivBits
             /\ divSqrtFrac' = n
             /\ remHi' = Low(rem - n * 1, DivBits)
             /\ remLo' = Low(4 * radicand, HiddenBits+1)
<1>1. subMode = TRUE /\ ~AnswerIsNaR(TRUE, num1, num2) /\ ~num1.isZero
  BY DEF NormalRoot, subMode
<1>2. readyIn /\ DivClock(Starts("sqrtdiv"), subMode, num1, num2)
  BY DEF Registers, readyIn
<1> QED
  BY <1>1, <1>2 DEF DivClock, Rem, TestDiv, NextCycleCount

LEMMA RootGoesOn ==
  ASSUME Registers, cycleCount \in Nat, cycleCount > 1, sqrtOpStored
  PROVE  LET rem == 4 * remHi + remLo \div 2^FracBits
             n   == NextBit(rem, 4 * divSqrtFrac + 1)
         IN  /\ divSqrtFrac' = Low(2 * divSqrtFrac + n, DivBits)
             /\ remHi' = IF cycleCount > 2
                         THEN Low(rem - n * (4 * divSqrtFrac + 1), DivBits) ELSE remHi
             /\ remLo' = Low(4 * remLo, HiddenBits+1)
<1>1. ~readyIn /\ cycleCount # 0
  BY DEF readyIn
<1>2. DivClock(Starts("sqrtdiv"), subMode, num1, num2)
  BY DEF Registers
<1> QED
  BY <1>1, <1>2 DEF DivClock, Rem, TestDiv

\* The loop invariant of a root: the digits so far are the root of as many
\* digits of the radicand R, with four times the weight for each clock gone.
RootLoop(c, R, q, r, l) ==
  /\ q \in Nat
  /\ c > 1 => Rooted(R * 2^(2*(DivBits-c) + 2), q, r, l) /\ q < 2^(DivBits-c+1)
  /\ c = 1 => /\ r \in Nat
              /\ \E rest \in Nat : /\ Rooted(R * 2^(2*DivBits), q, rest, 0)
                                   /\ LeftOver(q, rest, r)

RootInv ==
  cycleCount > 0 /\ NormalRoot =>
    RootLoop(cycleCount, Radicand(TRUE, num1), divSqrtFrac, remHi, remLo)

LEMMA RootLoopStarts ==
  ASSUME NEW R \in 2^FracBits .. (4 * 2^FracBits - 1)
  PROVE  LET rem == R \div 2^(HiddenBits-1)
             n   == NextBit(rem, 1)
         IN  RootLoop(DivBits, R, n, Low(rem - n * 1, DivBits), Low(4 * R, HiddenBits+1))
<1> DEFINE m   == 2^FracBits
           rem == R \div 2^(HiddenBits-1)
           n   == NextBit(rem, 1)
           r   == rem - 1
           low == Low(4 * R, HiddenBits+1)
<1>1. m \in Nat /\ m > 0 /\ Unit \in Nat /\ rem = R \div m
  BY UnitIs
<1>2. R \in Nat /\ R \div m \in 1..3
  <2>1. R \in m .. (4 * m - 1)
    OBVIOUS
  <2> HIDE DEF m
  <2>2. R \in Nat
    BY <1>1, <2>1
  <2> DEFINE k == R \div m
             y == R % m
  <2>3. k \in Int /\ y \in 0..(m-1) /\ R = m * k + y
    BY <1>1, <2>2
  <2> HIDE DEF k, y
  <2>4. ~(k < 1)
    <3> SUFFICES ASSUME k <= 0 PROVE FALSE
      BY <2>3
    <3>1. m * k <= 0
      BY <1>1, <2>3
    <3> QED
      BY <1>1, <2>1, <2>3, <3>1
  <2>5. ~(k > 3)
    <3> SUFFICES ASSUME k >= 4 PROVE FALSE
      BY <2>3
    <3>1. m * k >= m * 4
      BY <1>1, <2>3
    <3> QED
      BY <1>1, <2>1, <2>3, <3>1
  <2>6. k \in 1..3
    BY <2>3, <2>4, <2>5
  <2> QED
    BY <2>2, <2>6 DEF k
<1>3. rem \in 1..3 /\ n = 1 /\ r \in 0..2
  <2>1. rem \in 1..3
    BY <1>1, <1>2
  <2> HIDE DEF rem
  <2> QED
    BY <2>1 DEF NextBit
<1>4. 4 * R = rem * Unit + low /\ low \in 0..(Unit - 1)
  <2> HIDE DEF rem
  <2>1. 4 * R = (R \div m) * Unit + low /\ low \in 0..(Unit - 1)
    BY <1>2, ShiftOut
  <2> QED
    BY <1>1, <2>1
<1> HIDE DEF rem, low
<1>5. Rooted(4 * R, 1, r, low)
  <2>1. (1 * 1 + r) = rem /\ r \in 0..(2 * 1)
    BY <1>3
  <2> HIDE DEF r
  <2> QED
    BY <1>4, <2>1 DEF Rooted
<1>6. Low(r, DivBits) = r
  <2>1. 0 \in Nat /\ 0 + 2 <= DivBits
    BY Widths
  <2> DEFINE z == 0
  <2>2. z \in Nat /\ z + 2 <= DivBits /\ z = 0
    BY <2>1
  <2> HIDE DEF z
  <2>3. 2^z = 1 /\ 2^(z+1) = 2 * 2^z /\ 2^(z+2) = 2 * 2^(z+1) /\ 2^(z+2) <= 2^DivBits
    BY <2>2, Widths, PowerZero, PowersUpTo
  <2>4. 2^DivBits \in Nat
    BY Widths, PowerPositive
  <2>5. r \in 0..(2^DivBits - 1)
    BY <1>3, <2>3, <2>4
  <2> HIDE DEF r
  <2> QED
    BY <2>5, Widths, LowOfSmall
<1>7. 2^(2*(DivBits-DivBits) + 2) = 4 /\ 2^(DivBits-DivBits+1) = 2
  <2> DEFINE z == DivBits - DivBits
             y == 2 * z
  <2>1. z = 0 /\ y = 0 /\ z \in Nat /\ y \in Nat
    BY Widths
  <2> HIDE DEF y
  <2>2. 2^y = 1 /\ 2^(y+1) = 2 * 2^y /\ 2^(y+2) = 2 * 2^(y+1)
    BY <2>1, PowerZero, PowersUpTo
  <2> HIDE DEF z
  <2>3. 2^z = 1 /\ 2^(z+1) = 2 * 2^z
    BY <2>1, PowerZero, PowerNext
  <2> QED
    BY <2>2, <2>3 DEF y, z
<1>8. RootLoop(DivBits, R, n, r, low)
  <2>1. R * 4 = 4 * R /\ DivBits # 1
    BY <1>2, Widths
  <2> HIDE DEF r, n
  <2> QED
    BY <1>3, <1>5, <1>7, <2>1, Widths DEF RootLoop
<1>9. Low(rem - n * 1, DivBits) = r
  BY <1>3, <1>6
<1> QED
  BY <1>8, <1>9 DEF rem, n, low

LEMMA RootLoopGoesOn ==
  ASSUME NEW c \in 2..DivBits, NEW R \in Nat,
         NEW q, NEW r, NEW l, RootLoop(c, R, q, r, l)
  PROVE  LET rem == 4 * r + l \div 2^FracBits
             n   == NextBit(rem, 4 * q + 1)
         IN  RootLoop(c-1, R, Low(2 * q + n, DivBits),
                      IF c > 2 THEN Low(rem - n * (4 * q + 1), DivBits) ELSE r,
                      Low(4 * l, HiddenBits+1))
<1> DEFINE k   == DivBits - c
           e   == 2*k + 2
           rem == 4 * r + l \div 2^FracBits
           n   == NextBit(rem, 4 * q + 1)
           q2  == 2 * q + n
           r2  == rem - n * (4 * q + 1)
           low == Low(4 * l, HiddenBits+1)
<1>1. k \in Nat /\ e \in Nat /\ k + 2 <= DivBits /\ DivBits-(c-1) = k+1
  BY Widths
<1>2. q \in Nat /\ Rooted(R * 2^e, q, r, l) /\ q < 2^(k+1)
  BY DEF RootLoop
<1>3. /\ 2^k \in Nat /\ 2^(k+1) = 2 * 2^k /\ 2^(k+2) = 2 * 2^(k+1)
      /\ 2^(k+2) <= 2^DivBits
  BY <1>1, Widths, PowersUpTo
<1>4. 2^e \in Nat /\ 2^(e+2) = 4 * 2^e
  <2> HIDE DEF e
  <2>1. e + 2 \in Nat
    BY <1>1
  <2>2. 2^e \in Nat /\ 2^(e+1) = 2 * 2^e /\ 2^(e+2) = 2 * 2^(e+1)
    BY <1>1, <2>1, PowersUpTo
  <2> QED
    BY <2>2
<1>5. l \in Nat /\ l \div 2^FracBits \in 0..3
  <2> DEFINE m == 2^FracBits
  <2>1. l \in 0..(4 * m - 1) /\ m \in Nat /\ m > 0
    BY <1>2, UnitIs DEF Rooted
  <2> HIDE DEF m
  <2> DEFINE t == l \div m
             y == l % m
  <2>2. t \in Int /\ y \in 0..(m-1) /\ l = m * t + y
    BY <2>1
  <2> HIDE DEF t, y
  <2>3. ~(t < 0)
    <3> SUFFICES ASSUME t <= -1 PROVE FALSE
      BY <2>2
    <3>1. m * t <= m * (-1)
      BY <2>1, <2>2
    <3> QED
      BY <2>1, <2>2, <3>1
  <2>4. ~(t > 3)
    <3> SUFFICES ASSUME t >= 4 PROVE FALSE
      BY <2>2
    <3>1. m * t >= m * 4
      BY <2>1, <2>2
    <3> QED
      BY <2>1, <2>2, <3>1
  <2>5. t \in 0..3
    BY <2>2, <2>3, <2>4
  <2> QED
    BY <2>1, <2>5 DEF t, m
<1>6. n \in {0, 1} /\ Rooted(R * 2^(e+2), q2, r2, low)
  <2> DEFINE d == R * 2^e
  <2>1. d \in Nat /\ R * 2^(e+2) = 4 * d /\ Rooted(d, q, r, l)
    BY <1>2, <1>4
  <2> HIDE DEF d, e
  <2> QED
    BY <1>2, <1>5, <2>1, RootStep
<1>7. r2 \in 0..(2*q2) /\ low \in Nat
  BY <1>6, UnitIs DEF Rooted
<1>8. q2 \in Nat /\ q2 < 2^(k+2) /\ q2 \in 0..(2^DivBits - 1) /\ 2^DivBits \in Nat
  <2>1. 2^DivBits \in Nat
    BY Widths, PowerPositive
  <2> HIDE DEF n
  <2> QED
    BY <1>2, <1>3, <1>6, <2>1
<1>9. Low(q2, DivBits) = q2
  <2> HIDE DEF q2
  <2> QED
    BY <1>8, Widths, LowOfSmall
<1>10. CASE c > 2
  <2>1. r2 \in 0..(2^DivBits - 1)
    <3> DEFINE h == k + 1
    <3>1. h \in Nat /\ h + 2 <= DivBits /\ h + 1 = k + 2
      BY <1>1, <1>10, Widths
    <3> HIDE DEF h
    <3>2. 2^(h+2) = 2 * 2^(h+1) /\ 2^(h+2) <= 2^DivBits
      BY <3>1, Widths, PowersUpTo
    <3>3. 2^(h+1) = 2^(k+2)
      BY <3>1
    <3> HIDE DEF q2, r2
    <3> QED
      BY <1>7, <1>3, <1>8, <3>2, <3>3
  <2>2. Low(r2, DivBits) = r2
    <3> HIDE DEF r2
    <3> QED
      BY <2>1, Widths, LowOfSmall
  <2>3. /\ 2^(2*(DivBits-(c-1)) + 2) = 2^(e+2) /\ 2^(DivBits-(c-1)+1) = 2^(k+2)
        /\ c-1 # 1
    <3>1. 2*(DivBits-(c-1)) + 2 = e+2 /\ DivBits-(c-1)+1 = k+2
      BY <1>1
    <3> QED
      BY <1>10, <3>1
  <2> HIDE DEF q2, r2, n, rem, low, e
  <2>4. RootLoop(c-1, R, q2, r2, low)
    BY <1>6, <1>8, <2>3 DEF RootLoop
  <2> QED
    BY <1>9, <1>10, <2>2, <2>4 DEF q2, r2, n, rem, low
<1>11. CASE c = 2
  <2>1. 2*DivBits = e+2 /\ c-1 = 1 /\ ~(c-1 > 1)
    BY <1>11, Widths
  <2>2. r2 \in Nat
    <3> HIDE DEF q2, r2
    <3> QED
      BY <1>7, <1>8
  <2>3. l = 0 /\ r \in Nat
    <3> DEFINE h == FracBits + 6  A == 2^h  S == q * q  T == S + r  U == Unit
    <3>1. e = (FracBits + 2) + h /\ h \in Nat /\ FracBits + 2 \in Nat
      BY <1>11, Widths
    <3>2. U = 2^(FracBits+2) /\ U \in Nat /\ U > 0 /\ A \in Nat
      <4>1. HiddenBits + 1 = FracBits + 2
        BY Widths
      <4> HIDE DEF h
      <4> QED
        BY <3>1, <4>1, PowerPositive, UnitIs DEF Unit
    <3>3. 2^e = 2^(FracBits+2) * 2^h
      <4> DEFINE fb == FracBits + 2
      <4> HIDE DEF h, e, fb
      <4>1. fb \in Nat /\ e = fb + h
        BY <3>1 DEF fb
      <4>2. 2^e = 2^fb * 2^h
        BY <3>1, <4>1, PowerSum
      <4> QED
        BY <4>2 DEF fb
    <3>4. R * 2^e = T * U + l /\ r \in 0..(2*q) /\ l \in 0..(U - 1)
      BY <1>2 DEF Rooted
    <3>5. S \in Nat /\ r \in Nat /\ T \in Nat
      BY <1>2, <3>4
    <3>6. R * 2^e = (R * A) * U + 0 /\ R * A \in Nat
      <4>1. 2^e = U * A
        BY <3>2, <3>3
      <4> HIDE DEF A, U, e
      <4> QED
        BY <3>2, <4>1
    <3> HIDE DEF A, T, U, e
    <3>7. (T * U + l) % U = l
      BY <3>2, <3>4, <3>5, DivMod
    <3> DEFINE z == 0  B == R * A
    <3>8. z \in 0..(U-1) /\ B \in Nat
      BY <3>2, <3>6
    <3> HIDE DEF z, B
    <3>9. (B * U + z) % U = z
      BY <3>2, <3>8, DivMod
    <3>10. (B * U + z) = (T * U + l)
      BY <3>4, <3>6 DEF B, z
    <3>11. l = z
      BY <3>7, <3>9, <3>10
    <3> QED
      BY <3>5, <3>11 DEF z
  <2>4. low = 0
    <3> DEFINE m == 2^FracBits
    <3>1. m \in Nat /\ m > 0
      BY UnitIs
    <3>2. low \in 0..(Unit - 1) /\ 4 * l = (l \div m) * Unit + low
      BY <1>5, ShiftOut
    <3> HIDE DEF low, m
    <3>3. l \div m = 0
      BY <2>3, <3>1
    <3> QED
      BY <2>3, <3>2, <3>3, UnitIs
  <2>5. LeftOver(q2, r2, r)
    <3>1. l \div 2^FracBits = 0
      <4> DEFINE m == 2^FracBits
      <4>1. m \in Nat /\ m > 0
        BY UnitIs
      <4> HIDE DEF m
      <4>2. l \div m = 0
        BY <2>3, <4>1
      <4> QED
        BY <4>2 DEF m
    <3>2. rem = 4 * r
      BY <2>3, <3>1
    <3>3. CASE n = 1
      <4>1. q2 = 2 * q + 1
        BY <3>3
      <4>2. q2 % 2 = 1
        <5> HIDE DEF q2
        <5> QED
          BY <1>2, <4>1
      <4> HIDE DEF q2, r2
      <4> QED
        BY <4>2 DEF LeftOver
    <3>4. CASE n = 0
      <4>1. r2 = 4 * r
        BY <1>2, <2>3, <3>2, <3>4
      <4>2. r2 # 0 <=> r # 0
        <5> HIDE DEF r2
        <5> QED
          BY <2>3, <4>1
      <4> HIDE DEF q2, r2
      <4> QED
        BY <4>2 DEF LeftOver
    <3> QED
      BY <1>6, <3>3, <3>4
  <2> HIDE DEF q2, r2, n, rem, low, e
  <2>6. RootLoop(c-1, R, q2, r, low)
    <3>1. 2^(2*DivBits) = 2^(e+2)
      BY <2>1
    <3>2. Rooted(R * 2^(2*DivBits), q2, r2, 0)
      BY <1>6, <2>4, <3>1
    <3> QED
      BY <1>8, <2>1, <2>2, <2>3, <2>5, <3>2 DEF RootLoop
  <2> QED
    BY <1>9, <1>11, <2>6 DEF q2, n, rem, low
<1> QED
  BY <1>10, <1>11

\* A radicand is a fraction, or twice one for an odd exponent.
LEMMA RadicandRange ==
  ASSUME OperandsArePosits
  PROVE  Radicand(TRUE, num1) \in 2^FracBits .. (4 * 2^FracBits - 1)
<1> DEFINE m == 2^FracBits
           a == num1.fraction
           R == Radicand(TRUE, num1)
<1>1. m \in Nat /\ a \in m .. (2 * m - 1)
  BY Fractions, Widths, PowerPositive
<1>2. R = a \/ R = 2 * a
  BY DEF Radicand
<1> HIDE DEF m, a, R
<1>3. R \in m .. (4 * m - 1)
  BY <1>1, <1>2
<1> QED
  BY <1>3 DEF m, R

\* In a clock that keeps exec the root starts, goes on or rests.
LEMMA RootInvStep ==
  ASSUME ControlInv, OperandsArePosits, RootInv, Registers, Hold
  PROVE  RootInv'
<1> DEFINE R == Radicand(TRUE, num1)
<1>1. num1' = num1 /\ num2' = num2 /\ exec'.mode = exec.mode
  BY DEF Hold, num1, num2
<1>2. R' = R /\ (NormalRoot' <=> NormalRoot)
  BY <1>1 DEF NormalRoot, subMode
<1>3. R \in 2^FracBits .. (4 * 2^FracBits - 1)
  BY RadicandRange
<1>4. R \in Nat
  <2> DEFINE m == 2^FracBits
  <2>1. m \in Nat /\ R \in m .. (4 * m - 1)
    BY <1>3, Widths, PowerPositive
  <2> HIDE DEF m, R
  <2> QED
    BY <2>1
<1>5. cycleCount \in 0..DivBits
  BY DEF ControlInv, ControlTypes
<1> HIDE DEF R
<1>6. SUFFICES ASSUME cycleCount' > 0, NormalRoot
               PROVE  RootLoop(cycleCount', R, divSqrtFrac', remHi', remLo')
  BY <1>2, <1>6 DEF RootInv, R
<1>7. CASE Starts("sqrtdiv")
  <2>1. cycleCount = 0
    BY <1>7 DEF ControlInv, ControlTypes, AnswerOnTheWay, Starts
  <2> DEFINE rem == R \div 2^(HiddenBits-1)
             n   == NextBit(rem, 1)
  <2>2. /\ cycleCount' = DivBits /\ divSqrtFrac' = n
        /\ remHi' = Low(rem - n * 1, DivBits)
        /\ remLo' = Low(4 * R, HiddenBits+1)
    BY <1>6, <1>7, <2>1, RootStarts DEF R
  <2>3. RootLoop(DivBits, R, n, Low(rem - n * 1, DivBits), Low(4 * R, HiddenBits+1))
    BY <1>3, RootLoopStarts
  <2> QED
    BY <2>2, <2>3
<1>8. CASE ~Starts("sqrtdiv")
  <2>1. cycleCount \in 2..DivBits /\ cycleCount' = cycleCount - 1
    BY <1>5, <1>6, <1>8, CountStep, Widths
  <2>2. sqrtOpStored
    <3>1. sqrtOpStored = subMode
      BY <2>1 DEF ControlInv, AnswerOnTheWay
    <3> QED
      BY <1>6, <3>1 DEF NormalRoot
  <2>3. RootLoop(cycleCount, R, divSqrtFrac, remHi, remLo)
    <3>1. cycleCount > 0
      BY <2>1
    <3> QED
      BY <1>6, <3>1 DEF RootInv, R
  <2> DEFINE rem == 4 * remHi + remLo \div 2^FracBits
             n   == NextBit(rem, 4 * divSqrtFrac + 1)
             r2  == IF cycleCount > 2
                    THEN Low(rem - n * (4 * divSqrtFrac + 1), DivBits) ELSE remHi
  <2>4. /\ divSqrtFrac' = Low(2 * divSqrtFrac + n, DivBits)
        /\ remHi' = r2 /\ remLo' = Low(4 * remLo, HiddenBits+1)
    BY <2>1, <2>2, RootGoesOn
  <2>5. RootLoop(cycleCount - 1, R, Low(2 * divSqrtFrac + n, DivBits), r2,
                 Low(4 * remLo, HiddenBits+1))
    BY <1>4, <2>1, <2>3, RootLoopGoesOn
  <2> QED
    BY <2>1, <2>4, <2>5
<1> QED
  BY <1>7, <1>8

-----------------------------------------------------------------------------
(* The digits.                                                             *)

\* Inductive: the loops need to know that their operation stays in exec while
\* they count, which the invariant of the dispatched bit tells.
DigitsInv == ControlInv /\ OperandsArePosits /\ DivInv /\ RootInv

LEMMA DigitsInit ==
  ASSUME Init PROVE DigitsInv
<1>1. cycleCount = 0
  BY DEF Init, DivInit
<1>2. DivInv /\ RootInv
  BY <1>1 DEF DivInv, RootInv
<1>3. OperandsArePosits
  BY ZeroIsPosit DEF Init, Op, OperandsArePosits
<1> QED
  BY <1>2, <1>3, ControlInit DEF DigitsInv

LEMMA DigitsStep == DigitsInv /\ [Next]_vars => DigitsInv'
<1>1. ASSUME DigitsInv, Registers, Load PROVE DivInv' /\ RootInv'
  BY <1>1, LoadRests DEF DigitsInv, DivInv, RootInv
<1>2. ASSUME DigitsInv, Registers, Hold PROVE DivInv' /\ RootInv'
  BY <1>2, DivInvStep, RootInvStep DEF DigitsInv
<1>3. ASSUME DigitsInv, Next PROVE DigitsInv'
  <2>1. DivInv' /\ RootInv'
    BY <1>1, <1>2, <1>3 DEF Next, Clock
  <2>2. OperandsArePosits'
    BY <1>3, OperandsStep DEF DigitsInv
  <2>3. ControlInv'
    BY <1>3, LoadStep, HoldStep DEF DigitsInv, Next, Clock
  <2> QED
    BY <2>1, <2>2, <2>3 DEF DigitsInv
<1>4. ASSUME DigitsInv, UNCHANGED vars PROVE DigitsInv'
  <2>1. exec' = exec /\ UNCHANGED divVars
    BY <1>4 DEF vars, elementVars
  <2>2. num1' = num1 /\ num2' = num2 /\ exec'.mode = exec.mode
    BY <2>1 DEF num1, num2
  <2>3. DivInv' /\ RootInv'
    BY <1>4, <2>1, <2>2
       DEF DigitsInv, DivInv, RootInv, divVars, NormalDivision, NormalRoot, subMode
  <2>4. OperandsArePosits'
    BY <1>4, <2>1 DEF DigitsInv, OperandsArePosits, Posits
  <2>5. ControlInv'
    BY <1>4 DEF DigitsInv, vars, elementVars, divVars, ControlInv, ControlTypes,
                AnswerOnTheWay, subMode
  <2> QED
    BY <2>3, <2>4, <2>5 DEF DigitsInv
<1> QED
  BY <1>3, <1>4

LEMMA DigitsInvariant == Spec => []DigitsInv
  BY DigitsInit, DigitsStep, PTL DEF Spec

LEMMA QuotientFollows ==
  ASSUME DigitsInv, validOut, NormalDivision
  PROVE  QuotientDigits
<1> DEFINE b        == num2.fraction
           dividend == num1.fraction * 2^(DivBits-1)
           low      == divSqrtFrac * b
<1>1. DivLoop(1, num1.fraction, b, divSqrtFrac, remHi)
  <2>1. cycleCount = 1 /\ cycleCount > 0
    BY DEF validOut
  <2>2. DivLoop(cycleCount, num1.fraction, b, divSqrtFrac, remHi)
    BY <2>1 DEF DigitsInv, DivInv
  <2> QED
    BY <2>1, <2>2
<1>2. b \in Nat
  <2> DEFINE m == 2^FracBits
  <2>1. m \in Nat /\ b \in m .. (2 * m - 1)
    BY Fractions, Widths, PowerPositive DEF DigitsInv
  <2> HIDE DEF m, b
  <2> QED
    BY <2>1
<1>3. PICK rest \in Nat : /\ Divided(dividend, b, divSqrtFrac, rest)
                          /\ rest # 0 => divSqrtFrac % 2 = 1 \/ remHi # 0
  BY <1>1 DEF DivLoop
<1>4. dividend = low + rest /\ rest < b /\ low \in Nat
  <2> HIDE DEF dividend, b
  <2> QED
    BY <1>1, <1>2, <1>3 DEF Divided, DivLoop
<1>5. low <= dividend /\ dividend < low + b /\ (low # dividend => rest # 0)
  <2> HIDE DEF dividend, b, low
  <2> QED
    BY <1>2, <1>4
<1> QED
  BY <1>3, <1>5 DEF QuotientDigits

LEMMA RootFollows ==
  ASSUME DigitsInv, validOut, NormalRoot
  PROVE  RootDigits
<1> DEFINE R == Radicand(TRUE, num1) * 2^(2*DivBits)
           q == divSqrtFrac
<1>1. RootLoop(1, Radicand(TRUE, num1), q, remHi, remLo)
  <2>1. cycleCount = 1 /\ cycleCount > 0
    BY DEF validOut
  <2>2. RootLoop(cycleCount, Radicand(TRUE, num1), q, remHi, remLo)
    BY <2>1 DEF DigitsInv, RootInv
  <2> QED
    BY <2>1, <2>2
<1>2. q \in Nat /\ \E rest \in Nat : Rooted(R, q, rest, 0)
  BY <1>1 DEF RootLoop
<1> DEFINE low == 0
<1>3. PICK rest \in Nat : Rooted(R, q, rest, low)
  BY <1>2
<1> HIDE DEF R, q, low
<1>4. R = (q * q + rest) * Unit + low /\ rest <= 2 * q /\ low < Unit /\ Unit \in Nat /\ low \in Nat
  BY <1>2, <1>3, UnitIs DEF Rooted
<1> DEFINE S == q * q
           T == S + rest
<1>5. S \in Nat /\ T \in Nat /\ S <= T /\ T + 1 <= S + 2 * q + 1
  BY <1>2, <1>4
<1>6. (q + 1) * (q + 1) = S + 2 * q + 1
  BY <1>2
<1>7. R = T * Unit + low
  BY <1>4
<1> HIDE DEF S, T
<1>8. S * Unit <= T * Unit /\ T * Unit \in Nat
  BY <1>4, <1>5
<1>9. (T + 1) * Unit <= (S + 2 * q + 1) * Unit
  BY <1>2, <1>4, <1>5
<1>10. (T + 1) * Unit = T * Unit + Unit
  BY <1>4, <1>5
<1>11. S * Unit <= R /\ R < (S + 2 * q + 1) * Unit
  <2> DEFINE x == T * Unit
             y == S * Unit
             z == (S + 2 * q + 1) * Unit
  <2>1. x \in Nat /\ y \in Nat /\ z \in Nat
    BY <1>2, <1>4, <1>5
  <2>2. y <= x /\ x + Unit <= z /\ R = x + low
    BY <1>7, <1>8, <1>9, <1>10
  <2> HIDE DEF x, y, z
  <2>3. y <= R /\ R < z
    BY <1>4, <2>1, <2>2
  <2> QED
    BY <2>3 DEF y, z
<1>12. q * q * Unit <= R /\ R < (q + 1) * (q + 1) * Unit
  BY <1>6, <1>11 DEF S
<1> QED
  BY <1>12 DEF RootDigits, R, q, Unit

\* When the iterative core answers a division, its digits are the quotient of
\* the fractions cut off after DivBits digits, and it knows whether anything
\* was cut off, although the remainder is not updated in the last clock
\* (PositDivSqrt.scala L85-106): for every width of posit.
THEOREM QuotientsAreDivided == Spec => []QuotientDigits
<1>1. DigitsInv => QuotientDigits
  BY QuotientFollows DEF QuotientDigits
<1> QED
  BY <1>1, DigitsInvariant, PTL

\* When it answers a root, its digits are the root of the radicand cut off
\* after DivBits digits (PositDivSqrt.scala L56, L85-106).
THEOREM RootsAreExtracted == Spec => []RootDigits
<1>1. DigitsInv => RootDigits
  BY RootFollows DEF RootDigits
<1> QED
  BY <1>1, DigitsInvariant, PTL

-----------------------------------------------------------------------------
(* The types of the datapath.  What a register holds fits its width when   *)
(* every wire in front of it is a number: a leading-zero count, a shift,   *)
(* a field that is cut out.                                                *)

Part        == [sign : BOOLEAN, exponent : Int, fraction : Nat]

AnswerType  == [out : Unpacked, trailing : Nat, sticky : BOOLEAN]

AddBound    == 2^(AdderBits-1) - 1

AddRegType  == [isAddition : BOOLEAN, largeSign : BOOLEAN, largeExp : Int,
                largeFrac : 0..AddBound, smallFrac : 0..AddBound]

FMARegType  == [product : Part, addend : Part, addendIsLarger : BOOLEAN,
                isNaR : BOOLEAN, isZero : BOOLEAN]

LEMMA NormShiftIsInt ==
  ASSUME NEW w \in Nat, w > 0, NEW x \in 0..(2^w - 1)
  PROVE  NormShift(x, w) \in Int
<1>1. LeadingZeros(x, w) \in Int /\ NormBits(w) \in Nat
  BY LeadingZerosIsNat, Log2CeilIsNat DEF NormBits
<1> QED
  BY <1>1, SignedIsInt DEF NormShift

\* The bits that normalisation shifts in.
LEMMA NormalisedIsNat ==
  ASSUME NEW w \in Nat, w > 0, NEW x \in 0..(2^w - 1)
  PROVE  Low(x * 2^LeadingZeros(x, w), w) \in Nat
<1>1. LeadingZeros(x, w) \in Nat /\ x \in Nat
  BY LeadingZerosIsNat
<1>2. 2^LeadingZeros(x, w) \in Nat
  BY <1>1, PowerPositive
<1>3. x * 2^LeadingZeros(x, w) \in Int
  BY <1>1, <1>2
<1> QED
  BY <1>3, LowIsNat

LEMMA HalfOf ==
  ASSUME NEW s \in Nat, NEW k \in Nat, s <= 2 * k
  PROVE  s \div 2 \in 0..k
OBVIOUS

\* Room for a fraction and three more bits.
LEMMA AdderRoom ==
  /\ 2^3 \in Nat /\ 2^3 > 0 /\ 2^FracBits \in Nat /\ AddBound \in Nat
  /\ \A f \in Nat : f < 2 * 2^FracBits => f * 2^3 \in 0..AddBound
<1>1. 2^3 = 8
  OBVIOUS
<1>2. /\ 2^FracBits \in Nat /\ 2^(FracBits+1) = 2 * 2^FracBits
      /\ 2^((FracBits+1)+1) = 2 * 2^(FracBits+1)
      /\ 2^((FracBits+2)+1) = 2 * 2^(FracBits+2)
      /\ 2^((FracBits+3)+1) = 2 * 2^(FracBits+3)
  BY Widths, PowerPositive, PowerNext
<1>3. /\ (FracBits+1)+1 = FracBits+2 /\ (FracBits+2)+1 = FracBits+3
      /\ (FracBits+3)+1 = FracBits+4
  BY Widths
<1>4. 2^(FracBits+4) = 16 * 2^FracBits
  BY <1>2, <1>3
<1>5. AddBound = 16 * 2^FracBits - 1 /\ 2^FracBits > 0
  BY <1>4, CoreWidths, Widths, PowerPositive DEF AddBound
<1> DEFINE m == 2^FracBits
<1>6. m \in Nat /\ m > 0 /\ AddBound = 16 * m - 1
  BY <1>2, <1>5
<1> HIDE DEF m
<1>7. \A f \in Nat : f < 2 * m => f * 8 \in 0..(16 * m - 1)
  BY <1>6
<1> QED
  BY <1>1, <1>6, <1>7 DEF m

LEMMA AddAlignType ==
  ASSUME NEW x \in OperandType, NEW y \in OperandType, NEW sub \in BOOLEAN
  PROVE  AddAlign(x, y, sub) \in AddRegType
<1> DEFINE adjusted == [y EXCEPT !.sign = (@ # sub)]
           first    == FirstIsLarger(x, y)
           large    == IF first THEN x ELSE adjusted
           small    == IF first THEN adjusted ELSE x
           expDiff  == large.exponent - small.exponent
           smallFrac == IF expDiff < AdderBits - 1
                        THEN (small.fraction * 2^3) \div 2^expDiff ELSE 0
<1>1. /\ x \in Unpacked /\ y \in Unpacked
      /\ x.fraction < 2 * 2^FracBits /\ y.fraction < 2 * 2^FracBits
      /\ x.exponent \in Int /\ y.exponent \in Int /\ x.fraction \in Nat /\ y.fraction \in Nat
      /\ x.sign \in BOOLEAN /\ y.sign \in BOOLEAN
  BY DEF OperandType, Unpacked
<1>2. /\ adjusted.exponent = y.exponent /\ adjusted.fraction = y.fraction
      /\ adjusted.sign = (y.sign # sub)
  BY <1>1 DEF Unpacked
<1> HIDE DEF adjusted
<1>3. /\ large.fraction \in Nat /\ large.fraction < 2 * 2^FracBits
      /\ small.fraction \in Nat /\ small.fraction < 2 * 2^FracBits
      /\ large.exponent \in Int /\ small.exponent \in Int
      /\ large.sign \in BOOLEAN
  BY <1>1, <1>2
<1>4. expDiff \in Nat
  <2>1. CASE first
    BY <1>1, <1>2, <2>1 DEF FirstIsLarger
  <2>2. CASE ~first
    BY <1>1, <1>2, <2>2 DEF FirstIsLarger
  <2> QED
    BY <2>1, <2>2
<1> HIDE DEF first, large, small
<1>5. large.fraction * 2^3 \in 0..AddBound /\ small.fraction * 2^3 \in 0..AddBound
  BY <1>3, AdderRoom
<1>6. smallFrac \in 0..AddBound
  <2> DEFINE s == small.fraction * 2^3
  <2>1. s \in 0..AddBound /\ AddBound \in Nat
    BY <1>5, AdderRoom
  <2> HIDE DEF s, expDiff
  <2>2. s \div 2^expDiff \in Nat /\ s \div 2^expDiff <= s
    BY <1>4, <2>1, PowerIsNat
  <2>3. s \div 2^expDiff \in 0..AddBound
    BY <2>1, <2>2
  <2> QED
    BY <2>1, <2>3 DEF s
<1>7. AddAlign(x, y, sub) =
        [isAddition |-> large.sign = small.sign, largeSign |-> large.sign,
         largeExp |-> large.exponent, largeFrac |-> large.fraction * 2^3,
         smallFrac |-> smallFrac]
  BY DEF AddAlign, adjusted, first, large, small
<1> HIDE DEF smallFrac
<1> QED
  BY <1>3, <1>5, <1>6, <1>7 DEF AddRegType

LEMMA AddFinishType ==
  ASSUME NEW r \in AddRegType, NEW x \in Unpacked, NEW y \in Unpacked
  PROVE  AddFinish(r, x, y) \in AnswerType
<1> DEFINE w        == AdderBits - 1
           addend   == IF r.isAddition THEN r.smallFrac ELSE Negated(r.smallFrac, w)
           sum      == r.largeFrac + addend
           overflow == r.isAddition /\ sum >= 2^w
           frac     == IF overflow THEN sum \div 2 ELSE Low(sum, w)
           exp      == r.largeExp + IF overflow THEN 1 ELSE 0
           norm     == Low(frac * 2^LeadingZeros(frac, w), w)
           out      == [sign     |-> r.largeSign,
                        exponent |-> Signed(exp - NormShift(frac, w), ExpBits),
                        fraction |-> norm \div 2^3,
                        isZero   |-> (x.isZero /\ y.isZero) \/ sum = 0,
                        isNaR    |-> x.isNaR \/ y.isNaR]
           trailing == Low(norm \div 2, TrailingBits)
           sticky   == (overflow /\ sum % 2 = 1) \/ norm % 2 = 1
<1>1. /\ r.isAddition \in BOOLEAN /\ r.largeSign \in BOOLEAN /\ r.largeExp \in Int
      /\ r.largeFrac \in 0..(2^w - 1) /\ r.smallFrac \in 0..(2^w - 1)
      /\ w \in Nat /\ w > 0 /\ 2^w \in Nat
  BY CoreWidths, Widths, PowerPositive DEF AddRegType, AddBound
<1>2. x.isZero \in BOOLEAN /\ y.isZero \in BOOLEAN /\ x.isNaR \in BOOLEAN /\ y.isNaR \in BOOLEAN
  BY DEF Unpacked
<1>3. AddFinish(r, x, y) = Answer(out, trailing, sticky)
  BY DEF AddFinish
<1> HIDE DEF w
<1>4. addend \in 0..(2^w - 1)
  <2>1. 2^w - r.smallFrac \in Int
    BY <1>1
  <2>2. Negated(r.smallFrac, w) \in 0..(2^w - 1)
    BY <1>1, <2>1, LowRange DEF Negated
  <2> QED
    BY <1>1, <2>2
<1> HIDE DEF addend
<1>5. sum \in Nat /\ sum <= 2 * (2^w - 1)
  BY <1>1, <1>4
<1> HIDE DEF sum
<1>6. frac \in 0..(2^w - 1)
  <2>3. Low(sum, w) \in 0..(2^w - 1)
    <3>1. sum \in Int /\ w \in Nat
      BY <1>1, <1>5
    <3> QED
      BY <3>1, LowRange
  <2> DEFINE m == 2^w
  <2>1. m \in Nat /\ sum \in Nat /\ sum <= 2 * (m - 1)
    BY <1>1, <1>5
  <2> HIDE DEF m
  <2>2. m - 1 \in Nat
    BY <1>1, PowerPositive DEF m
  <2>4. sum \div 2 \in 0..(m - 1)
    BY <2>1, <2>2, HalfOf
  <2> QED
    BY <2>3, <2>4 DEF m
<1>7. exp \in Int
  BY <1>1
<1> HIDE DEF frac, exp
<1>8. norm \in Nat /\ NormShift(frac, w) \in Int
  BY <1>1, <1>6, NormalisedIsNat, NormShiftIsInt
<1> HIDE DEF norm
<1>9. Signed(exp - NormShift(frac, w), ExpBits) \in Int
  BY <1>7, <1>8, CoreWidths, SignedIsInt
<1>10. norm \div 2^3 \in Nat /\ norm \div 2 \in Int
  BY <1>8, PowerIsNat
<1>11. trailing \in Nat
  BY <1>10, CoreWidths, LowIsNat
<1>12. out \in Unpacked
  BY <1>1, <1>2, <1>9, <1>10 DEF Unpacked
<1> HIDE DEF out, trailing
<1> QED
  BY <1>3, <1>11, <1>12 DEF Answer, AnswerType

LEMMA MultiplyType ==
  ASSUME NEW x \in Unpacked, NEW y \in Unpacked
  PROVE  Multiply(x, y) \in AnswerType
<1> DEFINE product  == x.fraction * y.fraction
           overflow == product >= 2^(MulBits-1)
           norm     == IF overflow THEN product ELSE 2 * product
           exp      == x.exponent + y.exponent + IF overflow THEN 1 ELSE 0
           out      == [sign     |-> x.sign # y.sign,
                        exponent |-> Signed(exp, ExpBits),
                        fraction |-> norm \div 2^HiddenBits,
                        isZero   |-> x.isZero \/ y.isZero,
                        isNaR    |-> x.isNaR \/ y.isNaR]
           trailing == Low(norm \div 2^(HiddenBits-TrailingBits), TrailingBits)
           sticky   == Low(norm, HiddenBits-TrailingBits) # 0
<1>1. /\ x.fraction \in Nat /\ y.fraction \in Nat /\ x.exponent \in Int /\ y.exponent \in Int
      /\ x.isZero \in BOOLEAN /\ y.isZero \in BOOLEAN /\ x.isNaR \in BOOLEAN /\ y.isNaR \in BOOLEAN
  BY DEF Unpacked
<1>2. Multiply(x, y) = Answer(out, trailing, sticky)
  BY DEF Multiply
<1>3. product \in Nat
  BY <1>1
<1> HIDE DEF product
<1>4. norm \in Nat /\ exp \in Int
  BY <1>1, <1>3
<1> HIDE DEF norm, exp
<1>5. Signed(exp, ExpBits) \in Int
  BY <1>4, CoreWidths, SignedIsInt
<1>6. norm \div 2^HiddenBits \in Nat /\ norm \div 2^(HiddenBits-TrailingBits) \in Int
  BY <1>4, Widths, CoreWidths, PowerIsNat
<1>7. trailing \in Nat
  BY <1>6, CoreWidths, LowIsNat
<1>8. out \in Unpacked
  BY <1>1, <1>5, <1>6 DEF Unpacked
<1> HIDE DEF out, trailing
<1> QED
  BY <1>2, <1>7, <1>8 DEF Answer, AnswerType

LEMMA HalfIsNat ==
  ASSUME NEW s \in Nat
  PROVE  s \div 2 \in Nat
OBVIOUS

LEMMA FMAProductType ==
  ASSUME NEW x \in Unpacked, NEW y \in Unpacked, NEW z \in Unpacked,
         NEW sub \in BOOLEAN, NEW negate \in BOOLEAN
  PROVE  FMAProduct(x, y, z, sub, negate) \in FMARegType
<1> DEFINE product  == x.fraction * y.fraction
           overflow == product >= 2^(MulBits-1)
           exp      == x.exponent + y.exponent + IF overflow THEN 1 ELSE 0
           frac     == IF overflow THEN product \div 2 ELSE product
           prod == [sign |-> (x.sign # y.sign) # negate, exponent |-> exp,
                    fraction |-> frac]
           wide == IF z.isZero THEN 0 ELSE z.fraction * 2^FracBits
           addend == [sign |-> (z.sign # negate) # sub, exponent |-> z.exponent,
                      fraction |-> wide]
           larger == ~z.isZero /\ FirstIsLarger(addend, prod)
           nar    == x.isNaR \/ y.isNaR \/ z.isNaR
           zero   == (x.isZero \/ y.isZero) /\ z.isZero
<1>1. /\ x.fraction \in Nat /\ y.fraction \in Nat /\ z.fraction \in Nat
      /\ x.exponent \in Int /\ y.exponent \in Int /\ z.exponent \in Int
  BY DEF Unpacked
<1>2. FMAProduct(x, y, z, sub, negate) =
        [product |-> prod, addend |-> addend, addendIsLarger |-> larger,
         isNaR |-> nar, isZero |-> zero]
  BY DEF FMAProduct
<1>3. product \in Nat
  BY <1>1
<1> HIDE DEF product
<1>4. exp \in Int /\ frac \in Nat
  BY <1>1, <1>3, HalfIsNat
<1>5. wide \in Nat
  <2>1. 2^FracBits \in Nat
    BY Widths, PowerPositive
  <2> DEFINE m == 2^FracBits
  <2> HIDE DEF m
  <2>2. z.fraction * m \in Nat
    BY <1>1, <2>1 DEF m
  <2> QED
    BY <2>2 DEF m
<1> HIDE DEF exp, frac, wide
<1>6. prod \in Part /\ addend \in Part
  BY <1>1, <1>4, <1>5 DEF Part
<1>7. larger \in BOOLEAN /\ nar \in BOOLEAN /\ zero \in BOOLEAN
  <2> HIDE DEF prod, addend
  <2> QED
    BY DEF FirstIsLarger
<1> HIDE DEF prod, addend, larger, nar, zero
<1> QED
  BY <1>2, <1>6, <1>7 DEF FMARegType

LEMMA Min2IsNat ==
  ASSUME NEW a \in Nat, NEW b \in Nat
  PROVE  Min2(a, b) \in Nat
BY DEF Min2

LEMMA FMAFinishType ==
  ASSUME NEW r \in FMARegType, NEW x \in Unpacked, NEW y \in Unpacked
  PROVE  FMAFinish(r, x, y) \in AnswerType
<1> DEFINE great == IF r.addendIsLarger THEN r.addend ELSE r.product
           less  == IF r.addendIsLarger THEN r.product ELSE r.addend
           expDiff  == Low(great.exponent - less.exponent, ExpBits+1)
           shifted  == IF expDiff < MulBits - 1 THEN less.fraction \div 2^expDiff ELSE 0
           lost     == Low(less.fraction, Min2(expDiff, MulBits)) # 0
           product  == x.fraction * y.fraction
           prodLost == product >= 2^(MulBits-1) /\ product % 2 = 1
           isAddition == great.sign = less.sign
           other    == IF isAddition THEN shifted ELSE Negated(shifted, MulBits)
           sum      == Low(great.fraction + other, MulBits)
           overflow == isAddition /\ sum >= 2^(MulBits-1)
           frac     == IF overflow THEN sum ELSE 2 * Low(sum, MulBits-1)
           exp      == great.exponent + IF overflow THEN 1 ELSE 0
           norm     == Low(frac * 2^LeadingZeros(frac, MulBits), MulBits)
           out      == [sign     |-> great.sign,
                        exponent |-> Signed(exp - NormShift(frac, MulBits), ExpBits),
                        fraction |-> norm \div 2^HiddenBits,
                        isZero   |-> ~r.isNaR /\ r.isZero,
                        isNaR    |-> r.isNaR]
           trailing == Low(norm \div 2^(HiddenBits-TrailingBits), TrailingBits)
           sticky   == prodLost \/ lost \/ Low(norm, HiddenBits-TrailingBits) # 0
<1>1. /\ r.product \in Part /\ r.addend \in Part
      /\ r.addendIsLarger \in BOOLEAN /\ r.isNaR \in BOOLEAN /\ r.isZero \in BOOLEAN
  BY DEF FMARegType
<1>2. FMAFinish(r, x, y) = Answer(out, trailing, sticky)
  BY DEF FMAFinish
<1>3. /\ great.sign \in BOOLEAN /\ great.exponent \in Int /\ great.fraction \in Nat
      /\ less.sign \in BOOLEAN /\ less.exponent \in Int /\ less.fraction \in Nat
  <2>1. great \in Part /\ less \in Part
    BY <1>1
  <2> HIDE DEF great, less
  <2> QED
    BY <2>1 DEF Part
<1> HIDE DEF great, less
<1>4. expDiff \in Nat
  <2>1. great.exponent - less.exponent \in Int /\ ExpBits + 1 \in Nat
    BY <1>3, CoreWidths
  <2> QED
    BY <2>1, LowIsNat
<1> HIDE DEF expDiff
<1>5. shifted \in Nat
  <2>1. less.fraction \div 2^expDiff \in Nat
    BY <1>3, <1>4, PowerIsNat
  <2> QED
    BY <2>1
<1> HIDE DEF shifted
<1>6. Negated(shifted, MulBits) \in Nat
  <2>1. shifted \in Int /\ MulBits \in Nat
    BY <1>5, CoreWidths
  <2> QED
    BY <2>1, NegatedRange
<1>7. great.fraction + other \in Int
  BY <1>3, <1>5, <1>6
<1> HIDE DEF other, isAddition
<1>8. sum \in 0..(2^MulBits - 1) /\ sum \in Nat
  <2>1. MulBits \in Nat
    BY CoreWidths
  <2> HIDE DEF sum
  <2>2. sum \in 0..(2^MulBits - 1)
    BY <1>7, <2>1, LowRange DEF sum
  <2> QED
    BY <2>2
<1> HIDE DEF sum
<1>9. frac \in 0..(2^MulBits - 1)
  <2>1. sum \in Int /\ MulBits - 1 \in Nat /\ MulBits = (MulBits - 1) + 1
    BY <1>8, CoreWidths
  <2>2. Low(sum, MulBits-1) \in 0..(2^(MulBits-1) - 1)
    BY <2>1, LowRange
  <2>3. 2^MulBits = 2 * 2^(MulBits-1) /\ 2^(MulBits-1) \in Nat
    BY <2>1, PowerNext, PowerPositive
  <2> DEFINE m == 2^(MulBits-1)  l == Low(sum, MulBits-1)
  <2>4. m \in Nat /\ l \in 0..(m - 1) /\ 2^MulBits = 2 * m
    BY <2>2, <2>3
  <2> HIDE DEF m, l
  <2>5. 2 * l \in 0..(2 * m - 1)
    BY <2>4
  <2>6. 2 * l \in 0..(2^MulBits - 1)
    BY <2>4, <2>5
  <2> HIDE DEF overflow
  <2> QED
    BY <1>8, <2>6 DEF l
<1>10. exp \in Int
  BY <1>3
<1> HIDE DEF frac, exp
<1>11. norm \in Nat /\ NormShift(frac, MulBits) \in Int
  <2>1. MulBits \in Nat /\ MulBits > 0
    BY CoreWidths
  <2> QED
    BY <1>9, <2>1, NormalisedIsNat, NormShiftIsInt
<1> HIDE DEF norm
<1>12. Signed(exp - NormShift(frac, MulBits), ExpBits) \in Int
  BY <1>10, <1>11, CoreWidths, SignedIsInt
<1>13. norm \div 2^HiddenBits \in Nat /\ norm \div 2^(HiddenBits-TrailingBits) \in Int
  BY <1>11, Widths, CoreWidths, PowerIsNat
<1>14. trailing \in Nat
  BY <1>13, CoreWidths, LowIsNat
<1>15. out \in Unpacked
  BY <1>1, <1>3, <1>12, <1>13 DEF Unpacked
<1>16. sticky \in BOOLEAN
  OBVIOUS
<1> HIDE DEF out, trailing, sticky
<1> QED
  BY <1>2, <1>14, <1>15, <1>16 DEF Answer, AnswerType

\* The registers of the iterative core that its outputs are made of.
DivRegTypes ==
  /\ signOut \in BOOLEAN /\ isZeroOut \in BOOLEAN /\ isNaROut \in BOOLEAN
  /\ sqrtOpStored \in BOOLEAN
  /\ divSqrtExp \in Int
  /\ divSqrtFrac \in 0..(2^DivBits - 1) /\ remHi \in 0..(2^DivBits - 1)
  /\ remLo \in 0..(2^(HiddenBits+1) - 1) /\ divisor \in 0..(2^HiddenBits - 1)
  /\ execOut \in {0, 8}

LEMMA DivSqrtOutType == DivRegTypes => DivSqrtOut \in AnswerType
<1> SUFFICES ASSUME DivRegTypes PROVE DivSqrtOut \in AnswerType
  OBVIOUS
<1> DEFINE normReq == divSqrtFrac < 2^(DivBits-1)
           frac    == IF normReq THEN 2 * divSqrtFrac ELSE divSqrtFrac
           exp     == divSqrtExp - (IF normReq THEN 1 ELSE 0)
           out == [sign     |-> signOut,
                   exponent |-> Signed(exp, ExpBits),
                   fraction |-> frac \div 2^(DivBits-HiddenBits),
                   isZero   |-> isZeroOut,
                   isNaR    |-> isNaROut]
           trailing == Low(frac \div 2^TrailingBits, TrailingBits)
           sticky   == Low(frac, TrailingBits) # 0 \/ remHi # 0
<1>1. DivSqrtOut = [out |-> out, trailing |-> trailing, sticky |-> sticky]
  BY DEF DivSqrtOut
<1>2. /\ divSqrtFrac \in Nat /\ divSqrtExp \in Int
      /\ signOut \in BOOLEAN /\ isZeroOut \in BOOLEAN /\ isNaROut \in BOOLEAN
  <2>1. divSqrtFrac \in 0..(2^DivBits - 1)
    BY DEF DivRegTypes
  <2>2. divSqrtFrac \in Nat
    <3> DEFINE m == 2^DivBits - 1
    <3> HIDE DEF m
    <3>1. divSqrtFrac \in 0..m
      BY <2>1 DEF m
    <3> QED
      BY <3>1
  <2> QED
    BY <2>2 DEF DivRegTypes
<1>3. frac \in Nat /\ exp \in Int
  <2> HIDE DEF normReq
  <2> QED
    BY <1>2
<1> HIDE DEF frac, exp
<1>4. DivBits - HiddenBits \in Nat /\ TrailingBits \in Nat /\ ExpBits \in Nat
  BY CoreWidths, Widths DEF DivBits, TrailingBits
<1>5. frac \div 2^(DivBits-HiddenBits) \in Nat /\ frac \div 2^TrailingBits \in Int
  BY <1>3, <1>4, PowerIsNat
<1>6. Signed(exp, ExpBits) \in Int /\ trailing \in Nat
  BY <1>3, <1>4, <1>5, SignedIsInt, LowIsNat
<1>7. out \in Unpacked
  BY <1>2, <1>5, <1>6 DEF Unpacked
<1>8. sticky \in BOOLEAN
  OBVIOUS
<1> HIDE DEF out, trailing, sticky
<1> QED
  BY <1>1, <1>6, <1>7, <1>8 DEF AnswerType

-----------------------------------------------------------------------------
(* The registers of the datapath, and what it puts out.                    *)

\* Inductive beside DigitsInv, which has the counter, the first two operands
\* and the bits that start a core.
RegisterTypes ==
  /\ issued \in 0..2 /\ resultValid \in BOOLEAN
  /\ exec.num3 \in Posits
  /\ DivRegTypes
  /\ addReg \in AddRegType /\ fmaReg \in FMARegType
  /\ result.answer \in AnswerType

LEMMA RegisterTypesInit ==
  ASSUME Init PROVE RegisterTypes
<1>1. NoOperand \in OperandType /\ NoOperand \in Unpacked
  BY OperandTypes DEF OperandType
<1>2. addReg \in AddRegType
  BY <1>1, AddAlignType DEF Init
<1>3. fmaReg \in FMARegType
  BY <1>1, FMAProductType DEF Init
<1>4. result.answer \in AnswerType
  <2>1. result.answer = Answer(NoOperand, 0, FALSE)
    BY DEF Init
  <2> QED
    BY <1>1, <2>1 DEF Answer, AnswerType
<1>5. exec.num3 \in Posits /\ issued \in 0..2 /\ resultValid \in BOOLEAN
  <2>1. exec.num3 \in Posits
    BY ZeroIsPosit DEF Init, Op
  <2>2. issued = 0 /\ resultValid = FALSE
    BY DEF Init
  <2>3. issued \in 0..2
    BY <2>2
  <2>4. resultValid \in BOOLEAN
    BY <2>2
  <2> QED
    BY <2>1, <2>3, <2>4
<1>6. /\ 2^DivBits - 1 \in Nat /\ 2^(HiddenBits+1) - 1 \in Nat /\ 2^HiddenBits - 1 \in Nat
  <2>1. DivBits \in Nat /\ HiddenBits \in Nat /\ HiddenBits + 1 \in Nat
    BY Widths
  <2>2. /\ 2^DivBits \in Nat /\ 2^DivBits > 0
        /\ 2^(HiddenBits+1) \in Nat /\ 2^(HiddenBits+1) > 0
        /\ 2^HiddenBits \in Nat /\ 2^HiddenBits > 0
    BY <2>1, PowerPositive
  <2> DEFINE k == 2^DivBits  l == 2^(HiddenBits+1)  m == 2^HiddenBits
  <2>3. k \in Nat /\ k > 0 /\ l \in Nat /\ l > 0 /\ m \in Nat /\ m > 0
    BY <2>2
  <2> HIDE DEF k, l, m
  <2>4. k - 1 \in Nat /\ l - 1 \in Nat /\ m - 1 \in Nat
    BY <2>3
  <2> QED
    BY <2>4 DEF k, l, m
<1>7. DivRegTypes
  <2> DEFINE k == 2^DivBits - 1  l == 2^(HiddenBits+1) - 1  m == 2^HiddenBits - 1
  <2>1. /\ divSqrtFrac = 0 /\ remHi = 0 /\ remLo = 0 /\ divisor = 0
        /\ divSqrtExp = 0 /\ execOut = 0
        /\ sqrtOpStored \in BOOLEAN /\ isNaROut \in BOOLEAN
        /\ isZeroOut \in BOOLEAN /\ signOut \in BOOLEAN
    BY PowerUpAssumption DEF Init, DivInit
  <2>2. k \in Nat /\ l \in Nat /\ m \in Nat
    BY <1>6
  <2> HIDE DEF k, l, m
  <2>3. divSqrtFrac \in 0..k /\ remHi \in 0..k /\ remLo \in 0..l /\ divisor \in 0..m
    BY <2>1, <2>2
  <2> QED
    BY <2>1, <2>3 DEF DivRegTypes, k, l, m
<1> QED
  BY <1>2, <1>3, <1>4, <1>5, <1>7 DEF RegisterTypes

\* What the cores see of an operation.
LEMMA OperandsUnpack ==
  ASSUME OperandsArePosits
  PROVE  /\ num1 \in OperandType /\ num2 \in OperandType
         /\ num1 \in Unpacked /\ num2 \in Unpacked
         /\ exec.num3 \in Posits => num3 \in OperandType /\ num3 \in Unpacked
BY OperandTypes DEF OperandsArePosits, num1, num2, num3, OperandType

LEMMA DivRegTypesStep ==
  ASSUME OperandsArePosits, DivRegTypes, Registers
  PROVE  DivRegTypes'
<1> DEFINE start    == readyIn /\ Starts("sqrtdiv")
           isNaR    == AnswerIsNaR(subMode, num1, num2)
           special  == isNaR \/ num1.isZero
           normally == start /\ ~special
           rem      == Rem(subMode, num1)
           testDiv  == TestDiv(subMode, num2)
           nextBit  == NextBit(rem, testDiv)
           lo       == IF readyIn THEN IF subMode THEN 4 * Radicand(subMode, num1) ELSE 0
                       ELSE IF sqrtOpStored THEN 4 * remLo ELSE 0
           exp      == IF subMode THEN num1.exponent \div 2
                       ELSE Signed(num1.exponent - num2.exponent, ExpBits)
<1>1. num1 \in Unpacked /\ num2 \in Unpacked
  BY OperandsUnpack
<1>2. /\ num1.fraction \in Nat /\ num2.fraction \in Nat
      /\ num1.exponent \in Int /\ num2.exponent \in Int
      /\ num1.sign \in BOOLEAN /\ num2.sign \in BOOLEAN
      /\ num1.isZero \in BOOLEAN /\ num1.isNaR \in BOOLEAN
      /\ num2.isZero \in BOOLEAN /\ num2.isNaR \in BOOLEAN
  BY <1>1 DEF Unpacked
<1>3. subMode \in BOOLEAN
  BY DEF subMode
<1>4. /\ IF start
         THEN /\ sqrtOpStored' = subMode
              /\ isNaROut' = isNaR
              /\ isZeroOut' = num1.isZero
              /\ execOut' = IF DividesByZero(subMode, num2) THEN 8 ELSE 0
         ELSE UNCHANGED <<sqrtOpStored, isNaROut, isZeroOut, execOut>>
      /\ IF normally
         THEN signOut' = (~subMode /\ num1.sign # num2.sign) /\ divSqrtExp' = exp
         ELSE UNCHANGED <<signOut, divSqrtExp>>
      /\ divisor' = IF normally /\ ~subMode THEN num2.fraction ELSE divisor
      /\ remLo' = Low(lo, HiddenBits+1)
      /\ remHi' = IF normally \/ cycleCount > 2
                  THEN Low(rem - nextBit * testDiv, DivBits) ELSE remHi
      /\ divSqrtFrac' = IF readyIn THEN IF normally THEN nextBit ELSE 0
                        ELSE Low(2 * divSqrtFrac + nextBit, DivBits)
  BY DEF Registers, DivClock
<1>5. divSqrtFrac \in Nat /\ remHi \in Nat /\ remLo \in Nat /\ divisor \in Nat
  <2> DEFINE k == 2^DivBits - 1  l == 2^(HiddenBits+1) - 1  m == 2^HiddenBits - 1
  <2>1. divSqrtFrac \in 0..k /\ remHi \in 0..k /\ remLo \in 0..l /\ divisor \in 0..m
    BY DEF DivRegTypes
  <2> HIDE DEF k, l, m
  <2> QED
    BY <2>1
<1>6. Radicand(subMode, num1) \in Nat
  <2>1. 2 * num1.fraction \in Nat
    BY <1>2
  <2> QED
    BY <1>2, <2>1 DEF Radicand
<1>7. rem \in Int
  <2>1. FracBits \in Nat /\ HiddenBits - 1 \in Nat
    BY Widths
  <2>2. Radicand(subMode, num1) \div 2^(HiddenBits-1) \in Int /\ remLo \div 2^FracBits \in Int
    BY <1>5, <1>6, <2>1, PowerIsNat
  <2>3. 4 * remHi + remLo \div 2^FracBits \in Int /\ 2 * remHi \in Int
    <3> DEFINE h == remLo \div 2^FracBits
    <3>1. h \in Int
      BY <2>2
    <3> HIDE DEF h
    <3>2. 4 * remHi + h \in Int /\ 2 * remHi \in Int
      BY <1>5, <3>1
    <3> QED
      BY <3>2 DEF h
  <2> QED
    BY <1>2, <2>2, <2>3 DEF Rem
<1>8. testDiv \in Int
  <2>1. 4 * divSqrtFrac + 1 \in Int
    BY <1>5
  <2> QED
    BY <1>2, <1>5, <2>1 DEF TestDiv
<1>9. nextBit \in 0..1
  BY DEF NextBit
<1> HIDE DEF rem, testDiv, nextBit
<1>10. remLo' \in 0..(2^(HiddenBits+1) - 1)
  <2>1. lo \in Int
    BY <1>5, <1>6
  <2> HIDE DEF lo
  <2>2. HiddenBits + 1 \in Nat
    BY Widths
  <2>3. Low(lo, HiddenBits+1) \in 0..(2^(HiddenBits+1) - 1)
    BY <2>1, <2>2, LowRange
  <2> QED
    BY <1>4, <2>3
<1>11. remHi' \in 0..(2^DivBits - 1)
  <2>1. rem - nextBit * testDiv \in Int
    <3>1. CASE nextBit = 0
      <4>1. nextBit * testDiv = 0
        BY <1>8, <3>1
      <4> QED
        BY <1>7, <4>1
    <3>2. CASE nextBit = 1
      <4>1. nextBit * testDiv = testDiv
        BY <1>8, <3>2
      <4> QED
        BY <1>7, <1>8, <4>1
    <3> QED
      BY <1>9, <3>1, <3>2
  <2>2. Low(rem - nextBit * testDiv, DivBits) \in 0..(2^DivBits - 1)
    BY <2>1, Widths, LowRange
  <2>3. remHi \in 0..(2^DivBits - 1)
    BY DEF DivRegTypes
  <2> QED
    BY <1>4, <2>2, <2>3
<1>12. divSqrtFrac' \in 0..(2^DivBits - 1)
  <2>1. 2 * divSqrtFrac + nextBit \in Int
    BY <1>5, <1>9
  <2>2. Low(2 * divSqrtFrac + nextBit, DivBits) \in 0..(2^DivBits - 1)
    BY <2>1, Widths, LowRange
  <2>3. nextBit \in 0..(2^DivBits - 1) /\ 0 \in 0..(2^DivBits - 1)
    <3> DEFINE m == 2^DivBits
    <3>1. m \in Nat /\ m >= 2
      <4>1. 2^FracBits \in Nat /\ 2^FracBits > 0 /\ 2 * 2^FracBits <= m /\ m \in Nat
        BY Widths, PowerPositive, FractionBelow
      <4> DEFINE f == 2^FracBits
      <4> HIDE DEF f, m
      <4> QED
        BY <4>1 DEF f
    <3> HIDE DEF m
    <3>2. nextBit \in 0..(m - 1) /\ 0 \in 0..(m - 1)
      BY <1>9, <3>1
    <3> QED
      BY <3>2 DEF m
  <2> QED
    BY <1>4, <2>2, <2>3
<1>13. divisor' \in 0..(2^HiddenBits - 1)
  <2>1. num2.fraction \in 2^FracBits .. (2 * 2^FracBits - 1)
    BY Fractions
  <2>2. 2^HiddenBits = 2 * 2^FracBits /\ 2^FracBits \in Nat
    BY Widths, PowerNext, PowerPositive
  <2> DEFINE f == 2^FracBits
  <2>3. f \in Nat /\ num2.fraction \in f .. (2 * f - 1) /\ 2^HiddenBits = 2 * f
    BY <2>1, <2>2
  <2> HIDE DEF f
  <2>4. num2.fraction \in 0..(2 * f - 1)
    BY <2>3
  <2>5. num2.fraction \in 0..(2^HiddenBits - 1)
    BY <2>3, <2>4
  <2>6. divisor \in 0..(2^HiddenBits - 1)
    BY DEF DivRegTypes
  <2> QED
    BY <1>4, <2>5, <2>6
<1>14. divSqrtExp' \in Int
  <2>1. num1.exponent - num2.exponent \in Int /\ num1.exponent \div 2 \in Int
    BY <1>2
  <2>2. exp \in Int
    BY <2>1, CoreWidths, SignedIsInt
  <2> HIDE DEF exp, normally
  <2>3. divSqrtExp \in Int
    BY DEF DivRegTypes
  <2> QED
    BY <1>4, <2>2, <2>3
<1>15. /\ sqrtOpStored' \in BOOLEAN /\ isNaROut' \in BOOLEAN /\ isZeroOut' \in BOOLEAN
       /\ execOut' \in {0, 8}
  <2>1. isNaR \in BOOLEAN
    BY <1>2, <1>3 DEF AnswerIsNaR, DividesByZero
  <2> HIDE DEF isNaR, start
  <2> QED
    BY <1>2, <1>3, <1>4, <2>1 DEF DivRegTypes
<1>16. signOut' \in BOOLEAN
  <2> HIDE DEF normally
  <2> QED
    BY <1>4 DEF DivRegTypes
<1> QED
  BY <1>10, <1>11, <1>12, <1>13, <1>14, <1>15, <1>16 DEF DivRegTypes

\* What the result register loads, whichever core it comes from.
LEMMA CoreAnswerType ==
  ASSUME OperandsArePosits, RegisterTypes
  PROVE  CoreAnswer \in AnswerType
<1>1. num1 \in Unpacked /\ num2 \in Unpacked
  BY OperandsUnpack
<1>2. addOut \in AnswerType
  BY <1>1, AddFinishType DEF addOut, RegisterTypes
<1>3. fmaOut \in AnswerType
  BY <1>1, FMAFinishType DEF fmaOut, RegisterTypes
<1>4. Multiply(num1, num2) \in AnswerType
  BY <1>1, MultiplyType
<1>5. DivSqrtOut \in AnswerType
  BY DivSqrtOutType DEF RegisterTypes
<1>6. Answer(NoOperand, 0, FALSE) \in AnswerType
  <2>1. NoOperand \in Unpacked
    BY OperandTypes DEF OperandType
  <2> QED
    BY <2>1 DEF Answer, AnswerType
<1> QED
  BY <1>2, <1>3, <1>4, <1>5, <1>6 DEF CoreAnswer

LEMMA RegisterTypesStep ==
  DigitsInv /\ RegisterTypes /\ [Next]_vars => RegisterTypes'
<1>1. ASSUME DigitsInv, RegisterTypes, Next PROVE RegisterTypes'
  <2>1. Registers /\ (Load \/ Hold) /\ OperandsArePosits
    BY <1>1 DEF Next, Clock, DigitsInv
  <2>2. /\ num1 \in OperandType /\ num2 \in OperandType
        /\ num1 \in Unpacked /\ num2 \in Unpacked /\ num3 \in Unpacked
    BY <1>1, <2>1, OperandsUnpack DEF RegisterTypes
  <2>3. subMode \in BOOLEAN /\ negateMode \in BOOLEAN
    BY DEF subMode, negateMode
  <2>4. addReg' \in AddRegType /\ fmaReg' \in FMARegType
    BY <2>1, <2>2, <2>3, AddAlignType, FMAProductType DEF Registers
  <2>5. result'.answer \in AnswerType
    <3>1. result' = [answer |-> CoreAnswer, flags |-> Compare(exec.num1, exec.num2)]
      BY <2>1 DEF Registers
    <3>2. result'.answer = CoreAnswer
      BY <3>1
    <3> QED
      BY <1>1, <2>1, <3>2, CoreAnswerType
  <2>6. DivRegTypes'
    BY <1>1, <2>1, DivRegTypesStep DEF RegisterTypes
  <2>7. resultValid' \in BOOLEAN
    BY <2>1 DEF Registers, newResultValid, Starts, validOut, DigitsInv, ControlInv, ControlTypes
  <2>8. issued' \in 0..2 /\ exec'.num3 \in Posits
    <3>1. CASE Load
      <4>1. exec' \in Waiting /\ issued' = issued + 1
        BY <3>1 DEF Load
      <4>2. issued \in {0, 1} /\ exec' \in FirstOps \cup NextOps
        BY <1>1, <4>1 DEF Waiting, RegisterTypes
      <4>3. exec' \in [inst : Insts, mode : 0..3, num1 : Posits, num2 : Posits, num3 : Posits]
        BY <4>2, OperationsAssumption
      <4>4. exec'.num3 \in Posits
        BY <4>3
      <4> QED
        BY <4>1, <4>2, <4>4
    <3>2. CASE Hold
      BY <1>1, <3>2 DEF Hold, RegisterTypes
    <3> QED
      BY <2>1, <3>1, <3>2
  <2> QED
    BY <2>4, <2>5, <2>6, <2>7, <2>8 DEF RegisterTypes, Posits, AddRegType, FMARegType,
       AnswerType, AddBound
<1>2. ASSUME RegisterTypes, UNCHANGED vars PROVE RegisterTypes'
  <2>1. DivRegTypes'
    BY <1>2 DEF vars, divVars, RegisterTypes, DivRegTypes
  <2> QED
    BY <1>2, <2>1 DEF vars, elementVars, RegisterTypes, Posits, AddRegType, FMARegType,
       AnswerType, AddBound
<1> QED
  BY <1>1, <1>2

LEMMA RegistersFit == Spec => []RegisterTypes
<1>1. Init => RegisterTypes
  BY RegisterTypesInit
<1> QED
  BY <1>1, DigitsInvariant, RegisterTypesStep, PTL DEF Spec

\* Whatever the operations, in every format: the count and the registers of
\* the iterative core keep to their ranges, and what the generator makes of
\* any answer of any core, normalised or not, is a posit: rounding up never
\* carries into the sign (PositDivSqrt.scala, PositGenerator.scala).
THEOREM DatapathTypeCorrect == Spec => []DatapathTypeOK
<1>1. ASSUME RegisterTypes PROVE Output \in Posits
  <2>1. result.answer \in AnswerType
    BY <1>1 DEF RegisterTypes
  <2>2. /\ result.answer.out \in Unpacked /\ result.answer.trailing \in Nat
        /\ result.answer.sticky \in BOOLEAN
    BY <2>1 DEF AnswerType
  <2> QED
    BY <2>2, GenerateType DEF Output
<1>2. DigitsInv /\ RegisterTypes => DatapathTypeOK
  BY <1>1 DEF DigitsInv, ControlInv, ControlTypes, RegisterTypes, DivRegTypes, DatapathTypeOK
<1> QED
  BY <1>2, DigitsInvariant, RegistersFit, PTL

-----------------------------------------------------------------------------
(* Products: the answer of PositMulCore has the digits of the exact product, *)
(* and the generator rounds those.                                         *)

\* A product keeps its digits, and its exponent.
LEMMA ProductDigits ==
  ASSUME NEW p \in Posits \ {0, NaR}, NEW q \in Posits \ {0, NaR}
  PROVE  LET x == Extract(p)
             y == Extract(q)
             a == Multiply(x, y)
             den == 2^FracBits * 2^FracBits
             num == x.fraction * y.fraction
             carry == num >= 2 * den
         IN  /\ DigitsOf(a.out, a.trailing, a.sticky, num, IF carry THEN 2 * den ELSE den)
             /\ a.out.exponent = x.exponent + y.exponent + IF carry THEN 1 ELSE 0
             /\ a.out.sign = (x.sign # y.sign)
             /\ num \in Nat /\ den \in Nat /\ den > 0 /\ num >= den
<1> DEFINE x == Extract(p)  y == Extract(q)  M == 2^FracBits
           den == M * M  num == x.fraction * y.fraction  carry == num >= 2 * den
           norm == IF carry THEN num ELSE 2 * num
           exp == x.exponent + y.exponent + IF carry THEN 1 ELSE 0
           fraction == norm \div 2^HiddenBits
           out == [sign     |-> x.sign # y.sign,
                   exponent |-> Signed(exp, ExpBits),
                   fraction |-> fraction,
                   isZero   |-> x.isZero \/ y.isZero,
                   isNaR    |-> x.isNaR \/ y.isNaR]
           trailing == Low(norm \div 2^(HiddenBits-TrailingBits), TrailingBits)
           sticky   == Low(norm, HiddenBits-TrailingBits) # 0
<1>1. PICK K \in Nat \ {0} :
        /\ M = 2 * K /\ 2^(HiddenBits-TrailingBits) = K
        /\ 2^HiddenBits = 4 * K /\ 2^(MulBits-1) = 8 * (K * K) /\ 2^TrailingBits = 4
  BY ProductWidths
<1>2. /\ x \in Unpacked /\ y \in Unpacked
      /\ ~x.isZero /\ ~x.isNaR /\ ~y.isZero /\ ~y.isNaR
      /\ x.fraction \in M..(2 * M - 1) /\ y.fraction \in M..(2 * M - 1)
      /\ x.sign \in BOOLEAN /\ y.sign \in BOOLEAN
  BY NumberUnpacks
<1> HIDE DEF x, y, M
<1>3. /\ M \in Nat /\ M > 0 /\ den \in Nat /\ den > 0 /\ num \in Nat
      /\ den <= num /\ num < 4 * den /\ 2 * den = 8 * (K * K)
  <2> DEFINE f == x.fraction  g == y.fraction
  <2>1. f \in Nat /\ g \in Nat /\ M <= f /\ f < 2 * M /\ M <= g /\ g < 2 * M /\ M \in Nat /\ M > 0
    BY <1>1, <1>2
  <2> HIDE DEF f, g
  <2>2. M * M <= f * M /\ f * M <= f * g /\ f * g \in Nat /\ M * M \in Nat /\ M * M > 0
    BY <2>1
  <2>3. f * g < (2 * M) * g /\ (2 * M) * g < (2 * M) * (2 * M) /\ (2 * M) * (2 * M) = 4 * (M * M)
    BY <2>1
  <2>4. f * g < 4 * (M * M)
    <3>1. (2 * M) * g \in Nat
      BY <2>1
    <3> QED
      BY <2>1, <2>2, <2>3, <3>1
  <2>5. 2 * (M * M) = 8 * (K * K)
    BY <1>1
  <2>6. num = f * g
    BY DEF f, g
  <2>7. f * M \in Nat
    BY <2>1
  <2> HIDE DEF num
  <2> QED
    BY <2>1, <2>2, <2>4, <2>5, <2>6, <2>7
<1>4. Multiply(x, y) = Answer(out, trailing, sticky)
  <2>1. 2 * den = 2^(MulBits-1)
    BY <1>1, <1>3
  <2> DEFINE over == x.fraction * y.fraction >= 2^(MulBits-1)
  <2>2. carry = over
    BY <2>1
  <2> HIDE DEF den
  <2>3. Multiply(x, y) =
          LET product  == x.fraction * y.fraction
              overflow == product >= 2 * den
              n        == IF overflow THEN product ELSE 2 * product
              e        == x.exponent + y.exponent + IF overflow THEN 1 ELSE 0
              o        == [sign     |-> x.sign # y.sign,
                           exponent |-> Signed(e, ExpBits),
                           fraction |-> n \div 2^HiddenBits,
                           isZero   |-> x.isZero \/ y.isZero,
                           isNaR    |-> x.isNaR \/ y.isNaR]
          IN  Answer(o, Low(n \div 2^(HiddenBits-TrailingBits), TrailingBits),
                     Low(n, HiddenBits-TrailingBits) # 0)
    BY <2>1, Zenon DEF Multiply
  <2> QED
    BY <2>3
<1> HIDE DEF num, den, carry
<1>5. norm \in Nat /\ 2 * den <= norm /\ norm < 4 * den /\ carry \in BOOLEAN
  BY <1>3 DEF carry
<1>6. /\ norm = (4 * fraction + trailing) * K + (norm % K)
      /\ fraction \in Nat /\ trailing \in 0..3 /\ norm % K \in 0..(K-1)
      /\ sticky = (norm % K # 0)
  <2> HIDE DEF norm
  <2>1. fraction = norm \div (4 * K) /\ trailing = (norm \div K) % 4
    BY <1>1 DEF Low
  <2>2. sticky = (norm % K # 0)
    <3>1. Low(norm, HiddenBits-TrailingBits) = norm % K
      BY <1>1 DEF Low
    <3> QED
      BY <3>1
  <2>3. /\ norm = (4 * (norm \div (4 * K)) + ((norm \div K) % 4)) * K + (norm % K)
        /\ norm \div (4 * K) \in Nat /\ (norm \div K) % 4 \in 0..3 /\ norm % K \in 0..(K-1)
    <3>1. K \in Nat /\ K > 0 /\ norm \in Nat
      BY <1>1, <1>5
    <3> QED
      BY <3>1, ThreeFields, Zenon
  <2> HIDE DEF fraction, trailing, sticky
  <2> QED
    BY <2>1, <2>2, <2>3
<1> DEFINE rest0 == norm % K
<1> HIDE DEF norm, fraction, trailing, sticky, rest0
<1>7. fraction \in M..(2 * M - 1)
  <2> DEFINE T == 4 * fraction + trailing
  <2>1. norm = T * K + rest0 /\ rest0 \in 0..(K-1) /\ T \in Nat
    BY <1>6 DEF rest0
  <2>2. 2 * den = (8 * K) * K /\ 4 * den = (16 * K) * K
    BY <1>1, <1>3
  <2>3. T >= 8 * K
    <3> SUFFICES ASSUME T + 1 <= 8 * K PROVE FALSE
      BY <1>1, <2>1
    <3> HIDE DEF T
    <3>1. (T + 1) * K <= (8 * K) * K /\ (T + 1) * K = T * K + K /\ T * K \in Nat
      BY <1>1, <2>1
    <3> QED
      BY <1>1, <1>5, <2>1, <2>2, <3>1
  <2>4. T < 16 * K
    <3> SUFFICES ASSUME 16 * K <= T PROVE FALSE
      BY <1>1, <2>1
    <3> HIDE DEF T
    <3>1. (16 * K) * K <= T * K /\ T * K \in Nat
      BY <1>1, <2>1
    <3> QED
      BY <1>1, <1>5, <2>1, <2>2, <3>1
  <2> QED
    BY <1>1, <1>6, <2>3, <2>4
<1>8. /\ exp = x.exponent + y.exponent + (IF carry THEN 1 ELSE 0)
      /\ Signed(exp, ExpBits) = exp /\ exp \in Int
  <2> DEFINE c == IF carry THEN 1 ELSE 0
  <2>1. c \in -1..1
    BY <1>5
  <2>2. exp = x.exponent + y.exponent + c
    OBVIOUS
  <2> HIDE DEF c, exp
  <2>3. Signed(x.exponent + y.exponent + c, ExpBits) = x.exponent + y.exponent + c
        /\ x.exponent \in Int /\ y.exponent \in Int
    BY <2>1, ExponentFits DEF x, y
  <2> QED
    BY <2>1, <2>2, <2>3 DEF c
<1> HIDE DEF exp
<1> DEFINE d == IF carry THEN 2 * den ELSE den
<1>9. \E rest \in 0..(d-1) :
        /\ num * (4 * M) = (4 * fraction + trailing) * d + rest
        /\ sticky <=> rest # 0
  <2> DEFINE f == IF carry THEN 4 * M ELSE 2 * M  T == 4 * fraction + trailing
             rest == rest0 * f
  <2>1. f \in Nat /\ f > 0 /\ d = K * f /\ num * (4 * M) = norm * f
    <3>1. CASE carry
      <4>1. f = 4 * M /\ d = 2 * den /\ norm = num
        BY <3>1 DEF norm
      <4>2. 2 * (M * M) = K * (4 * M)
        BY <1>1, <1>3
      <4> QED
        BY <1>3, <4>1, <4>2 DEF den
    <3>2. CASE ~carry
      <4>1. f = 2 * M /\ d = den /\ norm = 2 * num
        BY <3>2 DEF norm
      <4>2. M * M = K * (2 * M) /\ num * (4 * M) = (2 * num) * (2 * M)
        BY <1>1, <1>3
      <4> QED
        BY <1>3, <4>1, <4>2 DEF den
    <3> QED
      BY <3>1, <3>2
  <2>2. norm = T * K + rest0 /\ rest0 \in 0..(K-1) /\ T \in Nat /\ sticky = (rest0 # 0)
    BY <1>6 DEF rest0
  <2> HIDE DEF f, T, d
  <2>3. norm * f = T * d + rest
    <3>1. (T * K + rest0) * f = T * (K * f) + rest0 * f
      BY <1>1, <2>1, <2>2
    <3> QED
      BY <2>1, <2>2, <3>1
  <2>4. rest \in 0..(d-1)
    <3>1. (rest0 + 1) * f <= K * f /\ (rest0 + 1) * f = rest0 * f + f /\ rest0 * f \in Nat
          /\ K * f \in Nat
      BY <1>1, <2>1, <2>2
    <3> QED
      BY <2>1, <3>1
  <2>5. rest # 0 <=> rest0 # 0
    BY <2>1, <2>2
  <2> HIDE DEF rest
  <2> QED
    BY <2>1, <2>2, <2>3, <2>4, <2>5 DEF T
<1>10. Normalized(out)
  <2>1. /\ out.isZero = (x.isZero \/ y.isZero) /\ out.isNaR = (x.isNaR \/ y.isNaR)
        /\ out.fraction = fraction
    OBVIOUS
  <2>2. out \in Unpacked
    <3>1. (x.isZero \/ y.isZero) \in BOOLEAN /\ (x.isNaR \/ y.isNaR) \in BOOLEAN
          /\ (x.sign # y.sign) \in BOOLEAN
      BY <1>2
    <3> QED
      BY <1>6, <1>8, <3>1 DEF Unpacked
  <2>3. ~out.isZero /\ ~out.isNaR
    BY <1>2, <2>1
  <2> HIDE DEF out
  <2> QED
    BY <1>7, <2>1, <2>2, <2>3 DEF Normalized, M
<1>11. /\ out.sign = (x.sign # y.sign) /\ out.fraction = fraction
       /\ out.exponent = Signed(exp, ExpBits)
  OBVIOUS
<1>12. sticky \in BOOLEAN
  BY DEF sticky
<1>13. d \in Nat \ {0}
  BY <1>3
<1> HIDE DEF out, d
<1>14. DigitsOf(out, trailing, sticky, num, d)
  BY <1>3, <1>6, <1>9, <1>10, <1>11, <1>12, <1>13 DEF DigitsOf, M
<1> DEFINE a == Multiply(x, y)
<1>15. a.out = out /\ a.trailing = trailing /\ a.sticky = sticky
  BY <1>4 DEF Answer
<1> HIDE DEF a
<1>16. /\ DigitsOf(a.out, a.trailing, a.sticky, num, d)
       /\ a.out.exponent = x.exponent + y.exponent + (IF carry THEN 1 ELSE 0)
       /\ a.out.sign = (x.sign # y.sign)
       /\ num \in Nat /\ den \in Nat /\ den > 0 /\ num >= den
  <2>1. a.out.exponent = x.exponent + y.exponent + (IF carry THEN 1 ELSE 0)
    BY <1>8, <1>11, <1>15
  <2>2. a.out.sign = (x.sign # y.sign)
    BY <1>11, <1>15, Zenon
  <2>3. DigitsOf(a.out, a.trailing, a.sticky, num, d)
    BY <1>14, <1>15
  <2> QED
    BY <1>3, <2>1, <2>2, <2>3
<1> QED
  BY <1>16, Zenon DEF a, d, carry, num, den, x, y, M

\* The product shown is NaR, zero, or the posit nearest to the exact product of
\* the two operands; the quotient shown in the same way.
ProductsAreNearest ==
  Shows("mul") =>
    LET p == resultOp.num1
        q == resultOp.num2
        x == Extract(p)
        y == Extract(q)
    IN  IF NaR \in {p, q} THEN Output = NaR
        ELSE IF 0 \in {p, q} THEN Output = 0
        ELSE RoundsNumber(Output, NBits, ES, x.sign # y.sign, x.exponent + y.exponent,
                          x.fraction * y.fraction, 2^FracBits * 2^FracBits)

QuotientsAreNearest ==
  Shows("sqrtdiv") /\ ~IsSqrt(resultOp) =>
    LET p == resultOp.num1
        q == resultOp.num2
        x == Extract(p)
        y == Extract(q)
    IN  IF NaR \in {p, q} \/ q = 0 THEN Output = NaR
        ELSE IF p = 0 THEN Output = 0
        ELSE RoundsNumber(Output, NBits, ES, x.sign # y.sign, x.exponent - y.exponent,
                          x.fraction, y.fraction)

\* The answer of PositMulCore, packed.
LEMMA ProductRounds ==
  ASSUME NEW p \in Posits, NEW q \in Posits
  PROVE  LET x == Extract(p)
             y == Extract(q)
             a == Multiply(x, y)
             g == Generate(a.out, a.trailing, a.sticky)
         IN  IF NaR \in {p, q} THEN g = NaR
             ELSE IF 0 \in {p, q} THEN g = 0
             ELSE RoundsNumber(g, NBits, ES, x.sign # y.sign, x.exponent + y.exponent,
                               x.fraction * y.fraction, 2^FracBits * 2^FracBits)
<1> DEFINE x == Extract(p)  y == Extract(q)  a == Multiply(x, y)
           g == Generate(a.out, a.trailing, a.sticky)
           den == 2^FracBits * 2^FracBits  num == x.fraction * y.fraction
           e == x.exponent + y.exponent
<1>1. a.out.isNaR = (x.isNaR \/ y.isNaR) /\ a.out.isZero = (x.isZero \/ y.isZero)
  BY DEF Multiply, Answer
<1>2. /\ x.isNaR = (p = NaR) /\ y.isNaR = (q = NaR)
      /\ x.isZero = (p = 0) /\ y.isZero = (q = 0)
  BY DEF Extract
<1>3. CASE NaR \in {p, q}
  <2>1. a.out.isNaR
    BY <1>1, <1>2, <1>3
  <2> HIDE DEF a
  <2>2. g = NaR
    BY <2>1 DEF Generate
  <2> HIDE DEF g
  <2> QED
    BY <1>3, <2>2 DEF g, a
<1>4. CASE NaR \notin {p, q} /\ 0 \in {p, q}
  <2>1. ~a.out.isNaR /\ a.out.isZero
    BY <1>1, <1>2, <1>4
  <2> HIDE DEF a
  <2>2. g = 0
    BY <2>1 DEF Generate
  <2> HIDE DEF g
  <2> QED
    BY <1>4, <2>2 DEF g, a
<1>5. CASE NaR \notin {p, q} /\ 0 \notin {p, q}
  <2> DEFINE carry == num >= 2 * den  d == IF carry THEN 2 * den ELSE den
             E == e + IF carry THEN 1 ELSE 0  sign == x.sign # y.sign
             n == IF sign THEN Opposite(g, NBits) ELSE g
  <2>1. p \in Posits \ {0, NaR} /\ q \in Posits \ {0, NaR}
    BY <1>5
  <2>2. /\ DigitsOf(a.out, a.trailing, a.sticky, num, d)
        /\ a.out.exponent = E /\ a.out.sign = sign
        /\ num \in Nat /\ den \in Nat /\ den > 0 /\ num >= den
    BY <2>1, ProductDigits
  <2>3. x.exponent \in Int /\ y.exponent \in Int
    <3>1. 0 \in -1..1
      OBVIOUS
    <3> QED
      BY <2>1, <3>1, ExponentFits
  <2>4. e \in Int /\ E \in Int /\ sign \in BOOLEAN
    <3> HIDE DEF carry
    <3> QED
      BY <2>3
  <2> HIDE DEF a, d, E, num, den, e, sign
  <2>5. RoundsRatio(n, NBits, ES, E, num, d)
    BY <2>2, <2>4, AnswerRounds
  <2> HIDE DEF g
  <2>6. RoundsNumber(g, NBits, ES, sign, e, num, den)
    <3>1. CASE carry
      <4>1. E = e + 1 /\ d = 2 * den /\ num >= 2 * den
        BY <3>1 DEF E, d
      <4> QED
        BY <2>5, <4>1 DEF RoundsNumber
    <3>2. CASE ~carry
      <4>1. E = e /\ d = den /\ ~(num >= 2 * den)
        BY <2>4, <3>2 DEF E, d
      <4> QED
        BY <2>2, <2>5, <4>1 DEF RoundsNumber
    <3> QED
      BY <3>1, <3>2
  <2> QED
    BY <1>5, <2>6 DEF g, a, sign, e, num, den
<1> QED
  BY <1>3, <1>4, <1>5

-----------------------------------------------------------------------------
(* What the result register shows of a product.                            *)

\* A product in the result register is the one of the operation shown with it.
ProductShown ==
  Shows("mul") =>
    /\ resultOp.num1 \in Posits /\ resultOp.num2 \in Posits
    /\ result.answer = Multiply(Extract(resultOp.num1), Extract(resultOp.num2))

LEMMA ProductShownStep == DigitsInv /\ ProductShown /\ [Next]_vars => ProductShown'
<1>1. ASSUME DigitsInv, Next PROVE ProductShown'
  <2>1. SUFFICES ASSUME Shows("mul")'
                 PROVE  (/\ resultOp.num1 \in Posits /\ resultOp.num2 \in Posits
                         /\ result.answer = Multiply(Extract(resultOp.num1), Extract(resultOp.num2)))'
    BY <2>1 DEF ProductShown
  <2>2. /\ resultOp' = exec
        /\ result' = [answer |-> CoreAnswer, flags |-> Compare(exec.num1, exec.num2)]
    BY <1>1 DEF Next, Clock, Registers
  <2>3. exec.inst = "mul" /\ exec.num1 \in Posits /\ exec.num2 \in Posits
    BY <1>1, <2>1, <2>2 DEF Shows, DigitsInv, OperandsArePosits
  <2>4. CoreAnswer = Multiply(num1, num2)
    BY <2>3 DEF CoreAnswer
  <2>5. result'.answer = CoreAnswer
    BY <2>2
  <2> QED
    BY <2>2, <2>3, <2>4, <2>5 DEF num1, num2, Posits
<1>2. ASSUME ProductShown, UNCHANGED vars PROVE ProductShown'
  BY <1>2 DEF vars, elementVars, ProductShown, Shows, Posits
<1> QED
  BY <1>1, <1>2

LEMMA ProductsShown == Spec => []ProductShown
<1>1. Init => ProductShown
  BY DEF Init, ProductShown, Shows
<1> QED
  BY <1>1, DigitsInvariant, ProductShownStep, PTL DEF Spec

\* A product of two nonzero numbers is rounded to the nearest posit, ties to
\* the even pattern, and the other products are 0 and NaR (PositMul.scala
\* L19-49, PositGenerator.scala L24-57): in every format, for all operands and
\* whatever operations surround it.
THEOREM ProductsAreRounded == Spec => []ProductsAreNearest
<1>1. ProductShown => ProductsAreNearest
  <2>1. SUFFICES ASSUME ProductShown, Shows("mul") PROVE ProductsAreNearest
    BY <2>1 DEF ProductsAreNearest
  <2>2. /\ resultOp.num1 \in Posits /\ resultOp.num2 \in Posits
        /\ result.answer = Multiply(Extract(resultOp.num1), Extract(resultOp.num2))
    BY <2>1 DEF ProductShown
  <2> DEFINE p == resultOp.num1  q == resultOp.num2  x == Extract(p)  y == Extract(q)
             a == Multiply(x, y)  g == Generate(a.out, a.trailing, a.sticky)
  <2>3. IF NaR \in {p, q} THEN g = NaR
        ELSE IF 0 \in {p, q} THEN g = 0
        ELSE RoundsNumber(g, NBits, ES, x.sign # y.sign, x.exponent + y.exponent,
                          x.fraction * y.fraction, 2^FracBits * 2^FracBits)
    <3>1. p \in Posits /\ q \in Posits
      BY <2>2
    <3> HIDE DEF p, q
    <3> QED
      BY <3>1, ProductRounds, Zenon
  <2>4. Output = g
    <3>1. result.answer = a
      BY <2>2
    <3> HIDE DEF a
    <3> QED
      BY <3>1 DEF Output
  <2> HIDE DEF g
  <2> QED
    BY <2>3, <2>4, Zenon DEF ProductsAreNearest
<1> QED
  BY <1>1, ProductsShown, PTL

-----------------------------------------------------------------------------
(* Quotients: the iterative core keeps the sign, the exponent and the flags *)
(* of the division it has under way, and what it answers are the leading    *)
(* digits of the quotient.                                                  *)

\* The normalised digits of a quotient of two fractions, and its exponent.
LEMMA QuotientPlace ==
  ASSUME NEW M \in Nat, M > 0, NEW a \in M..(2*M-1), NEW b \in M..(2*M-1),
         NEW q \in Nat, NEW r \in Nat, Divided(a * (16 * M), b, q, r)
  PROVE  LET less == q < 16 * M
             frac == IF less THEN 2 * q ELSE q
         IN  (less <=> a < b) /\ 16 * M <= frac /\ frac < 32 * M
<1> DEFINE S == 16 * M
<1>1. /\ a * S = q * b + r /\ r < b /\ S \in Nat /\ S > 0 /\ a \in Nat /\ b \in Nat
      /\ M <= a /\ a < 2 * M /\ M <= b /\ b < 2 * M /\ q * b \in Nat /\ S = 16 * M
  BY DEF Divided
<1>2. b * S \in Nat /\ a * S \in Nat
  BY <1>1
<1>3. CASE a >= b
  <2>1. b * S <= a * S
    BY <1>1, <1>3
  <2>2. q >= S
    <3> SUFFICES ASSUME q + 1 <= S PROVE FALSE
      BY <1>1
    <3> HIDE DEF S
    <3>1. (q + 1) * b <= S * b /\ (q + 1) * b = q * b + b /\ S * b = b * S
      BY <1>1
    <3> QED
      BY <1>1, <1>2, <2>1, <3>1
  <2>3. q < 2 * S
    <3> SUFFICES ASSUME 2 * S <= q PROVE FALSE
      BY <1>1
    <3> HIDE DEF S
    <3>1. (2 * S) * b <= q * b /\ (2 * S) * b = 2 * (b * S)
      BY <1>1
    <3>2. a * S < 2 * (b * S)
      <4>1. a < 2 * b
        BY <1>1
      <4>2. a * S < (2 * b) * S /\ (2 * b) * S = 2 * (b * S)
        BY <1>1, <4>1
      <4> QED
        BY <4>2
    <3> QED
      BY <1>1, <1>2, <3>1, <3>2
  <2> QED
    BY <1>1, <1>3, <2>2, <2>3
<1>4. CASE a < b
  <2>1. a * S < b * S
    BY <1>1, <1>4
  <2>2. q < S
    <3> SUFFICES ASSUME S <= q PROVE FALSE
      BY <1>1
    <3> HIDE DEF S
    <3>1. S * b <= q * b /\ S * b = b * S
      BY <1>1
    <3> QED
      BY <1>1, <1>2, <2>1, <3>1
  <2>3. S <= 2 * q
    <3> SUFFICES ASSUME 2 * q + 1 <= S PROVE FALSE
      BY <1>1
    <3>1. b + 1 <= 2 * a
      BY <1>1
    <3> HIDE DEF S
    <3>2. (b + 1) * S <= (2 * a) * S /\ (b + 1) * S = b * S + S /\ (2 * a) * S = 2 * (a * S)
      BY <1>1, <3>1
    <3>3. (2 * q + 1) * b <= S * b /\ (2 * q + 1) * b = 2 * (q * b) + b /\ S * b = b * S
      BY <1>1
    <3>4. 2 * r < S + b
      BY <1>1
    <3> QED
      BY <1>1, <1>2, <3>2, <3>3, <3>4
  <2> QED
    BY <1>1, <1>4, <2>2, <2>3
<1> QED
  BY <1>1, <1>3, <1>4

\* Its fields for the generator.
LEMMA QuotientFields ==
  ASSUME NEW M \in Nat, M > 0, NEW a \in M..(2*M-1), NEW b \in M..(2*M-1),
         NEW q \in Nat, NEW r \in Nat, Divided(a * (16 * M), b, q, r),
         NEW rem \in Nat, LeftOver(q, r, rem)
  PROVE  LET less == q < 16 * M
             frac == IF less THEN 2 * q ELSE q
             num  == IF less THEN 2 * a ELSE a
             f    == frac \div 16
             t    == (frac \div 4) % 4
         IN  /\ less <=> a < b
             /\ f \in M..(2*M-1) /\ t \in 0..3
             /\ \E rest \in 0..(b-1) :
                  /\ num * (4 * M) = (4 * f + t) * b + rest
                  /\ frac % 4 # 0 \/ rem # 0 <=> rest # 0
<1> DEFINE less == q < 16 * M
           frac == IF less THEN 2 * q ELSE q
           num  == IF less THEN 2 * a ELSE a
           over == IF less THEN 2 * r ELSE r
           f    == frac \div 16
           t    == (frac \div 4) % 4
           l    == frac % 4
           T    == 4 * f + t
           rest == num * (4 * M) - T * b
<1>1. (less <=> a < b) /\ 16 * M <= frac /\ frac < 32 * M
  BY QuotientPlace
<1>2. /\ a * (16 * M) = q * b + r /\ r < b /\ a \in Nat /\ b \in Nat /\ b > 0
  BY DEF Divided
<1>3. /\ frac \in Nat /\ num \in Nat /\ over \in Nat
      /\ num * (16 * M) = frac * b + over
  <2>1. (2 * a) * (16 * M) = 2 * (a * (16 * M)) /\ (2 * q) * b = 2 * (q * b)
        /\ a * (16 * M) \in Nat /\ q * b \in Nat
    BY <1>2
  <2> QED
    BY <1>2, <2>1
<1>4. l * b + over < 4 * b /\ (l # 0 \/ over # 0 <=> l # 0 \/ rem # 0)
  <2>1. CASE less
    <3>1. frac = 2 * q /\ over = 2 * r
      BY <2>1
    <3>2. l = 2 * (q % 2) /\ q % 2 \in {0, 1}
      BY <3>1
    <3>3. l \in {0, 2} /\ (l # 0 <=> q % 2 = 1)
      BY <3>2
    <3> HIDE DEF l
    <3>4. l * b <= 2 * b
      BY <1>2, <3>3
    <3>5. over # 0 <=> r # 0
      BY <3>1
    <3>6. l # 0 \/ r # 0 <=> l # 0 \/ rem # 0
      BY <3>3 DEF LeftOver
    <3> HIDE DEF over
    <3> QED
      BY <1>2, <3>1, <3>3, <3>4, <3>5, <3>6
  <2>2. CASE ~less
    <3>1. frac = q /\ over = r
      BY <2>2
    <3>2. l \in 0..3 /\ (q % 2 = 1 => l # 0)
      BY <3>1
    <3> HIDE DEF l
    <3>3. l * b <= 3 * b
      BY <1>2, <3>2
    <3>4. l # 0 \/ r # 0 <=> l # 0 \/ rem # 0
      BY <3>2 DEF LeftOver
    <3> HIDE DEF over
    <3> QED
      BY <1>2, <3>1, <3>2, <3>3, <3>4
  <2> QED
    BY <2>1, <2>2
<1> HIDE DEF less, num, over, frac
<1>5. /\ frac = T * 4 + l /\ f \in Nat /\ t \in 0..3 /\ l \in 0..3
  <2> DEFINE K == 4
  <2>1. K \in Nat /\ K > 0 /\ frac \in Nat
    BY <1>3
  <2> HIDE DEF K
  <2>2. /\ frac = (4 * (frac \div (4 * K)) + ((frac \div K) % 4)) * K + (frac % K)
        /\ frac \div (4 * K) \in Nat /\ (frac \div K) % 4 \in 0..3 /\ frac % K \in 0..(K-1)
    BY <2>1, ThreeFields, Zenon
  <2>3. K = 4 /\ 4 * K = 16
    BY DEF K
  <2>4. f = frac \div (4 * K) /\ t = (frac \div K) % 4 /\ l = frac % K
    BY <2>3
  <2> HIDE DEF f, t, l
  <2>5. /\ frac = T * K + l /\ f \in Nat /\ t \in 0..3 /\ l \in 0..(K-1)
    BY <2>2, <2>4, Zenon
  <2> HIDE DEF T
  <2> QED
    BY <2>3, <2>5
<1> HIDE DEF l, f, t
<1>6. f \in M..(2*M-1)
  BY <1>1, <1>5
<1>7. T \in Nat
  BY <1>5
<1> HIDE DEF T
<1>8. rest \in Int /\ 4 * rest = l * b + over
  <2>1. num * (16 * M) = 4 * (num * (4 * M)) /\ num * (4 * M) \in Nat
    BY <1>3
  <2>2. frac * b = 4 * (T * b) + l * b /\ T * b \in Nat /\ l * b \in Nat
    <3>1. (T * 4 + l) * b = 4 * (T * b) + l * b
      BY <1>2, <1>5, <1>7
    <3> QED
      BY <1>2, <1>5, <1>7, <3>1
  <2> QED
    BY <1>3, <2>1, <2>2
<1>9. l * b \in Nat /\ (l * b = 0 <=> l = 0)
  BY <1>2, <1>5
<1>10. rest \in 0..(b-1) /\ (rest # 0 <=> l # 0 \/ over # 0)
  <2> DEFINE z == l * b
  <2> HIDE DEF rest, z
  <2> QED
    BY <1>2, <1>3, <1>4, <1>8, <1>9 DEF z
<1>11. num * (4 * M) = T * b + rest
  <2>1. num * (4 * M) \in Nat /\ T * b \in Nat
    BY <1>2, <1>3, <1>7
  <2> QED
    BY <2>1
<1> HIDE DEF rest
<1> QED
  BY <1>1, <1>4, <1>5, <1>6, <1>10, <1>11 DEF less, frac, num, f, t, l, T

\* The registers that the core loads with a request and keeps to its answer.
FlagsInv ==
  cycleCount > 0 =>
    /\ isNaROut = AnswerIsNaR(subMode, num1, num2) /\ isZeroOut = num1.isZero
    /\ NormalDivision =>
         /\ signOut = (num1.sign # num2.sign)
         /\ divSqrtExp = Signed(num1.exponent - num2.exponent, ExpBits)
    /\ NormalRoot => signOut = FALSE /\ divSqrtExp = num1.exponent \div 2

LEMMA FlagsStep == DigitsInv /\ FlagsInv /\ [Next]_vars => FlagsInv'
<1>1. ASSUME DigitsInv, Registers, Load PROVE FlagsInv'
  BY <1>1, LoadRests DEF DigitsInv, FlagsInv
<1>2. ASSUME DigitsInv, FlagsInv, Registers, Hold PROVE FlagsInv'
  <2>1. exec' = exec /\ num1' = num1 /\ num2' = num2 /\ subMode' = subMode
    BY <1>2 DEF Hold, num1, num2, subMode
  <2>2. (NormalDivision' <=> NormalDivision) /\ (NormalRoot' <=> NormalRoot)
    BY <2>1 DEF NormalDivision, NormalRoot
  <2>3. CASE Starts("sqrtdiv")
    <3>1. readyIn
      BY <1>2, <2>3 DEF DigitsInv, ControlInv, ControlTypes, AnswerOnTheWay, Starts, readyIn
    <3>2. /\ isNaROut' = AnswerIsNaR(subMode, num1, num2) /\ isZeroOut' = num1.isZero
          /\ ~(AnswerIsNaR(subMode, num1, num2) \/ num1.isZero) =>
               /\ signOut' = (~subMode /\ num1.sign # num2.sign)
               /\ divSqrtExp' = IF subMode THEN num1.exponent \div 2
                                ELSE Signed(num1.exponent - num2.exponent, ExpBits)
      <4>1. DivClock(Starts("sqrtdiv"), subMode, num1, num2)
        BY <1>2 DEF Registers
      <4> QED
        BY <2>3, <3>1, <4>1, Zenon DEF DivClock
    <3>3. NormalDivision => ~subMode /\ ~(AnswerIsNaR(subMode, num1, num2) \/ num1.isZero)
      BY Zenon DEF NormalDivision, AnswerIsNaR, DividesByZero
    <3>4. NormalDivision =>
            /\ signOut' = (num1.sign # num2.sign)
            /\ divSqrtExp' = Signed(num1.exponent - num2.exponent, ExpBits)
      BY <3>2, <3>3
    <3>5. NormalRoot => subMode /\ ~(AnswerIsNaR(subMode, num1, num2) \/ num1.isZero)
      BY Zenon DEF NormalRoot, AnswerIsNaR
    <3>6. NormalRoot => signOut' = FALSE /\ divSqrtExp' = num1.exponent \div 2
      <4>1. (~subMode /\ num1.sign # num2.sign) \in BOOLEAN
        OBVIOUS
      <4> QED
        BY <3>2, <3>5
    <3> QED
      BY <2>1, <2>2, <3>2, <3>4, <3>6 DEF FlagsInv
  <2>4. CASE ~Starts("sqrtdiv")
    <3>1. UNCHANGED <<isNaROut, isZeroOut, signOut, divSqrtExp>>
      BY <1>2, <2>4 DEF Registers, DivClock
    <3>2. cycleCount' > 0 => cycleCount > 0
      BY <1>2, <2>4, CountStep DEF DigitsInv, ControlInv, ControlTypes
    <3> QED
      BY <1>2, <2>1, <2>2, <3>1, <3>2 DEF FlagsInv
  <2> QED
    BY <2>3, <2>4
<1>3. ASSUME FlagsInv, UNCHANGED vars PROVE FlagsInv'
  <2>1. exec' = exec /\ UNCHANGED divVars
    BY <1>3 DEF vars, elementVars
  <2>2. num1' = num1 /\ num2' = num2 /\ subMode' = subMode
    BY <2>1 DEF num1, num2, subMode
  <2>3. (NormalDivision' <=> NormalDivision) /\ (NormalRoot' <=> NormalRoot)
    BY <2>2 DEF NormalDivision, NormalRoot
  <2>4. UNCHANGED <<cycleCount, isNaROut, isZeroOut, signOut, divSqrtExp>>
    BY <2>1 DEF divVars
  <2> QED
    BY <1>3, <2>2, <2>3, <2>4 DEF FlagsInv
<1> QED
  BY <1>1, <1>2, <1>3 DEF Next, Clock

LEMMA FlagsInvariant == Spec => []FlagsInv
<1>1. Init => FlagsInv
  BY DEF Init, DivInit, FlagsInv
<1> QED
  BY <1>1, DigitsInvariant, FlagsStep, PTL DEF Spec

\* The operands of a division that has a quotient.
LEMMA DivisionOperands ==
  ASSUME OperandsArePosits, NormalDivision
  PROVE  exec.num1 \in Posits \ {0, NaR} /\ exec.num2 \in Posits \ {0, NaR}
<1>1. ~num1.isNaR /\ ~num2.isNaR /\ ~num2.isZero /\ ~num1.isZero
  BY DEF NormalDivision, AnswerIsNaR, DividesByZero
<1>2. /\ num1.isNaR = (exec.num1 = NaR) /\ num2.isNaR = (exec.num2 = NaR)
      /\ num1.isZero = (exec.num1 = 0) /\ num2.isZero = (exec.num2 = 0)
  BY DEF num1, num2, Extract
<1>3. exec.num1 # NaR /\ exec.num1 # 0 /\ exec.num2 # NaR /\ exec.num2 # 0
  BY <1>1, <1>2, Zenon
<1> QED
  BY <1>3 DEF OperandsArePosits

\* An answer that has the sign, the exponent and the digits of a quotient.
QuotientAnswer(a, x, y) ==
  LET less == x.fraction < y.fraction
  IN  /\ a.out.sign = (x.sign # y.sign)
      /\ a.out.exponent = x.exponent - y.exponent + (IF less THEN -1 ELSE 0)
      /\ DigitsOf(a.out, a.trailing, a.sticky,
                  IF less THEN 2 * x.fraction ELSE x.fraction, y.fraction)

LEMMA DivisionAnswers ==
  ASSUME DigitsInv, FlagsInv, validOut, NormalDivision
  PROVE  QuotientAnswer(DivSqrtOut, num1, num2)
<1> DEFINE M == 2^FracBits  x == num1  y == num2  a == num1.fraction  b == num2.fraction
           q == divSqrtFrac
           normReq == q < 16 * M
           frac == IF normReq THEN 2 * q ELSE q
           f == frac \div 16
           t == (frac \div 4) % 4
           c == IF normReq THEN 1 ELSE 0
           exp == x.exponent - y.exponent + (IF normReq THEN -1 ELSE 0)
           num == IF normReq THEN 2 * a ELSE a
           sticky == frac % 4 # 0 \/ remHi # 0
           out == [sign |-> signOut, exponent |-> Signed(divSqrtExp - c, ExpBits),
                   fraction |-> f, isZero |-> isZeroOut, isNaR |-> isNaROut]
<1>1. /\ 2^(DivBits-1) = 16 * M /\ 2^(DivBits-HiddenBits) = 16 /\ 2^TrailingBits = 4
      /\ M \in Nat /\ M > 0
  <2>1. DivBits - 1 = FracBits + 4 /\ DivBits - HiddenBits = 4 /\ TrailingBits = 2
        /\ FracBits \in Nat /\ 4 \in Nat
    BY Widths DEF TrailingBits
  <2>2. 2^4 = 16 /\ 2^2 = 4
    OBVIOUS
  <2>3. 2^(FracBits+4) = 2^FracBits * 2^4
    BY <2>1, PowerSum
  <2>4. 2^FracBits \in Nat /\ 2^FracBits > 0
    BY <2>1, PowerPositive
  <2>5. 2^FracBits * 2^4 = 16 * M
    BY <2>2, <2>4
  <2>6. 2^(DivBits-1) = 16 * M
    BY <2>1, <2>3, <2>5
  <2>7. 2^(DivBits-HiddenBits) = 16 /\ 2^TrailingBits = 4
    BY <2>1, <2>2
  <2> QED
    BY <2>4, <2>6, <2>7
<1>2. exec.num1 \in Posits \ {0, NaR} /\ exec.num2 \in Posits \ {0, NaR}
  BY DivisionOperands DEF DigitsInv
<1>3. /\ x \in Unpacked /\ y \in Unpacked /\ x.sign \in BOOLEAN /\ y.sign \in BOOLEAN
      /\ a \in M..(2*M-1) /\ b \in M..(2*M-1)
  BY <1>2, NumberUnpacks DEF num1, num2
<1>4. /\ Signed(x.exponent - y.exponent + 0, ExpBits) = x.exponent - y.exponent + 0
      /\ Signed(x.exponent - y.exponent + (-1), ExpBits) = x.exponent - y.exponent + (-1)
      /\ x.exponent \in Int /\ y.exponent \in Int
  <2>1. 0 \in -1..1 /\ -1 \in -1..1
    OBVIOUS
  <2> QED
    BY <1>2, <2>1, ExponentFits DEF num1, num2
<1>5. /\ isNaROut = FALSE /\ isZeroOut = FALSE
      /\ signOut = (x.sign # y.sign) /\ divSqrtExp = x.exponent - y.exponent
  <2>1. cycleCount > 0
    BY DEF validOut
  <2>2. ~AnswerIsNaR(subMode, num1, num2) /\ ~num1.isZero
    BY Zenon DEF NormalDivision, AnswerIsNaR, DividesByZero
  <2>3. Signed(x.exponent - y.exponent, ExpBits) = x.exponent - y.exponent
    BY <1>4
  <2>4. isNaROut = AnswerIsNaR(subMode, num1, num2) /\ isZeroOut = num1.isZero
        /\ signOut = (num1.sign # num2.sign)
        /\ divSqrtExp = Signed(num1.exponent - num2.exponent, ExpBits)
    BY <2>1 DEF FlagsInv
  <2>5. AnswerIsNaR(subMode, num1, num2) \in BOOLEAN /\ num1.isZero \in BOOLEAN
    BY <1>3 DEF AnswerIsNaR, Unpacked, DividesByZero
  <2>6. isNaROut = FALSE /\ isZeroOut = FALSE
    BY <2>2, <2>4, <2>5, Zenon
  <2> QED
    BY <2>3, <2>4, <2>6
<1>6. PICK r \in Nat : /\ Divided(a * (16 * M), b, q, r) /\ LeftOver(q, r, remHi)
                       /\ q \in Nat /\ remHi \in Nat
  <2>1. cycleCount = 1 /\ cycleCount > 0
    BY DEF validOut
  <2>2. DivLoop(cycleCount, a, b, q, remHi)
    BY <2>1 DEF DigitsInv, DivInv
  <2> HIDE DEF M
  <2>3. PICK r \in Nat : /\ Divided(a * 2^(DivBits-1), b, q, r)
                         /\ r # 0 => q % 2 = 1 \/ remHi # 0
                         /\ remHi # 0 => q % 2 = 1 \/ r # 0
    BY <2>1, <2>2 DEF DivLoop
  <2>4. q \in Nat /\ remHi \in Nat
    BY <2>2 DEF DivLoop
  <2>5. LeftOver(q, r, remHi)
    BY <2>3 DEF LeftOver
  <2>6. Divided(a * (16 * M), b, q, r)
    BY <1>1, <2>3
  <2> QED
    BY <2>4, <2>5, <2>6
<1> DEFINE A == DivSqrtOut
<1>7. /\ A.out = out /\ A.trailing = t /\ A.sticky = sticky
  <2>1. /\ 2^(DivBits-1) = 16 * M /\ 2^(DivBits-HiddenBits) = 16 /\ 2^TrailingBits = 4
    BY <1>1
  <2> HIDE DEF M
  <2>2. DivSqrtOut = [out |-> out, trailing |-> t, sticky |-> sticky]
    BY <2>1, Zenon DEF DivSqrtOut, Low
  <2> HIDE DEF out, t, sticky
  <2> QED
    BY <2>2
<1> HIDE DEF A
<1>8. /\ normReq <=> a < b
      /\ f \in M..(2*M-1) /\ t \in 0..3
      /\ \E rest \in 0..(b-1) :
           /\ num * (4 * M) = (4 * f + t) * b + rest
           /\ sticky <=> rest # 0
  <2> HIDE DEF M, a, b, q
  <2> QED
    BY <1>1, <1>3, <1>6, QuotientFields, Zenon
<1>9. Signed(divSqrtExp - c, ExpBits) = exp /\ exp \in Int
  BY <1>4, <1>5
<1>10. b \in Nat \ {0} /\ num \in Nat /\ f \in Nat
  BY <1>1, <1>3, <1>8
<1> HIDE DEF f, t, exp, sticky, M, num, normReq
<1>11. out \in Unpacked /\ out.isNaR = FALSE /\ out.isZero = FALSE /\ out.fraction = f
       /\ out.sign = (x.sign # y.sign) /\ out.exponent = exp
  <2>1. signOut \in BOOLEAN
    BY <1>3, <1>5, Zenon
  <2>2. signOut \in BOOLEAN /\ isNaROut \in BOOLEAN /\ isZeroOut \in BOOLEAN
    BY <1>5, <2>1
  <2> QED
    BY <1>5, <1>9, <1>10, <2>2 DEF Unpacked
<1> HIDE DEF out
<1>12. Normalized(out)
  BY <1>8, <1>11 DEF Normalized, M
<1>13. DigitsOf(out, t, sticky, num, b)
  <2>1. sticky \in BOOLEAN
    BY DEF sticky
  <2> QED
    BY <1>8, <1>10, <1>11, <1>12, <2>1 DEF DigitsOf, M
<1>14. DigitsOf(A.out, A.trailing, A.sticky, num, b)
  BY <1>7, <1>13
<1>15. A.out.sign = (x.sign # y.sign) /\ A.out.exponent = exp
  BY <1>7, <1>11, Zenon
<1> QED
  BY <1>8, <1>14, <1>15, Zenon DEF QuotientAnswer, A, num, exp

\* A quotient in the result register is the one of the operation shown with it.
DivisionShown ==
  Shows("sqrtdiv") /\ ~IsSqrt(resultOp) =>
    LET x == Extract(resultOp.num1)
        y == Extract(resultOp.num2)
        a == result.answer
    IN  /\ resultOp.num1 \in Posits /\ resultOp.num2 \in Posits
        /\ a.out.isNaR = AnswerIsNaR(FALSE, x, y) /\ a.out.isZero = x.isZero
        /\ ~AnswerIsNaR(FALSE, x, y) /\ ~x.isZero => QuotientAnswer(a, x, y)

LEMMA DivisionShownStep == DigitsInv /\ FlagsInv /\ DivisionShown /\ [Next]_vars => DivisionShown'
<1>1. ASSUME DigitsInv, FlagsInv, Next PROVE DivisionShown'
  <2>1. SUFFICES ASSUME Shows("sqrtdiv")', ~IsSqrt(resultOp)' PROVE DivisionShown'
    BY <2>1 DEF DivisionShown
  <2>2. /\ resultOp' = exec
        /\ result' = [answer |-> CoreAnswer, flags |-> Compare(exec.num1, exec.num2)]
        /\ resultValid' = newResultValid
    BY <1>1 DEF Next, Clock, Registers
  <2>3. newResultValid /\ exec.inst = "sqrtdiv" /\ ~subMode
    BY <2>1, <2>2 DEF Shows, IsSqrt, subMode
  <2>4. validOut
    BY <1>1, <2>3 DEF newResultValid, Starts, DigitsInv, ControlInv, AnswerOnTheWay
  <2>5. CoreAnswer = DivSqrtOut
    BY <2>3 DEF CoreAnswer
  <2>6. result'.answer = DivSqrtOut
    BY <2>2, <2>5
  <2>7. exec.num1 \in Posits /\ exec.num2 \in Posits
    BY <1>1 DEF DigitsInv, OperandsArePosits
  <2>8. /\ DivSqrtOut.out.isNaR = AnswerIsNaR(FALSE, num1, num2)
        /\ DivSqrtOut.out.isZero = num1.isZero
    <3>1. cycleCount > 0
      BY <2>4 DEF validOut
    <3>2. isNaROut = AnswerIsNaR(subMode, num1, num2) /\ isZeroOut = num1.isZero
      BY <1>1, <3>1 DEF FlagsInv
    <3>3. DivSqrtOut.out.isNaR = isNaROut /\ DivSqrtOut.out.isZero = isZeroOut
      BY DEF DivSqrtOut
    <3>4. AnswerIsNaR(subMode, num1, num2) = AnswerIsNaR(FALSE, num1, num2)
      BY <2>3, Zenon DEF AnswerIsNaR, DividesByZero
    <3> QED
      BY <3>2, <3>3, <3>4, Zenon
  <2>9. ~AnswerIsNaR(FALSE, num1, num2) /\ ~num1.isZero => QuotientAnswer(DivSqrtOut, num1, num2)
    BY <1>1, <2>3, <2>4, DivisionAnswers DEF NormalDivision
  <2>10. Posits' = Posits
    BY DEF Posits
  <2> QED
    BY <2>2, <2>6, <2>7, <2>8, <2>9, <2>10, Zenon DEF DivisionShown, num1, num2
<1>2. ASSUME DivisionShown, UNCHANGED vars PROVE DivisionShown'
  <2>1. resultOp' = resultOp /\ result' = result /\ resultValid' = resultValid
    BY <1>2 DEF vars, elementVars
  <2>2. Posits' = Posits
    BY DEF Posits
  <2> QED
    BY <1>2, <2>1, <2>2, Zenon DEF DivisionShown, Shows, IsSqrt
<1> QED
  BY <1>1, <1>2

\* An answer with the digits of a quotient, packed.
LEMMA QuotientRounds ==
  ASSUME NEW p \in Posits \ {0, NaR}, NEW q \in Posits \ {0, NaR}, NEW a,
         QuotientAnswer(a, Extract(p), Extract(q))
  PROVE  LET x == Extract(p)
             y == Extract(q)
         IN  RoundsNumber(Generate(a.out, a.trailing, a.sticky), NBits, ES, x.sign # y.sign,
                          x.exponent - y.exponent, x.fraction, y.fraction)
<1> DEFINE x == Extract(p)  y == Extract(q)  num == x.fraction  den == y.fraction
           less == num < den  e == x.exponent - y.exponent
           E == e + (IF less THEN -1 ELSE 0)  n == IF less THEN 2 * num ELSE num
           sign == x.sign # y.sign  g == Generate(a.out, a.trailing, a.sticky)
           k == IF sign THEN Opposite(g, NBits) ELSE g
<1>1. a.out.sign = sign /\ a.out.exponent = E /\ DigitsOf(a.out, a.trailing, a.sticky, n, den)
  BY DEF QuotientAnswer
<1>2. x.exponent \in Int /\ y.exponent \in Int
  <2>1. 0 \in -1..1
    OBVIOUS
  <2> QED
    BY <2>1, ExponentFits
<1>3. num \in Nat /\ den \in Nat /\ num < 2 * den
  <2> DEFINE M == 2^FracBits
  <2>1. num \in M..(2*M-1) /\ den \in M..(2*M-1) /\ num \in Nat /\ den \in Nat
    BY NumberUnpacks
  <2>2. M \in Nat
    BY Widths, PowerPositive
  <2> HIDE DEF M, num, den
  <2> QED
    BY <2>1, <2>2
<1>4. e \in Int /\ E \in Int /\ sign \in BOOLEAN
  BY <1>2
<1> HIDE DEF n, den, E, sign
<1>5. RoundsRatio(k, NBits, ES, E, n, den)
  BY <1>1, <1>4, AnswerRounds
<1> HIDE DEF k
<1> HIDE DEF num, e
<1>6. CASE less
  <2>1. E = e - 1 /\ n = 2 * num /\ ~(num >= 2 * den) /\ ~(num >= den)
    BY <1>3, <1>4, <1>6 DEF E, n
  <2>2. RoundsRatio(k, NBits, ES, e - 1, 2 * num, den)
    BY <1>5, <2>1
  <2> QED
    BY <2>1, <2>2, Zenon DEF RoundsNumber, k, num, den, e, sign
<1>7. CASE ~less
  <2>1. E = e /\ n = num /\ ~(num >= 2 * den) /\ num >= den
    BY <1>3, <1>4, <1>7 DEF E, n
  <2>2. RoundsRatio(k, NBits, ES, e, num, den)
    BY <1>5, <2>1
  <2> QED
    BY <2>1, <2>2, Zenon DEF RoundsNumber, k, num, den, e, sign
<1> QED
  BY <1>6, <1>7

LEMMA DivisionsShown == Spec => []DivisionShown
<1>1. Init => DivisionShown
  BY DEF Init, DivisionShown, Shows
<1> QED
  BY <1>1, DigitsInvariant, FlagsInvariant, DivisionShownStep, PTL DEF Spec

\* A quotient of two nonzero numbers is rounded to the nearest posit, ties to
\* the even pattern; a division by zero is NaR, and zero divided by a number is
\* zero (PositDivSqrt.scala L36-122, PositGenerator.scala L24-57): in every
\* format, for all operands, whatever the registers that are never reset power
\* up with and whatever the core did before.
THEOREM QuotientsAreRounded == Spec => []QuotientsAreNearest
<1>1. DivisionShown => QuotientsAreNearest
  <2>1. SUFFICES ASSUME DivisionShown, Shows("sqrtdiv"), ~IsSqrt(resultOp)
                 PROVE  QuotientsAreNearest
    BY <2>1 DEF QuotientsAreNearest
  <2> DEFINE p == resultOp.num1  q == resultOp.num2  x == Extract(p)  y == Extract(q)
             a == result.answer  g == Generate(a.out, a.trailing, a.sticky)
  <2>2. /\ p \in Posits /\ q \in Posits
        /\ a.out.isNaR = AnswerIsNaR(FALSE, x, y) /\ a.out.isZero = x.isZero
        /\ ~AnswerIsNaR(FALSE, x, y) /\ ~x.isZero => QuotientAnswer(a, x, y)
    BY <2>1, Zenon DEF DivisionShown
  <2>3. Output = g
    BY DEF Output
  <2>4. /\ x.isNaR = (p = NaR) /\ y.isNaR = (q = NaR)
        /\ x.isZero = (p = 0) /\ y.isZero = (q = 0)
    BY DEF Extract
  <2>5. AnswerIsNaR(FALSE, x, y) <=> NaR \in {p, q} \/ q = 0
    BY <2>4, Zenon DEF AnswerIsNaR, DividesByZero
  <2> HIDE DEF p, q, a
  <2>6. CASE NaR \in {p, q} \/ q = 0
    <3>1. a.out.isNaR
      BY <2>2, <2>5, <2>6, Zenon
    <3>2. g = NaR
      BY <3>1 DEF Generate
    <3> QED
      BY <2>3, <2>6, <3>2, Zenon DEF QuotientsAreNearest, p, q
  <2>7. CASE ~(NaR \in {p, q} \/ q = 0) /\ p = 0
    <3>1. ~a.out.isNaR /\ a.out.isZero
      BY <2>2, <2>4, <2>5, <2>7, Zenon
    <3>2. g = 0
      BY <3>1 DEF Generate
    <3> QED
      BY <2>3, <2>7, <3>2, Zenon DEF QuotientsAreNearest, p, q
  <2>8. CASE ~(NaR \in {p, q} \/ q = 0) /\ p # 0
    <3>1. QuotientAnswer(a, x, y)
      BY <2>2, <2>4, <2>5, <2>8, Zenon
    <3>2. p \in Posits \ {0, NaR} /\ q \in Posits \ {0, NaR}
      BY <2>2, <2>8
    <3>3. RoundsNumber(g, NBits, ES, x.sign # y.sign, x.exponent - y.exponent,
                       x.fraction, y.fraction)
      BY <3>1, <3>2, QuotientRounds
    <3> HIDE DEF g
    <3> QED
      BY <2>3, <2>8, <3>3, Zenon DEF QuotientsAreNearest, p, q
  <2> QED
    BY <2>6, <2>7, <2>8
<1> QED
  BY <1>1, DivisionsShown, PTL

\* A product with zero.
LEMMA ZeroTimes ==
  ASSUME NEW p \in Posits \ {NaR}, NEW q \in Posits \ {NaR}, p = 0 \/ q = 0
  PROVE  Times(Value(p, NBits, ES), Value(q, NBits, ES))[1] = 0
<1>1. ASSUME NEW s \in Posits \ {NaR}
      PROVE  Value(s, NBits, ES)[1] \in Int /\ (s = 0 => Value(s, NBits, ES)[1] = 0)
  <2>1. CASE s = 0
    BY <2>1 DEF Value
  <2>2. CASE s # 0
    <3> DEFINE f == Extract(s).fraction  v == IF Extract(s).sign THEN -f ELSE f
    <3>1. f \in Nat
      BY <2>2, NumberUnpacks
    <3>2. v \in Int
      <4> HIDE DEF f
      <4> QED
        BY <3>1
    <3> HIDE DEF v
    <3>3. Value(s, NBits, ES) = <<v, Extract(s).exponent - FracBits>>
      BY <2>2, SignedValue, Zenon DEF v, f
    <3> QED
      BY <2>2, <3>2, <3>3
  <2> QED
    BY <2>1, <2>2
<1> DEFINE u == Value(p, NBits, ES)[1]  v == Value(q, NBits, ES)[1]
<1>2. u \in Int /\ v \in Int /\ (u = 0 \/ v = 0)
  BY <1>1
<1>3. Times(Value(p, NBits, ES), Value(q, NBits, ES))[1] = u * v
  BY DEF Times
<1> HIDE DEF u, v
<1>4. u * v = 0
  BY <1>2
<1> QED
  BY <1>3, <1>4

\* A product in the result register is NaR, or the posit nearest to the exact product
\* of its two operands as numbers (PositMul.scala L19-49, PositGenerator.scala L24-57):
\* what the patterns say of nearness, the values say.
THEOREM ProductsAreNearestValues == Spec => []ProductsRounded
<1>1. DigitsInv /\ ProductShown /\ ProductsAreNearest => ProductsRounded
  <2>1. SUFFICES ASSUME ProductShown, ProductsAreNearest, Shows("mul")
                 PROVE  IF NaR \in {resultOp.num1, resultOp.num2} THEN Output = NaR
                        ELSE Rounds(Times(Val(resultOp.num1), Val(resultOp.num2)))
    BY <2>1 DEF ProductsRounded
  <2> DEFINE p == resultOp.num1  q == resultOp.num2  x == Extract(p)  y == Extract(q)  n == Output
  <2>2. /\ p \in Posits /\ q \in Posits
        /\ IF NaR \in {p, q} THEN n = NaR
           ELSE IF 0 \in {p, q} THEN n = 0
           ELSE RoundsNumber(n, NBits, ES, x.sign # y.sign, x.exponent + y.exponent,
                             x.fraction * y.fraction, 2^FracBits * 2^FracBits)
    BY <2>1, Zenon DEF ProductShown, ProductsAreNearest
  <2> HIDE DEF p, q, n
  <2>3. CASE NaR \notin {p, q} /\ 0 \notin {p, q}
    <3>1. p \in Posits \ {0, NaR} /\ q \in Posits \ {0, NaR}
      BY <2>2, <2>3
    <3>2. RoundsNumber(n, NBits, ES, x.sign # y.sign, x.exponent + y.exponent,
                       x.fraction * y.fraction, 2^FracBits * 2^FracBits)
      BY <2>2, <2>3, Zenon
    <3>3. RoundsTo(n, NBits, ES, Times(Value(p, NBits, ES), Value(q, NBits, ES)))
      BY <3>1, <3>2, ProductMeetsValues
    <3> QED
      BY <2>3, <3>3, Zenon DEF Rounds, Val, p, q, n
  <2>4. CASE NaR \notin {p, q} /\ 0 \in {p, q}
    <3>1. n = 0
      BY <2>2, <2>4, Zenon
    <3>2. ASSUME NEW s \in Posits \ {NaR}, NEW t \in Posits \ {NaR}, s = 0 \/ t = 0
          PROVE  Times(Value(s, NBits, ES), Value(t, NBits, ES))[1] = 0
      BY <3>2, ZeroTimes
    <3>3. Times(Value(p, NBits, ES), Value(q, NBits, ES))[1] = 0
      BY <2>2, <2>4, <3>2
    <3>4. RoundsTo(n, NBits, ES, Times(Value(p, NBits, ES), Value(q, NBits, ES)))
      BY <3>1, <3>3, Zenon DEF RoundsTo
    <3> QED
      BY <2>4, <3>4, Zenon DEF Rounds, Val, p, q, n
  <2>5. CASE NaR \in {p, q}
    BY <2>2, <2>5, Zenon DEF p, q, n
  <2> QED
    BY <2>3, <2>4, <2>5
<1> QED
  BY <1>1, DigitsInvariant, ProductsAreRounded, ProductsShown, PTL

-----------------------------------------------------------------------------
(* The flag byte, which every result carries.                              *)

\* The flags shown compare the first two operands of the operation shown with them.
FlagsShown ==
  resultValid =>
    /\ resultOp.num1 \in Posits /\ resultOp.num2 \in Posits
    /\ result.flags = Compare(resultOp.num1, resultOp.num2)

LEMMA FlagsShownStep == DigitsInv /\ FlagsShown /\ [Next]_vars => FlagsShown'
<1>1. ASSUME DigitsInv, Next PROVE FlagsShown'
  <2>1. /\ resultOp' = exec
        /\ result' = [answer |-> CoreAnswer, flags |-> Compare(exec.num1, exec.num2)]
    BY <1>1 DEF Next, Clock, Registers
  <2>2. exec.num1 \in Posits /\ exec.num2 \in Posits
    BY <1>1 DEF DigitsInv, OperandsArePosits
  <2>3. result'.flags = Compare(exec.num1, exec.num2)
    BY <2>1
  <2>4. Posits' = Posits
    BY DEF Posits
  <2> QED
    BY <2>1, <2>2, <2>3, <2>4, Zenon DEF FlagsShown
<1>2. ASSUME FlagsShown, UNCHANGED vars PROVE FlagsShown'
  <2>1. resultOp' = resultOp /\ result' = result /\ resultValid' = resultValid
    BY <1>2 DEF vars, elementVars
  <2>2. Posits' = Posits
    BY DEF Posits
  <2> QED
    BY <1>2, <2>1, <2>2, Zenon DEF FlagsShown
<1> QED
  BY <1>1, <1>2

\* The order of two packed posits that the compare core decides, NaR below all numbers.
BelowOrNaR(x, y) ==
  IF x = NaR THEN y # NaR ELSE y # NaR /\ DyadicLess(Val(x), Val(y))

LEMMA DyadicLessType ==
  ASSUME NEW u, NEW v, u[1] \in Int, v[1] \in Int
  PROVE  DyadicLess(u, v) \in BOOLEAN
<1>1. \A a, d, b : ScaledLess(a, d, b) \in BOOLEAN
  BY Zenon DEF ScaledLess
<1>2. \A a, b : PositiveLess(a, b) \in BOOLEAN
  <2> TAKE a, b
  <2>1. CASE a[2] >= b[2]
    BY <1>1, <2>1, Zenon DEF PositiveLess
  <2>2. CASE ~(a[2] >= b[2])
    BY <2>2, Zenon DEF PositiveLess
  <2> QED
    BY <2>1, <2>2, Zenon
<1>3. (u[1] < v[1]) \in BOOLEAN
  OBVIOUS
<1>4. CASE u[1] > 0 /\ v[1] > 0
  BY <1>2, <1>4, Zenon DEF DyadicLess
<1>5. CASE ~(u[1] > 0 /\ v[1] > 0) /\ u[1] < 0 /\ v[1] < 0
  <2>1. DyadicLess(u, v) = PositiveLess(Negative(v), Negative(u))
    BY <1>5, Zenon DEF DyadicLess
  <2> QED
    BY <1>2, <2>1, Zenon
<1>6. CASE ~(u[1] > 0 /\ v[1] > 0) /\ ~(u[1] < 0 /\ v[1] < 0)
  <2>1. DyadicLess(u, v) = (u[1] < v[1])
    BY <1>6, Zenon DEF DyadicLess
  <2> QED
    BY <1>3, <2>1, Zenon
<1> QED
  BY <1>4, <1>5, <1>6, Zenon

LEMMA BelowOrNaRType ==
  ASSUME NEW x \in Posits, NEW y \in Posits
  PROVE  BelowOrNaR(x, y) \in BOOLEAN
<1>1. CASE x = NaR
  BY <1>1, Zenon DEF BelowOrNaR
<1>2. CASE x # NaR /\ y = NaR
  BY <1>2, Zenon DEF BelowOrNaR
<1>3. CASE x # NaR /\ y # NaR
  <2> DEFINE u == Val(x)  v == Val(y)
  <2>1. u[1] \in Int /\ v[1] \in Int
    BY <1>3, ValueSign DEF Val
  <2> HIDE DEF u, v
  <2>2. DyadicLess(u, v) \in BOOLEAN
    BY <2>1, DyadicLessType
  <2>3. BelowOrNaR(x, y) <=> DyadicLess(u, v)
    BY <1>3, Zenon DEF BelowOrNaR, u, v
  <2>4. BelowOrNaR(x, y) = (y # NaR /\ DyadicLess(u, v))
    BY <1>3, Zenon DEF BelowOrNaR, u, v
  <2> QED
    BY <2>4, Zenon
<1> QED
  BY <1>1, <1>2, <1>3

LEMMA SignedIsOrder ==
  ASSUME NEW p \in Posits, NEW q \in Posits
  PROVE  BelowOrNaR(p, q) <=> Signed(p, NBits) < Signed(q, NBits)
<1> DEFINE s == Signed(p, NBits)  t == Signed(q, NBits)
<1>1. /\ s \in Int /\ t \in Int /\ NaR \in Int
      /\ p = NaR => s = -NaR
      /\ p # NaR => s > -NaR
      /\ q = NaR => t = -NaR
      /\ q # NaR => t > -NaR
  BY SignedNaR, Halves
<1>2. p # NaR /\ q # NaR => (DyadicLess(Val(p), Val(q)) <=> s < t)
  BY SignedValuesOrder DEF Val
<1> HIDE DEF s, t
<1>3. p = NaR => (q # NaR <=> s < t)
  BY <1>1
<1>4. p # NaR /\ q = NaR => ~(s < t)
  BY <1>1
<1>5. BelowOrNaR(p, q) <=> s < t
  BY <1>2, <1>3, <1>4 DEF BelowOrNaR
<1> QED
  BY <1>5 DEF s, t

\* The flags of every result, of whatever instruction, order its first two operands by
\* their values, with NaR below every number (PositCompare.scala L10-18, POSIT.scala
\* L163-168): a comparison of the packed words as signed integers is one of the reals
\* they stand for.
THEOREM ComparisonsOrderValues == Spec => []ComparisonsOrder
<1>1. Init => FlagsShown
  BY DEF Init, FlagsShown
<1>2. FlagsShown => ComparisonsOrder
  <2>1. SUFFICES ASSUME FlagsShown, resultValid
                 PROVE  /\ result.flags.lt = BelowOrNaR(resultOp.num1, resultOp.num2)
                        /\ result.flags.gt = BelowOrNaR(resultOp.num2, resultOp.num1)
                        /\ result.flags.eq = (resultOp.num1 = resultOp.num2)
    BY <2>1, Zenon DEF ComparisonsOrder, BelowOrNaR
  <2> DEFINE p == resultOp.num1  q == resultOp.num2
             s == Signed(p, NBits)  t == Signed(q, NBits)
             lt == s < t  eq == s = t  gt == ~(s < t) /\ ~(s = t)
  <2>2. p \in Posits /\ q \in Posits /\ result.flags = [lt |-> lt, eq |-> eq, gt |-> gt]
    BY <2>1, Zenon DEF FlagsShown, Compare
  <2>3. BelowOrNaR(p, q) <=> s < t
    BY <2>2, SignedIsOrder
  <2>4. BelowOrNaR(q, p) <=> t < s
    BY <2>2, SignedIsOrder
  <2>5. s \in Int /\ t \in Int
    BY <2>2, SignedNaR
  <2>12. lt \in BOOLEAN
    BY <2>5
  <2>6. p = q <=> s = t
    BY <2>2, SignedIsOneToOne
  <2>7. t < s <=> gt
    <3> HIDE DEF s, t
    <3> QED
      BY <2>5
  <2> HIDE DEF p, q, s, t
  <2>8. result.flags.lt = lt /\ result.flags.eq = eq /\ result.flags.gt = gt
    <3> HIDE DEF lt, eq, gt
    <3> QED
      BY <2>2
  <2>9. result.flags.lt = BelowOrNaR(p, q)
    <3>1. BelowOrNaR(p, q) \in BOOLEAN
      BY <2>2, BelowOrNaRType, Zenon
    <3> QED
      BY <2>3, <2>8, <2>12, <3>1, Zenon
  <2>10. result.flags.gt = BelowOrNaR(q, p)
    <3>1. BelowOrNaR(q, p) \in BOOLEAN
      BY <2>2, BelowOrNaRType, Zenon
    <3> QED
      BY <2>4, <2>7, <2>8, <3>1, Zenon
  <2>11. result.flags.eq = (p = q)
    BY <2>6, <2>8, Zenon
  <2> QED
    BY <2>9, <2>10, <2>11 DEF p, q
<1> QED
  BY <1>1, <1>2, DigitsInvariant, FlagsShownStep, PTL DEF Spec

-----------------------------------------------------------------------------
(* Quotients and roots by their values.                                    *)

\* The half of QuotientsAndRootsRounded that is about divisions.
DivisionsRounded ==
  Shows("sqrtdiv") /\ ~IsSqrt(resultOp) =>
    LET x == resultOp.num1
        y == resultOp.num2
    IN  IF NaR \in {x, y} \/ y = 0 THEN Output = NaR
        ELSE QuotientRoundsTo(Output, NBits, ES, Val(x), Val(y))

LEMMA DivisionValues ==
  ASSUME DivisionShown, QuotientsAreNearest
  PROVE  DivisionsRounded
<1>1. SUFFICES ASSUME Shows("sqrtdiv"), ~IsSqrt(resultOp)
               PROVE  LET x == resultOp.num1
                          y == resultOp.num2
                      IN  IF NaR \in {x, y} \/ y = 0 THEN Output = NaR
                          ELSE QuotientRoundsTo(Output, NBits, ES, Val(x), Val(y))
  BY <1>1, Zenon DEF DivisionsRounded
<1> DEFINE p == resultOp.num1  q == resultOp.num2  x == Extract(p)  y == Extract(q)  n == Output
<1>2. /\ p \in Posits /\ q \in Posits
      /\ IF NaR \in {p, q} \/ q = 0 THEN n = NaR
         ELSE IF p = 0 THEN n = 0
         ELSE RoundsNumber(n, NBits, ES, x.sign # y.sign, x.exponent - y.exponent,
                           x.fraction, y.fraction)
  BY <1>1, Zenon DEF DivisionShown, QuotientsAreNearest
<1> HIDE DEF p, q, n
<1>3. CASE NaR \notin {p, q} /\ q # 0 /\ p # 0
  <2>1. p \in Posits \ {0, NaR} /\ q \in Posits \ {0, NaR}
    BY <1>2, <1>3
  <2>2. RoundsNumber(n, NBits, ES, x.sign # y.sign, x.exponent - y.exponent,
                     x.fraction, y.fraction)
    BY <1>2, <1>3, Zenon
  <2>3. QuotientRoundsTo(n, NBits, ES, Value(p, NBits, ES), Value(q, NBits, ES))
    BY <2>1, <2>2, QuotientMeetsValues
  <2> QED
    BY <1>3, <2>3, Zenon DEF Val, p, q, n
<1>4. CASE NaR \notin {p, q} /\ q # 0 /\ p = 0
  <2>1. n = 0
    BY <1>2, <1>4, Zenon
  <2>2. Value(p, NBits, ES)[1] = 0
    BY <1>4 DEF Value
  <2>3. QuotientRoundsTo(n, NBits, ES, Value(p, NBits, ES), Value(q, NBits, ES))
    BY <2>1, <2>2, Zenon DEF QuotientRoundsTo
  <2> QED
    BY <1>4, <2>3, Zenon DEF Val, p, q, n
<1>5. CASE NaR \in {p, q} \/ q = 0
  BY <1>2, <1>5, Zenon DEF p, q, n
<1> QED
  BY <1>3, <1>4, <1>5

\* The digits of a root without their scale.
LEMMA RootPlace ==
  ASSUME NEW M \in Nat, M > 0, NEW R \in M..(4*M-1), NEW q \in Nat, NEW r,
         Rooted(R * 2^(2*DivBits), q, r, 0), M = 2^FracBits
  PROVE  /\ 256 * (M * R) = q * q + r /\ r \in 0..(2*q)
         /\ 16 * M <= q /\ q < 32 * M
<1> DEFINE z == M * R  S == q * q  h == DivBits  A == 2^h  MM == M * M
<1>1. R \in Nat /\ z \in Nat /\ S \in Nat /\ MM \in Nat /\ r \in 0..(2*q) /\ r \in Nat
  BY DEF Rooted
<1>2. R * 2^(2*h) = (S + r) * (4 * M) + 0
  BY UnitIs DEF Rooted
<1>3. 2^(2*h) = A * A /\ A = 32 * M
  <2>1. h \in Nat /\ FracBits \in Nat /\ 5 \in Nat /\ h = FracBits + 5
    BY Widths
  <2>2. 2^(FracBits+5) = 2^FracBits * 2^5
    BY <2>1, PowerSum
  <2>5. 2^5 = 32
    OBVIOUS
  <2>3. A = 32 * M
    BY <2>1, <2>2, <2>5
  <2> HIDE DEF h
  <2>4. 2^(h+h) = 2^h * 2^h /\ 2*h = h+h
    BY <2>1, PowerSum
  <2> QED
    BY <2>3, <2>4
<1>4. 256 * z = S + r
  <2> DEFINE K == 4 * M  x == 256 * z  y == S + r
  <2>1. R * (A * A) = K * x
    <3> HIDE DEF A
    <3> QED
      BY <1>1, <1>3
  <2>2. (S + r) * (4 * M) + 0 = K * y
    BY <1>1
  <2>3. K * x = K * y
    BY <1>2, <1>3, <2>1, <2>2
  <2>4. K \in Nat /\ K > 0 /\ x \in Int /\ y \in Int
    BY <1>1
  <2> HIDE DEF K, x, y
  <2>5. ~(x < y) /\ ~(y < x)
    <3>1. (K * x < K * y <=> x < y) /\ (K * y < K * x <=> y < x)
      BY <2>4, CancelLess
    <3>2. K * x \in Int
      BY <2>4
    <3> QED
      BY <2>3, <3>1, <3>2
  <2>6. x = y
    BY <2>4, <2>5
  <2> QED
    BY <2>6 DEF x, y
<1>5. MM <= z /\ z < 4 * MM
  <2>1. M * M <= M * R /\ M * (R + 1) <= M * (4 * M) /\ M * (4 * M) = 4 * MM /\ M * (R + 1) = M * R + M
    BY <1>1
  <2> HIDE DEF MM, z
  <2>2. z + M <= 4 * MM /\ MM <= z
    BY <2>1 DEF MM, z
  <2> QED
    BY <1>1, <2>2
<1>6. 16 * M <= q
  <2> DEFINE a == 16 * M  b == q + 1
  <2>1. a * a = 256 * MM /\ b * b = S + 2 * q + 1
    BY <1>1
  <2>2. a * a < b * b
    <3> DEFINE u == a * a  v == b * b
    <3>1. u = 256 * MM /\ v = S + 2 * q + 1
      BY <2>1
    <3> HIDE DEF u, v, MM, S, z
    <3>2. u < v
      BY <1>1, <1>4, <1>5, <3>1
    <3> QED
      BY <3>2 DEF u, v
  <2>3. a \in Nat /\ b \in Nat
    OBVIOUS
  <2> HIDE DEF a, b
  <2>4. a < b
    BY <2>2, <2>3, SquareLess
  <2> QED
    BY <2>3, <2>4 DEF a, b
<1>7. q < 32 * M
  <2> DEFINE b == 32 * M
  <2>1. b * b = 1024 * MM /\ b \in Nat
    BY <1>1
  <2>2. q * q < b * b
    <3> DEFINE v == b * b
    <3>1. v = 1024 * MM
      BY <2>1
    <3> HIDE DEF v, MM, S, z
    <3>2. S < v
      BY <1>1, <1>4, <1>5, <3>1
    <3> QED
      BY <3>2 DEF S, v
  <2> HIDE DEF b
  <2>3. q < b
    BY <2>1, <2>2, SquareLess
  <2> QED
    BY <2>3 DEF b
<1> QED
  BY <1>1, <1>4, <1>6, <1>7

\* Its fields for the generator: the first of the digits are the root of fewer digits of
\* the radicand, and the others and the remainder tell whether it is exact.
LEMMA RootFields ==
  ASSUME NEW M \in Nat, M > 0, NEW R \in M..(4*M-1), NEW q \in Nat, NEW r,
         256 * (M * R) = q * q + r, r \in 0..(2*q), 16 * M <= q, q < 32 * M,
         NEW rem \in Nat, LeftOver(q, r, rem)
  PROVE  LET f == q \div 16
             t == (q \div 4) % 4
         IN  /\ f \in M..(2*M-1) /\ t \in 0..3
             /\ IntegerRoot(4 * f + t, q % 4 # 0 \/ rem # 0, M, R)
<1> DEFINE f == q \div 16  t == (q \div 4) % 4  l == q % 4  T == 4 * f + t
           z == M * R  S == q * q  y == 16 * z  TT == T * T  more == l # 0 \/ rem # 0
<1>1. R \in Nat /\ z \in Nat /\ S \in Nat /\ r \in Nat /\ y \in Nat
  OBVIOUS
<1>2. q = T * 4 + l /\ f \in Nat /\ t \in 0..3 /\ l \in 0..3
  <2> DEFINE K == 4
  <2>1. K \in Nat /\ K > 0
    OBVIOUS
  <2> HIDE DEF K
  <2>2. /\ q = (4 * (q \div (4 * K)) + ((q \div K) % 4)) * K + (q % K)
        /\ q \div (4 * K) \in Nat /\ (q \div K) % 4 \in 0..3 /\ q % K \in 0..(K-1)
    BY <2>1, ThreeFields, Zenon
  <2>3. K = 4 /\ 4 * K = 16
    BY DEF K
  <2>4. f = q \div (4 * K) /\ t = (q \div K) % 4 /\ l = q % K
    BY <2>3
  <2> HIDE DEF f, t, l
  <2>5. q = T * K + l /\ f \in Nat /\ t \in 0..3 /\ l \in 0..(K-1)
    BY <2>2, <2>4, Zenon
  <2> HIDE DEF T
  <2> QED
    BY <2>3, <2>5
<1>3. l = 0 => q % 2 = 0
  OBVIOUS
<1> HIDE DEF f, t, l
<1>4. f \in M..(2*M-1) /\ T \in (4*M)..(8*M-1) /\ T \in Nat
  BY <1>2
<1> HIDE DEF T
<1> DEFINE a == 4 * T  b == 4 * (T + 1)
<1>5. a \in Nat /\ b \in Nat /\ a * a = 16 * TT /\ b * b = 16 * ((T + 1) * (T + 1)) /\ TT \in Nat
      /\ (T + 1) * (T + 1) \in Nat
  BY <1>4
<1>6. a <= q /\ q + 1 <= b /\ (a = q <=> l = 0) /\ q + 1 \in Nat /\ (a < q <=> l # 0)
  BY <1>2, <1>4
<1>7. (q + 1) * (q + 1) = S + 2 * q + 1
  OBVIOUS
<1>8. ~(q < a) /\ ~(b < q + 1)
  BY <1>5, <1>6
<1> HIDE DEF a, b
<1> DEFINE aa == a * a  bb == b * b  qq == (q + 1) * (q + 1)
<1>9. (q < a <=> S < aa) /\ (a < q <=> aa < S) /\ (b < q + 1 <=> bb < qq)
  BY <1>5, <1>6, SquareLess
<1>10. aa = 16 * TT /\ bb = 16 * ((T + 1) * (T + 1)) /\ qq = S + 2 * q + 1
  BY <1>5, <1>7
<1> DEFINE T1 == (T + 1) * (T + 1)
<1>11. aa <= S /\ S + 2 * q + 1 <= bb
  <2> HIDE DEF aa, bb, qq, S, TT
  <2>1. aa \in Nat /\ bb \in Nat /\ qq \in Nat
    BY <1>1, <1>5, <1>10
  <2> QED
    BY <1>1, <1>8, <1>9, <1>10, <2>1
<1>12. 16 * y = S + r /\ r <= 2 * q
  <2>1. 256 * z = S + r
    OBVIOUS
  <2> HIDE DEF z, S
  <2> QED
    BY <1>1, <2>1
<1>13. TT <= y /\ y < T1
  <2> HIDE DEF S, TT, T1, aa, bb, y
  <2>1. aa = 16 * TT /\ bb = 16 * T1 /\ T1 \in Nat /\ TT \in Nat
    BY <1>5, <1>10 DEF T1
  <2> QED
    BY <1>1, <1>11, <1>12, <2>1
<1>14. more <=> TT < y
  <2>1. CASE l # 0
    <3>1. aa < S
      BY <1>6, <1>9, <2>1
    <3> HIDE DEF S, TT, aa, y
    <3> QED
      BY <1>1, <1>5, <1>10, <1>12, <2>1, <3>1
  <2>2. CASE l = 0
    <3>1. q % 2 # 1
      BY <1>3, <2>2
    <3>2. r # 0 <=> rem # 0
      BY <3>1 DEF LeftOver
    <3>3. aa = S
      <4>1. a = q
        BY <1>6, <2>2
      <4> QED
        BY <4>1
    <3> HIDE DEF S, TT, aa, y
    <3> QED
      BY <1>1, <1>5, <1>10, <1>12, <2>2, <3>2, <3>3
  <2> QED
    BY <2>1, <2>2
<1>15. IntegerRoot(T, more, M, R)
  BY <1>4, <1>13, <1>14 DEF IntegerRoot
<1> QED
  BY <1>2, <1>4, <1>15 DEF T, l, f, t

\* An answer that has the sign, the exponent and the digits of a root.
RootAnswer(a, x) ==
  /\ a.out.sign = FALSE
  /\ a.out.exponent = x.exponent \div 2
  /\ \E T \in Nat, more \in BOOLEAN :
       /\ IntegerRoot(T, more, 2^FracBits, RadicandOf(x))
       /\ DigitsOf(a.out, a.trailing, a.sticky, 2 * T + (IF more THEN 1 ELSE 0), 8 * 2^FracBits)

\* The operand of a root that has digits.
LEMMA RootOperand ==
  ASSUME OperandsArePosits, NormalRoot
  PROVE  exec.num1 \in Posits \ {0, NaR} /\ Radicand(TRUE, num1) = RadicandOf(num1)
<1>1. ~num1.isNaR /\ ~num1.isZero
  BY DEF NormalRoot, AnswerIsNaR
<1>2. num1.isNaR = (exec.num1 = NaR) /\ num1.isZero = (exec.num1 = 0)
  BY DEF num1, Extract
<1>3. exec.num1 # NaR /\ exec.num1 # 0
  BY <1>1, <1>2, Zenon
<1>4. exec.num1 \in Posits \ {0, NaR}
  BY <1>3 DEF OperandsArePosits
<1>5. Bit(num1.exponent, 0) = num1.exponent % 2
  <2> DEFINE e == num1.exponent
  <2>1. e \in Int
    BY <1>4, ExtractedExponent DEF num1
  <2> HIDE DEF e
  <2>2. Bit(e, 0) = e % 2
    BY <2>1, PowerZero DEF Bit
  <2> QED
    BY <2>2 DEF e
<1> QED
  BY <1>4, <1>5 DEF Radicand, RadicandOf

LEMMA RootAnswers ==
  ASSUME DigitsInv, FlagsInv, validOut, NormalRoot
  PROVE  RootAnswer(DivSqrtOut, num1)
<1> DEFINE M == 2^FracBits  x == num1  R == RadicandOf(num1)
           q == divSqrtFrac
           normReq == q < 16 * M
           f == q \div 16
           t == (q \div 4) % 4
           T == 4 * f + t
           exp == x.exponent \div 2
           sticky == q % 4 # 0 \/ remHi # 0
           out == [sign |-> signOut, exponent |-> Signed(divSqrtExp - 0, ExpBits),
                   fraction |-> f, isZero |-> isZeroOut, isNaR |-> isNaROut]
<1>1. /\ 2^(DivBits-1) = 16 * M /\ 2^(DivBits-HiddenBits) = 16 /\ 2^TrailingBits = 4
      /\ M \in Nat /\ M > 0
  <2>1. DivBits - 1 = FracBits + 4 /\ DivBits - HiddenBits = 4 /\ TrailingBits = 2
        /\ FracBits \in Nat /\ 4 \in Nat
    BY Widths DEF TrailingBits
  <2>2. 2^4 = 16 /\ 2^2 = 4
    OBVIOUS
  <2>3. 2^(FracBits+4) = 2^FracBits * 2^4
    BY <2>1, PowerSum
  <2>4. 2^FracBits \in Nat /\ 2^FracBits > 0
    BY <2>1, PowerPositive
  <2>5. 2^FracBits * 2^4 = 16 * M
    BY <2>2, <2>4
  <2>6. 2^(DivBits-1) = 16 * M
    BY <2>1, <2>3, <2>5
  <2>7. 2^(DivBits-HiddenBits) = 16 /\ 2^TrailingBits = 4
    BY <2>1, <2>2
  <2> QED
    BY <2>4, <2>6, <2>7
<1>2. exec.num1 \in Posits \ {0, NaR} /\ Radicand(TRUE, num1) = R
  BY RootOperand DEF DigitsInv
<1>3. x \in Unpacked /\ x.sign \in BOOLEAN /\ x.isZero \in BOOLEAN
  BY <1>2, NumberUnpacks DEF num1, Unpacked
<1>4. exp \in Int /\ Signed(exp - 0, ExpBits) = exp
  BY <1>2, HalfExponentFits DEF num1
<1>5. /\ isNaROut = FALSE /\ isZeroOut = FALSE
      /\ signOut = FALSE /\ divSqrtExp = exp
  <2>1. cycleCount > 0
    BY DEF validOut
  <2>2. ~AnswerIsNaR(subMode, num1, num2) /\ ~num1.isZero
    BY Zenon DEF NormalRoot, AnswerIsNaR
  <2>3. isNaROut = AnswerIsNaR(subMode, num1, num2) /\ isZeroOut = num1.isZero
        /\ signOut = FALSE /\ divSqrtExp = exp
    BY <2>1 DEF FlagsInv
  <2>4. AnswerIsNaR(subMode, num1, num2) \in BOOLEAN
    <3>1. subMode = TRUE
      BY DEF NormalRoot, subMode
    <3>2. x.isNaR \in BOOLEAN
      BY <1>3 DEF Unpacked
    <3> QED
      BY <3>1, <3>2, <1>3, Zenon DEF AnswerIsNaR
  <2>5. isNaROut = FALSE /\ isZeroOut = FALSE
    BY <1>3, <2>2, <2>3, <2>4, Zenon
  <2> QED
    BY <2>3, <2>5
<1>6. R \in M..(4*M-1)
  BY <1>2, RadicandRange DEF DigitsInv
<1>7. PICK r \in Nat : /\ Rooted(R * 2^(2*DivBits), q, r, 0) /\ LeftOver(q, r, remHi)
                       /\ q \in Nat /\ remHi \in Nat
  <2>1. cycleCount = 1 /\ cycleCount > 0
    BY DEF validOut
  <2>2. RootLoop(cycleCount, R, q, remHi, remLo)
    BY <1>2, <2>1 DEF DigitsInv, RootInv
  <2> HIDE DEF R
  <2> QED
    BY <2>1, <2>2 DEF RootLoop
<1>8. /\ 256 * (M * R) = q * q + r /\ r \in 0..(2*q) /\ 16 * M <= q /\ q < 32 * M
  <2> HIDE DEF R
  <2> QED
    BY <1>1, <1>6, <1>7, RootPlace
<1>9. f \in M..(2*M-1) /\ t \in 0..3 /\ IntegerRoot(T, sticky, M, R)
  <2> HIDE DEF R, M, q
  <2> QED
    BY <1>1, <1>6, <1>7, <1>8, RootFields
<1>10. ~normReq
  <2> HIDE DEF M
  <2> QED
    BY <1>1, <1>7, <1>8
<1> DEFINE A == DivSqrtOut
<1>11. /\ A.out = out /\ A.trailing = t /\ A.sticky = sticky
  <2>1. /\ 2^(DivBits-1) = 16 * M /\ 2^(DivBits-HiddenBits) = 16 /\ 2^TrailingBits = 4
    BY <1>1
  <2> HIDE DEF M
  <2>2. DivSqrtOut = [out |-> out, trailing |-> t, sticky |-> sticky]
    BY <1>10, <2>1, Zenon DEF DivSqrtOut, Low
  <2> HIDE DEF out, t, sticky
  <2> QED
    BY <2>2
<1> HIDE DEF A
<1>12. f \in Nat /\ t \in Nat /\ T \in Nat
  BY <1>1, <1>9
<1>13. out \in Unpacked /\ out.isNaR = FALSE /\ out.isZero = FALSE /\ out.fraction = f
       /\ out.sign = FALSE /\ out.exponent = exp
  <2> HIDE DEF f, exp
  <2> QED
    BY <1>4, <1>5, <1>12 DEF Unpacked
<1> DEFINE num == 2 * T + (IF sticky THEN 1 ELSE 0)  den == 8 * M
<1>14. sticky \in BOOLEAN
  BY DEF sticky
<1> HIDE DEF f, t, exp, sticky, M, normReq, out, R
<1>15. Normalized(out)
  BY <1>9, <1>13 DEF Normalized, M
<1> DEFINE rest == IF sticky THEN 4 * M ELSE 0
<1>16. num \in Nat /\ den \in Nat \ {0} /\ rest \in 0..(den - 1) /\ (sticky <=> rest # 0)
       /\ num * (4 * M) = T * den + rest
  <2> HIDE DEF T
  <2>1. CASE sticky
    <3>1. num = 2 * T + 1 /\ rest = 4 * M
      BY <2>1
    <3>2. (2 * T + 1) * (4 * M) = T * (8 * M) + 4 * M
      BY <1>1, <1>12
    <3> HIDE DEF num, rest
    <3> QED
      BY <1>1, <1>12, <2>1, <3>1, <3>2
  <2>2. CASE ~sticky
    <3>1. num = 2 * T /\ rest = 0
      BY <1>12, <2>2
    <3>2. (2 * T) * (4 * M) = T * (8 * M) + 0
      BY <1>1, <1>12
    <3> HIDE DEF num, rest
    <3> QED
      BY <1>1, <1>12, <2>2, <3>1, <3>2
  <2> QED
    BY <2>1, <2>2
<1> HIDE DEF rest, num, den
<1>17. DigitsOf(out, t, sticky, num, den)
  BY <1>9, <1>13, <1>14, <1>15, <1>16 DEF DigitsOf, M
<1>18. DigitsOf(A.out, A.trailing, A.sticky, num, den)
  BY <1>11, <1>17
<1>19. A.out.sign = FALSE /\ A.out.exponent = exp
  BY <1>11, <1>13, Zenon
<1>20. T \in Nat /\ sticky \in BOOLEAN /\ IntegerRoot(T, sticky, M, R)
  BY <1>9, <1>12, <1>14
<1> HIDE DEF T
<1> QED
  BY <1>18, <1>19, <1>20, Zenon DEF RootAnswer, A, num, den, exp, M, R

\* A root in the result register is the one of the operation shown with it.
RootShown ==
  Shows("sqrtdiv") /\ IsSqrt(resultOp) =>
    LET x == Extract(resultOp.num1)
        y == Extract(resultOp.num2)
        a == result.answer
    IN  /\ resultOp.num1 \in Posits
        /\ a.out.isNaR = AnswerIsNaR(TRUE, x, y) /\ a.out.isZero = x.isZero
        /\ ~AnswerIsNaR(TRUE, x, y) /\ ~x.isZero => RootAnswer(a, x)

LEMMA RootShownStep == DigitsInv /\ FlagsInv /\ RootShown /\ [Next]_vars => RootShown'
<1>1. ASSUME DigitsInv, FlagsInv, Next PROVE RootShown'
  <2>1. SUFFICES ASSUME Shows("sqrtdiv")', IsSqrt(resultOp)' PROVE RootShown'
    BY <2>1 DEF RootShown
  <2>2. /\ resultOp' = exec
        /\ result' = [answer |-> CoreAnswer, flags |-> Compare(exec.num1, exec.num2)]
        /\ resultValid' = newResultValid
    BY <1>1 DEF Next, Clock, Registers
  <2>3. newResultValid /\ exec.inst = "sqrtdiv" /\ subMode /\ subMode = TRUE
    BY <2>1, <2>2 DEF Shows, IsSqrt, subMode
  <2>4. validOut
    BY <1>1, <2>3 DEF newResultValid, Starts, DigitsInv, ControlInv, AnswerOnTheWay
  <2>5. CoreAnswer = DivSqrtOut
    BY <2>3 DEF CoreAnswer
  <2>6. result'.answer = DivSqrtOut
    BY <2>2, <2>5
  <2>7. exec.num1 \in Posits
    BY <1>1 DEF DigitsInv, OperandsArePosits
  <2>8. /\ DivSqrtOut.out.isNaR = AnswerIsNaR(TRUE, num1, num2)
        /\ DivSqrtOut.out.isZero = num1.isZero
    <3>1. cycleCount > 0
      BY <2>4 DEF validOut
    <3>2. isNaROut = AnswerIsNaR(subMode, num1, num2) /\ isZeroOut = num1.isZero
      BY <1>1, <3>1 DEF FlagsInv
    <3>3. DivSqrtOut.out.isNaR = isNaROut /\ DivSqrtOut.out.isZero = isZeroOut
      BY DEF DivSqrtOut
    <3>4. AnswerIsNaR(subMode, num1, num2) = AnswerIsNaR(TRUE, num1, num2)
      BY <2>3, Zenon
    <3> QED
      BY <3>2, <3>3, <3>4, Zenon
  <2>9. ~AnswerIsNaR(TRUE, num1, num2) /\ ~num1.isZero => RootAnswer(DivSqrtOut, num1)
    BY <1>1, <2>3, <2>4, RootAnswers DEF NormalRoot
  <2>10. Posits' = Posits
    BY DEF Posits
  <2> QED
    BY <2>2, <2>6, <2>7, <2>8, <2>9, <2>10, Zenon DEF RootShown, num1, num2
<1>2. ASSUME RootShown, UNCHANGED vars PROVE RootShown'
  <2>1. resultOp' = resultOp /\ result' = result /\ resultValid' = resultValid
    BY <1>2 DEF vars, elementVars
  <2>2. Posits' = Posits
    BY DEF Posits
  <2> QED
    BY <1>2, <2>1, <2>2, Zenon DEF RootShown, Shows, IsSqrt
<1> QED
  BY <1>1, <1>2

LEMMA RootsShown == Spec => []RootShown
<1>1. Init => RootShown
  BY DEF Init, RootShown, Shows
<1> QED
  BY <1>1, DigitsInvariant, FlagsInvariant, RootShownStep, PTL DEF Spec

\* An answer with the digits of a root, packed.
LEMMA RootRounds ==
  ASSUME NEW p \in Posits \ {0, NaR}, Extract(p).sign = FALSE, NEW a, RootAnswer(a, Extract(p))
  PROVE  RootRoundsTo(Generate(a.out, a.trailing, a.sticky), NBits, ES, Value(p, NBits, ES))
<1> DEFINE x == Extract(p)  e2 == x.exponent \div 2  M == 2^FracBits
           g == Generate(a.out, a.trailing, a.sticky)
           no == FALSE
<1>1. PICK T \in Nat, more \in BOOLEAN :
        /\ IntegerRoot(T, more, M, RadicandOf(x))
        /\ DigitsOf(a.out, a.trailing, a.sticky, 2 * T + (IF more THEN 1 ELSE 0), 8 * M)
  BY DEF RootAnswer
<1>2. a.out.sign = no /\ a.out.exponent = e2 /\ no \in BOOLEAN
  BY DEF RootAnswer
<1>3. e2 \in Int
  BY HalfExponentFits
<1> DEFINE num == 2 * T + (IF more THEN 1 ELSE 0)  den == 8 * M
<1> HIDE DEF no, num, den, e2
<1>4. RoundsRatio(IF no THEN Opposite(g, NBits) ELSE g, NBits, ES, e2, num, den)
  BY <1>1, <1>2, <1>3, AnswerRounds DEF num, den
<1>5. RoundsRatio(g, NBits, ES, e2, num, den)
  BY <1>4 DEF no
<1> QED
  BY <1>1, <1>5, RootMeetsValues DEF num, den, e2

\* The half of QuotientsAndRootsRounded that is about roots.
RootsRounded ==
  Shows("sqrtdiv") /\ IsSqrt(resultOp) =>
    LET x == resultOp.num1
    IN  IF x >= NaR THEN Output = NaR ELSE RootRoundsTo(Output, NBits, ES, Val(x))

LEMMA RootValues ==
  ASSUME RootShown
  PROVE  RootsRounded
<1>1. SUFFICES ASSUME Shows("sqrtdiv"), IsSqrt(resultOp)
               PROVE  LET x == resultOp.num1
                      IN  IF x >= NaR THEN Output = NaR ELSE RootRoundsTo(Output, NBits, ES, Val(x))
  BY <1>1, Zenon DEF RootsRounded
<1> DEFINE p == resultOp.num1  q == resultOp.num2  x == Extract(p)  y == Extract(q)
           a == result.answer  g == Generate(a.out, a.trailing, a.sticky)
<1>2. /\ p \in Posits
      /\ a.out.isNaR = AnswerIsNaR(TRUE, x, y) /\ a.out.isZero = x.isZero
      /\ ~AnswerIsNaR(TRUE, x, y) /\ ~x.isZero => RootAnswer(a, x)
  BY <1>1, Zenon DEF RootShown
<1>3. Output = g
  BY DEF Output
<1>4. x.isNaR = (p = NaR) /\ x.isZero = (p = 0) /\ x.sign = (p >= NaR)
  BY DEF Extract
<1>5. NaR \in Nat /\ NaR > 1 /\ p \in Int
  BY <1>2, Halves
<1>6. AnswerIsNaR(TRUE, x, y) <=> p >= NaR
  <2>1. AnswerIsNaR(TRUE, x, y) <=> p >= NaR \/ p = NaR
    BY <1>4, Zenon DEF AnswerIsNaR
  <2> HIDE DEF p
  <2>2. p = NaR => p >= NaR
    BY <1>5
  <2> QED
    BY <2>1, <2>2, Zenon
<1> HIDE DEF p, q, a
<1>7. CASE p >= NaR
  <2>1. a.out.isNaR
    BY <1>2, <1>6, <1>7, Zenon
  <2>2. g = NaR
    BY <2>1 DEF Generate
  <2> QED
    BY <1>3, <1>7, <2>2, Zenon DEF p
<1>8. CASE ~(p >= NaR) /\ p = 0
  <2>1. ~a.out.isNaR /\ a.out.isZero
    BY <1>2, <1>4, <1>6, <1>8, Zenon
  <2>2. g = 0
    BY <2>1 DEF Generate
  <2>3. Value(p, NBits, ES)[1] = 0
    BY <1>8 DEF Value
  <2>4. RootRoundsTo(g, NBits, ES, Value(p, NBits, ES))
    BY <2>2, <2>3, Zenon DEF RootRoundsTo
  <2> QED
    BY <1>3, <1>8, <2>4, Zenon DEF p, Val
<1>9. CASE ~(p >= NaR) /\ p # 0
  <2>1. RootAnswer(a, x)
    BY <1>2, <1>4, <1>6, <1>9, Zenon
  <2>2. p \in Posits \ {0, NaR} /\ p # NaR
    BY <1>2, <1>5, <1>9
  <2>3. x.sign = FALSE
    <3>1. (p >= NaR) \in BOOLEAN
      BY <1>5
    <3> QED
      BY <1>4, <1>9, <3>1, Zenon
  <2>4. RootRoundsTo(g, NBits, ES, Value(p, NBits, ES))
    BY <2>1, <2>2, <2>3, RootRounds
  <2> HIDE DEF g
  <2> QED
    BY <1>3, <1>9, <2>4, Zenon DEF p, Val
<1> QED
  BY <1>7, <1>8, <1>9

\* A quotient or a root in the result register is NaR where the program says so, and the
\* posit nearest to the exact quotient or root of its operands as numbers otherwise
\* (PositDivSqrt.scala L36-122, PositGenerator.scala L24-57): in every format, for all
\* operands, whatever the registers that are never reset power up with and whatever
\* the core did before.
THEOREM QuotientsAndRootsAreNearestValues == Spec => []QuotientsAndRootsRounded
<1>1. DivisionShown /\ QuotientsAreNearest /\ RootShown => QuotientsAndRootsRounded
  <2>1. SUFFICES ASSUME DivisionsRounded, RootsRounded, Shows("sqrtdiv")
                 PROVE  QuotientsAndRootsRounded
    BY <2>1, DivisionValues, RootValues, Zenon DEF QuotientsAndRootsRounded
  <2>2. CASE IsSqrt(resultOp)
    BY <2>1, <2>2, Zenon DEF RootsRounded, QuotientsAndRootsRounded
  <2>3. CASE ~IsSqrt(resultOp)
    BY <2>1, <2>3, Zenon DEF DivisionsRounded, QuotientsAndRootsRounded
  <2> QED
    BY <2>2, <2>3
<1> QED
  BY <1>1, DivisionsShown, QuotientsAreRounded, RootsShown, PTL

-----------------------------------------------------------------------------
(* Sums: the answer of PositAddCore has the digits of the sum of the        *)
(* aligned fractions.                                                      *)

LEMMA AdderWidth ==
  LET w == AdderBits - 1
      M == 2^FracBits
  IN  /\ w \in Nat /\ w >= 5 /\ w = FracBits + 4 /\ M \in Nat /\ M > 0
      /\ 2^w = 16 * M /\ 2^(w-1) = 8 * M /\ 2^3 = 8 /\ 2^TrailingBits = 4
<1> DEFINE w == AdderBits - 1  M == 2^FracBits
<1>1. FracBits \in Nat /\ FracBits >= 1 /\ w = FracBits + 4 /\ w \in Nat /\ w - 1 = FracBits + 3
      /\ TrailingBits = 2
  BY CoreWidths, FormatAssumption DEF FracBits, TrailingBits
<1>2. M \in Nat /\ M > 0
  BY <1>1, PowerPositive
<1>3. /\ 2^(FracBits+1) = 2 * M /\ 2^((FracBits+1)+1) = 2 * 2^(FracBits+1)
      /\ 2^((FracBits+2)+1) = 2 * 2^(FracBits+2) /\ 2^((FracBits+3)+1) = 2 * 2^(FracBits+3)
  BY <1>1, PowerNext
<1>4. (FracBits+1)+1 = FracBits+2 /\ (FracBits+2)+1 = FracBits+3 /\ (FracBits+3)+1 = FracBits+4
  BY <1>1
<1>5. 2^(FracBits+4) = 16 * M /\ 2^(FracBits+3) = 8 * M
  BY <1>2, <1>3, <1>4
<1>6. 2^3 = 8
  OBVIOUS
<1>7. 2^2 = 4
  OBVIOUS
<1>8. 2^w = 16 * M /\ 2^(w-1) = 8 * M /\ 2^TrailingBits = 4
  BY <1>1, <1>5, <1>7
<1> QED
  BY <1>1, <1>2, <1>6, <1>8

\* The fields of the normalised sum.
LEMMA SumFields ==
  ASSUME NEW M \in Nat, M > 0, NEW norm \in (8*M)..(16*M-1)
  PROVE  LET f == norm \div 2^3
             t == Low(norm \div 2, TrailingBits)
         IN  /\ f \in M..(2*M-1) /\ t \in 0..3 /\ norm % 2 \in {0, 1}
             /\ norm = 2 * (4 * f + t) + (norm % 2)
<1> DEFINE f == norm \div 2^3  t == Low(norm \div 2, TrailingBits)  K == 2
<1>1. 2^3 = 4 * K /\ 2^TrailingBits = 4
  <2>1. 4 * 2 = 8
    OBVIOUS
  <2> QED
    BY <2>1, AdderWidth
<1>2. f = norm \div (4 * K) /\ t = (norm \div K) % 4
  BY <1>1 DEF Low
<1>3. norm \in Nat /\ K \in Nat /\ K > 0
  OBVIOUS
<1> HIDE DEF K
<1>4. /\ norm = (4 * (norm \div (4 * K)) + ((norm \div K) % 4)) * K + (norm % K)
      /\ norm \div (4 * K) \in Nat /\ (norm \div K) % 4 \in 0..3 /\ norm % K \in 0..(K-1)
  BY <1>3, ThreeFields, Zenon
<1> HIDE DEF f, t
<1> DEFINE w == norm % K
<1>5. norm = (4 * f + t) * K + w /\ f \in Nat /\ t \in 0..3 /\ w \in 0..(K-1)
  BY <1>2, <1>4
<1> HIDE DEF w
<1>6. norm = 2 * (4 * f + t) + w /\ f \in M..(2*M-1) /\ w \in {0, 1}
  BY <1>5 DEF K
<1> QED
  BY <1>5, <1>6 DEF f, t, w, K

\* The sum of the aligned fractions, and where its leading one is.
SumOf(r) == IF r.isAddition THEN r.largeFrac + r.smallFrac ELSE r.largeFrac - r.smallFrac

SumPlace(N, le, E, num, den) ==
  LET M == 2^FracBits
  IN  /\ E \in Int /\ num \in Nat /\ den \in Nat \ {0} /\ den <= num /\ num < 2 * den
      /\ \/ N >= 16 * M /\ num = N /\ den = 16 * M /\ E = le + 1
         \/ N < 16 * M /\ \E k \in Nat : num = N * 2^k /\ den = 8 * M /\ E = le - k

\* Two operands that AddAlign has aligned.
Aligned(r, x, y) ==
  LET M == 2^FracBits
      bound == (NBits - 1) * 2^ES
  IN  /\ r \in AddRegType /\ x \in Unpacked /\ y \in Unpacked
      /\ ~(x.isZero /\ y.isZero) /\ ~x.isNaR /\ ~y.isNaR
      /\ 8 * M <= r.largeFrac /\ r.smallFrac <= r.largeFrac
      /\ -bound <= r.largeExp /\ r.largeExp <= bound

LEMMA SumExponent ==
  ASSUME NEW e \in Int, -((NBits - 1) * 2^ES) <= e, e <= (NBits - 1) * 2^ES,
         NEW k \in Int, -1 <= k, k <= FracBits + 3
  PROVE  Signed(e - k, ExpBits) = e - k
<1> DEFINE b == 2^ES  n == NBits - 1  bound == n * b
<1>1. NBits \in Nat /\ NBits >= 4 /\ b \in Nat /\ b > 0 /\ ES \in Nat /\ FracBits + 3 = NBits - ES
  BY FormatPowers
<1>2. n \in Nat /\ FracBits + 3 <= n + 1
  BY <1>1
<1>3. bound \in Nat /\ bound >= n
  <2> HIDE DEF n, b
  <2>1. n * b \in Nat /\ 1 * n <= b * n /\ b * n = n * b
    BY <1>1, <1>2
  <2> QED
    BY <1>2, <2>1
<1>4. -(2 * bound + 1) <= e - k /\ e - k <= 2 * bound + 1 /\ e - k \in Int
  <2>1. -bound <= e /\ e <= bound
    OBVIOUS
  <2> HIDE DEF bound, n
  <2> QED
    BY <1>1, <1>2, <1>3, <2>1
<1> QED
  BY <1>4, ExponentRoom

\* The logarithm is the least power that reaches the number.
LEMMA Log2CeilIs ==
  ASSUME NEW w \in Nat
  PROVE  LET b == Log2Ceil(w)
         IN  b \in 0..w /\ 2^b >= w /\ (b = 0 \/ 2^(b-1) < w)
<1>1. \E i \in 0..w : 2^i >= w /\ (i = 0 \/ 2^(i-1) < w)
  <2> DEFINE S == {i \in Nat : 2^i >= w}
  <2>1. w \in S
    BY PowerAbove
  <2>2. PICK i \in S : \A l \in S : i <= l
    BY <2>1, LeastMember
  <2>3. i \in 0..w /\ 2^i >= w
    BY <2>1, <2>2
  <2>4. i = 0 \/ 2^(i-1) < w
    <3>1. CASE i # 0
      <4> DEFINE l == i - 1
      <4>1. l \in Nat /\ ~(i <= l)
        BY <2>3, <3>1
      <4>2. l \notin S
        BY <2>2, <4>1
      <4>3. ~(2^l >= w) /\ 2^l \in Nat
        BY <4>1, <4>2, PowerPositive
      <4> QED
        BY <4>3
    <3> QED
      BY <3>1
  <2> QED
    BY <2>3, <2>4
<1> QED
  BY <1>1 DEF Log2Ceil

\* The shift that normalises has room in its encoding for the places below its range.
LEMMA ShiftFits ==
  ASSUME NEW w \in Nat, w >= 2, NEW k \in Nat, k < ShiftRange(w)
  PROVE  Signed(k, NormBits(w)) = k
<1> DEFINE b == NormBits(w)
<1>1. b \in Nat
  BY Log2CeilIsNat DEF NormBits
<1>2. b # 0
  <2>1. 2^b >= w
    BY Log2CeilIs DEF NormBits
  <2>2. b = 0 => 2^b = 1
    BY PowerZero
  <2> HIDE DEF b
  <2> QED
    BY <2>1, <2>2
<1>3. b > 0
  BY <1>1, <1>2
<1> DEFINE h == 2^(b-1)
<1>4. h \in Nat /\ h > 0 /\ k < h
  <2>1. b - 1 \in Nat
    BY <1>1, <1>3
  <2>2. k < 2^(b-1)
    BY DEF ShiftRange
  <2> QED
    BY <2>1, <2>2, PowerPositive
<1>5. k \in Int /\ -h <= k /\ k < h
  <2> HIDE DEF h
  <2> QED
    BY <1>4
<1> HIDE DEF b
<1>6. Signed(k, b) = k
  BY <1>1, <1>3, <1>5, SignedOfSmall
<1> QED
  BY <1>6 DEF b

LEMMA NormalisedSum ==
  LET w == AdderBits - 1
      M == 2^FracBits
  IN  \A x \in 1..(2^w - 1) :
        \E k \in 0..(FracBits + 3) :
          /\ LeadingZeros(x, w) = k
          /\ Low(x * 2^k, w) = x * 2^k /\ x * 2^k \in (8*M)..(16*M-1)
          /\ 8 * M <= x => k = 0
          /\ 8 * M <= x \/ x >= 2^(w - ShiftRange(w)) => NormShift(x, w) = k
<1> DEFINE w == AdderBits - 1  M == 2^FracBits
<1>1. /\ w \in Nat /\ w >= 5 /\ w = FracBits + 4 /\ M \in Nat /\ M > 0
      /\ 2^w = 16 * M /\ 2^(w-1) = 8 * M /\ FracBits \in Nat
  BY AdderWidth, FormatPowers
<1> HIDE DEF w
<1>2. SUFFICES ASSUME NEW x \in 1..(2^w - 1)
               PROVE  \E k \in 0..(FracBits + 3) :
                        /\ LeadingZeros(x, w) = k
                        /\ Low(x * 2^k, w) = x * 2^k /\ x * 2^k \in (8*M)..(16*M-1)
                        /\ 8 * M <= x => k = 0
                        /\ 8 * M <= x \/ x >= 2^(w - ShiftRange(w)) => NormShift(x, w) = k
  BY <1>2 DEF w
<1>3. PICK k \in 0..(w-1) : /\ LeadingZeros(x, w) = k
                            /\ 2^(w-1-k) <= x /\ x < 2 * 2^(w-1-k)
  BY <1>1, LeadingOne
<1>4. k \in Nat /\ k \in 0..(FracBits + 3) /\ w - 1 - k \in Nat /\ x \in Nat /\ x > 0
      /\ (w - 1 - k) + k = w - 1 /\ (w - 1 - k) + 1 = w - k /\ w - k \in Nat
  BY <1>1, <1>3
<1> DEFINE P == 2^(w-1-k)  K == 2^k
<1>5. P \in Nat /\ K \in Nat /\ K > 0 /\ P * K = 8 * M /\ 2^(w-k) = 2 * P
  <2>1. 2^((w-1-k)+k) = P * K /\ 2^((w-1-k)+1) = 2 * P
    BY <1>4, PowerSum, PowerNext
  <2> QED
    BY <1>1, <1>4, <2>1, PowerPositive
<1>6. x * K \in (8*M)..(16*M-1)
  <2> HIDE DEF P, K
  <2>1. P <= x /\ x < 2 * P
    BY <1>3 DEF P
  <2>2. P * K <= x * K /\ x * K < (2 * P) * K /\ (2 * P) * K = 2 * (P * K) /\ x * K \in Int
    BY <1>4, <1>5, <2>1
  <2> QED
    BY <1>1, <1>5, <2>2
<1>7. Low(x * K, w) = x * K
  <2> DEFINE z == x * K
  <2>1. z \in 0..(2^w - 1)
    BY <1>1, <1>6
  <2> HIDE DEF z
  <2>2. Low(z, w) = z
    BY <1>1, <2>1, LowOfSmall
  <2> QED
    BY <2>2 DEF z
<1>8. 8 * M <= x => k = 0
  <2> SUFFICES ASSUME 8 * M <= x, k # 0 PROVE FALSE
    OBVIOUS
  <2> DEFINE i == k - 1
  <2>1. i \in Nat /\ i + 1 = k
    BY <1>4
  <2>2. 2^(i+1) = 2 * 2^i /\ 2^i \in Nat /\ 2^i > 0
    BY <2>1, PowerNext, PowerPositive
  <2>3. K >= 2
    <3> HIDE DEF i
    <3> QED
      BY <2>1, <2>2
  <2> HIDE DEF K
  <2>4. x * 2 <= x * K /\ x * K \in Int
    BY <1>4, <1>5, <2>3
  <2> QED
    BY <1>1, <1>4, <1>6, <2>4
<1>9. ASSUME 8 * M <= x \/ x >= 2^(w - ShiftRange(w)) PROVE NormShift(x, w) = k
  <2> DEFINE R == ShiftRange(w)
  <2>1. R \in Nat /\ R > 0 /\ R <= w
    <3> DEFINE b == Log2Ceil(w)
    <3>1. b \in 0..w /\ 2^b >= w /\ (b = 0 \/ 2^(b-1) < w)
      BY <1>1, Log2CeilIs
    <3>2. b # 0
      <4>1. b = 0 => 2^b = 1
        BY PowerZero
      <4> HIDE DEF b
      <4> QED
        BY <1>1, <3>1, <4>1
    <3> HIDE DEF b
    <3>3. b - 1 \in Nat /\ 2^(b-1) < w
      BY <1>1, <3>1, <3>2
    <3>4. 2^(b-1) \in Nat /\ 2^(b-1) > 0
      BY <3>3, PowerPositive
    <3>5. R = 2^(b-1)
      BY DEF ShiftRange, NormBits, b
    <3> HIDE DEF R
    <3> QED
      BY <1>1, <3>3, <3>4, <3>5
  <2>2. k < R
    <3>1. CASE 8 * M <= x
      <4> HIDE DEF R
      <4> QED
        BY <1>8, <2>1, <3>1
    <3>2. CASE x >= 2^(w-R)
      <4> SUFFICES ASSUME R <= k PROVE FALSE
        <5> HIDE DEF R
        <5> QED
          BY <1>4, <2>1
      <4>1. w - k <= w - R /\ w - R \in Nat
        <5> HIDE DEF R
        <5> QED
          BY <1>1, <1>4, <2>1
      <4>2. 2^(w-k) <= 2^(w-R) /\ 2^(w-R) \in Nat
        <5> HIDE DEF R
        <5> QED
          BY <1>4, <4>1, PowerMonotone, PowerPositive
      <4> DEFINE a == 2^(w-R)
      <4>3. a \in Nat /\ 2 * P <= a /\ x >= a /\ x < 2 * P
        BY <1>3, <1>5, <3>2, <4>2
      <4> HIDE DEF a, P
      <4> QED
        BY <1>4, <1>5, <4>3
    <3> QED
      BY <1>9, <3>1, <3>2
  <2>3. Signed(k, NormBits(w)) = k
    BY <1>1, <1>4, <2>2, ShiftFits
  <2> QED
    BY <1>3, <2>3 DEF NormShift
<1>10. LeadingZeros(x, w) = k
  BY <1>3
<1> QED
  BY <1>4, <1>6, <1>7, <1>8, <1>9, <1>10

\* The adder's fraction is the sum of the aligned ones, without its carry.
LEMMA AddedFraction ==
  ASSUME NEW r \in AddRegType, r.smallFrac <= r.largeFrac
  PROVE  LET w      == AdderBits - 1
             addend == IF r.isAddition THEN r.smallFrac ELSE Negated(r.smallFrac, w)
             sum    == r.largeFrac + addend
             N      == SumOf(r)
         IN  /\ N \in Nat /\ sum \in Nat /\ r.isAddition \in BOOLEAN
             /\ N < 2 * 2^w
             /\ r.isAddition => sum = N
             /\ ~r.isAddition => Low(sum, w) = N /\ N < 2^w /\ (N = 0 <=> r.smallFrac = r.largeFrac)
             /\ ~r.isAddition /\ N > 0 => sum # 0
<1> DEFINE w == AdderBits - 1  m == 2^w  a == r.largeFrac  b == r.smallFrac
           addend == IF r.isAddition THEN b ELSE Negated(b, w)  sum == a + addend  N == SumOf(r)
<1>1. w \in Nat /\ m \in Nat /\ m > 0 /\ a \in 0..(m-1) /\ b \in 0..(m-1) /\ b <= a
      /\ r.isAddition \in BOOLEAN
  BY AdderWidth, PowerPositive DEF AddRegType, AddBound
<1>2. N = IF r.isAddition THEN a + b ELSE a - b
  BY DEF SumOf
<1>3. Negated(b, w) = IF b = 0 THEN 0 ELSE m - b
  <2>1. Negated(b, w) = (m - b) % m
    BY DEF Negated, Low
  <2> HIDE DEF m, b
  <2>2. CASE b = 0
    <3>1. m - b = m /\ m % m = 0
      BY <1>1, <2>2
    <3> QED
      BY <2>1, <2>2, <3>1
  <2>3. CASE b # 0
    <3>1. (m - b) % m = m - b
      BY <1>1, <2>3
    <3> QED
      BY <2>1, <2>3, <3>1
  <2> QED
    BY <2>2, <2>3
<1>4. Low(sum, w) = sum % m
  BY DEF Low
<1> DEFINE neg == Negated(b, w)  add == r.isAddition
<1>5. sum = a + (IF add THEN b ELSE neg)
  OBVIOUS
<1> HIDE DEF m, a, b, sum, N, neg, add
<1>6. CASE add
  <2>1. sum = a + b /\ N = a + b
    BY <1>2, <1>5, <1>6 DEF add
  <2>2. N \in Nat /\ sum \in Nat /\ N < 2 * m /\ sum = N
    BY <1>1, <2>1
  <2> QED
    BY <1>6, <2>2 DEF add, m, N, sum, a, b, neg
<1>7. CASE ~add
  <2>1. sum = a + neg /\ N = a - b
    BY <1>2, <1>5, <1>7 DEF add
  <2>2. neg = IF b = 0 THEN 0 ELSE m - b
    BY <1>3 DEF neg
  <2>3. N \in Nat /\ N < m /\ (N = 0 <=> b = a) /\ sum \in Nat
    BY <1>1, <2>1, <2>2
  <2>4. sum % m = N
    <3>1. CASE b = 0
      <4>1. sum = a /\ a % m = a
        BY <1>1, <2>1, <2>2, <3>1
      <4> QED
        BY <1>1, <2>1, <3>1, <4>1
    <3>2. CASE b # 0
      <4>1. sum = 1 * m + (a - b) /\ a - b \in 0..(m-1)
        BY <1>1, <2>1, <2>2, <3>2
      <4> DEFINE s == a - b  t == 1
      <4>2. sum = t * m + s /\ s \in 0..(m-1) /\ t \in Int
        BY <4>1
      <4> HIDE DEF s, t
      <4>3. (t * m + s) % m = s
        BY <1>1, <4>2, DivIs
      <4> QED
        BY <2>1, <4>2, <4>3 DEF s
    <3> QED
      BY <3>1, <3>2
  <2>5. N > 0 => sum # 0
    <3>1. CASE sum = 0
      <4>1. 0 % m = 0
        BY <1>1
      <4>2. N = 0
        BY <2>4, <3>1, <4>1
      <4> QED
        BY <4>2
    <3> QED
      BY <3>1
  <2>6. Low(sum, w) = N /\ N < 2 * m
    BY <1>1, <1>4, <2>3, <2>4
  <2>7. N \in Nat /\ sum \in Nat /\ N < 2 * m
    BY <2>3, <2>6
  <2>8. Low(sum, w) = N /\ N < m /\ (N = 0 <=> b = a)
    BY <2>3, <2>6
  <2>9. ~r.isAddition
    BY <1>7 DEF add
  <2>10. N > 0 => sum # 0
    BY <2>5
  <2>11. r.isAddition \in BOOLEAN
    BY <1>1 DEF add
  <2> QED
    BY <2>7, <2>8, <2>9, <2>10, <2>11, Zenon DEF m, N, sum, a, b
<1> QED
  BY <1>6, <1>7

LEMMA AddedDigits ==
  ASSUME NEW r, NEW x, NEW y, Aligned(r, x, y), SumOf(r) > 0,
         r.isAddition \/ SumOf(r) >= 2^((AdderBits-1) - ShiftRange(AdderBits-1))
  PROVE  LET a == AddFinish(r, x, y)
         IN  \E E, num, den :
               /\ DigitsOf(a.out, a.trailing, a.sticky, num, den)
               /\ a.out.exponent = E /\ a.out.sign = r.largeSign
               /\ SumPlace(SumOf(r), r.largeExp, E, num, den)
<1> DEFINE w        == AdderBits - 1
           M        == 2^FracBits
           N        == SumOf(r)
           addend   == IF r.isAddition THEN r.smallFrac ELSE Negated(r.smallFrac, w)
           sum      == r.largeFrac + addend
           overflow == r.isAddition /\ sum >= 2^w
           frac     == IF overflow THEN sum \div 2 ELSE Low(sum, w)
           exp      == r.largeExp + IF overflow THEN 1 ELSE 0
           norm     == Low(frac * 2^LeadingZeros(frac, w), w)
           shift    == NormShift(frac, w)
           fraction == norm \div 2^3
           trailing == Low(norm \div 2, TrailingBits)
           sticky   == (overflow /\ sum % 2 = 1) \/ norm % 2 = 1
           zero     == (x.isZero /\ y.isZero) \/ sum = 0
           out      == [sign     |-> r.largeSign,
                        exponent |-> Signed(exp - shift, ExpBits),
                        fraction |-> fraction,
                        isZero   |-> zero,
                        isNaR    |-> x.isNaR \/ y.isNaR]
           a        == AddFinish(r, x, y)
           bound    == (NBits - 1) * 2^ES
<1>1. /\ w \in Nat /\ w >= 5 /\ M \in Nat /\ M > 0 /\ 2^w = 16 * M /\ FracBits \in Nat
      /\ w = FracBits + 4
  BY AdderWidth, FormatPowers
<1>2. /\ r \in AddRegType /\ x \in Unpacked /\ y \in Unpacked
      /\ ~(x.isZero /\ y.isZero) /\ ~x.isNaR /\ ~y.isNaR
      /\ 8 * M <= r.largeFrac /\ r.smallFrac <= r.largeFrac
      /\ -bound <= r.largeExp /\ r.largeExp <= bound
  BY DEF Aligned
<1>3. /\ r.largeSign \in BOOLEAN /\ r.largeExp \in Int /\ r.isAddition \in BOOLEAN
      /\ r.largeFrac \in Nat /\ r.smallFrac \in Nat /\ AddBound \in Nat
      /\ r.largeFrac \in 0..AddBound /\ r.smallFrac \in 0..AddBound
  BY <1>2, AdderRoom DEF AddRegType
<1>4. /\ N \in Nat /\ N > 0 /\ sum \in Nat /\ N < 2 * 2^w
      /\ r.isAddition => sum = N
      /\ ~r.isAddition => Low(sum, w) = N /\ N < 2^w /\ sum # 0
  BY <1>2, AddedFraction
<1>5. a = Answer(out, trailing, sticky)
  BY Zenon DEF AddFinish
<1>6. a.out = out /\ a.trailing = trailing /\ a.sticky = sticky
  BY <1>5 DEF Answer
<1> HIDE DEF a
<1>7. r.isAddition => N >= 8 * M
  <2>1. r.isAddition => N = r.largeFrac + r.smallFrac
    BY DEF SumOf
  <2> HIDE DEF N, M
  <2> QED
    BY <1>1, <1>2, <1>3, <2>1
<1>8. ~zero
  <2>1. sum # 0
    BY <1>4
  <2> HIDE DEF sum
  <2> QED
    BY <1>2, <2>1
<1>9. \E k, c, rest, num, den :
        /\ k \in -1..(FracBits+3) /\ c \in {2, 4} /\ rest \in 0..(c-1)
        /\ norm \in (8*M)..(16*M-1) /\ exp - shift = r.largeExp - k
        /\ num = c * (4 * fraction + trailing) + rest
        /\ den = c * (4 * M)
        /\ sticky <=> rest # 0
        /\ SumPlace(N, r.largeExp, r.largeExp - k, num, den)
  <2>1. CASE overflow
    <3>1. sum = N /\ N >= 16 * M /\ N < 32 * M /\ frac = sum \div 2 /\ exp = r.largeExp + 1
      BY <1>1, <1>4, <2>1
    <3>2. frac \in (8*M)..(16*M-1) /\ N = 2 * frac + (N % 2) /\ N % 2 \in {0, 1} /\ sum % 2 = N % 2
      <4>1. frac = N \div 2
        BY <3>1
      <4> HIDE DEF N, frac, sum, M
      <4> QED
        BY <1>1, <1>4, <3>1, <4>1
    <3> HIDE DEF frac
    <3>3. LeadingZeros(frac, w) = 0 /\ norm = frac /\ shift = 0
      <4>1. frac \in 1..(2^w - 1) /\ 8 * M <= frac
        BY <1>1, <3>2
      <4>2. PICK k \in 0..(FracBits + 3) :
              /\ LeadingZeros(frac, w) = k
              /\ Low(frac * 2^k, w) = frac * 2^k
              /\ 8 * M <= frac => k = 0
              /\ 8 * M <= frac \/ frac >= 2^(w - ShiftRange(w)) => NormShift(frac, w) = k
        BY <4>1, NormalisedSum
      <4>3. k = 0 /\ 2^k = 1
        BY <4>1, <4>2, PowerZero
      <4>4. frac * 1 = frac
        BY <3>2
      <4>5. norm = frac
        BY <4>2, <4>3, <4>4
      <4> QED
        BY <4>1, <4>2, <4>3, <4>5
    <3> DEFINE k == -1  c == 4  T == 4 * fraction + trailing  i == norm % 2  rest == 2 * i + (N % 2)
               num == c * T + rest  den == c * (4 * M)
    <3>4. norm \in (8*M)..(16*M-1)
      BY <3>2, <3>3
    <3>5. i \in {0, 1} /\ norm = 2 * T + i /\ fraction \in M..(2*M-1) /\ trailing \in 0..3
      <4> HIDE DEF norm, M
      <4> QED
        BY <1>1, <3>4, SumFields
    <3>6. rest \in 0..(c-1) /\ num = N /\ den = 16 * M /\ (rest # 0 <=> N % 2 = 1 \/ i = 1)
      <4>1. N = 2 * norm + (N % 2) /\ N % 2 \in {0, 1}
        BY <3>2, <3>3
      <4>2. T \in Int
        BY <1>1, <3>5
      <4> DEFINE h == N % 2
      <4> HIDE DEF norm, fraction, trailing, N, i, M, T, h
      <4>3. N = 2 * norm + h /\ h \in {0, 1} /\ rest = 2 * i + h
        BY <4>1 DEF h
      <4> QED
        BY <1>1, <3>5, <4>2, <4>3 DEF h
    <3>7. sticky <=> rest # 0
      <4>1. sticky <=> N % 2 = 1 \/ i = 1
        <5>1. sum % 2 = N % 2
          BY <3>2
        <5> QED
          BY <2>1, <5>1
      <4> QED
        BY <3>6, <4>1
    <3>8. exp - shift = r.largeExp - k /\ r.largeExp - k = r.largeExp + 1
      BY <1>3, <3>1, <3>3
    <3>9. SumPlace(N, r.largeExp, r.largeExp - k, num, den)
      <4>1. 16 * M \in Nat \ {0} /\ r.largeExp - k \in Int
        BY <1>1, <1>3
      <4> HIDE DEF N, M, num, den, k
      <4> QED
        BY <1>1, <1>3, <1>4, <3>1, <3>6, <3>8, <4>1 DEF SumPlace, M
    <3>10. k \in -1..(FracBits+3) /\ c \in {2, 4}
      BY <1>1
    <3> HIDE DEF N, norm, fraction, trailing, sticky, exp, shift, k, c, rest, num, den
    <3> QED
      BY <3>4, <3>6, <3>7, <3>8, <3>9, <3>10 DEF num, den, T
  <2>2. CASE ~overflow
    <3>1. frac = N /\ N < 16 * M /\ exp = r.largeExp
      <4>1. frac = Low(sum, w) /\ exp = r.largeExp
        <5>1. r.largeExp + 0 = r.largeExp
          BY <1>3
        <5> QED
          BY <2>2, <5>1
      <4>2. CASE r.isAddition
        <5>1. sum = N /\ ~(sum >= 2^w)
          BY <1>4, <2>2, <4>2
        <5>2. N \in 0..(2^w - 1)
          <6> HIDE DEF N, sum
          <6> QED
            BY <1>1, <1>4, <5>1
        <5> HIDE DEF N, sum
        <5>3. Low(N, w) = N
          BY <1>1, <5>2, LowOfSmall
        <5> QED
          BY <1>1, <4>1, <5>1, <5>2, <5>3
      <4>3. CASE ~r.isAddition
        BY <1>1, <1>4, <4>1, <4>3
      <4> QED
        BY <4>2, <4>3
    <3> HIDE DEF frac, exp
    <3>2. N \in 1..(2^w - 1)
      BY <1>1, <1>4, <3>1
    <3>3. 8 * M <= N \/ N >= 2^(w - ShiftRange(w))
      BY <1>3, <1>7
    <3>4. PICK k \in 0..(FracBits + 3) :
            /\ LeadingZeros(N, w) = k
            /\ Low(N * 2^k, w) = N * 2^k /\ N * 2^k \in (8*M)..(16*M-1)
            /\ 8 * M <= N \/ N >= 2^(w - ShiftRange(w)) => NormShift(N, w) = k
      <4> HIDE DEF N
      <4> QED
        BY <3>2, NormalisedSum
    <3>5. norm = N * 2^k /\ norm \in (8*M)..(16*M-1) /\ shift = k
      BY <3>1, <3>3, <3>4
    <3> DEFINE c == 2  T == 4 * fraction + trailing  rest == norm % 2
               num == c * T + rest  den == c * (4 * M)
    <3>6. rest \in {0, 1} /\ norm = 2 * T + rest /\ fraction \in M..(2*M-1) /\ trailing \in 0..3
      <4> HIDE DEF norm, M
      <4> QED
        BY <1>1, <3>5, SumFields
    <3>7. rest \in 0..(c-1) /\ num = norm /\ den = 8 * M /\ (rest # 0 <=> rest = 1)
      <4>1. T \in Int
        BY <1>1, <3>6
      <4> HIDE DEF norm, fraction, trailing, M, T, rest
      <4> QED
        BY <1>1, <3>6, <4>1
    <3>8. sticky <=> rest # 0
      BY <2>2, <3>7
    <3>9. exp - shift = r.largeExp - k /\ r.largeExp - k \in Int
      BY <1>1, <1>3, <3>1, <3>5
    <3>10. SumPlace(N, r.largeExp, r.largeExp - k, num, den)
      <4>1. 8 * M \in Nat \ {0} /\ k \in Nat
        BY <1>1
      <4> DEFINE b == N * 2^k
      <4>2. num = b /\ b \in (8*M)..(16*M-1)
        BY <3>5, <3>7
      <4> HIDE DEF N, M, num, den, b
      <4>3. num \in Nat /\ 8 * M <= num /\ num < 2 * (8 * M) /\ num = N * 2^k
        BY <1>1, <4>2 DEF b
      <4> QED
        BY <3>1, <3>7, <3>9, <4>1, <4>3 DEF SumPlace, M
    <3>11. k \in -1..(FracBits+3) /\ c \in {2, 4}
      BY <1>1
    <3> HIDE DEF N, norm, fraction, trailing, sticky, shift, c, rest, num, den
    <3> QED
      BY <3>5, <3>7, <3>8, <3>9, <3>10, <3>11 DEF num, den, T
  <2> QED
    BY <2>1, <2>2
<1> HIDE DEF N
<1>10. PICK k, c, rest, num, den :
        /\ k \in -1..(FracBits+3) /\ c \in {2, 4} /\ rest \in 0..(c-1)
        /\ norm \in (8*M)..(16*M-1) /\ exp - shift = r.largeExp - k
        /\ num = c * (4 * fraction + trailing) + rest
        /\ den = c * (4 * M)
        /\ sticky <=> rest # 0
        /\ SumPlace(N, r.largeExp, r.largeExp - k, num, den)
  BY <1>9
<1>11. fraction \in M..(2*M-1) /\ trailing \in 0..3
  <2> HIDE DEF norm, M
  <2> QED
    BY <1>1, <1>10, SumFields
<1>12. sticky \in BOOLEAN
  OBVIOUS
<1> DEFINE E == r.largeExp - k
<1>13. E \in Int /\ Signed(exp - shift, ExpBits) = E
  <2>1. k \in Int /\ -1 <= k /\ k <= FracBits + 3
    <3> DEFINE f == FracBits + 3
    <3> HIDE DEF norm, fraction, trailing, sticky, exp, shift, M
    <3>1. f \in Int /\ k \in -1..f
      BY <1>10, FormatPowers
    <3> HIDE DEF f
    <3>2. k \in Int /\ -1 <= k /\ k <= f
      BY <3>1
    <3> QED
      BY <3>2 DEF f
  <2> DEFINE le == r.largeExp
  <2>2. le \in Int /\ -bound <= le /\ le <= bound
    BY <1>2, <1>3
  <2> HIDE DEF le
  <2>3. Signed(le - k, ExpBits) = le - k
    BY <2>1, <2>2, SumExponent
  <2>4. exp - shift = le - k /\ E = le - k
    BY <1>10 DEF le
  <2>5. le - k \in Int
    BY <2>1, <2>2
  <2> HIDE DEF exp, shift, E
  <2> QED
    BY <2>3, <2>4, <2>5
<1> HIDE DEF norm, fraction, trailing, sticky, zero, exp, shift, E
<1>14. Normalized(out)
  <2>1. zero \in BOOLEAN /\ (x.isNaR \/ y.isNaR) \in BOOLEAN
    BY <1>2 DEF zero, Unpacked
  <2>2. fraction \in Nat
    BY <1>1, <1>11
  <2>3. out \in Unpacked
    BY <1>3, <1>13, <2>1, <2>2 DEF Unpacked
  <2>4. out.fraction = fraction /\ out.isZero = zero /\ out.isNaR = (x.isNaR \/ y.isNaR)
    OBVIOUS
  <2>5. ~out.isZero /\ ~out.isNaR
    BY <1>2, <1>8, <2>4
  <2> HIDE DEF out
  <2> QED
    BY <1>11, <2>3, <2>4, <2>5 DEF Normalized, M
<1>15. out.fraction = fraction /\ out.sign = r.largeSign /\ out.exponent = E
  BY <1>13
<1> HIDE DEF out
<1>16. DigitsOf(out, trailing, sticky, num, den)
  <2>1. c \in Nat /\ c > 0 /\ rest \in 0..(c-1)
    BY <1>10
  <2>2. DigitsOf(out, trailing, sticky, c * (4 * out.fraction + trailing) + rest, c * (4 * 2^FracBits))
    BY <1>10, <1>11, <1>12, <1>14, <2>1, SumDigits
  <2> QED
    BY <1>10, <1>15, <2>2
<1>17. /\ DigitsOf(a.out, a.trailing, a.sticky, num, den)
       /\ a.out.exponent = E /\ a.out.sign = r.largeSign
       /\ SumPlace(N, r.largeExp, E, num, den)
  BY <1>6, <1>10, <1>15, <1>16, Zenon DEF E
<1> QED
  BY <1>17 DEF a, N

\* Zero unpacks to the fraction 1 in the place below the format.
LEMMA ZeroUnpacks ==
  /\ Extract(0).exponent = -((NBits - 1) * 2^ES)
  /\ Extract(0).fraction = 2^FracBits
<1> DEFINE zeros == 0  n == NBits - 1  base == 2^ES  M == 2^FracBits
<1>1. /\ NBits \in Nat /\ n \in Nat /\ NBits - 2 \in Nat /\ NBits - ES \in Nat /\ FracBits \in Nat
      /\ M \in Nat /\ M > 0 /\ base \in Nat /\ n = NBits - 1 /\ n > 0
  BY FormatPowers
<1>2. NaR \in Nat /\ NaR > 0
  BY Halves
<1>3. ASSUME NEW k \in Nat PROVE 0 \div 2^k = 0 /\ Low(0, k) = 0 /\ 0 * 2^k = 0
  <2> DEFINE m == 2^k
  <2>1. m \in Nat /\ m > 0
    BY <1>3, PowerPositive
  <2> HIDE DEF m
  <2>2. 0 \div m = 0 /\ 0 % m = 0 /\ 0 * m = 0
    BY <2>1
  <2> QED
    BY <2>2 DEF m, Low
<1> HIDE DEF zeros
<1>4. zeros \div 2^(NBits-2) = 0 /\ Low(zeros, n) = 0
  BY <1>1, <1>3 DEF zeros
<1>5. Bit(zeros, NBits-2) = 0
  <2>1. 0 % 2 = 0
    OBVIOUS
  <2> QED
    BY <1>4, <2>1 DEF Bit
<1> DEFINE rest == Low(zeros * 2^((NBits-1) + 2), NBits)
<1>6. rest = 0
  <2>1. n + 2 \in Nat
    BY <1>1
  <2> DEFINE k == n + 2
  <2> HIDE DEF k
  <2>2. 0 * 2^k = 0
    BY <1>3, <2>1 DEF k
  <2>3. zeros * 2^k = 0
    BY <2>2 DEF zeros
  <2>4. Low(zeros * 2^k, NBits) = 0
    BY <1>1, <1>3, <2>3
  <2> QED
    BY <2>4 DEF k
<1> HIDE DEF rest
<1>7. rest \div 2^(NBits-ES) = 0 /\ Low(rest \div 2^3, FracBits) = 0
  <2>1. rest \div 2^(NBits-ES) = 0
    BY <1>1, <1>3, <1>6
  <2>2. 0 \div 2^3 = 0
    OBVIOUS
  <2> QED
    BY <1>1, <1>3, <1>6, <2>1, <2>2
<1>8. ~(zeros >= NaR)
  BY <1>2 DEF zeros
<1>9. /\ Extract(zeros).exponent = (-(NBits-1)) * 2^ES + rest \div 2^(NBits-ES)
      /\ Extract(zeros).fraction = 2^FracBits + Low(rest \div 2^3, FracBits)
  BY <1>4, <1>5, <1>8 DEF Extract, rest
<1>10. (-(NBits-1)) * base + 0 = -((NBits - 1) * base) /\ M + 0 = M
  BY <1>1
<1>11. /\ Extract(zeros).exponent = -((NBits - 1) * 2^ES) /\ Extract(zeros).fraction = 2^FracBits
  BY <1>7, <1>9, <1>10
<1> QED
  BY <1>11 DEF zeros

\* What the registers of the adder hold of the larger addend fl * 2^le and the smaller
\* one fs * 2^se, with their signs.
Addends(r, fl, ls, le, fs, ss, se) ==
  LET M == 2^FracBits
  IN  /\ r \in AddRegType
      /\ fl \in M..(2*M-1) /\ fs \in M..(2*M-1) /\ le \in Int /\ se \in Int
      /\ ls \in BOOLEAN /\ ss \in BOOLEAN
      /\ le - se \in Nat /\ (le = se => fs <= fl)
      /\ r.isAddition = (ls = ss) /\ r.largeSign = ls /\ r.largeExp = le
      /\ r.largeFrac = 8 * fl /\ r.smallFrac = (8 * fs) \div 2^(le - se)

\* A fraction is shifted out by a shift of the adder's width or more.
LEMMA ShiftedOut ==
  ASSUME NEW f \in Nat, f < 2 * 2^FracBits, NEW d \in Nat, d >= AdderBits - 1
  PROVE  (8 * f) \div 2^d = 0 /\ 8 * f < 2^d
<1> DEFINE w == AdderBits - 1  M == 2^FracBits  m == 2^d
<1>1. w \in Nat /\ 2^w = 16 * M /\ M \in Nat
  BY AdderWidth
<1>2. 2^w <= m /\ m \in Nat
  BY <1>1, PowerMonotone, PowerPositive
<1> HIDE DEF m, M, w
<1>3. 8 * f < m /\ 8 * f \in Nat
  BY <1>1, <1>2 DEF M
<1>4. (8 * f) \div m = 0
  BY <1>2, <1>3
<1> QED
  BY <1>3, <1>4 DEF m

LEMMA AlignedParts ==
  ASSUME NEW x \in OperandType, NEW y \in OperandType, NEW sub \in BOOLEAN,
         x.fraction \in 2^FracBits .. (2 * 2^FracBits - 1),
         y.fraction \in 2^FracBits .. (2 * 2^FracBits - 1)
  PROVE  LET r == AddAlign(x, y, sub)
         IN  IF FirstIsLarger(x, y)
             THEN Addends(r, x.fraction, x.sign, x.exponent, y.fraction, y.sign # sub, y.exponent)
             ELSE Addends(r, y.fraction, y.sign # sub, y.exponent, x.fraction, x.sign, x.exponent)
<1> DEFINE adjusted == [y EXCEPT !.sign = (@ # sub)]
           first    == FirstIsLarger(x, y)
           large    == IF first THEN x ELSE adjusted
           small    == IF first THEN adjusted ELSE x
           expDiff  == large.exponent - small.exponent
           smallFrac == IF expDiff < AdderBits - 1
                        THEN (small.fraction * 2^3) \div 2^expDiff ELSE 0
           r == AddAlign(x, y, sub)  M == 2^FracBits
<1>1. /\ x \in Unpacked /\ y \in Unpacked
      /\ x.exponent \in Int /\ y.exponent \in Int /\ x.fraction \in Nat /\ y.fraction \in Nat
      /\ x.sign \in BOOLEAN /\ y.sign \in BOOLEAN
      /\ x.fraction \in M..(2*M-1) /\ y.fraction \in M..(2*M-1) /\ M \in Nat
  BY FormatPowers DEF OperandType, Unpacked
<1>2. /\ adjusted.exponent = y.exponent /\ adjusted.fraction = y.fraction
      /\ adjusted.sign = (y.sign # sub)
  BY <1>1 DEF Unpacked
<1>3. r \in AddRegType
  BY AddAlignType
<1>4. r = [isAddition |-> large.sign = small.sign, largeSign |-> large.sign,
           largeExp |-> large.exponent, largeFrac |-> large.fraction * 2^3,
           smallFrac |-> smallFrac]
  BY DEF AddAlign
<1>5. /\ r.isAddition = (large.sign = small.sign) /\ r.largeSign = large.sign
      /\ r.largeExp = large.exponent /\ r.largeFrac = large.fraction * 2^3
      /\ r.smallFrac = smallFrac
  BY <1>4
<1> HIDE DEF adjusted, r
<1>6. /\ large.fraction \in M..(2*M-1) /\ small.fraction \in M..(2*M-1)
      /\ large.exponent \in Int /\ small.exponent \in Int
      /\ large.sign \in BOOLEAN /\ small.sign \in BOOLEAN
  BY <1>1, <1>2
<1>7. expDiff \in Nat /\ (large.exponent = small.exponent => small.fraction <= large.fraction)
  <2>1. CASE first
    <3>1. x.exponent > y.exponent \/ (x.exponent = y.exponent /\ x.fraction > y.fraction)
      BY <2>1 DEF FirstIsLarger
    <3> QED
      BY <1>1, <1>2, <2>1, <3>1
  <2>2. CASE ~first
    <3>1. ~(x.exponent > y.exponent \/ (x.exponent = y.exponent /\ x.fraction > y.fraction))
      BY <2>2 DEF FirstIsLarger
    <3> QED
      BY <1>1, <1>2, <2>2, <3>1
  <2> QED
    BY <2>1, <2>2
<1> DEFINE fl == large.fraction  fs == small.fraction  le == large.exponent  se == small.exponent
           ls == large.sign  ss == small.sign
<1>8. Addends(r, fl, ls, le, fs, ss, se)
  <2>1. /\ fl \in M..(2*M-1) /\ fs \in M..(2*M-1) /\ le \in Int /\ se \in Int
        /\ ls \in BOOLEAN /\ ss \in BOOLEAN /\ le - se \in Nat /\ (le = se => fs <= fl)
        /\ fl \in Nat /\ fs \in Nat /\ fs < 2 * M
    BY <1>1, <1>6, <1>7
  <2>2. 2^3 = 8
    OBVIOUS
  <2>3. r.smallFrac = IF le - se < AdderBits - 1 THEN (fs * 8) \div 2^(le-se) ELSE 0
    BY <1>5, <2>2
  <2>4. r.largeFrac = fl * 8
    BY <1>5, <2>2
  <2>5. r.isAddition = (ls = ss) /\ r.largeSign = ls /\ r.largeExp = le
    BY <1>5
  <2> HIDE DEF fl, fs, le, se, ls, ss, M
  <2>6. fl * 8 = 8 * fl /\ fs * 8 = 8 * fs
    BY <2>1
  <2>7. r.smallFrac = (8 * fs) \div 2^(le - se)
    <3> DEFINE d == le - se
    <3>1. d \in Nat /\ AdderBits - 1 \in Nat
      BY <2>1, CoreWidths
    <3>2. r.smallFrac = IF d < AdderBits - 1 THEN (8 * fs) \div 2^d ELSE 0
      BY <2>3, <2>6
    <3> HIDE DEF d
    <3>3. CASE d < AdderBits - 1
      BY <3>2, <3>3 DEF d
    <3>4. CASE ~(d < AdderBits - 1)
      <4>1. d >= AdderBits - 1
        BY <3>1, <3>4
      <4>2. (8 * fs) \div 2^d = 0
        BY <2>1, <3>1, <4>1, ShiftedOut DEF M
      <4> QED
        BY <3>2, <3>4, <4>2 DEF d
    <3> QED
      BY <3>3, <3>4
  <2> QED
    BY <1>3, <2>1, <2>4, <2>5, <2>6, <2>7 DEF Addends, M
<1>9. CASE first
  <2>1. /\ fl = x.fraction /\ ls = x.sign /\ le = x.exponent
        /\ fs = y.fraction /\ ss = (y.sign # sub) /\ se = y.exponent
    BY <1>2, <1>9
  <2> HIDE DEF fl, ls, le, fs, ss, se
  <2>2. Addends(r, x.fraction, x.sign, x.exponent, y.fraction, y.sign # sub, y.exponent)
    BY <1>8, <2>1
  <2> QED
    BY <1>9, <2>2 DEF r
<1>10. CASE ~first
  <2>1. /\ fs = x.fraction /\ ss = x.sign /\ se = x.exponent
        /\ fl = y.fraction /\ ls = (y.sign # sub) /\ le = y.exponent
    BY <1>2, <1>10
  <2> HIDE DEF fl, ls, le, fs, ss, se
  <2>2. Addends(r, y.fraction, y.sign # sub, y.exponent, x.fraction, x.sign, x.exponent)
    BY <1>8, <2>1
  <2> QED
    BY <1>10, <2>2 DEF r
<1> QED
  BY <1>9, <1>10

\* What the alignment shifts out.
ShiftsOut(fs, d) == (8 * fs) % 2^d

LEMMA DropsIs ==
  ASSUME NEW fs \in Nat, fs > 0, fs < 2 * 2^FracBits, NEW d \in Nat, ~Drops(fs * 2^3, d)
  PROVE  ShiftsOut(fs, d) = 0
<1> DEFINE f == fs * 2^3  top == MulBits + AdderBits  w == AdderBits - 1
<1>1. f = 8 * fs /\ f # 0 /\ f \in Nat
  <2>1. 2^3 = 8
    OBVIOUS
  <2> QED
    BY <2>1
<1>2. Low(f, Min2(d, top)) = 0
  BY <1>1 DEF Drops
<1>3. top \in Nat /\ w \in Nat /\ w <= top
  BY CoreWidths, FormatPowers DEF MulBits, AdderBits, HiddenBits, TrailingBits
<1>4. CASE d <= top
  <2>1. Min2(d, top) = d
    BY <1>4 DEF Min2
  <2>2. f % 2^d = 0
    BY <1>2, <2>1 DEF Low
  <2> HIDE DEF f
  <2> QED
    BY <1>1, <2>2 DEF ShiftsOut
<1>5. CASE ~(d <= top)
  <2>1. Min2(d, top) = top
    BY <1>5 DEF Min2
  <2>2. 8 * fs < 2^top
    BY <1>3, ShiftedOut
  <2>3. f \in 0..(2^top - 1)
    <3> DEFINE m == 2^top
    <3>1. m \in Nat /\ 8 * fs < m
      BY <1>3, <2>2, PowerPositive
    <3> HIDE DEF m, f
    <3> QED
      BY <1>1, <3>1 DEF m
  <2> HIDE DEF f, top
  <2>4. Low(f, top) = f
    BY <1>3, <2>3, LowOfSmall
  <2> QED
    BY <1>1, <1>2, <2>1, <2>4
<1> QED
  BY <1>4, <1>5

\* The exact sum of the fractions in units of the smaller one's last place.
ExactWhole(fl, ls, fs, ss, d) == IF ls = ss THEN fl * 2^d + fs ELSE fl * 2^d - fs

\* A shift of one to three places only drops the zeros behind the fraction.
LEMMA ShortShift ==
  ASSUME NEW fs \in Nat, NEW d \in Nat, ShiftsOut(fs, d) # 0
  PROVE  2^d >= 16
<1>1. ASSUME NEW c \in {1, 2, 4, 8} PROVE (8 * fs) % c = 0
  <2>1. (8 * fs) % 1 = 0 /\ (8 * fs) % 2 = 0 /\ (8 * fs) % 4 = 0 /\ (8 * fs) % 8 = 0
    OBVIOUS
  <2> QED
    BY <2>1
<1>2. 2^0 = 1 /\ 2^1 = 2 /\ 2^2 = 4 /\ 2^3 = 8
  OBVIOUS
<1>3. 2^4 = 16
  OBVIOUS
<1>4. ~(d <= 3)
  <2> SUFFICES ASSUME d <= 3 PROVE FALSE
    OBVIOUS
  <2>1. d \in {0, 1, 2, 3}
    OBVIOUS
  <2>2. 2^d \in {1, 2, 4, 8}
    BY <1>2, <2>1
  <2> QED
    BY <1>1, <2>2 DEF ShiftsOut
<1>5. 4 <= d
  BY <1>4
<1>6. 2^4 <= 2^d
  <2> DEFINE c == 4
  <2>1. c \in Nat /\ c <= d
    BY <1>5
  <2> HIDE DEF c
  <2>2. 2^c <= 2^d
    BY <2>1, PowerMonotone
  <2> QED
    BY <2>2 DEF c
<1>7. 2^d \in Nat
  BY PowerPositive
<1> QED
  BY <1>3, <1>6, <1>7

\* The sum of the aligned fractions and the exact one.
LEMMA SumWhole ==
  ASSUME NEW r, NEW fl, NEW ls, NEW le, NEW fs, NEW ss, NEW se,
         Addends(r, fl, ls, le, fs, ss, se)
  PROVE  LET d == le - se
             D == 2^d
             W == ExactWhole(fl, ls, fs, ss, d)
             N == SumOf(r)
             m == ShiftsOut(fs, d)
             M == 2^FracBits
         IN  /\ D \in Nat /\ D > 0 /\ W \in Nat /\ N \in Nat /\ m \in Nat /\ m < D
             /\ r.isAddition => ~(8 * W < N * D + m) /\ ~(N * D + m < 8 * W)
             /\ ~r.isAddition => ~(8 * W < N * D - m) /\ ~(N * D - m < 8 * W)
             /\ N = 0 <=> W = 0
             /\ r.isAddition => N >= 8 * M
             /\ m # 0 => N >= 7 * M
             /\ r.smallFrac <= r.largeFrac /\ r.largeFrac >= 8 * M
<1> DEFINE d == le - se  D == 2^d  s == (8 * fs) \div D  m == (8 * fs) % D  M == 2^FracBits
           W == ExactWhole(fl, ls, fs, ss, d)  N == SumOf(r)
<1>1. /\ fl \in M..(2*M-1) /\ fs \in M..(2*M-1) /\ M \in Nat /\ M > 0 /\ fl \in Nat /\ fs \in Nat
      /\ d \in Nat /\ (d = 0 => fs <= fl) /\ le \in Int /\ se \in Int
      /\ r.isAddition = (ls = ss) /\ r.largeFrac = 8 * fl /\ r.smallFrac = s
  BY FormatPowers DEF Addends
<1> HIDE DEF d
<1>2. D \in Nat /\ D > 0 /\ (d = 0 => D = 1) /\ (d # 0 => D >= 2)
  <2>1. D \in Nat /\ D > 0
    BY <1>1, PowerPositive
  <2>2. d = 0 => D = 1
    BY PowerZero
  <2>3. d # 0 => D >= 2
    <3>1. CASE d # 0
      <4> DEFINE i == d - 1
      <4>1. i \in Nat /\ i + 1 = d
        BY <1>1, <3>1
      <4>2. 2^(i+1) = 2 * 2^i /\ 2^i \in Nat /\ 2^i > 0
        BY <4>1, PowerNext, PowerPositive
      <4> HIDE DEF i
      <4> QED
        BY <4>1, <4>2
    <3> QED
      BY <3>1
  <2> QED
    BY <2>1, <2>2, <2>3
<1>3. m = ShiftsOut(fs, d) /\ (m # 0 => D >= 16)
  <2>1. m = ShiftsOut(fs, d)
    BY DEF ShiftsOut
  <2> HIDE DEF m, D
  <2> QED
    BY <1>1, <2>1, ShortShift DEF D
<1> HIDE DEF D, M
<1>4. s \in Nat /\ m \in 0..(D-1) /\ 8 * fs = s * D + m
  <2>1. 8 * fs \in Nat
    BY <1>1
  <2> DEFINE f == 8 * fs
  <2> HIDE DEF f
  <2>2. f \div D \in Int /\ f % D \in 0..(D-1) /\ f = (f \div D) * D + (f % D)
    BY <1>2, <2>1, DivParts DEF f
  <2>3. f \div D >= 0
    BY <1>2, <2>1 DEF f
  <2> QED
    BY <2>2, <2>3 DEF f
<1> HIDE DEF s, m
<1>5. s * D \in Nat /\ s * D <= 8 * fs
  <2>1. s * D \in Nat
    BY <1>2, <1>4
  <2> QED
    BY <1>1, <1>4, <2>1
<1>6. s * 1 <= s * D /\ (D >= 2 => s * 2 <= s * D) /\ (D >= 16 => s * 16 <= s * D)
  BY <1>2, <1>4
<1>7. s <= 8 * fl /\ (m # 0 => s < M)
  <2>1. CASE D = 1
    <3>1. d = 0 /\ s * D = s
      BY <1>1, <1>2, <1>4, <2>1
    <3>2. m = 0
      BY <1>4, <2>1
    <3> QED
      BY <1>1, <1>4, <1>5, <3>1, <3>2
  <2>2. CASE D # 1
    <3>1. s * 2 <= s * D
      BY <1>2, <1>6, <2>2
    <3>2. s <= 8 * fl
      BY <1>1, <1>4, <1>5, <3>1
    <3>3. m # 0 => s < M
      BY <1>1, <1>3, <1>4, <1>5, <1>6
    <3> QED
      BY <3>2, <3>3
  <2> QED
    BY <2>1, <2>2
<1>8. N = IF ls = ss THEN 8 * fl + s ELSE 8 * fl - s
  BY <1>1 DEF SumOf
<1>9. W = IF ls = ss THEN fl * D + fs ELSE fl * D - fs
  BY DEF ExactWhole, D
<1>10. fl * D \in Nat /\ fl * 1 <= fl * D /\ (D >= 2 => fl * 2 <= fl * D) /\ fs <= fl * D
       /\ (fs = fl * D => D = 1)
  <2>1. fl * D \in Nat /\ fl * 1 <= fl * D /\ (D >= 2 => fl * 2 <= fl * D)
    BY <1>1, <1>2
  <2>2. CASE D = 1
    BY <1>1, <1>2, <2>1, <2>2
  <2>3. CASE D # 1
    BY <1>1, <1>2, <2>1, <2>3
  <2> QED
    BY <2>1, <2>2, <2>3
<1> HIDE DEF N, W
<1>11. W \in Nat /\ N \in Nat
  BY <1>1, <1>4, <1>7, <1>8, <1>9, <1>10
<1>12. (ls = ss => N * D = 8 * (fl * D) + s * D) /\ (ls # ss => N * D = 8 * (fl * D) - s * D)
  BY <1>1, <1>2, <1>4, <1>8
<1>13. (ls = ss => 8 * W = N * D + m) /\ (ls # ss => 8 * W = N * D - m) /\ N * D \in Int
  <2> DEFINE ND == N * D  FD == fl * D  SD == s * D
  <2>1. /\ (ls = ss => ND = 8 * FD + SD) /\ (ls # ss => ND = 8 * FD - SD)
        /\ FD \in Nat /\ SD \in Nat /\ 8 * fs = SD + m /\ W = (IF ls = ss THEN FD + fs ELSE FD - fs)
        /\ ND \in Int
    <3>1. ND \in Int
      BY <1>2, <1>11
    <3> QED
      BY <1>4, <1>5, <1>9, <1>10, <1>12, <3>1
  <2> HIDE DEF ND, FD, SD
  <2>2. (ls = ss => 8 * W = ND + m) /\ (ls # ss => 8 * W = ND - m)
    BY <1>1, <1>4, <2>1
  <2> QED
    BY <2>1, <2>2 DEF ND
<1>14. N = 0 <=> W = 0
  <2>1. ASSUME N = 0 PROVE W = 0
    <3>1. ls # ss /\ s = 8 * fl
      BY <1>1, <1>4, <1>8, <2>1
    <3>2. CASE D = 1
      <4>1. m = 0 /\ s * D = s /\ fl * D = fl
        BY <1>1, <1>4, <3>2
      <4>2. fs = fl
        BY <1>1, <1>4, <3>1, <4>1
      <4> QED
        BY <1>1, <1>9, <3>1, <4>1, <4>2
    <3>3. CASE D # 1
      <4>1. s * 2 <= 8 * fs
        BY <1>1, <1>2, <1>4, <1>5, <1>6, <3>3
      <4> QED
        BY <1>1, <1>4, <3>1, <4>1
    <3> QED
      BY <3>2, <3>3
  <2>2. ASSUME W = 0 PROVE N = 0
    <3>1. ls # ss /\ fs = fl * D
      BY <1>1, <1>9, <1>10, <2>2
    <3>2. D = 1
      BY <1>10, <3>1
    <3>3. m = 0 /\ s * D = s /\ fl * D = fl
      BY <1>1, <1>4, <3>2
    <3> QED
      BY <1>1, <1>4, <1>8, <3>1, <3>3
  <2> QED
    BY <2>1, <2>2
<1>15. /\ r.isAddition => N >= 8 * M
       /\ m # 0 => N >= 7 * M
       /\ r.smallFrac <= r.largeFrac /\ r.largeFrac >= 8 * M
  <2>1. r.smallFrac <= r.largeFrac /\ r.largeFrac >= 8 * M
    BY <1>1, <1>7
  <2>2. r.isAddition => N >= 8 * M
    <3>1. ls = ss => N >= 8 * M
      BY <1>1, <1>4, <1>8
    <3>2. r.isAddition = (ls = ss)
      BY <1>1
    <3> QED
      BY <3>1, <3>2, Zenon
  <2>3. m # 0 => N >= 7 * M
    BY <1>1, <1>4, <1>7, <1>8
  <2> QED
    BY <2>1, <2>2, <2>3
<1>16. /\ r.isAddition => ~(8 * W < N * D + m) /\ ~(N * D + m < 8 * W)
       /\ ~r.isAddition => ~(8 * W < N * D - m) /\ ~(N * D - m < 8 * W)
  <2> DEFINE ND == N * D
  <2>1. (ls = ss => 8 * W = ND + m) /\ (ls # ss => 8 * W = ND - m) /\ ND \in Int /\ m \in Int
    BY <1>4, <1>13
  <2> HIDE DEF ND
  <2>2. /\ (ls = ss) => ~(8 * W < ND + m) /\ ~(ND + m < 8 * W)
        /\ ~(ls = ss) => ~(8 * W < ND - m) /\ ~(ND - m < 8 * W)
    BY <1>11, <2>1
  <2> QED
    BY <1>1, <2>2 DEF ND
<1>17. m \in Nat /\ m < D
  BY <1>2, <1>4
<1> QED
  BY <1>2, <1>3, <1>11, <1>14, <1>15, <1>16, <1>17 DEF D, M, W, N, d

\* The normalised sum of the aligned fractions is close to the exact sum, and equal to it
\* if nothing was shifted out: a loss in a difference is one of operands so far apart
\* that the difference is at most one place lower than the larger one.
LEMMA SumClose ==
  ASSUME NEW r, NEW fl, NEW ls, NEW le, NEW fs, NEW ss, NEW se,
         Addends(r, fl, ls, le, fs, ss, se), SumOf(r) > 0,
         NEW E, NEW num, NEW den, SumPlace(SumOf(r), le, E, num, den),
         NEW nn \in Nat, NEW j \in Int, WholeIs(nn, j, se, ExactWhole(fl, ls, fs, ss, le - se))
  PROVE  \E t, xnum :
           /\ t \in Nat /\ t > 0 /\ xnum \in Nat
           /\ Close(num, den, t, xnum) /\ IsRatio(1, 0, nn, j, E, xnum, den * t)
           /\ ShiftsOut(fs, le - se) = 0 => xnum = num * t
<1> DEFINE d == le - se  D == 2^d  W == ExactWhole(fl, ls, fs, ss, d)  N == SumOf(r)
           m == ShiftsOut(fs, d)  M == 2^FracBits  v == j + FracBits - se
<1>1. /\ D \in Nat /\ D > 0 /\ W \in Nat /\ N \in Nat /\ m \in Nat /\ m < D
      /\ r.isAddition => ~(8 * W < N * D + m) /\ ~(N * D + m < 8 * W)
      /\ ~r.isAddition => ~(8 * W < N * D - m) /\ ~(N * D - m < 8 * W)
      /\ r.isAddition => N >= 8 * M
      /\ m # 0 => N >= 7 * M
  BY SumWhole
<1>2. /\ le \in Int /\ se \in Int /\ d \in Nat /\ M \in Nat /\ M > 0 /\ FracBits \in Nat
      /\ r.isAddition \in BOOLEAN /\ N > 0
  BY FormatPowers DEF Addends, AddRegType
<1>3. v \in Nat /\ nn * 2^v = W /\ 2^v \in Nat
  <2>1. v \in Nat /\ nn * 2^v = W
    BY DEF WholeIs
  <2> HIDE DEF v
  <2> QED
    BY <2>1, PowerPositive
<1>4. /\ E \in Int /\ num \in Nat /\ den \in Nat /\ den > 0 /\ den <= num /\ num < 2 * den
      /\ \/ N >= 16 * M /\ num = N /\ den = 16 * M /\ E = le + 1
         \/ N < 16 * M /\ \E k \in Nat : num = N * 2^k /\ den = 8 * M /\ E = le - k
  BY DEF SumPlace
<1> HIDE DEF D, W, N, m, M
<1>5. N * D \in Nat /\ 8 * W <= N * D + m /\ N * D - m <= 8 * W
  <2>1. N * D \in Nat
    BY <1>1
  <2> DEFINE ND == N * D
  <2>2. ND \in Nat /\ (r.isAddition => ~(8 * W < ND + m) /\ ~(ND + m < 8 * W))
        /\ (~r.isAddition => ~(8 * W < ND - m) /\ ~(ND - m < 8 * W))
    BY <1>1, <2>1
  <2> HIDE DEF ND
  <2>3. (~(8 * W < ND + m) /\ ~(ND + m < 8 * W)) \/ (~(8 * W < ND - m) /\ ~(ND - m < 8 * W))
    BY <1>2, <2>2
  <2>4. 8 * W <= ND + m /\ ND - m <= 8 * W
    BY <1>1, <2>2, <2>3
  <2> QED
    BY <2>1, <2>4 DEF ND
\* The same in a place k lower, and c times M as the unit.
<1>6. ASSUME NEW k \in Nat, NEW c \in Nat, c > 0, NEW K \in Nat, K = 2^k, num = N * K,
             den = c * M, m * K * 4 < c * D, E = le - k + (IF c = 16 THEN 1 ELSE 0),
             c \in {8, 16}, c = 16 => k = 0
      PROVE  \E t, xnum :
               /\ t \in Nat /\ t > 0 /\ xnum \in Nat
               /\ Close(num, den, t, xnum) /\ IsRatio(1, 0, nn, j, E, xnum, den * t)
               /\ m = 0 => xnum = num * t
  <2> DEFINE t == D  xnum == (8 * W) * K
  <2>1. t \in Nat /\ t > 0 /\ xnum \in Nat
    BY <1>1, <1>6
  <2>2. num * t = (N * D) * K /\ num * t \in Nat
    <3>1. (N * K) * D = (N * D) * K
      BY <1>1, <1>6
    <3> QED
      BY <1>1, <1>4, <1>6, <3>1
  <2>3. xnum <= num * t + m * K /\ num * t - m * K <= xnum /\ m * K \in Nat
    <3> DEFINE ND == N * D  a == ND + m  b == ND - m  W8 == 8 * W
    <3>1. ND \in Int /\ a \in Int /\ b \in Int /\ W8 \in Int /\ W8 <= a /\ b <= W8 /\ a = ND + m
          /\ b = ND - m
      BY <1>1, <1>5
    <3> HIDE DEF ND, a, b, W8
    <3>2. W8 * K <= a * K /\ b * K <= W8 * K
      BY <1>6, <3>1, TimesOrder
    <3>3. a * K = ND * K + m * K /\ b * K = ND * K - m * K /\ m * K \in Nat
      BY <1>1, <1>6, <3>1
    <3>4. num * t = ND * K /\ xnum = W8 * K
      BY <2>2 DEF ND, W8
    <3> HIDE DEF t, xnum
    <3> QED
      BY <3>2, <3>3, <3>4
  <2>4. Close(num, den, t, xnum)
    <3> DEFINE M4 == 4 * M  nt == num * t  mk == m * K  dt == den * t
    <3>1. M4 \in Nat /\ M4 > 0 /\ nt \in Nat /\ mk \in Nat /\ dt \in Nat /\ xnum \in Nat
      BY <1>2, <1>4, <2>1, <2>2, <2>3
    <3>2. xnum <= nt + mk /\ nt <= xnum + mk /\ xnum + mk \in Int
      BY <2>1, <2>2, <2>3
    <3>3. mk * M4 < dt
      <4> DEFINE a == m * K * 4  b == c * D
      <4>1. a \in Nat /\ b \in Nat /\ a < b
        BY <1>1, <1>6
      <4> HIDE DEF a, b
      <4>2. a * M < b * M
        BY <1>2, <4>1
      <4>3. a * M = mk * M4 /\ b * M = dt
        BY <1>1, <1>2, <1>6 DEF a, b
      <4> QED
        BY <4>2, <4>3
    <3> HIDE DEF M4, nt, mk, dt, xnum
    <3>4. xnum * M4 <= (nt + mk) * M4 /\ nt * M4 <= (xnum + mk) * M4
      <4> DEFINE a == nt + mk  b == xnum + mk
      <4>1. a \in Int /\ b \in Int /\ xnum \in Int /\ nt \in Int /\ xnum <= a /\ nt <= b
        BY <3>1, <3>2
      <4> HIDE DEF a, b
      <4>2. xnum * M4 <= a * M4 /\ nt * M4 <= b * M4
        BY <3>1, <4>1, TimesOrder
      <4> QED
        BY <4>2 DEF a, b
    <3>5. (nt + mk) * M4 = nt * M4 + mk * M4 /\ (xnum + mk) * M4 = xnum * M4 + mk * M4
          /\ nt * M4 \in Nat /\ xnum * M4 \in Nat /\ mk * M4 \in Nat
      BY <3>1
    <3>6. nt * M4 < xnum * M4 + dt /\ xnum * M4 < nt * M4 + dt
      <4> DEFINE a == nt * M4  b == xnum * M4  e == mk * M4
      <4>1. a \in Nat /\ b \in Nat /\ e \in Nat /\ e < dt /\ b <= a + e /\ a <= b + e
        BY <3>3, <3>4, <3>5
      <4> HIDE DEF a, b, e
      <4>2. a < b + dt /\ b < a + dt
        BY <3>1, <4>1
      <4> QED
        BY <4>2 DEF a, b
    <3>7. nt * M4 \in Nat /\ xnum * M4 \in Nat
      BY <3>1
    <3> DEFINE a == nt * M4  b == xnum * M4
    <3> HIDE DEF a, b
    <3>8. a < b + 2 * dt /\ b < a + 2 * dt
      BY <3>1, <3>6, <3>7 DEF a, b
    <3> QED
      BY <3>8 DEF Close, M4, nt, dt, M, a, b
  <2>5. IsRatio(1, 0, nn, j, E, xnum, den * t)
    <3> DEFINE i == IF c = 16 THEN 0 ELSE 1  y == v + (k + i)  L == 1  KK == c * M
    <3>1. i \in Nat /\ k + i \in Nat /\ y \in Nat /\ KK \in Nat \ {0} /\ L \in Nat \ {0}
      BY <1>2, <1>3, <1>6
    <3>2. 2^y = 2^v * (K * 2^i) /\ 2^i = (IF c = 16 THEN 1 ELSE 2)
      <4>1. 2^(v + (k + i)) = 2^v * 2^(k + i) /\ 2^(k + i) = 2^k * 2^i
        <5> HIDE DEF i, v
        <5> QED
          BY <1>3, <3>1, PowerSum
      <4>2. 2^0 = 1 /\ 2^1 = 2
        OBVIOUS
      <4>3. 2^i = (IF c = 16 THEN 1 ELSE 2)
        BY <4>2
      <4> HIDE DEF i
      <4> QED
        BY <1>6, <4>1, <4>3
    <3>3. KK * (1 * 2^d) = L * (den * t)
      <4>1. 1 * D = D /\ 1 * (den * D) = den * D
        BY <1>1, <1>4
      <4> QED
        BY <1>6, <4>1 DEF D
    <3>4. KK * (nn * 2^y) = L * (xnum * (2 * M))
      <4> DEFINE V == 2^v  B == 2^i
      <4>1. V \in Nat /\ nn * V = W /\ 2^y = V * (K * B) /\ c * B = 16 /\ B \in Nat
        <5>1. c * B = 16
          BY <1>6, <3>2
        <5>2. B \in Nat
          BY <3>2
        <5> QED
          BY <1>3, <3>2, <5>1, <5>2
      <4> HIDE DEF V, B, xnum
      <4>2. nn * (V * (K * B)) = W * (K * B)
        <5>1. nn * (V * (K * B)) = (nn * V) * (K * B)
          BY <1>6, <4>1
        <5> QED
          BY <4>1, <5>1
      <4>3. (c * M) * (W * (K * B)) = ((c * B) * W) * K * M
        BY <1>1, <1>2, <1>6, <4>1
      <4>4. (16 * W) * K * M = ((8 * W) * K) * (2 * M)
        BY <1>1, <1>2, <1>6
      <4>5. 1 * (xnum * (2 * M)) = ((8 * W) * K) * (2 * M)
        BY <1>1, <1>2, <1>6 DEF xnum
      <4> QED
        BY <4>1, <4>2, <4>3, <4>4, <4>5
    <3>5. (0 - d) - (j - y) = FracBits + 1 - E
      <4>1. y = j + FracBits - se + k + i /\ d = le - se
        BY <1>2, <1>6
      <4>2. E = le - k + 1 - i
        BY <1>2, <1>6
      <4> HIDE DEF y, i, d
      <4> QED
        BY <1>2, <1>4, <1>6, <3>1, <4>1, <4>2
    <3> HIDE DEF y, KK, L, xnum, t, d
    <3> QED
      BY <1>2, <3>1, <3>3, <3>4, <3>5 DEF IsRatio, M
  <2>6. m = 0 => xnum = num * t
    <3>1. CASE m = 0
      <4>1. 8 * W = N * D
        <5> DEFINE ND == N * D
        <5>1. ND \in Nat /\ 8 * W <= ND + m /\ ND - m <= 8 * W
          BY <1>5
        <5> HIDE DEF ND
        <5>2. 8 * W = ND
          BY <1>1, <3>1, <5>1
        <5> QED
          BY <5>2 DEF ND
      <4> QED
        BY <2>2, <4>1
    <3> QED
      BY <3>1
  <2> HIDE DEF t, xnum
  <2> QED
    BY <2>1, <2>4, <2>5, <2>6
<1>7. CASE N >= 16 * M /\ num = N /\ den = 16 * M /\ E = le + 1
  <2> DEFINE k == 0  K == 1  c == 16
  <2>1. k \in Nat /\ c \in Nat /\ c > 0 /\ K \in Nat /\ c \in {8, 16} /\ (c = 16 => k = 0)
    OBVIOUS
  <2>2. K = 2^k
    BY PowerZero
  <2>3. num = N * K /\ den = c * M
    BY <1>1, <1>7
  <2>4. m * K * 4 < c * D
    BY <1>1
  <2>5. E = le - k + (IF c = 16 THEN 1 ELSE 0)
    BY <1>2, <1>7
  <2> HIDE DEF k, K, c
  <2> QED
    BY <1>6, <2>1, <2>2, <2>3, <2>4, <2>5 DEF m, d
<1>8. CASE N < 16 * M /\ \E k \in Nat : num = N * 2^k /\ den = 8 * M /\ E = le - k
  <2>1. PICK k \in Nat : num = N * 2^k /\ den = 8 * M /\ E = le - k
    BY <1>8
  <2> DEFINE K == 2^k  c == 8
  <2>2. c \in Nat /\ c > 0 /\ c \in {8, 16} /\ (c = 16 => k = 0)
    OBVIOUS
  <2>3. K \in Nat /\ K > 0
    BY PowerPositive
  <2>4. num = N * K /\ den = c * M
    BY <2>1
  <2>5. E = le - k + (IF c = 16 THEN 1 ELSE 0)
    BY <1>2, <2>1
  <2>6. K = 2^k
    OBVIOUS
  <2>7. m * K * 4 < c * D
    <3> HIDE DEF K
    <3>1. CASE m = 0
      <4>1. 0 * K * 4 = 0
        BY <2>3
      <4> QED
        BY <1>1, <3>1, <4>1
    <3>2. CASE m # 0
      <4>1. N >= 7 * M /\ N * K < 16 * M
        <5> DEFINE NK == N * K
        <5>1. num = NK /\ den = 8 * M /\ num < 2 * den
          BY <1>4, <2>1, <2>4
        <5> HIDE DEF NK
        <5>2. NK < 16 * M
          BY <1>2, <5>1
        <5> QED
          BY <1>1, <3>2, <5>2 DEF NK
      <4>2. (7 * M) * K <= N * K
        <5> DEFINE a == 7 * M
        <5>1. a \in Int /\ a <= N /\ N \in Int
          BY <1>1, <1>2, <4>1
        <5> HIDE DEF a
        <5>2. a * K <= N * K
          BY <2>3, <5>1, TimesOrder
        <5> QED
          BY <5>2 DEF a
      <4>3. K <= 2
        <5> SUFFICES ASSUME K >= 3 PROVE FALSE
          BY <2>3
        <5>1. (7 * M) * 3 <= (7 * M) * K /\ (7 * M) * K \in Int /\ N * K \in Int
          BY <1>1, <1>2, <2>3
        <5> QED
          BY <1>2, <4>1, <4>2, <5>1
      <4>4. m * K <= m * 2 /\ m * K \in Int
        BY <1>1, <2>3, <4>3
      <4> QED
        BY <1>1, <4>4
    <3> QED
      BY <3>1, <3>2
  <2> HIDE DEF K, c
  <2> QED
    BY <1>6, <2>2, <2>3, <2>4, <2>5, <2>6, <2>7 DEF m, d
<1> QED
  BY <1>4, <1>7, <1>8

\* Addends that cancel give zero.
LEMMA CancelledSum ==
  ASSUME NEW r \in AddRegType, NEW x \in Unpacked, NEW y \in Unpacked,
         r.smallFrac <= r.largeFrac, ~r.isAddition, SumOf(r) = 0, ~x.isNaR, ~y.isNaR
  PROVE  LET a == AddFinish(r, x, y)
         IN  Generate(a.out, a.trailing, a.sticky) = 0
<1> DEFINE w        == AdderBits - 1
           sum      == r.largeFrac + Negated(r.smallFrac, w)
           frac     == Low(sum, w)
           norm     == Low(frac * 2^LeadingZeros(frac, w), w)
           a        == AddFinish(r, x, y)
<1>1. frac = 0
  BY AddedFraction
<1>2. a.out.fraction = norm \div 2^3 /\ a.out.isNaR = (x.isNaR \/ y.isNaR)
  BY DEF AddFinish, Answer
<1>3. norm = 0
  <2>1. w \in Nat /\ w > 0 /\ 2^w \in Nat /\ 2^w > 0
    BY AdderWidth, PowerPositive
  <2>2. LeadingZeros(frac, w) = w - 1 /\ 2^(w-1) \in Nat
    <3>1. w - 1 \in Nat
      BY <2>1
    <3> QED
      BY <1>1, <3>1, PowerPositive DEF LeadingZeros
  <2>3. 0 * 2^(w-1) = 0
    BY <2>2
  <2> DEFINE m == 2^w
  <2>4. m \in Nat /\ m > 0
    BY <2>1
  <2> HIDE DEF m
  <2>5. 0 % m = 0
    BY <2>4
  <2> QED
    BY <1>1, <2>2, <2>3, <2>5 DEF Low, m
<1>4. a.out.fraction = 0
  <2>1. 0 \div 2^3 = 0
    OBVIOUS
  <2> QED
    BY <1>2, <1>3, <2>1
<1> HIDE DEF a
<1>5. ~a.out.isNaR
  BY <1>2
<1>6. Generate(a.out, a.trailing, a.sticky) = 0
  BY <1>4, <1>5 DEF Generate
<1> QED
  BY <1>6 DEF a

\* The adder and the generator on two aligned addends.
LEMMA AddendsRound ==
  ASSUME NEW r, NEW x, NEW y, Aligned(r, x, y),
         NEW fl, NEW ls, NEW le, NEW fs, NEW ss, NEW se, Addends(r, fl, ls, le, fs, ss, se),
         NEW c \in Int, NEW e \in Int, ExactIs(c, e, ls, ExactWhole(fl, ls, fs, ss, le - se), se),
         r.isAddition \/ SumOf(r) = 0
           \/ SumOf(r) >= 2^((AdderBits-1) - ShiftRange(AdderBits-1))
  PROVE  LET a == AddFinish(r, x, y)
             g == Generate(a.out, a.trailing, a.sticky)
         IN  /\ Surrounds(g, NBits, ES, <<c, e>>)
             /\ ShiftsOut(fs, le - se) = 0 => RoundsTo(g, NBits, ES, <<c, e>>)
<1> DEFINE a == AddFinish(r, x, y)  g == Generate(a.out, a.trailing, a.sticky)
           N == SumOf(r)  W == ExactWhole(fl, ls, fs, ss, le - se)  M == 2^FracBits
           z == <<c, e>>
<1>1. /\ W \in Nat /\ N \in Nat /\ (N = 0 <=> W = 0) /\ (r.isAddition => N >= 8 * M)
      /\ r.smallFrac <= r.largeFrac
  BY SumWhole
<1>2. /\ le \in Int /\ se \in Int /\ ls \in BOOLEAN /\ r \in AddRegType
      /\ r.largeSign = ls /\ r.largeExp = le /\ M \in Nat /\ M > 0
      /\ x \in Unpacked /\ y \in Unpacked /\ ~x.isNaR /\ ~y.isNaR
  BY FormatPowers DEF Addends, Aligned
<1>3. /\ c = 0 <=> W = 0
      /\ \E nn \in Nat : /\ Magnitude(z) = <<nn, e>> /\ WholeIs(nn, e, se, W)
                         /\ W > 0 => nn > 0 /\ (c < 0 <=> ls)
  <2>1. ExactIs(c, e, ls, W, se)
    OBVIOUS
  <2> HIDE DEF W
  <2>2. SignsOfSum(c, e, ls, W, se)
    BY <1>1, <1>2, <2>1, ExactSigns
  <2> QED
    BY <2>2 DEF SignsOfSum
<1>4. z[1] = c
  OBVIOUS
<1> HIDE DEF N, W, M, z
<1>5. CASE N = 0
  <2>1. ~r.isAddition
    BY <1>1, <1>2, <1>5
  <2>2. g = 0
    BY <1>1, <1>2, <1>5, <2>1, CancelledSum DEF N
  <2>3. z[1] = 0
    BY <1>1, <1>3, <1>4, <1>5
  <2> HIDE DEF g
  <2>4. Surrounds(g, NBits, ES, z) /\ RoundsTo(g, NBits, ES, z)
    BY <2>2, <2>3, Zenon DEF Surrounds, RoundsTo
  <2> QED
    BY <2>4, Zenon DEF g, a, z
<1>6. CASE N # 0
  <2>1. N > 0 /\ W > 0
    BY <1>1, <1>6
  <2>2. PICK E, num, den :
          /\ DigitsOf(a.out, a.trailing, a.sticky, num, den)
          /\ a.out.exponent = E /\ a.out.sign = r.largeSign
          /\ SumPlace(N, r.largeExp, E, num, den)
    <3>1. r.isAddition \/ N >= 2^((AdderBits-1) - ShiftRange(AdderBits-1))
      BY <1>6 DEF N
    <3> QED
      BY <2>1, <3>1, AddedDigits DEF N
  <2>3. E \in Int /\ num \in Nat /\ den \in Nat /\ den > 0 /\ den <= num /\ num < 2 * den
    BY <2>2 DEF SumPlace
  <2> DEFINE q == IF ls THEN Opposite(g, NBits) ELSE g
  <2>4. RoundsRatio(q, NBits, ES, E, num, den)
    <3>1. a.out.sign = ls
      BY <1>2, <2>2
    <3> HIDE DEF a
    <3> QED
      BY <1>2, <2>2, <2>3, <3>1, AnswerRounds
  <2>5. PICK nn \in Nat : Magnitude(z) = <<nn, e>> /\ WholeIs(nn, e, se, W) /\ nn > 0 /\ (c < 0 <=> ls)
    BY <1>3, <2>1
  <2>6. SumPlace(N, le, E, num, den)
    BY <1>2, <2>2
  <2>7. PICK t, xnum :
          /\ t \in Nat /\ t > 0 /\ xnum \in Nat
          /\ Close(num, den, t, xnum) /\ IsRatio(1, 0, nn, e, E, xnum, den * t)
          /\ ShiftsOut(fs, le - se) = 0 => xnum = num * t
    BY <2>1, <2>5, <2>6, SumClose DEF N, W
  <2>8. z[1] # 0 /\ (z[1] < 0 <=> ls)
    BY <1>3, <1>4, <2>1, <2>5
  <2> HIDE DEF g
  <2>9. Surrounds(g, NBits, ES, z)
    <3>1. Around(q, nn, e)
      <4> HIDE DEF q
      <4> QED
        BY <2>3, <2>4, <2>5, <2>7, AroundClose
    <3> QED
      BY <1>2, <2>5, <2>8, <3>1, DyadicSurrounds
  <2>10. ASSUME ShiftsOut(fs, le - se) = 0 PROVE RoundsTo(g, NBits, ES, z)
    <3> DEFINE o == 1  k == 0
    <3>1. IsRatio(o, k, nn, e, E, num * t, den * t) /\ o \in Nat /\ o > 0 /\ k \in Int
      BY <2>7, <2>10
    <3> HIDE DEF o, k
    <3>2. IsRatio(o, k, nn, e, E, num, den)
      BY <2>3, <2>5, <2>7, <3>1, RatioReduced
    <3>3. RoundsBetween(q, o, k, nn, e)
      <4> HIDE DEF q
      <4> QED
        BY <2>3, <2>4, <2>5, <3>1, <3>2, RatioRoundsBetween
    <3>4. RoundsBetween(q, 1, 0, nn, e)
      BY <3>3 DEF o, k
    <3> QED
      BY <1>2, <2>5, <2>8, <3>4, DyadicRounds
  <2> QED
    BY <2>9, <2>10, Zenon DEF g, a, z
<1> QED
  BY <1>5, <1>6

\* The exact sum of two aligned addends.
LEMMA SumIsExact ==
  ASSUME NEW r, NEW fl, NEW ls, NEW le, NEW fs, NEW ss, NEW se,
         Addends(r, fl, ls, le, fs, ss, se),
         NEW u, NEW v, TermIs(u, ls, fl, le), TermIs(v, ss, fs, se), NEW z, IsSum(z, u, v)
  PROVE  \E c \in Int, e \in Int :
           z = <<c, e>> /\ ExactIs(c, e, ls, ExactWhole(fl, ls, fs, ss, le - se), se)
<1> DEFINE a == IF ls THEN -fl ELSE fl  b == IF ss THEN -fs ELSE fs
           i == le - FracBits  j == se - FracBits  K == FracBits - se
           d == le - se  D == 2^d
           W == ExactWhole(fl, ls, fs, ss, d)
<1>1. /\ le \in Int /\ se \in Int /\ d \in Nat /\ FracBits \in Nat /\ ls \in BOOLEAN /\ ss \in BOOLEAN
      /\ fl \in Nat /\ fs \in Nat /\ fl > 0 /\ fs > 0
  <2> DEFINE M == 2^FracBits
  <2>1. M \in Nat /\ M > 0 /\ FracBits \in Nat
    BY FormatPowers
  <2>2. /\ fl \in M..(2*M-1) /\ fs \in M..(2*M-1) /\ le \in Int /\ se \in Int
        /\ ls \in BOOLEAN /\ ss \in BOOLEAN /\ le - se \in Nat
    BY DEF Addends
  <2> HIDE DEF M
  <2> QED
    BY <2>1, <2>2
<1>2. /\ a \in Int /\ a # 0 /\ b \in Int /\ b # 0 /\ i \in Int /\ j \in Int /\ K \in Int
      /\ i + K = d /\ j + K = 0 /\ i + K \in Nat /\ j + K \in Nat
  BY <1>1
<1>3. D \in Nat /\ D > 0
  BY <1>1, PowerPositive
<1>4. u = <<a, i>> /\ v = <<b, j>>
  BY DEF TermIs
<1>5. a * D + b = IF ls THEN -W ELSE W
  <2> HIDE DEF d, D
  <2> DEFINE P == fl * D
  <2>1. P \in Int /\ (-fl) * D = -P
    BY <1>1, <1>3
  <2>2. W = IF ls = ss THEN P + fs ELSE P - fs
    BY DEF ExactWhole, D, P
  <2>3. a * D = IF ls THEN -P ELSE P
    BY <2>1
  <2> HIDE DEF P, W
  <2> DEFINE Q == a * D
  <2> HIDE DEF Q
  <2>4. Q = IF ls THEN -P ELSE P
    BY <2>3 DEF Q
  <2>5. Q + b = IF ls THEN -W ELSE W
    BY <1>1, <2>1, <2>2, <2>4
  <2> QED
    BY <2>5 DEF Q
<1>6. \E c \in Int, e \in Int :
        z = <<c, e>> /\ e + K \in Nat /\ c * 2^(e+K) = a * D + b
  <2>1. 2^(j+K) = 1 /\ 2^(i+K) = D
    <3>1. 2^0 = 1
      BY PowerZero
    <3> QED
      BY <1>2, <3>1
  <2> HIDE DEF a, b, i, j, K
  <2>2. CASE z = Plus(u, v)
    <3>1. PICK c \in Int, e \in Int :
             /\ Plus(<<a, i>>, <<b, j>>) = <<c, e>>
             /\ e + K \in Nat
             /\ c * 2^(e+K) = a * 2^(i+K) + b * 2^(j+K)
      BY <1>2, PlusIs
    <3>2. a * 2^(i+K) + b * 2^(j+K) = a * D + b
      BY <1>2, <1>3, <2>1
    <3> QED
      BY <1>4, <2>2, <3>1, <3>2
  <2>3. CASE z = Plus(v, u)
    <3>1. PICK c \in Int, e \in Int :
             /\ Plus(<<b, j>>, <<a, i>>) = <<c, e>>
             /\ e + K \in Nat
             /\ c * 2^(e+K) = b * 2^(j+K) + a * 2^(i+K)
      BY <1>2, PlusIs
    <3>2. b * 2^(j+K) + a * 2^(i+K) = a * D + b
      BY <1>2, <1>3, <2>1
    <3> QED
      BY <1>4, <2>3, <3>1, <3>2
  <2> QED
    BY <2>2, <2>3 DEF IsSum
<1>7. PICK c \in Int, e \in Int : z = <<c, e>> /\ e + K \in Nat /\ c * 2^(e+K) = a * D + b
  BY <1>6
<1>8. e + K = e + FracBits - se
  BY <1>1
<1>9. ExactIs(c, e, ls, W, se)
  <2> HIDE DEF W, a, b
  <2> QED
    BY <1>5, <1>7 DEF ExactIs
<1> QED
  BY <1>7, <1>9

\* What the adder shows of two addends that it has aligned.
LEMMA AlignedSum ==
  ASSUME NEW r, NEW x, NEW y, Aligned(r, x, y),
         NEW fl, NEW ls, NEW le, NEW fs, NEW ss, NEW se, Addends(r, fl, ls, le, fs, ss, se),
         NEW u, NEW v, TermIs(u, ls, fl, le), TermIs(v, ss, fs, se), NEW z, IsSum(z, u, v),
         r.isAddition \/ SumOf(r) = 0
           \/ SumOf(r) >= 2^((AdderBits-1) - ShiftRange(AdderBits-1))
  PROVE  LET a == AddFinish(r, x, y)
             g == Generate(a.out, a.trailing, a.sticky)
         IN  /\ Surrounds(g, NBits, ES, z)
             /\ ShiftsOut(fs, le - se) = 0 => RoundsTo(g, NBits, ES, z)
<1>1. PICK c \in Int, e \in Int :
         z = <<c, e>> /\ ExactIs(c, e, ls, ExactWhole(fl, ls, fs, ss, le - se), se)
  BY SumIsExact
<1> DEFINE a == AddFinish(r, x, y)  g == Generate(a.out, a.trailing, a.sticky)
<1>2. /\ Surrounds(g, NBits, ES, <<c, e>>)
      /\ ShiftsOut(fs, le - se) = 0 => RoundsTo(g, NBits, ES, <<c, e>>)
  BY <1>1, AddendsRound
<1> HIDE DEF g
<1> QED
  BY <1>1, <1>2, Zenon DEF g, a

\* The normalisation shift reaches no further than the adder is wide.
LEMMA ShiftInWidth ==
  ASSUME NEW w \in Nat, w >= 2
  PROVE  w - ShiftRange(w) \in Nat \ {0}
<1> DEFINE b == NormBits(w)  h == 2^(b-1)
<1>1. b \in Nat /\ (b = 0 \/ h < w) /\ 2^b >= w
  BY Log2CeilIs DEF NormBits
<1>2. b # 0
  <2>1. b = 0 => 2^b = 1
    BY PowerZero
  <2> HIDE DEF b, h
  <2> QED
    BY <1>1, <2>1
<1>3. h \in Nat
  <2>1. b - 1 \in Nat
    BY <1>1, <1>2
  <2> HIDE DEF b
  <2> QED
    BY <2>1, PowerPositive
<1>4. ShiftRange(w) = h
  BY DEF ShiftRange
<1> HIDE DEF h, b
<1> QED
  BY <1>1, <1>2, <1>3, <1>4

\* What the adder and the generator make of an operation's operands.
SumShownOf(op) ==
  LET x == Extract(op.num1)
      y == Extract(op.num2)
      a == AddFinish(AddAlign(x, y, IsSub(op)), x, y)
  IN  Generate(a.out, a.trailing, a.sticky)

\* A sum of two nonzero numbers.
LEMMA NumbersSum ==
  ASSUME NEW op, op.num1 \in Posits \ {0, NaR}, op.num2 \in Posits \ {0, NaR},
         ~AddCancels(op, ShiftRange(AdderBits-1))
  PROVE  /\ Surrounds(SumShownOf(op), NBits, ES, ExactSum(op))
         /\ ~AddDrops(op) => RoundsTo(SumShownOf(op), NBits, ES, ExactSum(op))
<1> DEFINE x == Extract(op.num1)  y == Extract(op.num2)  sub == IsSub(op)
           r == AddAlign(x, y, sub)  a == AddFinish(r, x, y)
           g == Generate(a.out, a.trailing, a.sticky)
           u == Val(op.num1)  w == Val(op.num2)  v == IF sub THEN Negative(w) ELSE w
           z == ExactSum(op)  M == 2^FracBits  top == AdderBits - 1
           first == FirstIsLarger(x, y)
<1>1. /\ x \in OperandType /\ y \in OperandType
      /\ x \in Unpacked /\ y \in Unpacked /\ ~x.isZero /\ ~x.isNaR /\ ~y.isZero /\ ~y.isNaR
      /\ x.fraction \in M..(2*M-1) /\ y.fraction \in M..(2*M-1)
      /\ x.sign \in BOOLEAN /\ y.sign \in BOOLEAN
      /\ x.fraction \in Int /\ y.fraction \in Int
  <2>1. op.num1 \in Posits /\ op.num2 \in Posits
    OBVIOUS
  <2> QED
    BY <2>1, NumberUnpacks, OperandTypes
<1>2. /\ x.exponent \in Int /\ y.exponent \in Int
      /\ -((NBits - 1) * 2^ES) <= x.exponent /\ x.exponent < (NBits - 1) * 2^ES
      /\ -((NBits - 1) * 2^ES) <= y.exponent /\ y.exponent < (NBits - 1) * 2^ES
  BY ExtractedExponent
<1>3. sub \in BOOLEAN
  BY DEF IsSub
<1>4. /\ TermIs(u, x.sign, x.fraction, x.exponent)
      /\ TermIs(v, y.sign # sub, y.fraction, y.exponent)
  <2>1. TermIs(u, x.sign, x.fraction, x.exponent) /\ TermIs(w, y.sign, y.fraction, y.exponent)
    BY SignedValue, Zenon DEF TermIs, Val
  <2> HIDE DEF x, y, w, u, sub
  <2>2. TermIs(v, y.sign # sub, y.fraction, y.exponent)
    BY <1>1, <1>2, <1>3, <2>1, NegatedTerm
  <2> QED
    BY <2>1, <2>2
<1>5. z = Plus(u, v)
  BY DEF ExactSum
<1>6. IF first THEN Addends(r, x.fraction, x.sign, x.exponent, y.fraction, y.sign # sub, y.exponent)
      ELSE Addends(r, y.fraction, y.sign # sub, y.exponent, x.fraction, x.sign, x.exponent)
  <2> HIDE DEF x, y, sub
  <2> QED
    BY <1>1, <1>3, AlignedParts
<1>7. ~r.isAddition => r.largeFrac - r.smallFrac \notin 1 .. (2^(top - ShiftRange(top)) - 1)
  BY DEF AddCancels
<1>8. AddDrops(op) = IF first THEN Drops(y.fraction * 2^3, x.exponent - y.exponent)
                     ELSE Drops(x.fraction * 2^3, y.exponent - x.exponent)
  BY Zenon DEF AddDrops
<1>9. SumShownOf(op) = g
  BY DEF SumShownOf
<1> HIDE DEF x, y, sub, first, z, v, u, r
<1>10. ASSUME NEW fl, NEW ls, NEW le, NEW fs, NEW ss, NEW se, Addends(r, fl, ls, le, fs, ss, se),
              -((NBits - 1) * 2^ES) <= le, le < (NBits - 1) * 2^ES,
              NEW s, NEW t, TermIs(s, ls, fl, le), TermIs(t, ss, fs, se), IsSum(z, s, t)
       PROVE  /\ Surrounds(g, NBits, ES, z)
              /\ ~Drops(fs * 2^3, le - se) => RoundsTo(g, NBits, ES, z)
  <2> DEFINE bound == (NBits - 1) * 2^ES  N == SumOf(r)
  <2>1. /\ r \in AddRegType /\ le \in Int /\ se \in Int /\ le - se \in Nat
        /\ fs \in M..(2*M-1) /\ r.largeExp = le
    BY <1>10 DEF Addends
  <2>2. /\ N \in Nat /\ r.smallFrac <= r.largeFrac /\ r.largeFrac >= 8 * M
        /\ r.isAddition \in BOOLEAN
    BY <1>10, <2>1, SumWhole DEF AddRegType
  <2>3. bound \in Int /\ M \in Nat /\ M > 0
    BY FormatPowers
  <2>4. Aligned(r, x, y)
    <3>1. -bound <= r.largeExp /\ r.largeExp <= bound
      <4> HIDE DEF bound
      <4>1. -bound <= le /\ le < bound
        BY <1>10 DEF bound
      <4> QED
        BY <2>1, <2>3, <4>1
    <3>2. 8 * M <= r.largeFrac
      <4> HIDE DEF M
      <4>1. r.largeFrac \in Int
        BY <2>1 DEF AddRegType
      <4> QED
        BY <2>2, <2>3, <4>1
    <3> QED
      BY <1>1, <2>1, <2>2, <3>1, <3>2, Zenon DEF Aligned
  <2>5. r.isAddition \/ N = 0 \/ N >= 2^(top - ShiftRange(top))
    <3> DEFINE least == 2^(top - ShiftRange(top))
    <3>1. CASE ~r.isAddition
      <4>1. N = r.largeFrac - r.smallFrac
        BY <3>1 DEF SumOf
      <4>2. N \notin 1..(least - 1)
        BY <1>7, <3>1, <4>1
      <4>3. least \in Int
        <5>1. top - ShiftRange(top) \in Nat
          BY AdderWidth, ShiftInWidth
        <5> HIDE DEF top
        <5> QED
          BY <5>1, PowerPositive
      <4> HIDE DEF least, N
      <4>4. N = 0 \/ N >= least
        BY <2>2, <4>2, <4>3
      <4> QED
        BY <4>4 DEF least
    <3> QED
      BY <3>1
  <2>6. /\ Surrounds(g, NBits, ES, z)
        /\ ShiftsOut(fs, le - se) = 0 => RoundsTo(g, NBits, ES, z)
    <3> HIDE DEF g
    <3> QED
      BY <1>10, <2>4, <2>5, AlignedSum DEF g, a, N, top
  <2>7. ~Drops(fs * 2^3, le - se) => ShiftsOut(fs, le - se) = 0
    <3>1. fs \in Nat /\ fs > 0 /\ fs < 2 * M
      <4> HIDE DEF M
      <4> QED
        BY <2>1, <2>3
    <3> QED
      BY <2>1, <3>1, DropsIs
  <2> HIDE DEF g
  <2> QED
    BY <2>6, <2>7
<1> HIDE DEF g
<1>11. /\ Surrounds(g, NBits, ES, z)
       /\ ~AddDrops(op) => RoundsTo(g, NBits, ES, z)
  <2>1. IsSum(z, u, v) /\ IsSum(z, v, u)
    BY <1>5 DEF IsSum
  <2>2. CASE first
    BY <1>2, <1>4, <1>6, <1>8, <1>10, <2>1, <2>2
  <2>3. CASE ~first
    BY <1>2, <1>4, <1>6, <1>8, <1>10, <2>1, <2>3
  <2> QED
    BY <2>2, <2>3
<1> QED
  BY <1>9, <1>11, Zenon DEF z

-----------------------------------------------------------------------------
(* A sum with one zero operand, which unpacks to the smallest number of    *)
(* all: it does not change the other operand when there are exponent bits. *)

\* The pattern p is half a pattern or less from the place X of the regime that starts at
\* the pattern P and has U places to a pattern, and q is less than that from it.
NearPlace(p, P, U, X) ==
  LET z == 2 * ((p - P) * U - X) IN -U <= z /\ z <= U
AtPlace(q, P, U, X) ==
  LET z == 2 * ((q - P) * U - X) IN -U < z /\ z < U

LEMMA NearOnce ==
  ASSUME NEW p \in Int, NEW q \in Int, NEW P \in Int, NEW U \in Nat, NEW X \in Int,
         NearPlace(p, P, U, X), AtPlace(q, P, U, X)
  PROVE  ~(p < q) /\ ~(q < p)
<1> DEFINE u == (p - P) * U  v == (q - P) * U
<1>1. u \in Int /\ v \in Int
  OBVIOUS
<1>2. /\ -U <= 2 * (u - X) /\ 2 * (u - X) <= U
      /\ -U < 2 * (v - X) /\ 2 * (v - X) < U
  BY DEF NearPlace, AtPlace
<1>3. p < q => u + U <= v
  <2> SUFFICES ASSUME p < q PROVE u + U <= v
    OBVIOUS
  <2>1. ((p - P) + 1) * U <= (q - P) * U
    BY TimesOrder
  <2>2. ((p - P) + 1) * U = u + U
    OBVIOUS
  <2> QED
    BY <2>1, <2>2
<1>4. q < p => v + U <= u
  <2> SUFFICES ASSUME q < p PROVE v + U <= u
    OBVIOUS
  <2>1. ((q - P) + 1) * U <= (p - P) * U
    BY TimesOrder
  <2>2. ((q - P) + 1) * U = v + U
    OBVIOUS
  <2> QED
    BY <2>1, <2>2
<1> HIDE DEF u, v
<1> QED
  BY <1>1, <1>2, <1>3, <1>4

\* A ratio is rounded to a pattern near its place in its regime.
LEMMA PlaceRounds ==
  ASSUME NEW p, NEW num \in Nat, NEW t \in Nat, t > 0,
         NEW r, NEW P, NEW Q, NEW D, RegimeIs(r, NBits, P, Q, D), NEW a \in 0..(2^ES - 1),
         RoundsRatio(p, NBits, ES, r * 2^ES + a, num, t * 2^FracBits)
  PROVE  /\ p \in 1..Largest
         /\ NearPlace(p, P, D * t, a * (t * 2^FracBits) + (num - t * 2^FracBits))
<1> DEFINE base == 2^ES  M == 2^FracBits  n == NBits  e == r * base + a
           den == t * M  place == a * den + (num - den)  U == D * t
<1>1. /\ n \in Nat /\ base \in Nat /\ base > 0 /\ M \in Nat /\ M > 0 /\ Largest \in Nat
      /\ Largest = 2^(n-1) - 1 /\ n >= 4 /\ 2^(n-3) = base * M
  BY FormatPowers
<1>2. /\ r \in (2-n)..(n-3) /\ P \in Nat /\ Q \in Nat /\ Q > 0 /\ D \in Nat /\ D > 0
      /\ PowerPattern(r, n) = P /\ PowerPattern(r+1, n) = P + Q /\ D * Q = 2^(n-3)
  BY DEF RegimeIs
<1>3. r \in Int /\ ~(r >= n - 2) /\ ~(r <= -(n-1))
  BY <1>1, <1>2
<1>4. e \div base = r /\ e % base = a
  <2>1. a \in 0..(base-1)
    OBVIOUS
  <2> HIDE DEF base
  <2> QED
    BY <1>1, <1>3, <2>1, DivIs
<1>5. p \in 1..Largest /\ Nearest(p, P * (base * den) + (PowerPattern(r+1, n) - P) * place, base * den, FALSE)
  BY <1>1, <1>2, <1>3, <1>4 DEF RoundsRatio
<1>6. PowerPattern(r+1, n) - P = Q
  BY <1>2
<1>7. Nearest(p, P * (base * den) + Q * place, base * den, FALSE)
  BY <1>5, <1>6
<1>8. den \in Nat /\ den > 0 /\ place \in Int /\ U \in Nat /\ U > 0
  <2>1. den \in Nat /\ den > 0
    <3> HIDE DEF M
    <3> QED
      BY <1>1
  <2>2. U \in Nat /\ U > 0
    BY <1>2
  <2>3. a \in Int
    BY <1>1
  <2>4. place \in Int
    <3> HIDE DEF den
    <3> QED
      BY <2>1, <2>3
  <2> QED
    BY <2>1, <2>2, <2>4
<1>9. base * den = U * Q
  <2>1. base * M = D * Q /\ base \in Nat /\ M \in Nat
    BY <1>1, <1>2
  <2> HIDE DEF base, M
  <2>2. base * (t * M) = t * (base * M)
    BY <2>1
  <2>3. t * (D * Q) = (D * t) * Q
    BY <1>2
  <2> QED
    BY <2>1, <2>2, <2>3
<1> DEFINE X == P * U + place
<1>10. X \in Int /\ P * (base * den) + Q * place = X * Q
  <2> HIDE DEF U, place
  <2>1. P * (U * Q) + Q * place = (P * U + place) * Q
    BY <1>2, <1>8
  <2> QED
    BY <1>2, <1>8, <1>9, <2>1
<1>11. Nearest(p, X * Q, U * Q, FALSE)
  <2> HIDE DEF X, U, place, den, base
  <2> QED
    BY <1>7, <1>9, <1>10
<1>12. p \in Nat /\ p \in Int
  BY <1>1, <1>5
<1>13. Nearest(p, X, U, FALSE)
  <2> HIDE DEF X, U
  <2> QED
    BY <1>2, <1>8, <1>10, <1>11, <1>12, NearestUnscaled
<1>14. -U <= 2 * (p * U - X) /\ 2 * (p * U - X) <= U
  <2> HIDE DEF X, U
  <2> QED
    BY <1>13 DEF Nearest
<1>15. p * U - X = (p - P) * U - place
  <2> HIDE DEF U, place
  <2>1. (p - P) * U = p * U - P * U /\ p * U \in Int /\ P * U \in Int
    BY <1>2, <1>8, <1>12
  <2> QED
    BY <1>8, <2>1
<1>16. NearPlace(p, P, U, place)
  <2> HIDE DEF U, place, X
  <2> QED
    BY <1>14, <1>15 DEF NearPlace
<1> QED
  BY <1>5, <1>16

\* A regime of small numbers starts at a pattern as large as it is wide.
LEMMA SmallRegime ==
  ASSUME NEW r, NEW P, NEW Q, NEW D, RegimeIs(r, NBits, P, Q, D), r < 0
  PROVE  Q = P /\ P = 2^(NBits - 2 + r)
<1> DEFINE n == NBits  k == n - 2 + r  H == 2^(n-2)
<1>1. n \in Nat /\ n >= 4
  BY FormatPowers
<1>2. /\ r \in Int /\ 2 - n <= r /\ r < 0 /\ P \in Nat /\ Q \in Nat
      /\ PowerPattern(r, n) = P /\ PowerPattern(r+1, n) = P + Q
  BY <1>1 DEF RegimeIs
<1>3. k \in Nat /\ k + 1 \in Nat /\ n - 2 \in Nat /\ n - 3 \in Nat
  BY <1>1, <1>2
<1>4. P = 2^k
  <2>1. ~(r >= 0)
    BY <1>2
  <2> QED
    BY <1>2, <2>1 DEF PowerPattern
<1>5. 2^(k+1) = 2 * 2^k /\ 2^k \in Nat
  BY <1>3, PowerNext, PowerPositive
<1>6. PowerPattern(r+1, n) = 2^(k+1)
  <2>1. CASE r + 1 < 0
    <3>1. ~(r + 1 >= 0) /\ n - 2 + (r + 1) = k + 1
      BY <1>1, <1>2, <2>1
    <3> HIDE DEF k
    <3> QED
      BY <3>1 DEF PowerPattern
  <2>2. CASE ~(r + 1 < 0)
    <3>1. r + 1 = 0 /\ k + 1 = n - 2 /\ n - 2 - 0 = n - 2
      BY <1>1, <1>2, <2>2
    <3>2. PowerPattern(0, n) = 2^(n-1) - 2^(n-2-0)
      <4>1. 0 >= 0
        OBVIOUS
      <4> QED
        BY <4>1 DEF PowerPattern
    <3>3. 2^(n-1) = 2 * H /\ H \in Nat
      <4>1. (n-2) + 1 = n - 1
        BY <1>1
      <4> QED
        BY <1>3, <4>1, PowerNext, PowerPositive
    <3>4. PowerPattern(0, n) = H
      <4>1. 2^(n-2-0) = H
        BY <3>1
      <4> DEFINE G == 2^(n-1)
      <4> HIDE DEF H, G
      <4>2. G - H = H
        BY <3>3 DEF G
      <4> QED
        BY <3>2, <4>1, <4>2 DEF G
    <3> QED
      BY <3>1, <3>4
  <2> QED
    BY <2>1, <2>2
<1> DEFINE K == 2^k
<1> HIDE DEF k, K
<1>7. K \in Nat /\ P = K /\ P + Q = 2 * K
  BY <1>2, <1>4, <1>5, <1>6 DEF K
<1> QED
  BY <1>2, <1>4, <1>7 DEF k

\* What the fraction of zero leaves when it is aligned to an operand in this regime.
TinyPart(d) == (8 * 2^FracBits) \div 2^d

LEMMA TinyBound ==
  ASSUME ES > 0, NEW r, NEW P, NEW Q, NEW D, RegimeIs(r, NBits, P, Q, D),
         NEW a \in 0..(2^ES - 1), NEW d \in Int, d = (r * 2^ES + a) + (NBits - 1) * 2^ES
  PROVE  LET s == TinyPart(d)
         IN  /\ d \in Nat /\ s \in Nat /\ s < 2 * D /\ s <= 2 * 2^FracBits
             /\ s > 0 => r < 0
<1> DEFINE n == NBits  base == 2^ES  M == 2^FracBits  T == 2^d  s == TinyPart(d)
           m == (n - 1) + r
<1>1. /\ n \in Nat /\ n >= 4 /\ ES \in Nat /\ base \in Nat /\ M \in Nat /\ M > 0
      /\ FracBits \in Nat /\ n = FracBits + 3 + ES /\ 2^(n-3) = base * M
  BY FormatPowers
<1>2. /\ r \in Int /\ 2 - n <= r /\ P \in Nat /\ Q \in Nat /\ Q > 0 /\ D \in Nat /\ D > 0
      /\ D * Q = base * M
  BY <1>1 DEF RegimeIs
<1>3. base >= 2
  <2>1. 2^1 = 2 /\ 1 \in Nat /\ 1 <= ES
    BY <1>1
  <2> QED
    BY <1>1, <2>1, PowerMonotone
<1>4. m \in Nat /\ m >= 1 /\ d = m * base + a /\ d >= 2 * m /\ d \in Nat /\ d >= 2 /\ a \in Nat
  <2>1. m \in Nat /\ m >= 1
    BY <1>1, <1>2
  <2>2. a \in Nat
    BY <1>1
  <2> HIDE DEF base
  <2>3. (r * base + a) + (n - 1) * base = ((n - 1) + r) * base + a
    BY <1>1, <1>2, <2>2
  <2>4. d = m * base + a
    BY <2>3 DEF base
  <2>5. 2 * m <= base * m /\ base * m = m * base
    BY <1>1, <1>3, <2>1, TimesOrder
  <2> HIDE DEF m
  <2> DEFINE A == m * base
  <2>6. A \in Nat
    BY <1>1, <2>1
  <2> HIDE DEF A
  <2>7. d = A + a /\ 2 * m <= A
    BY <2>4, <2>5 DEF A
  <2>8. d \in Nat /\ d >= 2 * m /\ d >= 2
    BY <2>1, <2>2, <2>6, <2>7
  <2> QED
    BY <2>1, <2>2, <2>4, <2>8
<1>5. T \in Nat /\ T > 0 /\ T >= 4
  <2>1. 2^2 = 4 /\ 2 \in Nat
    OBVIOUS
  <2> QED
    BY <1>4, <2>1, PowerMonotone, PowerPositive
<1>6. s \in Nat /\ s * T <= 8 * M
  <2> HIDE DEF T, M
  <2>1. s = (8 * M) \div T /\ 8 * M \in Nat
    BY <1>1 DEF TinyPart, T, M
  <2> HIDE DEF s
  <2> DEFINE G == 8 * M
  <2>2. G \in Nat /\ s = G \div T
    BY <2>1
  <2> HIDE DEF G
  <2>3. s \in Int /\ s * T <= G /\ s >= 0
    BY <1>5, <2>2, DivParts
  <2> QED
    BY <2>3 DEF G
<1>7. s <= 2 * M
  <2> HIDE DEF T, M, s
  <2>1. 4 * s <= T * s /\ T * s = s * T
    BY <1>5, <1>6, TimesOrder
  <2> DEFINE Z == s * T
  <2>2. 4 * s <= Z /\ Z <= 8 * M /\ Z \in Int
    BY <1>5, <1>6, <2>1
  <2> HIDE DEF Z
  <2> QED
    BY <1>1, <1>6, <2>2
<1>8. s > 0 => r < 0
  <2> SUFFICES ASSUME r >= 0 PROVE ~(s > 0)
    BY <1>2
  <2>1. FracBits + 4 <= d /\ FracBits + 4 \in Nat
    <3>1. FracBits \in Nat /\ n = FracBits + 3 + ES /\ ES \in Nat /\ n \in Nat /\ d \in Nat /\ d >= 2 * m
      BY <1>1, <1>4
    <3>2. m >= n - 1
      BY <1>1, <1>2
    <3> HIDE DEF m, n
    <3>3. m \in Nat
      BY <1>4
    <3>4. d >= 2 * (n - 1)
      BY <3>1, <3>2, <3>3
    <3> QED
      BY <3>1, <3>4
  <2>2. 2^(FracBits + 4) <= T
    BY <1>4, <2>1, PowerMonotone
  <2>3. 2^(FracBits + 4) = 16 * M
    BY AdderWidth
  <2> HIDE DEF T, M, s
  <2>4. s > 0 => T <= s * T
    <3> SUFFICES ASSUME s > 0 PROVE T <= s * T
      OBVIOUS
    <3>1. 1 * T <= s * T
      BY <1>5, <1>6, TimesOrder
    <3> QED
      BY <1>5, <3>1
  <2> QED
    BY <1>1, <1>5, <1>6, <2>2, <2>3, <2>4
<1>9. s < 2 * D
  <2>1. CASE s > 0
    <3>1. r < 0
      BY <1>8, <2>1
    <3>2. Q = 2^(n - 2 + r)
      BY <3>1, SmallRegime
    <3>3. 8 * Q <= base * T
      <4> DEFINE k == m - 1
      <4>1. k \in Nat /\ k + 3 <= ES + d /\ k + 3 \in Nat /\ n - 2 + r = k /\ ES + d \in Nat
        BY <1>1, <1>2, <1>4
      <4>2. 2^(k+3) <= 2^(ES+d)
        BY <4>1, PowerMonotone
      <4>3. 2^(ES+d) = base * T
        BY <1>1, <1>4, PowerSum
      <4>4. 2^(k+3) = 8 * 2^k
        <5>1. 2^(k+3) = 2^k * 2^3 /\ 2^k \in Nat
          BY <4>1, PowerSum, PowerPositive
        <5>2. 2^3 = 8
          OBVIOUS
        <5> DEFINE K == 2^k
        <5> HIDE DEF K
        <5>3. K * 8 = 8 * K
          BY <5>1 DEF K
        <5> QED
          BY <5>1, <5>2, <5>3 DEF K
      <4>5. Q = 2^k
        BY <3>2, <4>1
      <4> HIDE DEF k, base, T
      <4> QED
        BY <4>2, <4>3, <4>4, <4>5
    <3> HIDE DEF T, M, s, base
    <3>4. ~(D * T <= 4 * M)
      <4> SUFFICES ASSUME D * T <= 4 * M PROVE FALSE
        OBVIOUS
      <4> DEFINE DT == D * T  M4 == 4 * M  BT == base * T  Q8 == 8 * Q
      <4>1. DT \in Int /\ M4 \in Int /\ BT \in Int /\ Q8 \in Int
        BY <1>1, <1>2, <1>5
      <4>2. DT <= M4 /\ Q8 <= BT
        BY <3>3
      <4> HIDE DEF DT, M4, BT, Q8
      <4>3. DT * Q <= M4 * Q /\ Q8 * M <= BT * M
        BY <1>1, <1>2, <4>1, <4>2, TimesOrder
      <4>4. DT * Q = T * (D * Q)
        BY <1>2, <1>5 DEF DT
      <4>5. T * (base * M) = BT * M
        BY <1>1, <1>5 DEF BT
      <4>6. M4 * Q = 4 * (M * Q) /\ Q8 * M = 8 * (M * Q)
        BY <1>1, <1>2 DEF M4, Q8
      <4>7. M * Q \in Nat /\ M * Q > 0
        BY <1>1, <1>2
      <4> DEFINE MQ == M * Q  Y == BT * M
      <4>8. DT * Q = Y
        BY <1>2, <4>4, <4>5
      <4>9. Y <= 4 * MQ /\ 8 * MQ <= Y
        BY <4>3, <4>6, <4>8
      <4>10. Y \in Int
        BY <1>1, <4>1
      <4> HIDE DEF MQ, Y
      <4>11. MQ \in Nat /\ MQ > 0
        BY <4>7 DEF MQ
      <4> QED
        BY <4>9, <4>10, <4>11
    <3> SUFFICES ASSUME s >= 2 * D PROVE FALSE
      BY <1>2, <1>6
    <3>5. (2 * D) * T <= s * T /\ (2 * D) * T = 2 * (D * T)
      BY <1>2, <1>5, <1>6, TimesOrder
    <3> DEFINE DT == D * T  ST == s * T
    <3>6. DT \in Int /\ ST \in Int
      BY <1>2, <1>5, <1>6
    <3>7. 2 * DT <= ST /\ ST <= 8 * M /\ ~(DT <= 4 * M)
      BY <1>6, <3>4, <3>5
    <3> HIDE DEF DT, ST
    <3> QED
      BY <1>1, <3>6, <3>7
  <2>2. CASE ~(s > 0)
    <3> HIDE DEF s
    <3> QED
      BY <1>2, <1>6, <2>2
  <2> QED
    BY <2>1, <2>2
<1> HIDE DEF s, M
<1> QED
  BY <1>4, <1>6, <1>7, <1>8, <1>9 DEF s, M

\* The pattern q stands in its regime where the exponent part a and the fraction f do.
StandsIn(q, r, P, Q, D, a, f) ==
  LET M == 2^FracBits
  IN  /\ RegimeIs(r, NBits, P, Q, D) /\ q \in Nat /\ P <= q /\ q < P + Q
      /\ a \in 0..(2^ES - 1) /\ f \in M..(2*M - 1)
      /\ (q - P) * D = a * M + (f - M)

\* N is 8 * f, give or take a part that is small in the regime.
TinyChange(N, f, s, r, D) ==
  /\ N \in Nat /\ s \in Nat /\ ~(8 * f + s < N) /\ ~(N < 8 * f - s)
  /\ s < 2 * D /\ s <= 2 * 2^FracBits /\ (s > 0 => r < 0)

\* The sum needs no shift.
LEMMA TinyStays ==
  ASSUME NEW q, NEW r, NEW P, NEW Q, NEW D, NEW a, NEW f, StandsIn(q, r, P, Q, D, a, f),
         NEW N, NEW s, TinyChange(N, f, s, r, D), N >= 8 * 2^FracBits, N < 16 * 2^FracBits,
         NEW p, RoundsRatio(p, NBits, ES, r * 2^ES + a, N, 8 * 2^FracBits)
  PROVE  ~(p < q) /\ ~(q < p)
<1> DEFINE M == 2^FracBits  U == D * 8  X == a * (8 * M) + (N - 8 * M)  AM == a * M
           y == (q - P) * D
<1>1. /\ M \in Nat /\ M > 0 /\ Largest \in Nat /\ 2^ES \in Nat
  BY FormatPowers
<1>2. /\ RegimeIs(r, NBits, P, Q, D) /\ q \in Nat /\ a \in 0..(2^ES - 1) /\ f \in M..(2*M - 1)
      /\ y = AM + (f - M) /\ P \in Nat /\ D \in Nat /\ D > 0 /\ a \in Int
  BY <1>1 DEF StandsIn, RegimeIs
<1>3. N \in Nat /\ s \in Nat /\ ~(8 * f + s < N) /\ ~(N < 8 * f - s) /\ s < 2 * D
  BY DEF TinyChange
<1>4. p \in 1..Largest /\ NearPlace(p, P, U, X)
  <2>1. 8 \in Nat /\ 8 > 0
    OBVIOUS
  <2> QED
    BY <1>2, <1>3, <2>1, PlaceRounds
<1>5. AM \in Int /\ a * (8 * M) = 8 * AM /\ X \in Int /\ U \in Nat /\ U = 8 * D /\ f \in Int /\ y \in Int
  <2>1. f \in Int
    <3> HIDE DEF M
    <3> QED
      BY <1>1, <1>2
  <2>2. AM \in Int /\ a * (8 * M) = 8 * AM /\ y \in Int
    <3> HIDE DEF M
    <3> QED
      BY <1>1, <1>2
  <2> HIDE DEF M, AM
  <2> QED
    BY <1>1, <1>2, <1>3, <2>1, <2>2
<1>6. (q - P) * U = 8 * y
  BY <1>2
<1>7. AtPlace(q, P, U, X)
  <2> DEFINE v == (q - P) * U  z == 2 * (v - X)
  <2>1. v = 8 * y /\ X = 8 * AM + (N - 8 * M)
    BY <1>5, <1>6
  <2> HIDE DEF M, AM, y, v, X
  <2>2. v - X = 8 * f - N
    BY <1>1, <1>2, <1>3, <1>5, <2>1
  <2>3. -U < z /\ z < U
    BY <1>2, <1>3, <1>5, <2>2
  <2> HIDE DEF U
  <2> QED
    BY <2>3 DEF AtPlace, v
<1>8. p \in Int /\ q \in Int /\ P \in Int
  BY <1>1, <1>2, <1>4
<1> HIDE DEF U, X
<1> QED
  BY <1>4, <1>5, <1>7, <1>8, NearOnce

\* The sum overflows into the next exponent.
LEMMA TinyCarries ==
  ASSUME NEW q, NEW r, NEW P, NEW Q, NEW D, NEW a, NEW f, StandsIn(q, r, P, Q, D, a, f),
         NEW N, NEW s, TinyChange(N, f, s, r, D), N >= 16 * 2^FracBits,
         NEW p, RoundsRatio(p, NBits, ES, (r * 2^ES + a) + 1, N, 16 * 2^FracBits)
  PROVE  ~(p < q) /\ ~(q < p)
<1> DEFINE M == 2^FracBits  base == 2^ES  U == D * 16  AM == a * M  b == a + 1
           X == b * (16 * M) + (N - 16 * M)  y == (q - P) * D
<1>1. /\ M \in Nat /\ M > 0 /\ Largest \in Nat /\ base \in Nat /\ 2^(NBits-3) = base * M
  BY FormatPowers
<1>2. /\ RegimeIs(r, NBits, P, Q, D) /\ q \in Nat /\ q < P + Q
      /\ a \in 0..(base - 1) /\ f \in M..(2*M - 1)
      /\ y = AM + (f - M) /\ P \in Nat /\ D \in Nat /\ D > 0 /\ Q \in Nat /\ D * Q = base * M
      /\ r \in Int
  BY <1>1 DEF StandsIn, RegimeIs
<1>3. N \in Nat /\ s \in Nat /\ ~(8 * f + s < N) /\ s < 2 * D /\ N >= 16 * M
  BY DEF TinyChange
<1>4. /\ f \in Int /\ a \in Int /\ a <= base - 1 /\ f < 2 * M /\ AM \in Int /\ y \in Int
      /\ b * (16 * M) = 16 * AM + 16 * M /\ U \in Nat /\ U = 16 * D
  <2>1. f \in Int /\ f < 2 * M
    <3> HIDE DEF M
    <3> QED
      BY <1>1, <1>2
  <2>2. a \in Int /\ a <= base - 1
    <3> HIDE DEF base
    <3> QED
      BY <1>1, <1>2
  <2>3. AM \in Int /\ b * (16 * M) = 16 * AM + 16 * M
    <3> HIDE DEF M
    <3> QED
      BY <1>1, <2>2
  <2>4. y \in Int /\ U \in Nat /\ U = 16 * D
    BY <1>2
  <2> QED
    BY <2>1, <2>2, <2>3, <2>4
<1>5. a + 1 < base
  <2> SUFFICES ASSUME ~(a + 1 < base) PROVE FALSE
    OBVIOUS
  <2>1. a = base - 1
    <3> HIDE DEF base
    <3> QED
      BY <1>1, <1>4
  <2> DEFINE BM == base * M  DQ == D * Q  g == 2 * M - f
  <2>2. AM = BM - M /\ BM \in Int
    <3> HIDE DEF base, M
    <3> QED
      BY <1>1, <2>1
  <2>3. ((P + Q) - q) * D = DQ - y /\ DQ \in Int
    BY <1>2
  <2>4. 1 * D <= ((P + Q) - q) * D
    BY <1>2, TimesOrder
  <2>5. DQ = BM
    BY <1>2
  <2> HIDE DEF BM, DQ, AM, y, M, base
  <2>6. D <= DQ - y
    BY <1>2, <2>3, <2>4
  <2>7. DQ - y = g
    BY <1>1, <1>2, <1>4, <2>2, <2>3, <2>5
  <2>8. D <= g /\ g \in Int
    BY <1>1, <1>4, <2>6, <2>7
  <2>9. 8 * g <= s
    BY <1>1, <1>3, <1>4
  <2> HIDE DEF g
  <2> QED
    BY <1>2, <1>3, <2>8, <2>9
<1>6. b \in 0..(base - 1)
  <2> HIDE DEF base
  <2>1. a \in Nat
    BY <1>1, <1>2
  <2> QED
    BY <1>1, <1>5, <2>1
<1>7. (r * base + a) + 1 = r * base + b
  <2> HIDE DEF base
  <2> QED
    BY <1>1, <1>2, <1>4
<1>8. RoundsRatio(p, NBits, ES, r * base + b, N, 16 * M)
  BY <1>7
<1>9. p \in 1..Largest /\ NearPlace(p, P, U, X)
  <2>1. 16 \in Nat /\ 16 > 0
    OBVIOUS
  <2> HIDE DEF b
  <2> QED
    BY <1>2, <1>3, <1>6, <1>8, <2>1, PlaceRounds
<1>10. (q - P) * U = 16 * y
  BY <1>2
<1>11. X \in Int
  <2> HIDE DEF M, AM
  <2> QED
    BY <1>1, <1>3, <1>4
<1>12. AtPlace(q, P, U, X)
  <2> DEFINE v == (q - P) * U  z == 2 * (v - X)
  <2>1. v = 16 * y /\ X = (16 * AM + 16 * M) + (N - 16 * M)
    BY <1>4, <1>10
  <2> HIDE DEF M, AM, y, v, X
  <2>2. v - X = 16 * f - (16 * M + N)
    BY <1>1, <1>2, <1>3, <1>4, <2>1
  <2>3. v - X < 0
    BY <1>1, <1>3, <1>4, <2>2 DEF M
  <2>4. -(2 * s) <= v - X
    BY <1>1, <1>3, <1>4, <2>2 DEF M
  <2>5. v - X \in Int
    BY <1>1, <1>3, <1>4, <2>2
  <2> DEFINE g == v - X
  <2> HIDE DEF g
  <2>6. -U < 2 * g /\ 2 * g < U
    BY <1>2, <1>3, <1>4, <2>3, <2>4, <2>5 DEF g
  <2> HIDE DEF U
  <2> QED
    BY <2>6 DEF AtPlace, v, g
<1>13. p \in Int /\ q \in Int /\ P \in Int
  BY <1>1, <1>2, <1>9
<1> HIDE DEF U, X
<1> QED
  BY <1>4, <1>9, <1>11, <1>12, <1>13, NearOnce

\* The difference falls into the exponent below.
LEMMA TinyBorrows ==
  ASSUME NEW q, NEW r, NEW P, NEW Q, NEW D, NEW a, NEW f, StandsIn(q, r, P, Q, D, a, f),
         NEW N, NEW s, TinyChange(N, f, s, r, D), N < 8 * 2^FracBits,
         NEW p, RoundsRatio(p, NBits, ES, (r * 2^ES + a) - 1, 2 * N, 8 * 2^FracBits)
  PROVE  ~(p < q) /\ ~(q < p)
<1> DEFINE M == 2^FracBits  base == 2^ES  AM == a * M  y == (q - P) * D  n == NBits
<1>1. /\ M \in Nat /\ M > 0 /\ Largest \in Nat /\ base \in Nat /\ base > 0
      /\ 2^(n-3) = base * M /\ n \in Nat /\ n >= 4
  BY FormatPowers
<1>2. /\ RegimeIs(r, n, P, Q, D) /\ q \in Nat /\ P <= q
      /\ a \in 0..(base - 1) /\ f \in M..(2*M - 1)
      /\ y = AM + (f - M) /\ P \in Nat /\ D \in Nat /\ D > 0 /\ Q \in Nat /\ D * Q = base * M
      /\ r \in Int /\ 2 - n <= r /\ r <= n - 3 /\ q < P + Q
  BY <1>1 DEF StandsIn, RegimeIs
<1>3. /\ N \in Nat /\ s \in Nat /\ ~(8 * f + s < N) /\ ~(N < 8 * f - s) /\ s < 2 * D
      /\ N < 8 * M /\ (s > 0 => r < 0)
  BY DEF TinyChange
<1>4. /\ f \in Int /\ a \in Nat /\ a <= base - 1 /\ f >= M /\ AM \in Int /\ y \in Int
      /\ 2 * N \in Nat
  <2>1. f \in Int /\ f >= M
    <3> HIDE DEF M
    <3> QED
      BY <1>1, <1>2
  <2>2. a \in Nat /\ a <= base - 1
    <3> HIDE DEF base
    <3> QED
      BY <1>1, <1>2
  <2>3. AM \in Int
    <3> HIDE DEF M
    <3> QED
      BY <1>1, <2>2
  <2>4. y \in Int /\ 2 * N \in Nat
    BY <1>2, <1>3
  <2> QED
    BY <2>1, <2>2, <2>3, <2>4
<1>5. CASE a > 0
  <2> DEFINE b == a - 1  X == b * (8 * M) + (2 * N - 8 * M)  U == D * 8
  <2>1. b \in 0..(base - 1) /\ (r * base + a) - 1 = r * base + b
    <3> HIDE DEF base
    <3> QED
      BY <1>1, <1>2, <1>4, <1>5
  <2>2. b * (8 * M) = 8 * AM - 8 * M
    <3> HIDE DEF M
    <3> QED
      BY <1>1, <1>4
  <2>3. RoundsRatio(p, NBits, ES, r * base + b, 2 * N, 8 * M)
    BY <2>1
  <2>4. p \in 1..Largest /\ NearPlace(p, P, U, X)
    <3>1. 8 \in Nat /\ 8 > 0
      OBVIOUS
    <3> HIDE DEF b
    <3> QED
      BY <1>2, <1>4, <2>1, <2>3, <3>1, PlaceRounds
  <2>5. (q - P) * U = 8 * y /\ U = 8 * D /\ U \in Nat
    BY <1>2
  <2>6. X \in Int /\ X = (8 * AM - 8 * M) + (2 * N - 8 * M)
    <3> HIDE DEF M, AM, b
    <3> QED
      BY <1>1, <1>3, <1>4, <2>2
  <2>7. AtPlace(q, P, U, X)
    <3> DEFINE v == (q - P) * U  g == v - X
    <3>1. v = 8 * y
      BY <2>5
    <3> HIDE DEF M, AM, y, v, X
    <3>2. g = 8 * f + 8 * M - 2 * N /\ g \in Int
      BY <1>1, <1>2, <1>3, <1>4, <2>6, <3>1
    <3>3. g > 0
      BY <1>1, <1>3, <1>4, <3>2
    <3>4. g <= 2 * s
      BY <1>1, <1>3, <1>4, <3>2
    <3> HIDE DEF g
    <3>5. -U < 2 * g /\ 2 * g < U
      BY <1>2, <1>3, <2>5, <3>2, <3>3, <3>4
    <3> HIDE DEF U
    <3> QED
      BY <3>5 DEF AtPlace, v, g
  <2>8. p \in Int /\ q \in Int /\ P \in Int
    BY <1>1, <1>2, <2>4
  <2> HIDE DEF U, X
  <2> QED
    BY <2>4, <2>5, <2>6, <2>7, <2>8, NearOnce
<1>6. CASE a = 0
  <2>1. AM = 0
    <3> HIDE DEF M
    <3> QED
      BY <1>1, <1>6
  <2>2. s > 0 /\ r < 0 /\ 8 * y < 2 * D
    <3> HIDE DEF M, AM, y
    <3> QED
      BY <1>1, <1>2, <1>3, <1>4, <2>1
  <2>3. q = P
    <3> SUFFICES ASSUME q > P PROVE FALSE
      BY <1>2
    <3>1. 1 * D <= (q - P) * D
      BY <1>2, TimesOrder
    <3>2. D <= y
      BY <1>2, <3>1
    <3> HIDE DEF y
    <3> QED
      BY <1>2, <1>4, <2>2, <3>2
  <2>4. f = M
    <3>1. y = 0
      BY <1>2, <2>3
    <3> HIDE DEF y, M, AM
    <3> QED
      BY <1>1, <1>2, <1>4, <2>1, <3>1
  <2>5. Q = P /\ P = 2^(n - 2 + r)
    BY <1>2, <2>2, SmallRegime
  <2> DEFINE e == (r * base + a) - 1  l == r - 1  b == base - 1
  <2>6. e = l * base + b /\ l \in Int /\ b \in 0..(base - 1)
    <3> HIDE DEF base
    <3> QED
      BY <1>1, <1>2, <1>6
  <2>7. CASE r = 2 - n
    <3>1. P = 1
      <4>1. n - 2 + r = 0
        BY <1>1, <2>7
      <4> QED
        BY <2>5, <4>1, PowerZero
    <3>2. e \div base = l
      <4> HIDE DEF base, l, b, e
      <4> QED
        BY <1>1, <2>6, DivIs
    <3>3. l <= -(n-1) /\ ~(l >= n - 2)
      BY <1>1, <2>7
    <3>4. p = 1
      <4> HIDE DEF l
      <4> QED
        BY <3>2, <3>3 DEF RoundsRatio
    <3> QED
      BY <2>3, <3>1, <3>4
  <2>8. CASE r # 2 - n
    <3>1. l \in (2-n)..(n-3) /\ l < 0 /\ l + 1 = r
      BY <1>1, <1>2, <2>2, <2>8
    <3>2. PICK P1, Q1, D1 : RegimeIs(l, n, P1, Q1, D1)
      BY <1>1, <3>1, RegimeExists
    <3>3. /\ P1 \in Nat /\ Q1 \in Nat /\ Q1 > 0 /\ D1 \in Nat /\ D1 > 0 /\ D1 * Q1 = base * M
          /\ PowerPattern(l + 1, n) = P1 + Q1
      BY <1>1, <3>2 DEF RegimeIs
    <3>4. Q1 = P1
      BY <3>1, <3>2, SmallRegime
    <3>5. P = P1 + Q1
      <4>1. PowerPattern(r, n) = P
        BY <1>2 DEF RegimeIs
      <4> HIDE DEF l
      <4> QED
        BY <3>1, <3>3, <4>1
    <3>6. Q = 2 * Q1
      BY <2>5, <3>3, <3>4, <3>5
    <3>7. D1 >= D
      <4> SUFFICES ASSUME D1 + 1 <= D PROVE FALSE
        BY <1>2, <3>3
      <4>1. (D1 + 1) * Q1 <= D * Q1
        BY <1>2, <3>3, TimesOrder
      <4>2. (D1 + 1) * Q1 = D1 * Q1 + Q1 /\ D * Q = 2 * (D * Q1)
        BY <1>2, <3>3, <3>6
      <4> DEFINE A == D1 * Q1  B == D * Q1
      <4>3. A + Q1 <= B /\ A = 2 * B /\ A \in Nat /\ B \in Nat
        BY <1>2, <3>3, <4>1, <4>2
      <4> HIDE DEF A, B
      <4> QED
        BY <3>3, <4>3
    <3> DEFINE X == b * (8 * M) + (2 * N - 8 * M)  U == D1 * 8  BM == base * M
    <3>8. RoundsRatio(p, NBits, ES, l * base + b, 2 * N, 8 * M)
      BY <2>6
    <3>9. p \in 1..Largest /\ NearPlace(p, P1, U, X)
      <4>1. 8 \in Nat /\ 8 > 0
        OBVIOUS
      <4> HIDE DEF b, l
      <4> QED
        BY <1>4, <2>6, <3>2, <3>8, <4>1, PlaceRounds
    <3>10. BM \in Int /\ b * (8 * M) = 8 * BM - 8 * M
      <4> HIDE DEF base, M
      <4> QED
        BY <1>1
    <3>11. X \in Int /\ X = (8 * BM - 8 * M) + (2 * N - 8 * M)
      <4> HIDE DEF BM, M, b
      <4> QED
        BY <1>1, <1>3, <3>10
    <3>12. (q - P1) * U = 8 * BM
      <4>1. q - P1 = Q1
        BY <2>3, <3>3, <3>5
      <4>2. Q1 * U = 8 * (D1 * Q1)
        BY <3>3
      <4> HIDE DEF BM
      <4> QED
        BY <3>3, <4>1, <4>2 DEF BM
    <3>13. U = 8 * D1 /\ U \in Nat
      BY <3>3
    <3>14. AtPlace(q, P1, U, X)
      <4> DEFINE v == (q - P1) * U  g == v - X
      <4>1. v = 8 * BM
        BY <3>12
      <4> HIDE DEF M, BM, v, X
      <4>2. g = 16 * M - 2 * N /\ g \in Int
        BY <1>1, <1>3, <3>10, <3>11, <4>1
      <4>3. g > 0
        BY <1>1, <1>3, <4>2
      <4>4. g <= 2 * s
        BY <1>1, <1>3, <2>4, <4>2
      <4> HIDE DEF g
      <4>5. -U < 2 * g /\ 2 * g < U
        BY <1>2, <1>3, <3>3, <3>7, <3>13, <4>2, <4>3, <4>4
      <4> HIDE DEF U
      <4> QED
        BY <4>5 DEF AtPlace, v, g
    <3>15. p \in Int /\ q \in Int /\ P1 \in Int
      BY <1>1, <1>2, <3>3, <3>9
    <3> HIDE DEF U, X
    <3> QED
      BY <3>9, <3>11, <3>13, <3>14, <3>15, NearOnce
  <2> QED
    BY <2>7, <2>8
<1> QED
  BY <1>4, <1>5, <1>6

\* A number that changes by less than the places of its regime tell rounds to the same
\* pattern.
LEMMA TinyKeeps ==
  ASSUME NEW q, NEW r, NEW P, NEW Q, NEW D, NEW a, NEW f, StandsIn(q, r, P, Q, D, a, f),
         NEW N, NEW s, TinyChange(N, f, s, r, D),
         NEW E, NEW num, NEW den, SumPlace(N, r * 2^ES + a, E, num, den),
         NEW p, RoundsRatio(p, NBits, ES, E, num, den)
  PROVE  ~(p < q) /\ ~(q < p)
<1> DEFINE M == 2^FracBits  h == r * 2^ES + a
<1>1. M \in Nat /\ M > 0 /\ 2^ES \in Nat
  BY FormatPowers
<1>2. /\ N \in Nat /\ s \in Nat /\ ~(N < 8 * f - s) /\ s <= 2 * M
      /\ f \in M..(2*M - 1)
  BY DEF TinyChange, StandsIn
<1>3. N >= 6 * M
  <2> HIDE DEF M
  <2>1. f \in Int /\ f >= M
    BY <1>1, <1>2
  <2> QED
    BY <1>1, <1>2, <2>1
<1>4. CASE N >= 16 * M
  <2>1. ~(N < 16 * M)
    <3> HIDE DEF M
    <3> QED
      BY <1>1, <1>2, <1>4
  <2>2. num = N /\ den = 16 * M /\ E = h + 1
    BY <2>1 DEF SumPlace
  <2>3. RoundsRatio(p, NBits, ES, h + 1, N, 16 * M)
    BY <2>2
  <2> QED
    BY <1>4, <2>3, TinyCarries
<1>5. CASE N < 16 * M
  <2>1. ~(N >= 16 * M)
    <3> HIDE DEF M
    <3> QED
      BY <1>1, <1>2, <1>5
  <2>2. PICK k \in Nat : num = N * 2^k /\ den = 8 * M /\ E = h - k
    BY <2>1 DEF SumPlace
  <2>3. den <= num /\ num < 2 * den
    BY DEF SumPlace
  <2> DEFINE K == 2^k
  <2>4. K \in Nat /\ K > 0 /\ num = N * K /\ 8 * M <= num /\ num < 16 * M /\ num \in Nat
    <3>1. K \in Nat /\ K > 0
      BY PowerPositive
    <3>2. num = N * K /\ num \in Nat
      BY <1>2, <2>2, <3>1
    <3> HIDE DEF K, M
    <3> QED
      BY <1>1, <2>2, <2>3, <3>1, <3>2
  <2>5. CASE N >= 8 * M
    <3>1. k = 0
      <4> SUFFICES ASSUME k > 0 PROVE FALSE
        OBVIOUS
      <4>1. 2^1 = 2 /\ 1 \in Nat /\ 1 <= k
        OBVIOUS
      <4>2. 2 <= K
        BY <4>1, PowerMonotone
      <4> HIDE DEF K, M
      <4>3. 2 * N <= K * N /\ K * N = N * K
        BY <1>2, <2>4, <4>2, TimesOrder
      <4> QED
        BY <1>1, <1>2, <2>4, <2>5, <4>3
    <3>2. K = 1
      BY <3>1, PowerZero
    <3>3. num = N
      <4> HIDE DEF K
      <4> QED
        BY <1>2, <2>4, <3>2
    <3>4. E = h
      <4>1. h \in Int
        <5>1. r \in Int /\ a \in Int
          BY <1>1 DEF StandsIn, RegimeIs
        <5> DEFINE base == 2^ES
        <5> HIDE DEF base
        <5>2. r * base + a \in Int
          BY <1>1, <5>1 DEF base
        <5> QED
          BY <5>2 DEF base
      <4> HIDE DEF h
      <4> QED
        BY <2>2, <3>1, <4>1
    <3>5. RoundsRatio(p, NBits, ES, h, N, 8 * M)
      BY <2>2, <3>3, <3>4
    <3> QED
      BY <1>5, <2>5, <3>5, TinyStays
  <2>6. CASE N < 8 * M
    <3>1. k # 0
      <4> SUFFICES ASSUME k = 0 PROVE FALSE
        OBVIOUS
      <4>1. K = 1
        BY PowerZero
      <4> HIDE DEF K, M
      <4> QED
        BY <1>1, <1>2, <2>4, <2>6, <4>1
    <3>2. k < 2
      <4> SUFFICES ASSUME k >= 2 PROVE FALSE
        OBVIOUS
      <4>1. 2^2 = 4 /\ 2 \in Nat
        OBVIOUS
      <4>2. 4 <= K
        BY <4>1, PowerMonotone
      <4> HIDE DEF K, M
      <4>3. 4 * N <= K * N /\ K * N = N * K
        BY <1>2, <2>4, <4>2, TimesOrder
      <4> QED
        BY <1>1, <1>2, <1>3, <2>4, <4>3
    <3>3. k = 1
      BY <3>1, <3>2
    <3>4. 2^1 = 2
      OBVIOUS
    <3>5. K = 2
      BY <3>3, <3>4
    <3>6. num = 2 * N
      <4> HIDE DEF K
      <4> QED
        BY <1>2, <2>4, <3>5
    <3>7. E = h - 1
      BY <2>2, <3>3
    <3>8. RoundsRatio(p, NBits, ES, h - 1, 2 * N, 8 * M)
      BY <2>2, <3>6, <3>7
    <3> QED
      BY <2>6, <3>8, TinyBorrows
  <2> QED
    <3> HIDE DEF M
    <3> QED
      BY <1>1, <1>2, <2>5, <2>6
<1> QED
  <2> HIDE DEF M
  <2> QED
    BY <1>1, <1>2, <1>4, <1>5

\* A positive pattern stands in its regime.
LEMMA PatternStands ==
  ASSUME NEW q \in 1..(Largest - 1)
  PROVE  \E r, P, Q, D, a, f :
           /\ StandsIn(q, r, P, Q, D, a, f)
           /\ Extract(q).exponent = r * 2^ES + a /\ Extract(q).fraction = f
<1> DEFINE M == 2^FracBits  base == 2^ES  x == Extract(q)
<1>1. /\ M \in Nat /\ M > 0 /\ base \in Nat /\ base > 0 /\ 2^(NBits-3) = base * M /\ Largest \in Nat
  BY FormatPowers
<1>2. PICK r, P, Q, D : /\ RegimeIs(r, NBits, P, Q, D) /\ P <= q /\ q < P + Q
                        /\ StandsAt(x, r, (q - P) * D)
  BY PatternRegime
<1> DEFINE y == (q - P) * D  a == y \div M  f == M + (y % M)
<1>3. q \in Nat /\ P \in Nat /\ Q \in Nat /\ D \in Nat /\ D > 0 /\ D * Q = base * M
  BY <1>1, <1>2 DEF RegimeIs
<1>4. y \in Nat /\ y < base * M
  <2>1. y \in Nat
    BY <1>2, <1>3
  <2>2. ((q - P) + 1) * D <= Q * D /\ ((q - P) + 1) * D = y + D /\ Q * D = D * Q
    BY <1>2, <1>3, TimesOrder
  <2> DEFINE W == D * Q
  <2>3. W \in Nat /\ y + D <= W
    BY <1>3, <2>2
  <2> HIDE DEF y, W
  <2>4. y < W
    BY <1>3, <2>1, <2>3
  <2> QED
    BY <1>3, <2>1, <2>4 DEF W
<1>5. a \in Nat /\ a < base /\ y % M \in 0..(M-1) /\ y = a * M + (y % M)
  <2> HIDE DEF y, base, M
  <2>1. a \in Int /\ y % M \in 0..(M-1) /\ y = a * M + (y % M)
    BY <1>1, <1>4, DivParts
  <2>2. a >= 0
    BY <1>1, <1>4
  <2>3. a < base
    <3> SUFFICES ASSUME base <= a PROVE FALSE
      BY <1>1, <2>1
    <3>1. base * M <= a * M
      <4>1. a \in Int /\ base <= a /\ base \in Int
        BY <1>1, <2>1
      <4> HIDE DEF a
      <4> QED
        BY <1>1, <4>1, TimesOrder
    <3> DEFINE A == a * M  B == base * M  z == y % M
    <3>2. A \in Int /\ B \in Int /\ B <= A /\ y = A + z /\ y < B /\ z \in 0..(M-1)
      BY <1>1, <1>4, <2>1, <3>1
    <3> HIDE DEF A, B, z
    <3> QED
      BY <1>1, <3>2
  <2> QED
    BY <2>1, <2>2, <2>3
<1>6. a \in 0..(base - 1) /\ f \in M..(2*M - 1) /\ y = a * M + (f - M)
  <2> DEFINE A == a * M  z == y % M
  <2>1. A \in Int /\ z \in 0..(M-1) /\ y = A + z /\ f = M + z /\ a \in Nat /\ a < base
    BY <1>1, <1>5
  <2> HIDE DEF A, z, y, a, f, M, base
  <2> QED
    BY <1>1, <2>1 DEF A
<1>7. x.exponent = r * base + a /\ x.fraction = f
  BY <1>2 DEF StandsAt
<1>8. StandsIn(q, r, P, Q, D, a, f)
  <2> HIDE DEF a, f
  <2> QED
    BY <1>2, <1>3, <1>6 DEF StandsIn
<1> QED
  <2> HIDE DEF a, f
  <2> QED
    BY <1>7, <1>8

\* The largest posit stays as well.
LEMMA LargestKeeps ==
  ASSUME ES > 0, NEW d \in Int, d = Extract(Largest).exponent + (NBits - 1) * 2^ES,
         NEW N, NEW s \in Nat, s = TinyPart(d),
         ~(8 * Extract(Largest).fraction + s < N), ~(N < 8 * Extract(Largest).fraction - s),
         NEW E, NEW num, NEW den, SumPlace(N, Extract(Largest).exponent, E, num, den), N \in Nat,
         NEW p, RoundsRatio(p, NBits, ES, E, num, den)
  PROVE  p = Largest /\ d \in Nat
<1> DEFINE M == 2^FracBits  base == 2^ES  n == NBits  x == Extract(Largest)  T == 2^d
<1>1. /\ M \in Nat /\ M > 0 /\ base \in Nat /\ base > 0 /\ n \in Nat /\ n >= 4
      /\ FracBits \in Nat /\ ES \in Nat /\ n = FracBits + 3 + ES /\ Largest = 2^(n-1) - 1
  BY FormatPowers
<1>2. x.exponent = (n - 2) * base /\ x.fraction = M
  <2>1. StandsAt(x, n - 2, 0)
    BY ExtractLargest
  <2> HIDE DEF M
  <2>2. 0 \div M = 0 /\ 0 % M = 0
    BY <1>1
  <2> DEFINE B == (n - 2) * base
  <2>3. B \in Int
    BY <1>1
  <2>4. x.exponent = B + (0 \div M) /\ x.fraction = M + (0 % M)
    BY <2>1 DEF StandsAt, M
  <2> HIDE DEF B, x
  <2>5. x.exponent = B /\ x.fraction = M
    BY <1>1, <2>2, <2>3, <2>4
  <2> QED
    BY <2>5 DEF B
<1>3. d \in Nat /\ d >= FracBits + 4
  <2>1. base >= 2
    <3>1. 2^1 = 2 /\ 1 \in Nat /\ 1 <= ES
      BY <1>1
    <3> QED
      BY <1>1, <3>1, PowerMonotone
  <2>2. d = (n - 2) * base + (n - 1) * base
    BY <1>2
  <2> HIDE DEF base, n
  <2>3. 2 * (n - 1) <= base * (n - 1) /\ base * (n - 1) = (n - 1) * base
    BY <1>1, <2>1, TimesOrder
  <2> DEFINE A == (n - 2) * base  B == (n - 1) * base
  <2>4. A \in Nat /\ B \in Int /\ d = A + B /\ 2 * (n - 1) <= B
    BY <1>1, <2>2, <2>3
  <2> HIDE DEF A, B
  <2> QED
    BY <1>1, <2>4
<1>4. s = 0
  <2>1. 2^(FracBits + 4) = 16 * M /\ FracBits + 4 \in Nat
    BY <1>1, AdderWidth
  <2>2. 16 * M <= T /\ T \in Nat
    BY <1>1, <1>3, <2>1, PowerMonotone, PowerPositive
  <2> DEFINE G == 8 * M
  <2>3. G \in Nat /\ G < T /\ s = G \div T
    <3>1. s = G \div T
      BY DEF TinyPart
    <3> HIDE DEF M, T
    <3> QED
      BY <1>1, <2>2, <3>1
  <2> HIDE DEF G, T
  <2> QED
    BY <2>2, <2>3
<1>5. N = 8 * M
  <2>1. ~(8 * M + s < N) /\ ~(N < 8 * M - s)
    BY <1>2
  <2> HIDE DEF M
  <2> QED
    BY <1>1, <1>4, <2>1
<1>6. PICK k \in Nat : num = N * 2^k /\ den = 8 * M /\ E = x.exponent - k
  <2>1. ~(N >= 16 * M)
    <3> HIDE DEF M
    <3> QED
      BY <1>1, <1>5
  <2> QED
    BY <2>1 DEF SumPlace
<1> DEFINE K == 2^k
<1>7. k = 0
  <2> SUFFICES ASSUME k > 0 PROVE FALSE
    OBVIOUS
  <2>1. 2^1 = 2 /\ 1 \in Nat /\ 1 <= k
    OBVIOUS
  <2>2. 2 <= K /\ K \in Nat
    BY <2>1, PowerMonotone, PowerPositive
  <2>3. num < 2 * den /\ num = N * K /\ den = 8 * M
    BY <1>6 DEF SumPlace
  <2> HIDE DEF K, M
  <2>4. 2 * N <= K * N /\ K * N = N * K
    BY <1>1, <1>5, <2>2, TimesOrder
  <2> QED
    BY <1>1, <1>5, <2>2, <2>3, <2>4
<1>8. E = (n - 2) * base + 0
  <2> DEFINE B == (n - 2) * base
  <2>1. B \in Int /\ E = B - k
    BY <1>1, <1>2, <1>6
  <2> HIDE DEF B
  <2>2. E = B + 0
    BY <1>7, <2>1
  <2> QED
    BY <2>2 DEF B
<1>9. E \div base = n - 2
  <2> DEFINE t == n - 2  z == 0
  <2>1. t \in Int /\ z \in 0..(base - 1)
    <3> HIDE DEF base
    <3> QED
      BY <1>1
  <2> HIDE DEF t, base, z
  <2>2. (t * base + z) \div base = t
    BY <1>1, <2>1, DivIs
  <2> QED
    BY <1>8, <2>2 DEF t, z
<1>10. p = Largest
  <2>1. n - 2 >= n - 2
    BY <1>1
  <2> QED
    BY <1>1, <1>9, <2>1 DEF RoundsRatio
<1> QED
  BY <1>3, <1>10

\* A posit whose magnitude is the positive pattern b rounds the number b itself.
LEMMA ItselfRounds ==
  ASSUME NEW b \in 1..Largest, NEW g, NEW sign \in BOOLEAN,
         (IF sign THEN Opposite(g, NBits) ELSE g) = b,
         NEW v, TermIs(v, sign, Extract(b).fraction, Extract(b).exponent)
  PROVE  RoundsTo(g, NBits, ES, v) /\ Surrounds(g, NBits, ES, v)
<1> DEFINE M == 2^FracBits  x == Extract(b)  f == x.fraction  h == x.exponent
           j == h - FracBits  w == IF sign THEN -f ELSE f
<1>1. /\ M \in Nat /\ M > 0 /\ FracBits \in Nat /\ Largest \in Nat /\ Largest > 2
      /\ h \in Int /\ f \in M..(2*M - 1) /\ f \in Nat /\ f > 0
      /\ ValueOf(b, NBits, ES) = <<f, j>>
  BY FormatPowers, ValueIs
<1>2. v = <<w, j>>
  BY DEF TermIs
<1>3. v[1] # 0 /\ Magnitude(v) = <<f, j>> /\ (v[1] < 0 <=> sign) /\ j \in Int
  <2>1. w \in Int /\ w # 0 /\ (w < 0 <=> sign) /\ (w < 0 => -w = f) /\ (~(w < 0) => w = f) /\ j \in Int
    <3> HIDE DEF f, h
    <3> QED
      BY <1>1
  <2>2. v[1] = w /\ v[2] = j
    BY <1>2
  <2> HIDE DEF w, j, f
  <2>3. CASE w < 0
    <3>1. Magnitude(v) = <<-w, j>>
      BY <2>2, <2>3 DEF Magnitude, Negative
    <3> QED
      BY <2>1, <2>2, <2>3, <3>1
  <2>4. CASE ~(w < 0)
    <3>1. Magnitude(v) = v
      BY <2>2, <2>4 DEF Magnitude
    <3> QED
      BY <1>2, <2>1, <2>2, <2>4, <3>1
  <2> QED
    BY <2>3, <2>4
<1>4. Surrounds(g, NBits, ES, v)
  <2>1. Around(b, f, j)
    <3>1. b = 1 \/ DyadicLess(ValueOf(b-1, NBits, ES), <<f, j>>)
      <4> SUFFICES ASSUME b # 1 PROVE DyadicLess(ValueOf(b-1, NBits, ES), ValueOf(b, NBits, ES))
        BY <1>1, Zenon
      <4>1. b - 1 \in 1..Largest /\ b - 1 < b
        BY <1>1
      <4> QED
        BY <4>1, ValuesOrder
    <3>2. b = Largest
            \/ (/\ DyadicLess(<<f, j>>, ValueOf(b+1, NBits, ES))
                /\ ~DyadicLess(ValueOf(b+1, NBits, ES), <<f, j>>))
      <4> SUFFICES ASSUME b # Largest
                   PROVE  /\ DyadicLess(ValueOf(b, NBits, ES), ValueOf(b+1, NBits, ES))
                          /\ ~DyadicLess(ValueOf(b+1, NBits, ES), ValueOf(b, NBits, ES))
        BY <1>1, Zenon
      <4>1. b + 1 \in 1..Largest /\ b < b + 1 /\ ~(b + 1 < b)
        BY <1>1
      <4> QED
        BY <4>1, ValuesOrder
    <3> HIDE DEF f, j
    <3> QED
      BY <3>1, <3>2 DEF Around
  <2> HIDE DEF f, j
  <2> QED
    BY <1>3, <2>1, DyadicSurrounds
<1>5. RoundsTo(g, NBits, ES, v)
  <2>1. Normalized(x) /\ ~x.sign
    <3>1. b \in Posits \ {0, NaR}
      BY Halves
    <3> QED
      BY <3>1, NumberUnpacks, ExtractPositive DEF Normalized
  <2>2. Generate(x, 0, FALSE) = b
    BY <2>1, PositivePacks
  <2>3. DigitsOf(x, 0, FALSE, f, M)
    <3>1. \E rest \in 0..(M-1) : /\ f * (4 * M) = (4 * f + 0) * M + rest
                                 /\ FALSE <=> rest # 0
      <4> DEFINE z == 0
      <4>1. z \in 0..(M-1) /\ ~(z # 0)
        <5> HIDE DEF M
        <5> QED
          BY <1>1
      <4>2. f * (4 * M) = (4 * f + 0) * M + z
        <5> HIDE DEF f, M
        <5> QED
          BY <1>1
      <4> HIDE DEF z, f, M
      <4> QED
        BY <4>1, <4>2
    <3>2. 0 \in 0..3 /\ FALSE \in BOOLEAN
      OBVIOUS
    <3> HIDE DEF x, M
    <3> QED
      BY <1>1, <2>1, <3>1, <3>2 DEF DigitsOf, f, M
  <2>4. RoundsRatio(b, NBits, ES, h, f, M)
    <3>1. PICK p \in 1..Largest :
             /\ Generate(x, 0, FALSE) = IF x.sign THEN Negated(p, NBits) ELSE p
             /\ RoundsRatio(p, NBits, ES, x.exponent, f, M)
      BY <2>3, GeneratorRounds
    <3>2. p = b
      BY <2>1, <2>2, <3>1
    <3> QED
      BY <3>1, <3>2
  <2>5. IsRatio(1, 0, f, j, h, f, M)
    <3> HIDE DEF f, h, M
    <3>1. 0 \in Nat /\ 1 \in Nat /\ 1 \in Nat \ {0} /\ M \in Nat \ {0} /\ 2^0 = 1 /\ 2^1 = 2
      BY <1>1, PowerZero
    <3>2. M * (1 * 2^0) = 1 * M /\ M * (f * 2^1) = 1 * (f * (2 * M))
      BY <1>1, <3>1
    <3>3. (0 - 0) - (j - 1) = FracBits + 1 - h
      BY <1>1
    <3> QED
      BY <3>1, <3>2, <3>3 DEF IsRatio, M
  <2>6. RoundsBetween(b, 1, 0, f, j)
    <3>1. M <= f /\ f < 2 * M
      <4> HIDE DEF f, M
      <4> QED
        BY <1>1
    <3> DEFINE one == 1  z == 0
    <3>2. one \in Nat /\ one > 0 /\ z \in Int
      OBVIOUS
    <3>3. IsRatio(one, z, f, j, h, f, M)
      BY <2>5
    <3> HIDE DEF one, z, f, M, h, j
    <3>4. RoundsBetween(b, one, z, f, j)
      BY <1>1, <1>3, <2>4, <3>1, <3>2, <3>3, RatioRoundsBetween
    <3> QED
      BY <3>4 DEF one, z
  <2> HIDE DEF f, j
  <2> QED
    BY <1>3, <2>6, DyadicRounds
<1> QED
  BY <1>4, <1>5

\* The adder and the generator on a number and a zero that counts.
LEMMA ZeroAddend ==
  ASSUME ES > 0, NEW b \in 1..Largest, NEW r, NEW x, NEW y, Aligned(r, x, y), NEW ls, NEW ss,
         Addends(r, Extract(b).fraction, ls, Extract(b).exponent,
                 2^FracBits, ss, Extract(0).exponent),
         r.isAddition \/ SumOf(r) = 0
           \/ SumOf(r) >= 2^((AdderBits-1) - ShiftRange(AdderBits-1)),
         NEW v, TermIs(v, ls, Extract(b).fraction, Extract(b).exponent)
  PROVE  LET a == AddFinish(r, x, y)
             g == Generate(a.out, a.trailing, a.sticky)
         IN  RoundsTo(g, NBits, ES, v) /\ Surrounds(g, NBits, ES, v)
<1> DEFINE a == AddFinish(r, x, y)  g == Generate(a.out, a.trailing, a.sticky)
           N == SumOf(r)  M == 2^FracBits  f == Extract(b).fraction  h == Extract(b).exponent
           se == Extract(0).exponent  d == h - se  s == TinyPart(d)
           q == IF ls THEN Opposite(g, NBits) ELSE g
<1>1. /\ M \in Nat /\ M > 0 /\ NBits \in Nat /\ 2^ES \in Nat /\ Largest \in Nat
      /\ f \in M..(2*M - 1) /\ f \in Nat /\ h \in Int
  BY FormatPowers, ValueIs
<1>2. se = -((NBits - 1) * 2^ES)
  BY ZeroUnpacks
<1>3. /\ ls \in BOOLEAN /\ r.largeSign = ls /\ r.largeExp = h /\ r.largeFrac = 8 * f
      /\ r.smallFrac = s /\ d \in Nat /\ r.isAddition \in BOOLEAN
  BY DEF Addends, TinyPart, AddRegType
<1>4. d \in Int /\ d = h + (NBits - 1) * 2^ES
  <2> DEFINE B == (NBits - 1) * 2^ES
  <2>1. B \in Int
    BY <1>1
  <2>2. se = -B
    BY <1>2
  <2> HIDE DEF B, h, se
  <2>3. d = h + B
    BY <1>1, <2>1, <2>2
  <2> QED
    BY <1>3, <2>3 DEF B
<1>5. N \in Nat
  BY SumWhole
<1>6. s \in Nat
  <2> DEFINE T == 2^d  G == 8 * M
  <2>1. T \in Nat /\ T > 0 /\ G \in Nat
    <3>1. T \in Nat /\ T > 0
      BY <1>3, PowerPositive
    <3> QED
      BY <1>1, <3>1
  <2>2. s = G \div T
    BY DEF TinyPart
  <2> HIDE DEF G, T, s
  <2> QED
    BY <2>1, <2>2
<1>7. ~(8 * f + s < N) /\ ~(N < 8 * f - s)
  <2>1. N = IF r.isAddition THEN 8 * f + s ELSE 8 * f - s
    BY <1>3 DEF SumOf
  <2> HIDE DEF N, f, s
  <2> QED
    BY <1>1, <1>3, <1>6, <2>1
<1>8. ASSUME N > 0
      PROVE  \E E \in Int, num \in Nat, den \in Nat :
               /\ SumPlace(N, h, E, num, den)
               /\ RoundsRatio(q, NBits, ES, E, num, den)
  <2>1. r.isAddition \/ N >= 2^((AdderBits-1) - ShiftRange(AdderBits-1))
    BY <1>8
  <2>2. PICK E, num, den :
          /\ DigitsOf(a.out, a.trailing, a.sticky, num, den)
          /\ a.out.exponent = E /\ a.out.sign = r.largeSign
          /\ SumPlace(N, r.largeExp, E, num, den)
    BY <1>8, <2>1, AddedDigits DEF N
  <2>3. E \in Int /\ num \in Nat /\ den \in Nat
    BY <2>2 DEF SumPlace
  <2>4. a.out.sign = ls /\ SumPlace(N, h, E, num, den)
    BY <1>3, <2>2
  <2> HIDE DEF a
  <2>5. RoundsRatio(q, NBits, ES, E, num, den)
    BY <1>3, <2>2, <2>3, <2>4, AnswerRounds
  <2> QED
    BY <2>3, <2>4, <2>5
<1> HIDE DEF q, N, s
<1>9. q = b
  <2>1. CASE b = Largest
    <3>1. ASSUME N > 0 PROVE q = b
      <4>1. PICK E \in Int, num \in Nat, den \in Nat :
               SumPlace(N, h, E, num, den) /\ RoundsRatio(q, NBits, ES, E, num, den)
        BY <1>8, <3>1
      <4> HIDE DEF d
      <4> QED
        BY <1>4, <1>5, <1>6, <1>7, <2>1, <4>1, LargestKeeps DEF s
    <3>2. N > 0
      <4>1. s <= 7 * M
        <5>1. 2 <= d /\ 2 \in Nat
          <6>1. h \in Nat
            <7>1. h = (NBits - 2) * 2^ES + (0 \div M)
              BY <2>1, ExtractLargest DEF StandsAt
            <7>2. NBits - 2 \in Nat /\ 2^ES \in Nat
              BY FormatPowers
            <7> HIDE DEF M
            <7>3. 0 \div M = 0
              BY <1>1
            <7> DEFINE B == (NBits - 2) * 2^ES
            <7>4. B \in Nat
              BY <7>2
            <7> HIDE DEF B, h
            <7>5. h = B
              BY <7>1, <7>3, <7>4 DEF B
            <7> QED
              BY <7>4, <7>5
          <6>2. 2 <= (NBits - 1) * 2^ES /\ (NBits - 1) * 2^ES \in Nat
            <7>1. NBits - 1 \in Nat /\ NBits - 1 >= 2 /\ 2^ES \in Nat /\ 2^ES > 0
              BY FormatPowers
            <7> DEFINE B == 2^ES
            <7> HIDE DEF B
            <7>2. 1 * (NBits - 1) <= B * (NBits - 1) /\ B * (NBits - 1) = (NBits - 1) * B
              BY <7>1, TimesOrder DEF B
            <7>3. (NBits - 1) * B \in Nat
              BY <7>1 DEF B
            <7> QED
              BY <7>1, <7>2, <7>3 DEF B
          <6> DEFINE B == (NBits - 1) * 2^ES
          <6> HIDE DEF h, d, B
          <6> QED
            BY <1>4, <6>1, <6>2 DEF B
        <5>2. 2^2 = 4
          OBVIOUS
        <5> DEFINE T == 2^d  G == 8 * M
        <5>3. 4 <= T /\ T \in Nat
          BY <1>3, <5>1, <5>2, PowerMonotone, PowerPositive
        <5>4. s = G \div T /\ G \in Nat
          BY <1>1 DEF s, TinyPart
        <5> HIDE DEF G, T
        <5>5. s * T <= G
          BY <5>3, <5>4, DivParts
        <5>6. 4 * s <= T * s /\ T * s = s * T
          BY <1>6, <5>3, TimesOrder
        <5> DEFINE Z == s * T
        <5>7. Z \in Int /\ 4 * s <= Z /\ Z <= G
          BY <1>6, <5>3, <5>5, <5>6
        <5> HIDE DEF Z, M
        <5> QED
          BY <1>1, <1>6, <5>7 DEF G
      <4> HIDE DEF f, M
      <4> QED
        BY <1>1, <1>5, <1>6, <1>7, <4>1
    <3> QED
      BY <3>1, <3>2
  <2>2. CASE b # Largest
    <3>1. b \in 1..(Largest - 1)
      BY <1>1, <2>2
    <3>2. PICK k, P, Q, D, e, u :
            /\ StandsIn(b, k, P, Q, D, e, u)
            /\ h = k * 2^ES + e /\ f = u
      BY <3>1, PatternStands
    <3>3. RegimeIs(k, NBits, P, Q, D) /\ e \in 0..(2^ES - 1)
      BY <3>2 DEF StandsIn
    <3>4. d = (k * 2^ES + e) + (NBits - 1) * 2^ES
      BY <1>4, <3>2
    <3>5. /\ s < 2 * D /\ s <= 2 * M /\ (s > 0 => k < 0)
      <4> HIDE DEF d
      <4> QED
        BY <1>4, <3>3, <3>4, TinyBound DEF s
    <3>6. TinyChange(N, u, s, k, D)
      BY <1>5, <1>6, <1>7, <3>2, <3>5 DEF TinyChange
    <3>7. N > 0
      <4> HIDE DEF f, M
      <4> QED
        BY <1>1, <1>5, <1>6, <1>7, <3>5
    <3>8. PICK E \in Int, num \in Nat, den \in Nat :
             SumPlace(N, h, E, num, den) /\ RoundsRatio(q, NBits, ES, E, num, den)
      BY <1>8, <3>7
    <3>9. SumPlace(N, k * 2^ES + e, E, num, den)
      BY <3>2, <3>8
    <3>10. ~(q < b) /\ ~(b < q)
      BY <3>2, <3>6, <3>8, <3>9, TinyKeeps
    <3>11. q \in 1..Largest
      BY <3>8, FormatPowers DEF RoundsRatio
    <3> QED
      BY <1>1, <3>10, <3>11
  <2> QED
    BY <2>1, <2>2
<1> HIDE DEF g
<1>10. RoundsTo(g, NBits, ES, v) /\ Surrounds(g, NBits, ES, v)
  BY <1>3, <1>9, ItselfRounds DEF q
<1> QED
  BY <1>10, Zenon DEF g, a

\* Zero unpacks to less than every other operand.
LEMMA ZeroIsLess ==
  ASSUME NEW b \in 1..Largest
  PROVE  Extract(b).exponent > Extract(0).exponent
<1> DEFINE n == NBits  base == 2^ES  h == Extract(b).exponent  z == Extract(0).exponent
<1>1. n \in Nat /\ n >= 4 /\ base \in Nat /\ base > 0 /\ Largest \in Nat
  BY FormatPowers
<1>2. z = -((n - 1) * base)
  BY ZeroUnpacks
<1>3. \E k \in Int, e \in Nat : 2 - n <= k /\ h = k * base + e
  <2>1. CASE b = Largest
    <3>1. h = (n - 2) * base + (0 \div 2^FracBits)
      BY <2>1, ExtractLargest DEF StandsAt
    <3> DEFINE M == 2^FracBits  k == n - 2  e == 0
    <3>2. M \in Nat /\ M > 0
      BY FormatPowers
    <3> HIDE DEF M
    <3>3. 0 \div M = e
      BY <3>2
    <3>4. k \in Int /\ 2 - n <= k /\ e \in Nat
      BY <1>1
    <3>5. h = k * base + e
      BY <3>1, <3>3 DEF M
    <3> HIDE DEF k, e
    <3> QED
      BY <3>4, <3>5
  <2>2. CASE b # Largest
    <3>1. b \in 1..(Largest - 1)
      BY <1>1, <2>2
    <3>2. PICK k, P, Q, D, e, u : StandsIn(b, k, P, Q, D, e, u) /\ h = k * base + e
      BY <3>1, PatternStands
    <3>3. k \in Int /\ 2 - n <= k /\ e \in 0..(base - 1)
      BY <1>1, <3>2 DEF StandsIn, RegimeIs
    <3>4. e \in Nat
      <4> HIDE DEF base
      <4> QED
        BY <1>1, <3>3
    <3> QED
      BY <3>2, <3>3, <3>4
  <2> QED
    BY <2>1, <2>2
<1>4. PICK k \in Int, e \in Nat : 2 - n <= k /\ h = k * base + e
  BY <1>3
<1> HIDE DEF base, h, z, n
<1>5. (2 - n) * base <= k * base /\ (2 - n) * base = base - (n - 1) * base
  BY <1>1, <1>4, TimesOrder
<1> DEFINE A == k * base  B == (n - 1) * base
<1>6. A \in Int /\ B \in Int /\ base - B <= A /\ h = A + e /\ z = -B
  BY <1>1, <1>2, <1>4, <1>5
<1> HIDE DEF A, B
<1>7. h > z
  BY <1>1, <1>6
<1> QED
  BY <1>7 DEF h, z

\* Every operand but zero and NaR has the fields of a positive one.
LEMMA HasMagnitude ==
  ASSUME NEW p \in Posits \ {0, NaR}
  PROVE  \E b \in 1..Largest : /\ Extract(p).exponent = Extract(b).exponent
                               /\ Extract(p).fraction = Extract(b).fraction
<1>1. NaR \in Nat /\ Largest = NaR - 1 /\ Posits = 0..(2 * NaR - 1)
  BY Halves
<1>2. CASE p < NaR
  <2>1. p \in 1..Largest
    BY <1>1, <1>2
  <2> QED
    BY <2>1
<1>3. CASE ~(p < NaR)
  <2>1. p > NaR
    BY <1>1, <1>3
  <2> QED
    BY <2>1, ExtractNegative
<1> QED
  BY <1>2, <1>3

\* A sum that does not cancel too far has a shift that fits.
LEMMA Uncancelled ==
  ASSUME NEW op, ~AddCancels(op, ShiftRange(AdderBits-1)), NEW r,
         r = AddAlign(Extract(op.num1), Extract(op.num2), IsSub(op)), SumOf(r) \in Nat
  PROVE  r.isAddition \/ SumOf(r) = 0
           \/ SumOf(r) >= 2^((AdderBits-1) - ShiftRange(AdderBits-1))
<1> DEFINE top == AdderBits - 1  least == 2^(top - ShiftRange(top))  N == SumOf(r)
<1>1. ~r.isAddition => r.largeFrac - r.smallFrac \notin 1 .. (least - 1)
  BY DEF AddCancels
<1>2. CASE ~r.isAddition
  <2>1. N = r.largeFrac - r.smallFrac
    BY <1>2 DEF SumOf
  <2>2. N \notin 1..(least - 1) /\ N \in Nat
    BY <1>1, <1>2, <2>1
  <2>3. least \in Int
    <3>1. top - ShiftRange(top) \in Nat
      BY AdderWidth, ShiftInWidth
    <3> HIDE DEF top
    <3> QED
      BY <3>1, PowerPositive
  <2> HIDE DEF least, N
  <2>4. N = 0 \/ N >= least
    BY <2>2, <2>3
  <2> QED
    BY <2>4 DEF least, N, top
<1> QED
  BY <1>2

\* A sum with one zero operand.
LEMMA ZeroSum ==
  ASSUME ES > 0, NEW op, op.num1 \in Posits \ {NaR}, op.num2 \in Posits \ {NaR},
         op.num1 = 0 <=> op.num2 # 0, ~AddCancels(op, ShiftRange(AdderBits-1))
  PROVE  /\ RoundsTo(SumShownOf(op), NBits, ES, ExactSum(op))
         /\ Surrounds(SumShownOf(op), NBits, ES, ExactSum(op))
<1> DEFINE x == Extract(op.num1)  y == Extract(op.num2)  sub == IsSub(op)
           r == AddAlign(x, y, sub)  a == AddFinish(r, x, y)
           g == Generate(a.out, a.trailing, a.sticky)
           u == Val(op.num1)  w == Val(op.num2)  v == IF sub THEN Negative(w) ELSE w
           M == 2^FracBits  o == Extract(0)  bound == (NBits - 1) * 2^ES
<1>1. /\ M \in Nat /\ M > 0 /\ bound \in Int /\ NaR > 0
      /\ o.exponent = -bound /\ o.fraction = M
  BY FormatPowers, ZeroUnpacks, Halves
<1>2. /\ x \in OperandType /\ y \in OperandType /\ x \in Unpacked /\ y \in Unpacked
      /\ ~(x.isZero /\ y.isZero) /\ ~x.isNaR /\ ~y.isNaR
      /\ x.sign \in BOOLEAN /\ y.sign \in BOOLEAN /\ x.exponent \in Int /\ y.exponent \in Int
  <2>1. x \in OperandType /\ y \in OperandType /\ x \in Unpacked /\ y \in Unpacked
    BY OperandTypes DEF OperandType
  <2>2. ~(x.isZero /\ y.isZero) /\ ~x.isNaR /\ ~y.isNaR
    BY DEF Extract
  <2> HIDE DEF x, y
  <2> QED
    BY <2>1, <2>2 DEF Unpacked
<1>3. sub \in BOOLEAN
  BY DEF IsSub
<1>4. ASSUME NEW p \in Posits \ {0, NaR}
      PROVE  /\ Extract(p).fraction \in M..(2*M-1) /\ Extract(p).fraction \in Nat
             /\ Extract(p).fraction > 0 /\ Extract(p).sign \in BOOLEAN
             /\ Extract(p).exponent \in Int
             /\ -bound <= Extract(p).exponent /\ Extract(p).exponent <= bound
             /\ Extract(p).exponent > o.exponent
             /\ TermIs(Val(p), Extract(p).sign, Extract(p).fraction, Extract(p).exponent)
  <2> DEFINE f == Extract(p).fraction  h == Extract(p).exponent
  <2>1. f \in M..(2*M-1) /\ f \in Nat /\ Extract(p).sign \in BOOLEAN
    BY NumberUnpacks
  <2>2. f > 0
    <3> HIDE DEF f, M
    <3> QED
      BY <1>1, <2>1
  <2>3. h \in Int /\ -bound <= h /\ h < bound
    BY ExtractedExponent
  <2>4. -bound <= h /\ h <= bound
    <3> HIDE DEF h, bound
    <3> QED
      BY <1>1, <2>3
  <2>5. h > o.exponent
    BY HasMagnitude, ZeroIsLess
  <2>6. TermIs(Val(p), Extract(p).sign, f, h)
    BY SignedValue, Zenon DEF TermIs, Val
  <2> QED
    BY <2>1, <2>2, <2>3, <2>4, <2>5, <2>6
<1>5. SumShownOf(op) = g /\ ExactSum(op) = Plus(u, v)
  BY DEF SumShownOf, ExactSum
\* The register row holds the number b and zero, and the sum is that number.
<1>6. ASSUME NEW b \in 1..Largest, NEW ls, NEW ss, NEW t,
             Addends(r, Extract(b).fraction, ls, Extract(b).exponent, M, ss, o.exponent),
             Extract(b).exponent \in Int,
             -bound <= Extract(b).exponent, Extract(b).exponent <= bound,
             TermIs(t, ls, Extract(b).fraction, Extract(b).exponent)
      PROVE  RoundsTo(g, NBits, ES, t) /\ Surrounds(g, NBits, ES, t)
  <2> DEFINE N == SumOf(r)
  <2>1. /\ r \in AddRegType /\ r.largeExp = Extract(b).exponent
        /\ N \in Nat /\ r.smallFrac <= r.largeFrac /\ r.largeFrac >= 8 * M
    <3>1. N \in Nat /\ r.smallFrac <= r.largeFrac /\ r.largeFrac >= 8 * M
      BY <1>6, SumWhole
    <3> QED
      BY <1>6, <3>1 DEF Addends
  <2>2. 8 * M <= r.largeFrac
    <3>1. r.largeFrac \in Int
      BY <2>1 DEF AddRegType
    <3> HIDE DEF r, M
    <3> QED
      BY <1>1, <2>1, <3>1
  <2>3. Aligned(r, x, y)
    <3> HIDE DEF r, x, y
    <3> QED
      BY <1>2, <1>6, <2>1, <2>2 DEF Aligned
  <2>4. r.isAddition \/ N = 0 \/ N >= 2^((AdderBits-1) - ShiftRange(AdderBits-1))
    BY <2>1, Uncancelled
  <2> HIDE DEF r, x, y
  <2> QED
    BY <1>6, <2>3, <2>4, ZeroAddend
<1>7. CASE op.num1 = 0
  <2>1. op.num2 \in Posits \ {0, NaR}
    BY <1>7
  <2>2. x = o
    BY <1>7
  <2>3. ~FirstIsLarger(x, y)
    <3> HIDE DEF o
    <3>1. x.exponent = o.exponent /\ y.exponent > o.exponent /\ x.exponent \in Int /\ y.exponent \in Int
      BY <1>2, <1>4, <2>1, <2>2
    <3> HIDE DEF x, y
    <3> QED
      BY <3>1 DEF FirstIsLarger
  <2>4. x.fraction \in M..(2*M-1) /\ y.fraction \in M..(2*M-1) /\ x.fraction = M
        /\ y.fraction \in Int
    <3>1. x.fraction = M /\ y.fraction \in M..(2*M-1) /\ y.fraction \in Int
      BY <1>1, <1>4, <2>1, <2>2
    <3>2. M \in M..(2*M-1)
      <4> HIDE DEF M
      <4> QED
        BY <1>1
    <3> QED
      BY <3>1, <3>2
  <2>5. Addends(r, y.fraction, y.sign # sub, y.exponent, M, x.sign, o.exponent)
    <3>1. Addends(r, y.fraction, y.sign # sub, y.exponent, x.fraction, x.sign, x.exponent)
      <4> HIDE DEF x, y, sub
      <4> QED
        BY <1>2, <1>3, <2>3, <2>4, AlignedParts
    <3> QED
      BY <2>2, <2>4, <3>1
  <2>6. TermIs(v, y.sign # sub, y.fraction, y.exponent)
    <3>1. TermIs(w, y.sign, y.fraction, y.exponent)
      BY <1>4, <2>1
    <3> HIDE DEF w, y, sub
    <3> QED
      BY <1>2, <1>3, <2>4, <3>1, NegatedTerm
  <2>7. PICK b \in 1..Largest : /\ y.exponent = Extract(b).exponent
                                /\ y.fraction = Extract(b).fraction
    BY <2>1, HasMagnitude
  <2>8. Plus(u, v) = v
    <3>1. u[1] = 0
      BY <1>7 DEF Val, Value
    <3> QED
      BY <3>1 DEF Plus
  <2>9. -bound <= y.exponent /\ y.exponent <= bound
    BY <1>4, <2>1
  <2>10. RoundsTo(g, NBits, ES, v) /\ Surrounds(g, NBits, ES, v)
    <3> HIDE DEF g, v, r, y, sub, o, bound
    <3> QED
      BY <1>2, <1>6, <2>5, <2>6, <2>7, <2>9
  <2> HIDE DEF g, u, v
  <2> QED
    BY <1>5, <2>8, <2>10
<1>8. CASE op.num2 = 0
  <2>1. op.num1 \in Posits \ {0, NaR}
    BY <1>8
  <2>2. y = o
    BY <1>8
  <2>3. FirstIsLarger(x, y)
    <3>1. y.exponent = o.exponent /\ x.exponent > o.exponent
      BY <1>4, <2>1, <2>2
    <3> HIDE DEF x, y, o
    <3> QED
      BY <3>1 DEF FirstIsLarger
  <2>4. x.fraction \in M..(2*M-1) /\ y.fraction \in M..(2*M-1) /\ y.fraction = M
        /\ x.fraction \in Nat /\ x.fraction > 0
    <3>1. y.fraction = M /\ x.fraction \in M..(2*M-1) /\ x.fraction \in Nat /\ x.fraction > 0
      BY <1>1, <1>4, <2>1, <2>2
    <3>2. M \in M..(2*M-1)
      <4> HIDE DEF M
      <4> QED
        BY <1>1
    <3> QED
      BY <3>1, <3>2
  <2>5. Addends(r, x.fraction, x.sign, x.exponent, M, y.sign # sub, o.exponent)
    <3>1. Addends(r, x.fraction, x.sign, x.exponent, y.fraction, y.sign # sub, y.exponent)
      <4> HIDE DEF x, y, sub
      <4> QED
        BY <1>2, <1>3, <2>3, <2>4, AlignedParts
    <3> QED
      BY <2>2, <2>4, <3>1
  <2>6. TermIs(u, x.sign, x.fraction, x.exponent)
    BY <1>4, <2>1
  <2>7. PICK b \in 1..Largest : /\ x.exponent = Extract(b).exponent
                                /\ x.fraction = Extract(b).fraction
    BY <2>1, HasMagnitude
  <2>8. Plus(u, v) = u
    <3>1. w[1] = 0
      BY <1>8 DEF Val, Value
    <3>2. v[1] = 0
      <4> HIDE DEF w, sub
      <4>1. Negative(w)[1] = -(w[1])
        BY DEF Negative
      <4> DEFINE i == w[1]
      <4>2. i \in Int /\ ~(i < 0) /\ ~(0 < i)
        BY <3>1
      <4>3. i = 0 /\ Negative(w)[1] = -i
        BY <3>1, <4>1
      <4> HIDE DEF i
      <4>4. -i = i
        BY <4>2
      <4>5. Negative(w)[1] = i
        BY <4>3, <4>4
      <4> QED
        BY <3>1, <4>3, <4>5
    <3>3. u[1] # 0
      <4> HIDE DEF u, x
      <4> QED
        BY <1>2, <2>4, <2>6, TermSign
    <3> HIDE DEF u, v
    <3> QED
      BY <3>2, <3>3 DEF Plus
  <2>9. -bound <= x.exponent /\ x.exponent <= bound
    BY <1>4, <2>1
  <2>10. RoundsTo(g, NBits, ES, u) /\ Surrounds(g, NBits, ES, u)
    <3> HIDE DEF g, u, r, x, y, sub, o, bound
    <3> QED
      BY <1>2, <1>6, <2>5, <2>6, <2>7, <2>9
  <2> HIDE DEF g, u, v
  <2> QED
    BY <1>5, <2>8, <2>10
<1> HIDE DEF g, u, v
<1> QED
  BY <1>7, <1>8

\* A sum of zeros.
LEMMA ZerosSum ==
  ASSUME NEW op, op.num1 = 0, op.num2 = 0
  PROVE  /\ RoundsTo(SumShownOf(op), NBits, ES, ExactSum(op))
         /\ Surrounds(SumShownOf(op), NBits, ES, ExactSum(op))
<1> DEFINE x == Extract(op.num1)  y == Extract(op.num2)
           a == AddFinish(AddAlign(x, y, IsSub(op)), x, y)
           w == Val(op.num2)  z == ExactSum(op)  g == SumShownOf(op)
<1>1. x.isZero /\ y.isZero /\ ~x.isNaR /\ ~y.isNaR
  <2>1. x.isZero = (op.num1 = 0) /\ x.isNaR = (op.num1 = NaR)
    BY DEF Extract
  <2>2. y.isZero = (op.num2 = 0) /\ y.isNaR = (op.num2 = NaR)
    BY DEF Extract
  <2>3. NaR # 0
    BY Halves
  <2> HIDE DEF x, y
  <2> QED
    BY <2>1, <2>2, <2>3
<1>2. a.out.isZero /\ ~a.out.isNaR
  <2> HIDE DEF x, y
  <2> QED
    BY <1>1 DEF AddFinish, Answer
<1>3. g = 0
  <2>1. g = Generate(a.out, a.trailing, a.sticky)
    BY DEF SumShownOf
  <2> HIDE DEF a
  <2> QED
    BY <1>2, <2>1 DEF Generate
<1>4. w[1] = 0 /\ Val(op.num1)[1] = 0
  BY DEF Val, Value
<1>5. z = IF IsSub(op) THEN Negative(w) ELSE w
  <2> HIDE DEF w
  <2>1. z = Plus(Val(op.num1), IF IsSub(op) THEN Negative(w) ELSE w)
    BY Zenon DEF ExactSum, w
  <2> QED
    BY <1>4, <2>1 DEF Plus
<1>6. z[1] = 0
  <2>1. Negative(w)[1] = -(w[1])
    BY DEF Negative
  <2> DEFINE i == w[1]
  <2>2. i \in Int /\ ~(i < 0) /\ ~(0 < i)
    BY <1>4
  <2>3. i = 0 /\ Negative(w)[1] = -i
    BY <1>4, <2>1
  <2> HIDE DEF i
  <2>4. -i = i
    BY <2>2
  <2>5. Negative(w)[1] = i
    BY <2>3, <2>4
  <2> HIDE DEF z, w
  <2> QED
    BY <1>4, <1>5, <2>3, <2>5
<1> HIDE DEF g, z
<1>7. RoundsTo(g, NBits, ES, z) /\ Surrounds(g, NBits, ES, z)
  BY <1>3, <1>6, Zenon DEF RoundsTo, Surrounds
<1> QED
  BY <1>7 DEF g, z

\* What the adder and the generator make of any two operands.
LEMMA AnySum ==
  ASSUME NEW op, op.num1 \in Posits, op.num2 \in Posits
  PROVE  IF NaR \in {op.num1, op.num2} THEN SumShownOf(op) = NaR
         ELSE ~AddCancels(op, ShiftRange(AdderBits-1)) /\ ~AddsTinyZero(op) =>
                /\ Surrounds(SumShownOf(op), NBits, ES, ExactSum(op))
                /\ ~AddDrops(op) => RoundsTo(SumShownOf(op), NBits, ES, ExactSum(op))
<1> DEFINE cancels == AddCancels(op, ShiftRange(AdderBits-1))
           surrounds == Surrounds(SumShownOf(op), NBits, ES, ExactSum(op))
           rounds == RoundsTo(SumShownOf(op), NBits, ES, ExactSum(op))
<1>1. CASE NaR \in {op.num1, op.num2}
  <2> DEFINE x == Extract(op.num1)  y == Extract(op.num2)
             a == AddFinish(AddAlign(x, y, IsSub(op)), x, y)
  <2>1. x.isNaR \/ y.isNaR
    BY <1>1 DEF Extract
  <2>2. a.out.isNaR
    <3> HIDE DEF x, y
    <3> QED
      BY <2>1 DEF AddFinish, Answer
  <2>3. SumShownOf(op) = Generate(a.out, a.trailing, a.sticky)
    BY DEF SumShownOf
  <2> HIDE DEF a
  <2>4. SumShownOf(op) = NaR
    BY <2>2, <2>3 DEF Generate
  <2> QED
    BY <1>1, <2>4, Zenon
<1>2. CASE NaR \notin {op.num1, op.num2}
  <2>1. ASSUME ~cancels, ~AddsTinyZero(op) PROVE surrounds /\ (~AddDrops(op) => rounds)
    <3>1. CASE op.num1 # 0 /\ op.num2 # 0
      <4>1. op.num1 \in Posits \ {0, NaR} /\ op.num2 \in Posits \ {0, NaR}
        BY <1>2, <3>1
      <4> QED
        BY <2>1, <4>1, NumbersSum
    <3>2. CASE op.num1 = 0 /\ op.num2 = 0
      BY <3>2, ZerosSum
    <3>3. CASE op.num1 = 0 <=> op.num2 # 0
      <4>1. op.num1 \in Posits \ {NaR} /\ op.num2 \in Posits \ {NaR}
        BY <1>2
      <4>2. ES > 0
        <5>1. ES # 0
          BY <2>1, <3>3 DEF AddsTinyZero
        <5> QED
          BY <5>1, FormatPowers
      <4>3. rounds /\ surrounds
        BY <2>1, <3>3, <4>1, <4>2, ZeroSum
      <4> QED
        BY <4>3
    <3> QED
      BY <3>1, <3>2, <3>3
  <2> HIDE DEF cancels, surrounds, rounds
  <2>2. ~cancels /\ ~AddsTinyZero(op) => surrounds /\ (~AddDrops(op) => rounds)
    BY <2>1
  <2> QED
    BY <1>2, <2>2, Zenon DEF cancels, surrounds, rounds
<1> QED
  BY <1>1, <1>2

-----------------------------------------------------------------------------
(* What the result register shows of a sum.                                *)

\* The register row of the adder holds the aligned operands of exec, and a sum in the
\* result register is the one of the operation shown with it.
SumShown ==
  /\ addValid => addReg = AddAlign(num1, num2, subMode)
  /\ Shows("addsub") =>
       LET x == Extract(resultOp.num1)
           y == Extract(resultOp.num2)
       IN  /\ resultOp.num1 \in Posits /\ resultOp.num2 \in Posits
           /\ result.answer = AddFinish(AddAlign(x, y, IsSub(resultOp)), x, y)

LEMMA SumShownStep == DigitsInv /\ SumShown /\ [Next]_vars => SumShown'
<1>1. ASSUME DigitsInv, SumShown, Next PROVE SumShown'
  <2>1. /\ resultOp' = exec
        /\ result' = [answer |-> CoreAnswer, flags |-> Compare(exec.num1, exec.num2)]
        /\ resultValid' = newResultValid
        /\ addReg' = AddAlign(num1, num2, subMode) /\ addValid' = Starts("addsub")
        /\ Load \/ Hold
    BY <1>1 DEF Next, Clock, Registers
  <2>2. addValid' => addReg' = AddAlign(num1', num2', subMode')
    <3> SUFFICES ASSUME addValid' PROVE addReg' = AddAlign(num1', num2', subMode')
      OBVIOUS
    <3>1. execValid
      BY <2>1 DEF Starts
    <3>2. exec' = exec
      BY <2>1, <3>1 DEF Load, Hold
    <3>3. num1' = num1 /\ num2' = num2 /\ subMode' = subMode
      BY <3>2 DEF num1, num2, subMode
    <3> QED
      BY <2>1, <3>3
  <2>3. ASSUME Shows("addsub")'
        PROVE  /\ exec.num1 \in Posits /\ exec.num2 \in Posits
               /\ CoreAnswer = AddFinish(AddAlign(num1, num2, subMode), num1, num2)
    <3>1. newResultValid /\ exec.inst = "addsub"
      BY <2>1, <2>3 DEF Shows
    <3>2. addValid
      BY <1>1, <3>1 DEF newResultValid, Starts, DigitsInv, ControlInv, AnswerOnTheWay, validOut
    <3>3. addReg = AddAlign(num1, num2, subMode)
      BY <1>1, <3>2 DEF SumShown
    <3>4. CoreAnswer = addOut
      BY <3>1 DEF CoreAnswer
    <3>5. exec.num1 \in Posits /\ exec.num2 \in Posits
      BY <1>1 DEF DigitsInv, OperandsArePosits
    <3> QED
      BY <3>3, <3>4, <3>5 DEF addOut
  <2>4. result'.answer = CoreAnswer
    BY <2>1
  <2>5. Posits' = Posits
    BY DEF Posits
  <2>6. Shows("addsub")' =>
          LET x == Extract(exec.num1)
              y == Extract(exec.num2)
          IN  /\ exec.num1 \in Posits /\ exec.num2 \in Posits
              /\ CoreAnswer = AddFinish(AddAlign(x, y, IsSub(exec)), x, y)
    BY <2>3, Zenon DEF num1, num2, subMode, IsSub
  <2> QED
    BY <2>1, <2>2, <2>4, <2>5, <2>6, Zenon DEF SumShown
<1>2. ASSUME SumShown, UNCHANGED vars PROVE SumShown'
  <2>1. /\ resultOp' = resultOp /\ result' = result /\ resultValid' = resultValid
        /\ exec' = exec /\ addValid' = addValid /\ addReg' = addReg
    BY <1>2 DEF vars, elementVars
  <2>2. Posits' = Posits
    BY DEF Posits
  <2>3. num1' = num1 /\ num2' = num2 /\ subMode' = subMode
    BY <2>1 DEF num1, num2, subMode
  <2>4. Shows("addsub")' <=> Shows("addsub")
    BY <2>1 DEF Shows
  <2> QED
    BY <1>2, <2>1, <2>2, <2>3, <2>4, Zenon DEF SumShown
<1> QED
  BY <1>1, <1>2

LEMMA SumsShown == Spec => []SumShown
<1>1. Init => SumShown
  BY DEF Init, SumShown, Shows
<1> QED
  BY <1>1, DigitsInvariant, SumShownStep, PTL DEF Spec

\* A sum in the result register is NaR, or one of the two posits next to the exact sum
\* of its operands, and the nearer one when the alignment drops no bit, ties to the even
\* pattern (PositAdd.scala L19-84, PositGenerator.scala L24-57): in every format, for all
\* operands but the ones the two conditions of SumsRounded leave out, whatever operations
\* surround it.
THEOREM SumsAreNextToValues == Spec => []SumsRounded
<1>1. SumShown => SumsRounded
  <2>1. SUFFICES ASSUME SumShown, Shows("addsub") PROVE SumsRounded
    BY <2>1 DEF SumsRounded
  <2> DEFINE op == resultOp
  <2>2. /\ op.num1 \in Posits /\ op.num2 \in Posits
        /\ result.answer = AddFinish(AddAlign(Extract(op.num1), Extract(op.num2), IsSub(op)),
                                     Extract(op.num1), Extract(op.num2))
    BY <2>1, Zenon DEF SumShown
  <2>3. Output = SumShownOf(op)
    BY <2>2, Zenon DEF Output, SumShownOf
  <2>4. IF NaR \in {op.num1, op.num2} THEN Output = NaR
        ELSE ~AddCancels(op, ShiftRange(AdderBits-1)) /\ ~AddsTinyZero(op) =>
               /\ Surrounds(Output, NBits, ES, ExactSum(op))
               /\ ~AddDrops(op) => RoundsTo(Output, NBits, ES, ExactSum(op))
    BY <2>2, <2>3, AnySum
  <2> QED
    BY <2>4, Zenon DEF SumsRounded, IsNeighbourOf, Rounds
<1> QED
  BY <1>1, SumsShown, PTL

-----------------------------------------------------------------------------
(* Fused results: the answer of PositFMACore has the digits of the sum of   *)
(* the aligned product and addend.                                         *)

\* The sum of the aligned fractions, and what the core's adder makes of it.
FusedWhole(add, G, S) == IF add THEN G + S ELSE G - S
FusedAdder(add, G, S) == Low(G + IF add THEN S ELSE Negated(S, MulBits), MulBits)

LEMMA FusedSum ==
  ASSUME NEW add \in BOOLEAN, NEW G \in ProductOne .. (2*ProductOne - 1),
         NEW S \in 0..(2*ProductOne - 1), S <= G
  PROVE  LET N == FusedWhole(add, G, S)
             H == ProductOne
         IN  /\ FusedAdder(add, G, S) = N /\ N \in 0..(4*H-1)
             /\ add => N >= H
             /\ ~add => N < 2 * H
             /\ N < 2 * H => Low(N, MulBits-1) = N
<1> DEFINE H == ProductOne  N == FusedWhole(add, G, S)  w == MulBits  m == 2^w
           neg == Negated(S, w)
<1>1. /\ H \in Nat /\ H > 0 /\ m = 4 * H /\ w \in Nat /\ w - 1 \in Nat /\ 2^(w-1) = 2 * H
      /\ G \in H..(2*H-1) /\ S \in 0..(2*H-1) /\ S <= G /\ m \in Nat /\ m > 0
  BY FusedWidths
<1>2. N = IF add THEN G + S ELSE G - S
  BY DEF FusedWhole
<1>3. neg = IF S = 0 THEN 0 ELSE m - S
  <2>1. neg = (m - S) % m
    BY DEF Negated, Low
  <2> HIDE DEF m, H, neg
  <2>2. CASE S = 0
    <3>1. m - S = m /\ m % m = 0
      BY <1>1, <2>2
    <3> QED
      BY <2>1, <2>2, <3>1
  <2>3. CASE S # 0
    <3>1. m - S \in 0..(m-1)
      BY <1>1, <2>3
    <3>2. (m - S) % m = m - S
      BY <1>1, <3>1
    <3> QED
      BY <2>1, <2>3, <3>2
  <2> QED
    BY <2>2, <2>3
<1>4. FusedAdder(add, G, S) = (G + IF add THEN S ELSE neg) % m
  BY DEF FusedAdder, Low
<1> HIDE DEF N, neg
<1>5. N \in 0..(m-1) /\ (add => N >= H) /\ (~add => N < 2 * H)
  <2> HIDE DEF m, H
  <2> QED
    BY <1>1, <1>2
<1>6. FusedAdder(add, G, S) = N
  <2> HIDE DEF m, H
  <2>1. CASE add \/ S = 0
    <3>1. (G + IF add THEN S ELSE neg) = N
      BY <1>2, <1>3, <2>1
    <3>2. N % m = N
      BY <1>1, <1>5
    <3> QED
      BY <1>4, <3>1, <3>2
  <2>2. CASE ~add /\ S # 0
    <3>1. (G + IF add THEN S ELSE neg) = 1 * m + N
      BY <1>1, <1>2, <1>3, <2>2
    <3>2. (1 * m + N) % m = N
      <4> DEFINE o == 1
      <4>1. o \in Int /\ m > 0
        BY <1>1
      <4> HIDE DEF o
      <4>2. (o * m + N) % m = N
        BY <1>1, <1>5, <4>1, DivIs
      <4> QED
        BY <4>2 DEF o
    <3> QED
      BY <1>4, <3>1, <3>2
  <2> QED
    BY <2>1, <2>2
<1>7. N < 2 * H => Low(N, w - 1) = N
  <2> SUFFICES ASSUME N < 2 * H PROVE Low(N, w - 1) = N
    OBVIOUS
  <2> DEFINE v == w - 1
  <2>1. v \in Nat /\ N \in 0..(2^v - 1)
    BY <1>1, <1>5
  <2> HIDE DEF v, H, w
  <2>2. Low(N, v) = N
    BY <2>1, LowOfSmall
  <2> QED
    BY <2>2 DEF v
<1>8. N \in 0..(4*H-1)
  <2> HIDE DEF H, m
  <2> QED
    BY <1>1, <1>5
<1> QED
  BY <1>5, <1>6, <1>7, <1>8 DEF N

\* Shifting the leading one of x to the top of w bits.
LEMMA Normalises ==
  ASSUME NEW w \in Nat, w >= 2, NEW x \in 1..(2^w - 1)
  PROVE  \E k \in 0..(w-1) :
           /\ LeadingZeros(x, w) = k
           /\ Low(x * 2^k, w) = x * 2^k /\ x * 2^k \in 2^(w-1) .. (2^w - 1)
           /\ 2^(w-1) <= x => k = 0
           /\ k < ShiftRange(w) => NormShift(x, w) = k
<1>1. PICK k \in 0..(w-1) : /\ LeadingZeros(x, w) = k
                            /\ 2^(w-1-k) <= x /\ x < 2 * 2^(w-1-k)
  BY LeadingOne
<1>2. k \in Nat /\ w - 1 - k \in Nat /\ x \in Nat /\ x > 0 /\ w - 1 \in Nat
      /\ (w - 1 - k) + k = w - 1 /\ (w - 1) + 1 = w
  BY <1>1
<1> DEFINE P == 2^(w-1-k)  K == 2^k  h == 2^(w-1)  m == 2^w
<1>3. P \in Nat /\ K \in Nat /\ K > 0 /\ h = P * K /\ m = 2 * h /\ h \in Nat /\ h > 0
  <2>1. 2^((w-1-k)+k) = P * K /\ 2^((w-1)+1) = 2 * h
    BY <1>2, PowerSum, PowerNext
  <2> QED
    BY <1>2, <2>1, PowerPositive
<1>4. x * K \in h..(m-1)
  <2>1. P <= x /\ x < 2 * P
    BY <1>1
  <2> HIDE DEF P, K, h, m
  <2>2. P * K <= x * K /\ x * K < (2 * P) * K /\ (2 * P) * K = 2 * (P * K) /\ x * K \in Int
    BY <1>2, <1>3, <2>1
  <2> QED
    BY <1>3, <2>2
<1>5. Low(x * K, w) = x * K
  <2> DEFINE z == x * K
  <2>1. z \in 0..(2^w - 1)
    BY <1>3, <1>4
  <2> HIDE DEF z
  <2>2. Low(z, w) = z
    BY <2>1, LowOfSmall
  <2> QED
    BY <2>2 DEF z
<1>6. h <= x => k = 0
  <2> SUFFICES ASSUME h <= x, k # 0 PROVE FALSE
    OBVIOUS
  <2> DEFINE i == k - 1
  <2>1. i \in Nat /\ i + 1 = k
    BY <1>2
  <2>2. 2^(i+1) = 2 * 2^i /\ 2^i \in Nat /\ 2^i > 0
    BY <2>1, PowerNext, PowerPositive
  <2>3. K >= 2
    <3> HIDE DEF i
    <3> QED
      BY <2>1, <2>2
  <2> HIDE DEF K, h, m
  <2>4. x * 2 <= x * K /\ x * K \in Int
    BY <1>2, <1>3, <2>3
  <2> QED
    BY <1>2, <1>3, <1>4, <2>4
<1>7. k < ShiftRange(w) => NormShift(x, w) = k
  BY <1>1, <1>2, ShiftFits DEF NormShift
<1> QED
  BY <1>1, <1>4, <1>5, <1>6, <1>7

\* The fields of the normalised result.
LEMMA FusedFields ==
  ASSUME NEW K \in Nat \ {0}, 2^FracBits = 2 * K, 2^(HiddenBits-TrailingBits) = K,
         2^HiddenBits = 4 * K, 2^TrailingBits = 4,
         NEW norm \in (2*ProductOne)..(4*ProductOne - 1)
  PROVE  LET M == 2^FracBits
             f == norm \div 2^HiddenBits
             t == Low(norm \div 2^(HiddenBits-TrailingBits), TrailingBits)
             w == Low(norm, HiddenBits-TrailingBits)
         IN  /\ f \in M..(2*M-1) /\ t \in 0..3 /\ w \in 0..(K-1)
             /\ norm = (4 * f + t) * K + w
<1> DEFINE M == 2^FracBits  H == ProductOne
           f == norm \div 2^HiddenBits
           t == Low(norm \div 2^(HiddenBits-TrailingBits), TrailingBits)
           w == Low(norm, HiddenBits-TrailingBits)
<1>1. f = norm \div (4 * K) /\ t = (norm \div K) % 4 /\ w = norm % K
  BY DEF Low
<1>2. H = 4 * (K * K) /\ K \in Nat /\ K > 0 /\ H \in Nat
  <2>1. H = (2 * K) * (2 * K)
    BY DEF ProductOne
  <2> QED
    BY <2>1
<1>3. norm \in Nat /\ 2 * H <= norm /\ norm < 4 * H
  BY <1>2
<1>4. /\ norm = (4 * (norm \div (4 * K)) + ((norm \div K) % 4)) * K + (norm % K)
      /\ norm \div (4 * K) \in Nat /\ (norm \div K) % 4 \in 0..3 /\ norm % K \in 0..(K-1)
  BY <1>2, <1>3, ThreeFields, Zenon
<1> HIDE DEF f, t, w, H, M
<1>5. norm = (4 * f + t) * K + w /\ f \in Nat /\ t \in 0..3 /\ w \in 0..(K-1)
  BY <1>1, <1>4
<1>6. f \in (2 * K)..(4 * K - 1)
  <2> DEFINE T == 4 * f + t
  <2>1. norm = T * K + w /\ T \in Nat
    BY <1>5
  <2>2. 2 * H = (8 * K) * K /\ 4 * H = (16 * K) * K
    BY <1>2
  <2>3. T >= 8 * K
    <3> SUFFICES ASSUME T + 1 <= 8 * K PROVE FALSE
      BY <1>2, <2>1
    <3> HIDE DEF T
    <3>1. (T + 1) * K <= (8 * K) * K /\ (T + 1) * K = T * K + K /\ T * K \in Nat
      BY <1>2, <2>1
    <3> QED
      BY <1>2, <1>3, <1>5, <2>1, <2>2, <3>1
  <2>4. T < 16 * K
    <3> SUFFICES ASSUME 16 * K <= T PROVE FALSE
      BY <1>2, <2>1
    <3> HIDE DEF T
    <3>1. (16 * K) * K <= T * K /\ T * K \in Nat
      BY <1>2, <2>1
    <3> QED
      BY <1>2, <1>3, <1>5, <2>1, <2>2, <3>1
  <2> QED
    BY <1>2, <1>5, <2>3, <2>4
<1>7. f \in M..(2*M-1)
  BY <1>2, <1>6 DEF M
<1> QED
  BY <1>5, <1>7 DEF f, t, w, M

\* The second half of the core, from the aligned fractions.
FusedOut(add, G, S, sign, e, lost, zero, nan) ==
  LET sum      == FusedAdder(add, G, S)
      overflow == add /\ sum >= 2^(MulBits-1)
      frac     == IF overflow THEN sum ELSE 2 * Low(sum, MulBits-1)
      exp      == e + IF overflow THEN 1 ELSE 0
      norm     == Low(frac * 2^LeadingZeros(frac, MulBits), MulBits)
      out      == [sign     |-> sign,
                   exponent |-> Signed(exp - NormShift(frac, MulBits), ExpBits),
                   fraction |-> norm \div 2^HiddenBits,
                   isZero   |-> zero,
                   isNaR    |-> nan]
  IN  Answer(out, Low(norm \div 2^(HiddenBits-TrailingBits), TrailingBits),
             lost \/ Low(norm, HiddenBits-TrailingBits) # 0)

\* Two aligned fractions and their sum N.
FusedFractions(add, G, S, N) ==
  /\ add \in BOOLEAN /\ G \in ProductOne .. (2*ProductOne - 1)
  /\ S \in 0..(2*ProductOne - 1) /\ S <= G /\ N = FusedWhole(add, G, S)

\* The carry of the sum N, and its normalised form after a shift by k places.
FusedCarry(N) == IF N >= 2 * ProductOne THEN 1 ELSE 0
FusedNorm(N, k) == ((2 - FusedCarry(N)) * N) * 2^k

\* The answer a of the core: its fields are those of the normalised sum.
FusedAnswer(a, K, N, k, sign, e, lost) ==
  /\ Normalized(a.out) /\ a.trailing \in 0..3 /\ a.sticky \in BOOLEAN /\ a.out.sign = sign
  /\ \E w \in 0..(K-1) : /\ FusedNorm(N, k) = (4 * a.out.fraction + a.trailing) * K + w
                         /\ a.sticky <=> lost \/ w # 0
  /\ k < ShiftRange(MulBits) => a.out.exponent = Signed(e + FusedCarry(N) - k, ExpBits)

\* The answer a of the core from two aligned fractions that do not cancel.
FusedIs(a, add, G, S, sign, e, lost) == a = FusedOut(add, G, S, sign, e, lost, FALSE, FALSE)
FusedPlaces(K) == /\ 2^FracBits = 2 * K /\ 2^(HiddenBits-TrailingBits) = K
                  /\ 2^HiddenBits = 4 * K /\ 2^TrailingBits = 4
FusedFound(a, K, N, k, sign, e, lost) ==
  /\ FusedAnswer(a, K, N, k, sign, e, lost)
  /\ FusedNorm(N, k) \in (2*ProductOne)..(4*ProductOne - 1)
  /\ N >= ProductOne => k = 0

LEMMA FusedAnswers ==
  ASSUME NEW add, NEW G, NEW S, NEW N, FusedFractions(add, G, S, N), N > 0,
         NEW sign \in BOOLEAN, NEW e \in Int, NEW lost \in BOOLEAN,
         NEW K \in Nat \ {0}, FusedPlaces(K),
         NEW answer, FusedIs(answer, add, G, S, sign, e, lost)
  PROVE  \E k \in 0..(MulBits-1) : FusedFound(answer, K, N, k, sign, e, lost)
<1> DEFINE H == ProductOne  W == MulBits
           sum      == FusedAdder(add, G, S)
           overflow == add /\ sum >= 2^(W-1)
           frac     == IF overflow THEN sum ELSE 2 * Low(sum, W-1)
           exp      == e + IF overflow THEN 1 ELSE 0
           norm     == Low(frac * 2^LeadingZeros(frac, W), W)
           shift    == NormShift(frac, W)
           fraction == norm \div 2^HiddenBits
           trailing == Low(norm \div 2^(HiddenBits-TrailingBits), TrailingBits)
           low      == Low(norm, HiddenBits-TrailingBits)
           sticky   == lost \/ low # 0
           out      == [sign     |-> sign,
                        exponent |-> Signed(exp - shift, ExpBits),
                        fraction |-> fraction,
                        isZero   |-> FALSE,
                        isNaR    |-> FALSE]
           a        == FusedOut(add, G, S, sign, e, lost, FALSE, FALSE)
<1>1. a = Answer(out, trailing, sticky)
  BY Zenon DEF FusedOut
<1>2. a.out = out /\ a.trailing = trailing /\ a.sticky = sticky
  <2> HIDE DEF a, out, trailing, sticky
  <2> QED
    BY <1>1 DEF Answer
<1> HIDE DEF a
<1>3. /\ H \in Nat /\ H > 0 /\ W \in Nat /\ W >= 2 /\ 2^(W-1) = 2 * H /\ 2^W = 4 * H
      /\ W - 1 \in Nat
  BY FusedWidths
<1>4. /\ sum = N /\ N \in 0..(4*H-1) /\ (add => N >= H) /\ (~add => N < 2 * H)
      /\ (N < 2 * H => Low(N, W-1) = N)
  BY FusedSum DEF FusedFractions
<1>5. add \in BOOLEAN
  BY DEF FusedFractions
<1> HIDE DEF sum, H
<1>6. overflow <=> N >= 2 * H
  BY <1>3, <1>4, <1>5
<1>7. /\ frac = (2 - FusedCarry(N)) * N /\ exp = e + FusedCarry(N) /\ frac \in 1..(2^W - 1)
      /\ FusedCarry(N) \in Int
      /\ N >= H => frac >= 2 * H
  <2> HIDE DEF W
  <2>1. CASE N >= 2 * H
    <3>1. overflow /\ frac = N /\ exp = e + 1 /\ FusedCarry(N) = 1
      BY <1>4, <1>6, <2>1 DEF FusedCarry, H
    <3> HIDE DEF overflow, frac, exp
    <3> QED
      BY <1>3, <1>4, <2>1, <3>1
  <2>2. CASE ~(N >= 2 * H)
    <3>1. N < 2 * H
      BY <1>3, <1>4, <2>2
    <3>2. ~overflow /\ frac = 2 * N /\ exp = e + 0 /\ FusedCarry(N) = 0
      BY <1>4, <1>6, <2>2, <3>1 DEF FusedCarry, H
    <3> HIDE DEF overflow, frac, exp
    <3> QED
      BY <1>3, <1>4, <3>1, <3>2
  <2> QED
    BY <2>1, <2>2
<1> HIDE DEF frac, overflow, exp, W
<1>8. PICK k \in 0..(W-1) :
        /\ LeadingZeros(frac, W) = k
        /\ Low(frac * 2^k, W) = frac * 2^k /\ frac * 2^k \in 2^(W-1) .. (2^W - 1)
        /\ 2^(W-1) <= frac => k = 0
        /\ k < ShiftRange(W) => NormShift(frac, W) = k
  BY <1>3, <1>7, Normalises
<1>9. norm = FusedNorm(N, k) /\ norm \in (2*H)..(4*H-1)
  BY <1>3, <1>7, <1>8 DEF FusedNorm
<1> HIDE DEF norm
<1>10. /\ fraction \in 2^FracBits .. (2 * 2^FracBits - 1) /\ trailing \in 0..3 /\ low \in 0..(K-1)
       /\ norm = (4 * fraction + trailing) * K + low
  <2>1. 2^FracBits = 2 * K /\ 2^(HiddenBits-TrailingBits) = K /\ 2^HiddenBits = 4 * K /\ 2^TrailingBits = 4
    BY DEF FusedPlaces
  <2> QED
    BY <1>9, <2>1, FusedFields DEF H
<1>11. out.exponent = Signed(exp - shift, ExpBits) /\ out.fraction = fraction /\ out.sign = sign
       /\ ~out.isZero /\ ~out.isNaR
  OBVIOUS
<1>12. Normalized(out)
  <2>1. Signed(exp - shift, ExpBits) \in Int
    <3>1. ExpBits \in Nat /\ NormBits(W) \in Nat
      BY <1>3, CoreWidths, Log2CeilIsNat DEF NormBits
    <3>2. LeadingZeros(frac, W) \in Int
      BY <1>8
    <3>3. shift \in Int
      BY <3>1, <3>2, SignedIsInt DEF NormShift
    <3>4. exp - shift \in Int
      <4> HIDE DEF shift
      <4> QED
        BY <1>7, <3>3
    <3> HIDE DEF shift
    <3> QED
      BY <3>1, <3>4, SignedIsInt
  <2>2. 2^FracBits \in Nat
    BY FormatPowers
  <2>3. fraction \in Nat
    <3> HIDE DEF fraction
    <3> QED
      BY <1>10, <2>2
  <2>4. out \in Unpacked
    BY <2>1, <2>3 DEF Unpacked
  <2> HIDE DEF out, fraction
  <2> QED
    BY <1>10, <1>11, <2>4 DEF Normalized
<1> HIDE DEF out, fraction, trailing, sticky, low, shift
<1>13. k < ShiftRange(W) => a.out.exponent = Signed(e + FusedCarry(N) - k, ExpBits)
  <2> SUFFICES ASSUME k < ShiftRange(W) PROVE a.out.exponent = Signed(e + FusedCarry(N) - k, ExpBits)
    OBVIOUS
  <2>1. shift = k
    BY <1>8 DEF shift
  <2>2. exp - shift = e + FusedCarry(N) - k
    BY <1>7, <1>8, <2>1
  <2> QED
    BY <1>2, <1>11, <2>2
<1>14. sticky \in BOOLEAN /\ (sticky <=> lost \/ low # 0)
  BY DEF sticky
<1>15. FusedAnswer(a, K, N, k, sign, e, lost)
  <2>1. Normalized(a.out) /\ a.trailing \in 0..3 /\ a.sticky \in BOOLEAN /\ a.out.sign = sign
    BY <1>2, <1>10, <1>11, <1>12, <1>14
  <2>2. low \in 0..(K-1) /\ FusedNorm(N, k) = (4 * a.out.fraction + a.trailing) * K + low
        /\ (a.sticky <=> lost \/ low # 0)
    BY <1>2, <1>9, <1>10, <1>11, <1>14
  <2> QED
    BY <1>13, <2>1, <2>2 DEF FusedAnswer, W
<1>16. N >= H => k = 0
  BY <1>3, <1>7, <1>8
<1>17. FusedFound(a, K, N, k, sign, e, lost)
  BY <1>9, <1>15, <1>16 DEF FusedFound, H
<1>18. answer = a
  BY DEF FusedIs, a
<1> QED
  BY <1>8, <1>17, <1>18 DEF W

\* The core and the generator round the number norm + r/X, where norm is the normalised
\* sum and r/X what was dropped before: less than one unit, or less than two of them
\* behind a sum that is even.
LEMMA FusedRounds ==
  ASSUME NEW a, NEW K \in Nat \ {0}, 2^FracBits = 2 * K, NEW N, NEW k, NEW sign \in BOOLEAN,
         NEW e, NEW lost \in BOOLEAN, FusedAnswer(a, K, N, k, sign, e, lost),
         NEW X \in Nat, X > 0, NEW r \in Nat, lost <=> r # 0,
         r < X \/ (r < 2 * X /\ \E i \in Nat : FusedNorm(N, k) = 2 * i),
         NEW E \in Int, a.out.exponent = E
  PROVE  LET g == Generate(a.out, a.trailing, a.sticky)
         IN  RoundsRatio(IF sign THEN Opposite(g, NBits) ELSE g, NBits, ES, E,
                         X * FusedNorm(N, k) + r, X * (2 * ProductOne))
<1> DEFINE M == 2^FracBits  f == a.out.fraction  t == a.trailing  q == 4 * f + t
           norm == FusedNorm(N, k)  num == X * norm + r  den == X * (2 * ProductOne)
           g == Generate(a.out, a.trailing, a.sticky)
<1>1. /\ Normalized(a.out) /\ t \in 0..3 /\ a.sticky \in BOOLEAN /\ a.out.sign = sign
      /\ \E w \in 0..(K-1) : norm = q * K + w /\ (a.sticky <=> lost \/ w # 0)
  BY DEF FusedAnswer
<1>2. PICK w \in 0..(K-1) : norm = q * K + w /\ (a.sticky <=> lost \/ w # 0)
  BY <1>1
<1>3. f \in Nat /\ M \in Nat /\ M = 2 * K /\ q \in Nat /\ norm \in Nat
  <2>1. M \in Nat /\ f \in M..(2*M-1) /\ M = 2 * K
    BY <1>1, FormatPowers DEF Normalized
  <2> HIDE DEF M, f
  <2>2. f \in Nat
    BY <2>1
  <2>3. q \in Nat
    BY <1>1, <2>2
  <2> HIDE DEF q, norm
  <2>4. q * K \in Nat /\ norm = q * K + w
    BY <1>2, <2>3
  <2> QED
    BY <1>2, <2>1, <2>2, <2>3, <2>4
<1>4. den = (X * K) * (4 * M)
  <2>1. ProductOne = M * M
    BY DEF ProductOne
  <2> HIDE DEF M
  <2>2. X * (2 * (M * M)) = (X * K) * (4 * M)
    <3>1. M * M = (2 * K) * M
      BY <1>3
    <3>2. X * (2 * ((2 * K) * M)) = (X * K) * (4 * M)
      BY <1>3
    <3> QED
      BY <3>1, <3>2
  <2> QED
    BY <2>1, <2>2
<1> HIDE DEF M, q, norm, den
<1>5. num = (X * K) * q + (X * w + r) /\ X * w \in Nat /\ X * K \in Nat /\ X * K > 0
  <2>1. X * (q * K + w) + r = (X * K) * q + (X * w + r)
    BY <1>2, <1>3
  <2>2. X * w \in Nat /\ X * K \in Nat
    BY <1>2
  <2>3. X * K > 0
    OBVIOUS
  <2> QED
    BY <1>2, <2>1, <2>2, <2>3
<1>6. ASSUME X * w + r < X * K
      PROVE  RoundsRatio(IF sign THEN Opposite(g, NBits) ELSE g, NBits, ES, E, num, den)
  <2> DEFINE c == X * K  rest == X * w + r
  <2>1. c \in Nat /\ c > 0 /\ rest \in 0..(c-1)
    BY <1>5, <1>6
  <2>2. a.sticky <=> rest # 0
    <3>1. rest # 0 <=> r # 0 \/ w # 0
      <4>1. w # 0 => X * w > 0
        BY <1>2
      <4>2. w = 0 => X * w = 0
        OBVIOUS
      <4> DEFINE Xw == X * w
      <4> HIDE DEF Xw
      <4>3. Xw \in Nat /\ (w # 0 => Xw > 0) /\ (w = 0 => Xw = 0)
        BY <1>5, <4>1, <4>2 DEF Xw
      <4>4. Xw + r # 0 <=> r # 0 \/ w # 0
        BY <4>3
      <4> QED
        BY <4>4 DEF Xw
    <3> HIDE DEF rest
    <3> QED
      BY <1>2, <3>1
  <2> HIDE DEF c, rest
  <2>3. DigitsOf(a.out, t, a.sticky, c * q + rest, c * (4 * M))
    BY <1>1, <2>1, <2>2, SumDigits DEF q, M
  <2>4. DigitsOf(a.out, a.trailing, a.sticky, num, den)
    BY <1>4, <1>5, <2>3 DEF c, rest
  <2> HIDE DEF num
  <2> QED
    BY <1>1, <2>4, AnswerRounds
<1>7. CASE r < X
  <2>1. X * w + r < X * K
    <3>1. X * w + X <= X * K
      <4>1. X * (w + 1) <= X * K
        <5>1. w + 1 \in Int /\ w + 1 <= K /\ K \in Int
          BY <1>2
        <5>2. (w + 1) * X <= K * X
          BY <5>1, TimesOrder
        <5> QED
          BY <1>2, <5>2
      <4>2. X * (w + 1) = X * w + X
        BY <1>2
      <4> QED
        BY <4>1, <4>2
    <3> QED
      BY <1>5, <1>7, <3>1
  <2> HIDE DEF num, g
  <2> QED
    BY <1>6, <2>1 DEF num, den, norm, g
<1>8. CASE ~(r < X)
  <2>1. PICK i \in Nat : norm = 2 * i
    BY <1>8 DEF norm
  <2>2. r < 2 * X /\ r >= X /\ r # 0
    BY <1>8
  <2>3. CASE K = 1
    <3>1. w = 0 /\ q = 2 * i /\ a.sticky /\ lost
      BY <1>2, <1>3, <2>1, <2>2, <2>3
    <3>2. t \in {0, 2}
      <4>1. 4 * f + t = 2 * i
        BY <3>1 DEF q
      <4> QED
        BY <1>1, <1>3, <2>1, <4>1
    <3> DEFINE s == r # X  rest == r - X  b == Answer(a.out, t + 1, s)
    <3>3. Generate(a.out, t, TRUE) = Generate(a.out, t + 1, s)
      BY <1>1, <3>2, StickyIsRound
    <3>4. g = Generate(b.out, b.trailing, b.sticky) /\ b.out = a.out /\ b.trailing = t + 1 /\ b.sticky = s
      <4>1. b.out = a.out /\ b.trailing = t + 1 /\ b.sticky = s
        BY DEF Answer
      <4>2. a.sticky = TRUE
        BY <1>1, <3>1
      <4> HIDE DEF b, s
      <4> QED
        BY <3>3, <4>1, <4>2, Zenon
    <3>5. DigitsOf(a.out, t + 1, s, X * (4 * f + (t + 1)) + rest, X * (4 * M))
      <4>1. t + 1 \in 0..3 /\ rest \in 0..(X-1) /\ (s <=> rest # 0) /\ s \in BOOLEAN
        BY <2>2, <3>2
      <4> HIDE DEF s, rest
      <4> QED
        BY <1>1, <4>1, SumDigits DEF M
    <3>6. num = X * (4 * f + (t + 1)) + rest /\ den = X * (4 * M)
      <4>1. X * (4 * f + (t + 1)) = X * q + X
        <5>1. 4 * f + (t + 1) = q + 1
          BY <1>1, <1>3 DEF q
        <5>2. X * (q + 1) = X * q + X
          BY <1>3
        <5> QED
          BY <5>1, <5>2
      <4>2. num = X * q + r /\ X * q \in Nat
        BY <1>3, <1>5, <2>3, <3>1
      <4>3. den = X * (4 * M)
        BY <1>4, <2>3
      <4> QED
        BY <4>1, <4>2, <4>3
    <3> HIDE DEF b, num, s, g
    <3>7. DigitsOf(b.out, b.trailing, b.sticky, num, den)
      BY <3>4, <3>5, <3>6
    <3>8. b.out.exponent = E /\ b.out.sign = sign
      BY <1>1, <3>4
    <3>9. RoundsRatio(IF sign THEN Opposite(g, NBits) ELSE g, NBits, ES, E, num, den)
      BY <3>4, <3>7, <3>8, AnswerRounds
    <3> QED
      BY <3>9 DEF num, den, norm, g
  <2>4. CASE K # 1
    <3>1. PICK j \in Nat : K = 2 * j
      <4>1. FracBits \in Nat /\ FracBits # 0
        <5>1. FracBits \in Nat
          BY FormatPowers
        <5>2. FracBits = 0 => 2^FracBits = 1
          BY PowerZero
        <5> QED
          BY <5>1, <5>2
      <4>2. FracBits # 1
        <5> DEFINE o == 1
        <5>1. 2^o = 2
          OBVIOUS
        <5> HIDE DEF o
        <5>2. FracBits = o => K = 1
          BY <5>1
        <5> QED
          BY <2>4, <5>2 DEF o
      <4> DEFINE h == FracBits - 2
      <4>3. h \in Nat /\ h + 1 \in Nat /\ (h + 1) + 1 = FracBits
        BY <4>1, <4>2
      <4> HIDE DEF h
      <4>4. 2^((h+1)+1) = 2 * 2^(h+1) /\ 2^(h+1) = 2 * 2^h /\ 2^h \in Nat /\ 2^(h+1) \in Nat
        BY <4>3, PowerNext, PowerPositive
      <4>5. K = 2 * 2^h
        BY <4>3, <4>4
      <4> QED
        BY <4>4, <4>5
    <3>2. w + 2 <= K
      <4> SUFFICES ASSUME w = K - 1 PROVE FALSE
        BY <1>2
      <4>1. q * K = 2 * (q * j) /\ q * j \in Int
        BY <1>3, <3>1
      <4> DEFINE qj == q * j
      <4> HIDE DEF qj
      <4>2. 2 * i = 2 * qj + (2 * j - 1) /\ qj \in Int
        BY <1>2, <2>1, <3>1, <4>1 DEF qj
      <4> QED
        BY <3>1, <4>2
    <3>3. X * w + 2 * X <= X * K
      <4>1. (w + 2) * X <= K * X
        <5>1. w + 2 \in Int /\ K \in Int
          BY <1>2
        <5> QED
          BY <3>2, <5>1, TimesOrder
      <4>2. (w + 2) * X = X * w + 2 * X
        BY <1>2
      <4> QED
        BY <4>1, <4>2
    <3>4. X * w + r < X * K
      BY <1>5, <2>2, <3>3
    <3> HIDE DEF num, g
    <3> QED
      BY <1>6, <3>4 DEF num, den, norm, g
  <2> QED
    BY <2>3, <2>4
<1> QED
  BY <1>7, <1>8

\* The exponent registers hold the exponent of a sum that is not shifted, and of one that
\* is shifted by as many places as the shift can express.
LEMMA FusedExponent ==
  ASSUME NEW e \in Int, NEW carry \in 0..1, NEW k \in Nat,
         -(2 * ((NBits - 1) * 2^ES)) <= e, e <= 2 * ((NBits - 1) * 2^ES),
         k = 0 \/ (k < ShiftRange(MulBits) /\ -((NBits - 1) * 2^ES) <= e)
  PROVE  Signed(e + carry - k, ExpBits) = e + carry - k
<1> DEFINE base == 2^ES  c == Log2Ceil(NBits)  L == 2^c  bound == (NBits - 1) * base
           b == NormBits(MulBits)  h == b - 1  top == 2^h
<1>1. /\ NBits \in Nat /\ ES \in Nat /\ ExpBits \in Nat /\ ExpBits > 0
      /\ ExpBits - 1 = (c + ES) + 1 /\ c \in Nat /\ c + ES \in Nat
  BY FormatAssumption, Log2CeilIsNat DEF ExpBits
<1>2. 2^(ExpBits-1) = 2 * (L * base)
  <2>1. 2^((c + ES) + 1) = 2 * 2^(c + ES)
    BY <1>1, PowerNext
  <2>2. 2^(c + ES) = L * base
    BY <1>1, PowerSum
  <2> QED
    BY <1>1, <2>1, <2>2
<1>3. base \in Nat /\ base > 0 /\ L \in Nat /\ L >= NBits
  BY <1>1, PowerPositive, Log2CeilIsNat
<1>4. /\ -(2 * bound) <= e /\ e <= 2 * bound
      /\ k = 0 \/ (k < ShiftRange(MulBits) /\ -bound <= e)
  OBVIOUS
<1>5. MulBits \in Nat /\ MulBits >= 2 /\ MulBits < 2 * NBits
  <2>1. MulBits = 2 * (NBits - 2 - ES)
    BY FormatPowers DEF MulBits, HiddenBits, FracBits
  <2> QED
    BY FormatPowers, <2>1
<1>6. h \in Nat /\ top < MulBits /\ top = ShiftRange(MulBits)
  <2>1. b \in 0..MulBits /\ 2^b >= MulBits /\ (b = 0 \/ 2^(b-1) < MulBits)
    BY <1>5, Log2CeilIs DEF NormBits
  <2>2. b # 0
    <3>1. b = 0 => 2^b = 1
      BY PowerZero
    <3> HIDE DEF b
    <3> QED
      BY <1>5, <2>1, <3>1
  <2>3. top = ShiftRange(MulBits)
    BY DEF ShiftRange
  <2> HIDE DEF b
  <2> QED
    BY <2>1, <2>2, <2>3
<1> HIDE DEF b, h
<1>7. top \in Nat
  BY <1>6, PowerPositive
<1>8. top <= L
  <2>1. h <= c
    <3> SUFFICES ASSUME c + 1 <= h PROVE FALSE
      BY <1>1, <1>6
    <3> HIDE DEF c
    <3>1. 2^(c+1) <= 2^h /\ 2^(c+1) = 2 * 2^c
      BY <1>1, <1>6, PowerMonotone, PowerNext
    <3>2. 2 * L <= top
      BY <3>1
    <3> HIDE DEF L, top
    <3> QED
      BY <1>1, <1>3, <1>5, <1>6, <1>7, <3>2
  <2> HIDE DEF c
  <2> QED
    BY <1>1, <1>6, <2>1, PowerMonotone
<1> HIDE DEF base, L, top, c
<1>9. bound + 1 <= L * base /\ bound \in Nat /\ L * base \in Nat /\ L <= L * base
  <2>1. NBits * base <= L * base /\ L * 1 <= L * base /\ L * 1 = L
    BY <1>1, <1>3
  <2>2. NBits * base = bound + base /\ NBits * base \in Int
    BY <1>1, <1>3
  <2>3. bound \in Nat /\ L * base \in Nat
    <3>1. NBits - 1 \in Nat
      BY FormatPowers
    <3> QED
      BY <1>3, <3>1
  <2> HIDE DEF bound
  <2> QED
    BY <1>3, <2>1, <2>2, <2>3
<1> DEFINE l == L * base  x == e + carry - k
<1>10. -(2 * l) <= x /\ x < 2 * l /\ x \in Int
  <2> HIDE DEF bound, l
  <2>1. bound + 1 <= l /\ bound \in Nat /\ l \in Nat /\ L <= l
    BY <1>9 DEF l
  <2>2. CASE k = 0
    BY <1>4, <2>1, <2>2
  <2>3. CASE k < ShiftRange(MulBits) /\ -bound <= e
    <3>1. k < top /\ -bound <= e
      BY <1>6, <2>3
    <3> QED
      BY <1>3, <1>4, <1>7, <1>8, <2>1, <3>1
  <2> QED
    BY <1>4, <2>2, <2>3
<1>11. -(2^(ExpBits-1)) <= x /\ x < 2^(ExpBits-1)
  BY <1>2, <1>10
<1> HIDE DEF x
<1>12. Signed(x, ExpBits) = x
  BY <1>1, <1>10, <1>11, SignedOfSmall
<1> QED
  BY <1>12 DEF x

\* What the sum of the fractions is multiplied with to its normalised form, and the exponent
\* that belongs to it.
FusedScale(N, k) == (2 - FusedCarry(N)) * 2^k
FusedExp(e, N, k) == e + FusedCarry(N) - k

\* How far the exact sum W is, once normalised, from the sum N with r behind it.
FusedGap(N, k, d, W, r) == (FusedScale(N, k) * W - (2 * 2^d) * FusedNorm(N, k)) - r

\* The exact sum as a fraction of the normalised one's unit.
LEMMA FusedRatio ==
  ASSUME NEW N \in Nat, NEW k \in Nat, NEW e \in Int, NEW d \in Nat, NEW W \in Nat,
         NEW nn \in Nat, NEW j \in Int, WholeIs(nn, j, FusedUnit(e, d), W)
  PROVE  IsRatio(1, 0, nn, j, FusedExp(e, N, k), FusedScale(N, k) * W,
                 (2 * 2^d) * (2 * ProductOne))
<1> DEFINE F == FracBits  M == 2^F  H == ProductOne  D == 2^d  carry == FusedCarry(N)
           li == 1 - carry  se == FusedUnit(e, d)  v == j + FracBits - se  V == 2^v
           E == FusedExp(e, N, k)  num == FusedScale(N, k) * W  den == (2 * D) * (2 * H)
           B == 2^li  T == 2^k
<1>1. carry \in {0, 1} /\ li \in Nat /\ B = 2 - carry /\ B \in Nat
  <2>1. 2^0 = 1 /\ 2^1 = 2
    OBVIOUS
  <2>2. CASE N >= 2 * ProductOne
    <3>1. carry = 1 /\ li = 0
      BY <2>2 DEF FusedCarry
    <3> QED
      BY <2>1, <3>1
  <2>3. CASE ~(N >= 2 * ProductOne)
    <3>1. carry = 0 /\ li = 1
      BY <2>3 DEF FusedCarry
    <3> QED
      BY <2>1, <3>1
  <2> QED
    BY <2>2, <2>3
<1>2. /\ F \in Nat /\ M \in Nat /\ M > 0 /\ 2^(F+1) = 2 * M /\ D \in Nat /\ D > 0
      /\ T \in Nat /\ T > 0 /\ H \in Nat /\ 2^(F+F) = H
  BY FormatPowers, PowerPositive, FusedWidths
<1>3. v \in Nat /\ nn * V = W
  BY DEF WholeIs
<1>4. V \in Nat
  <2> HIDE DEF v
  <2> QED
    BY <1>3, PowerPositive
<1> HIDE DEF B, li, carry, V, v, se
<1>5. num = (B * T) * W /\ num \in Nat
  <2>1. num = (B * T) * W
    BY <1>1 DEF FusedScale, carry
  <2>2. B * T \in Nat
    BY <1>1, <1>2
  <2> HIDE DEF T, num
  <2> QED
    BY <2>1, <2>2
<1> DEFINE u == d + ((F + F) + 2)  y == v + (li + (k + (F + 1)))
<1>6. u \in Nat /\ y \in Nat /\ 2^u = den
  <2>1. u \in Nat /\ y \in Nat /\ F + F \in Nat /\ (F + F) + 2 \in Nat
    BY <1>1, <1>2, <1>3
  <2>2. 2^(d + ((F + F) + 2)) = D * 2^((F+F)+2)
    BY <2>1, PowerSum
  <2>3. 2^((F+F)+2) = 4 * H
    BY <1>2, <2>1, EightTimes
  <2>4. D * (4 * H) = (2 * D) * (2 * H)
    BY <1>2
  <2> QED
    BY <2>1, <2>2, <2>3, <2>4
<1>7. nn * 2^y = num * (2 * M)
  <2>1. 2^(v + (li + (k + (F + 1)))) = V * (B * (T * (2 * M)))
    <3>1. k + (F + 1) \in Nat /\ li + (k + (F + 1)) \in Nat /\ F + 1 \in Nat
      BY <1>1, <1>2
    <3>2. 2^(k + (F + 1)) = 2^k * 2^(F+1)
      <4> DEFINE i == F + 1
      <4>1. i \in Nat
        BY <3>1
      <4> HIDE DEF i
      <4>2. 2^(k + i) = 2^k * 2^i
        BY <4>1, PowerSum
      <4> QED
        BY <4>2 DEF i
    <3>3. 2^(li + (k + (F + 1))) = 2^li * 2^(k + (F + 1))
      <4> DEFINE i == k + (F + 1)
      <4>1. i \in Nat
        BY <3>1
      <4> HIDE DEF i
      <4>2. 2^(li + i) = 2^li * 2^i
        BY <1>1, <4>1, PowerSum
      <4> QED
        BY <4>2 DEF i
    <3>4. 2^(v + (li + (k + (F + 1)))) = 2^v * 2^(li + (k + (F + 1)))
      <4> DEFINE i == li + (k + (F + 1))
      <4>1. i \in Nat
        BY <3>1
      <4> HIDE DEF i
      <4>2. 2^(v + i) = 2^v * 2^i
        BY <1>3, <4>1, PowerSum
      <4> QED
        BY <4>2 DEF i
    <3> QED
      BY <1>2, <3>2, <3>3, <3>4 DEF V, B
  <2> HIDE DEF y, M, T, num
  <2>2. nn * (V * (B * (T * (2 * M)))) = ((B * T) * (nn * V)) * (2 * M)
    BY <1>1, <1>2, <1>4
  <2> QED
    BY <1>3, <1>5, <2>1, <2>2 DEF y
<1>8. (0 - u) - (j - y) = FracBits + 1 - E
  <2>1. v = j + F - (e - d - (F + 1))
    BY DEF v, se, FusedUnit
  <2>2. E = e + carry - k /\ li = 1 - carry
    BY DEF FusedExp, carry, li
  <2> HIDE DEF E, M
  <2> QED
    BY <1>1, <1>2, <2>1, <2>2
<1>9. E \in Int
  BY <1>1 DEF FusedExp, carry
<1> DEFINE o == 1
<1>10. o \in Nat \ {0} /\ o * (1 * 2^u) = o * den /\ o * (nn * 2^y) = o * (num * (2 * M))
  <2>1. 2^u \in Nat /\ 2^y \in Nat
    <3> HIDE DEF u, y
    <3> QED
      BY <1>6, PowerPositive
  <2> DEFINE U == 2^u  Y == 2^y
  <2>2. U = den /\ nn * Y = num * (2 * M) /\ U \in Nat /\ Y \in Nat
    BY <1>6, <1>7, <2>1
  <2> HIDE DEF U, Y, den, num, M
  <2>3. 1 * U = U /\ nn * Y \in Nat
    BY <2>2
  <2> QED
    BY <2>2, <2>3 DEF U, Y
<1> HIDE DEF u, y, o, num, den, E
<1>11. IsRatio(1, 0, nn, j, E, num, den)
  BY <1>6, <1>8, <1>10 DEF IsRatio, M
<1> QED
  BY <1>11 DEF E, num, den

\* The sum N that the core rounds, with r behind it for what was dropped, and the exact sum
\* W, with its sign and its unit.
FusedMeets(a, K, N, k, sign, e, d, W, r) ==
  /\ N \in Nat /\ k \in Nat /\ sign \in BOOLEAN /\ e \in Int /\ d \in Nat
  /\ W \in Nat /\ W > 0 /\ r \in Nat
  /\ FusedAnswer(a, K, N, k, sign, e, r # 0) /\ a.out.exponent = FusedExp(e, N, k)
  /\ FusedNorm(N, k) \in (2*ProductOne)..(4*ProductOne - 1)
  /\ r < 2 * 2^d \/ (r < 2 * (2 * 2^d) /\ \E i \in Nat : FusedNorm(N, k) = 2 * i)

\* The answer is next to the exact sum when the sum that it stands for is near enough, and
\* the nearest posit when that sum is the exact one.
LEMMA FusedAround ==
  ASSUME NEW a, NEW K \in Nat \ {0}, 2^FracBits = 2 * K,
         NEW N, NEW k, NEW sign, NEW e, NEW d, NEW W, NEW r,
         FusedMeets(a, K, N, k, sign, e, d, W, r),
         -((2 * 2^d) * 2^FracBits) < FusedGap(N, k, d, W, r),
         FusedGap(N, k, d, W, r) < (2 * 2^d) * 2^FracBits,
         NEW c \in Int, NEW j \in Int, ExactIs(c, j, sign, W, FusedUnit(e, d))
  PROVE  LET g == Generate(a.out, a.trailing, a.sticky)
         IN  /\ Surrounds(g, NBits, ES, <<c, j>>)
             /\ FusedGap(N, k, d, W, r) = 0 => RoundsTo(g, NBits, ES, <<c, j>>)
<1> DEFINE M == 2^FracBits  H == ProductOne  D == 2^d  X == 2 * D  E == FusedExp(e, N, k)
           norm == FusedNorm(N, k)  num == X * norm + r  den == X * (2 * H)
           xnum == FusedScale(N, k) * W  gap == FusedGap(N, k, d, W, r)
           se == FusedUnit(e, d)  z == <<c, j>>
           g == Generate(a.out, a.trailing, a.sticky)
           q == IF sign THEN Opposite(g, NBits) ELSE g
<1>1. /\ N \in Nat /\ k \in Nat /\ sign \in BOOLEAN /\ e \in Int /\ d \in Nat
      /\ W \in Nat /\ W > 0 /\ r \in Nat
      /\ FusedAnswer(a, K, N, k, sign, e, r # 0) /\ a.out.exponent = E
      /\ norm \in (2*H)..(4*H - 1)
      /\ r < X \/ (r < 2 * X /\ \E i \in Nat : norm = 2 * i)
  BY DEF FusedMeets
<1>2. /\ M \in Nat /\ M >= 2 /\ H \in Nat /\ H > 0 /\ H = M * M /\ D \in Nat /\ D > 0
      /\ FracBits \in Nat
  BY <1>1, PowerPositive, FusedWidths DEF ProductOne
<1>3. se \in Int /\ E \in Int /\ xnum \in Nat
  <2>1. FusedCarry(N) \in {0, 1}
    BY DEF FusedCarry
  <2>2. 2^k \in Nat
    BY <1>1, PowerPositive
  <2>3. FusedScale(N, k) \in Nat
    BY <2>1, <2>2 DEF FusedScale
  <2>4. se \in Int /\ E \in Int
    BY <1>1, <1>2, <2>1 DEF FusedUnit, FusedExp
  <2> QED
    BY <1>1, <2>3, <2>4
<1>4. /\ -(X * M) < gap /\ gap < X * M
      /\ gap = (xnum - X * norm) - r
  BY DEF FusedGap
<1>5. SignsOfSum(c, j, sign, W, se)
  <2> HIDE DEF se
  <2> QED
    BY <1>1, <1>3, ExactSigns DEF se
<1>6. PICK nn \in Nat : /\ Magnitude(z) = <<nn, j>> /\ WholeIs(nn, j, se, W)
                        /\ nn > 0 /\ (c < 0 <=> sign)
  BY <1>1, <1>5 DEF SignsOfSum
<1>7. c # 0 /\ z[1] = c
  BY <1>1, <1>5 DEF SignsOfSum
<1>8. RoundsRatio(q, NBits, ES, E, num, den)
  <2> DEFINE lost == r # 0
  <2>1. lost \in BOOLEAN /\ (lost <=> r # 0) /\ FusedAnswer(a, K, N, k, sign, e, lost)
    BY <1>1
  <2>2. X \in Nat /\ X > 0
    BY <1>2
  <2>3. r < X \/ (r < 2 * X /\ \E i \in Nat : FusedNorm(N, k) = 2 * i)
    BY <1>1
  <2> HIDE DEF lost, X, E
  <2>4. RoundsRatio(IF sign THEN Opposite(g, NBits) ELSE g, NBits, ES, E,
                    X * FusedNorm(N, k) + r, X * (2 * ProductOne))
    BY <1>1, <1>3, <2>1, <2>2, <2>3, FusedRounds
  <2> QED
    BY <2>4
<1>9. IsRatio(1, 0, nn, j, E, xnum, den)
  BY <1>1, <1>6, FusedRatio
<1> HIDE DEF norm, H, xnum, gap, z, g, E, se
<1>10. X \in Nat /\ X > 0 /\ norm \in Nat /\ X * norm \in Nat
  <2>1. X \in Nat /\ X > 0
    BY <1>2
  <2>2. norm \in Nat
    BY <1>1, <1>2
  <2> HIDE DEF X
  <2> QED
    BY <2>1, <2>2
<1> HIDE DEF X, M
<1>11. num \in Nat /\ den \in Nat /\ den > 0 /\ den <= num /\ num < 2 * den
  <2>1. X * (2 * H) \in Nat /\ X * (2 * H) > 0
    <3>1. 2 * H \in Nat /\ 2 * H > 0
      BY <1>2
    <3> DEFINE h == 2 * H
    <3> HIDE DEF h
    <3>2. X * h \in Nat /\ X * h > 0
      BY <1>10, <3>1 DEF h
    <3> QED
      BY <3>2 DEF h
  <2>2. X * (2 * H) <= X * norm
    <3>1. (2 * H) * X <= norm * X
      <4>1. 2 * H \in Int /\ 2 * H <= norm /\ norm \in Int
        BY <1>1, <1>2, <1>10
      <4> QED
        BY <1>10, <4>1, TimesOrder
    <3> QED
      BY <1>2, <1>10, <3>1
  <2> DEFINE Y == X * norm  h == X * (2 * H)
  <2>3. \A i \in Nat : norm + i <= 4 * H => Y + i * X <= 2 * h
    <3>1. ASSUME NEW i \in Nat, norm + i <= 4 * H PROVE Y + i * X <= 2 * h
      <4>1. (norm + i) * X <= (4 * H) * X
        <5>1. norm + i \in Int /\ 4 * H \in Int
          BY <1>2, <1>10
        <5> QED
          BY <1>10, <3>1, <5>1, TimesOrder
      <4>2. (norm + i) * X = Y + i * X /\ (4 * H) * X = 2 * h
        BY <1>2, <1>10
      <4> QED
        BY <4>1, <4>2
    <3> QED
      BY <3>1
  <2>4. Y + r < 2 * h
    <3>1. CASE r < X
      <4>1. Y + 1 * X <= 2 * h /\ 1 * X = X
        <5>1. norm + 1 <= 4 * H
          BY <1>1, <1>2
        <5> QED
          BY <1>10, <2>3, <5>1
      <4> HIDE DEF Y, h
      <4>2. Y \in Nat /\ h \in Nat
        BY <1>10, <2>1 DEF Y, h
      <4> QED
        BY <1>1, <1>10, <3>1, <4>1, <4>2
    <3>2. CASE r < 2 * X /\ \E i \in Nat : norm = 2 * i
      <4>1. norm + 2 <= 4 * H
        <5>1. PICK i \in Nat : norm = 2 * i
          BY <3>2
        <5> QED
          BY <1>1, <1>2, <5>1
      <4>2. Y + 2 * X <= 2 * h
        BY <2>3, <4>1
      <4> HIDE DEF Y, h
      <4>3. Y \in Nat /\ h \in Nat
        BY <1>10, <2>1 DEF Y, h
      <4> QED
        BY <1>1, <1>10, <3>2, <4>2, <4>3
    <3> QED
      BY <1>1, <3>1, <3>2
  <2>5. Y \in Nat /\ h \in Nat /\ h > 0 /\ h <= Y
    BY <1>10, <2>1, <2>2
  <2> HIDE DEF Y, h
  <2>6. Y + r \in Nat /\ h <= Y + r
    BY <1>1, <2>5
  <2> QED
    BY <2>4, <2>5, <2>6 DEF Y, h
<1>12. Close(num, den, 1, xnum)
  <2> DEFINE Y == X * norm  XM == X * M  M4 == 4 * M
  <2>1. XM \in Nat /\ den * 1 = den /\ num * 1 = num /\ XM * M4 = 2 * den
    <3>1. (X * M) * (4 * M) = 2 * (X * (2 * (M * M)))
      BY <1>2, <1>10
    <3>2. H = M * M
      BY <1>2
    <3>3. XM \in Nat
      BY <1>2, <1>10
    <3>4. den * 1 = den /\ num * 1 = num
      <4> HIDE DEF den, num
      <4> QED
        BY <1>11
    <3> QED
      BY <3>1, <3>2, <3>3, <3>4
  <2>2. num < xnum + XM /\ xnum < num + XM
    <3> HIDE DEF XM, Y
    <3>1. num = Y + r /\ -XM < gap /\ gap < XM /\ gap = (xnum - Y) - r /\ Y \in Nat
      BY <1>4, <1>10 DEF XM, Y
    <3> HIDE DEF num
    <3> QED
      BY <1>1, <1>3, <2>1, <3>1
  <2> HIDE DEF num, den, XM
  <2>3. num * M4 < xnum * M4 + XM * M4 /\ xnum * M4 < num * M4 + XM * M4
    <3>1. M4 \in Nat /\ M4 > 0
      BY <1>2
    <3> HIDE DEF M4
    <3>2. num * M4 < (xnum + XM) * M4 /\ xnum * M4 < (num + XM) * M4
      BY <1>3, <1>11, <2>1, <2>2, <3>1
    <3>3. (xnum + XM) * M4 = xnum * M4 + XM * M4 /\ (num + XM) * M4 = num * M4 + XM * M4
      BY <1>3, <1>11, <2>1, <3>1
    <3> QED
      BY <3>2, <3>3
  <2> QED
    BY <2>1, <2>3 DEF Close, M4, M
<1>13. Surrounds(g, NBits, ES, z)
  <2> DEFINE o == 1
  <2>1. o \in Nat /\ o > 0 /\ Close(num, den, o, xnum) /\ den * o = den
    BY <1>11, <1>12
  <2> HIDE DEF num, den
  <2>2. IsRatio(1, 0, nn, j, E, xnum, den * o)
    BY <1>9, <2>1
  <2> HIDE DEF o, q
  <2>3. Around(q, nn, j)
    BY <1>3, <1>6, <1>8, <1>11, <2>1, <2>2, AroundClose
  <2> QED
    BY <1>1, <1>6, <1>7, <2>3, DyadicSurrounds DEF q
<1>14. ASSUME gap = 0 PROVE RoundsTo(g, NBits, ES, z)
  <2>1. xnum = num
    <3> DEFINE Y == X * norm
    <3>1. Y \in Nat /\ num = Y + r /\ gap = (xnum - Y) - r
      BY <1>4, <1>10
    <3> HIDE DEF Y, num
    <3> QED
      BY <1>1, <1>3, <1>14, <3>1
  <2> HIDE DEF num, den
  <2> DEFINE o == 1  i == 0
  <2>2. IsRatio(o, i, nn, j, E, num, den) /\ o \in Nat /\ o > 0 /\ i \in Int
    BY <1>9, <2>1
  <2> HIDE DEF o, i
  <2>3. RoundsBetween(q, o, i, nn, j)
    <3> HIDE DEF q
    <3> QED
      BY <1>3, <1>6, <1>8, <1>11, <2>2, RatioRoundsBetween
  <2>4. RoundsBetween(q, 1, 0, nn, j)
    BY <2>3 DEF o, i
  <2> QED
    BY <1>1, <1>6, <1>7, <2>4, DyadicRounds
<1> QED
  BY <1>13, <1>14 DEF g, z, gap

\* The two fractions with the bits that the core does not keep of them: the last bit gl or
\* ll of the product, behind the greater or the lesser one.
FusedTerms(add, G, gl, L, ll, d) ==
  /\ add \in BOOLEAN /\ G \in ProductOne .. (2*ProductOne - 1) /\ L \in 0 .. (2*ProductOne - 1)
  /\ gl \in 0..1 /\ ll \in 0..1 /\ (gl = 0 \/ ll = 0)
  /\ d \in Nat /\ (d = 0 => L <= G)

FusedExact(add, G, gl, L, ll, d) ==
  IF add THEN (2*G + gl) * 2^d + (2*L + ll) ELSE (2*G + gl) * 2^d - (2*L + ll)

\* What the sum of the aligned fractions lacks of it.
FusedDiff(add, gl, L, ll, d) ==
  IF add THEN gl * 2^d + (2 * (L % 2^d) + ll) ELSE gl * 2^d - (2 * (L % 2^d) + ll)

LEMMA FusedSums ==
  ASSUME NEW add, NEW G, NEW gl, NEW L, NEW ll, NEW d, FusedTerms(add, G, gl, L, ll, d)
  PROVE  LET D == 2^d
             S == L \div D
             N == FusedWhole(add, G, S)
             W == FusedExact(add, G, gl, L, ll, d)
             y == FusedDiff(add, gl, L, ll, d)
         IN  /\ FusedFractions(add, G, S, N)
             /\ D \in Nat /\ D > 0 /\ N \in Nat /\ W \in Int /\ y \in Int
             /\ W = (2 * D) * N + y
             /\ add => N >= ProductOne
             /\ ~add => N < 2 * ProductOne
             /\ L % D \in 0..(D-1)
<1> DEFINE H == ProductOne  D == 2^d  S == L \div D  m == L % D  N == FusedWhole(add, G, S)
           W == FusedExact(add, G, gl, L, ll, d)  y == FusedDiff(add, gl, L, ll, d)
<1>1. /\ add \in BOOLEAN /\ G \in H..(2*H-1) /\ L \in 0..(2*H-1) /\ gl \in 0..1 /\ ll \in 0..1
      /\ d \in Nat /\ (d = 0 => L <= G) /\ H \in Nat /\ H > 0
  BY FusedWidths DEF FusedTerms
<1>2. D \in Nat /\ D > 0 /\ (d = 0 => D = 1) /\ (d # 0 => D >= 2)
  <2>1. D \in Nat /\ D > 0
    BY <1>1, PowerPositive
  <2>2. d = 0 => D = 1
    BY PowerZero
  <2>3. d # 0 => D >= 2
    <3>1. CASE d # 0
      <4> DEFINE i == d - 1
      <4>1. i \in Nat /\ i + 1 = d
        BY <1>1, <3>1
      <4>2. 2^(i+1) = 2 * 2^i /\ 2^i \in Nat /\ 2^i > 0
        BY <4>1, PowerNext, PowerPositive
      <4> HIDE DEF i
      <4> QED
        BY <4>1, <4>2
    <3> QED
      BY <3>1
  <2> QED
    BY <2>1, <2>2, <2>3
<1> HIDE DEF D, H
<1>3. S \in Nat /\ m \in 0..(D-1) /\ L = S * D + m /\ L \in Nat /\ G \in Nat
  <2>1. L \in Nat /\ G \in Nat
    BY <1>1
  <2>2. L \div D \in Int /\ L % D \in 0..(D-1) /\ L = (L \div D) * D + (L % D)
    BY <1>2, <2>1, DivParts
  <2>3. L \div D >= 0
    BY <1>2, <2>1
  <2> QED
    BY <2>1, <2>2, <2>3
<1> HIDE DEF S, m
<1>4. S <= G /\ S \in 0..(2*H-1)
  <2>1. S * D \in Nat /\ S * 1 <= S * D /\ (D >= 2 => S * 2 <= S * D)
    BY <1>2, <1>3
  <2>2. S * D <= L
    <3> DEFINE SD == S * D
    <3> HIDE DEF SD
    <3>1. SD \in Nat /\ L = SD + m
      BY <1>3, <2>1 DEF SD
    <3>2. SD <= L
      BY <1>2, <1>3, <3>1
    <3> QED
      BY <3>2 DEF SD
  <2>3. S <= L
    BY <1>3, <2>1, <2>2
  <2>4. CASE d = 0
    BY <1>1, <1>3, <2>3, <2>4
  <2>5. CASE d # 0
    <3>1. S * 2 <= L
      BY <1>2, <1>3, <2>1, <2>2, <2>5
    <3> QED
      BY <1>1, <1>3, <3>1
  <2> QED
    BY <2>4, <2>5
<1>5. N = (IF add THEN G + S ELSE G - S)
  BY DEF FusedWhole
<1>6. /\ W = (IF add THEN (2*G + gl) * D + (2*L + ll) ELSE (2*G + gl) * D - (2*L + ll))
      /\ y = (IF add THEN gl * D + (2*m + ll) ELSE gl * D - (2*m + ll))
  BY DEF FusedExact, FusedDiff, D, m
<1>7. FusedFractions(add, G, S, N)
  BY <1>1, <1>4 DEF FusedFractions, H
<1> HIDE DEF N, W, y
<1>8. N \in Nat /\ (add => N >= H) /\ (~add => N < 2 * H)
  BY <1>1, <1>3, <1>4, <1>5
<1>9. W \in Int /\ y \in Int /\ W = (2 * D) * N + y
  <2> DEFINE GD == G * D  SD == S * D  gD == gl * D
  <2>1. GD \in Int /\ SD \in Int /\ gD \in Int /\ L = SD + m
    BY <1>1, <1>2, <1>3
  <2>2. (2*G + gl) * D = 2 * GD + gD
    BY <1>1, <1>2, <1>3
  <2>3. (add => (2 * D) * N = 2 * GD + 2 * SD) /\ (~add => (2 * D) * N = 2 * GD - 2 * SD)
    BY <1>2, <1>3, <1>5
  <2> HIDE DEF GD, SD, gD
  <2>4. /\ W = (IF add THEN (2 * GD + gD) + (2*L + ll) ELSE (2 * GD + gD) - (2*L + ll))
        /\ y = (IF add THEN gD + (2*m + ll) ELSE gD - (2*m + ll))
    BY <1>6, <2>2 DEF gD
  <2> DEFINE Z == (2 * D) * N
  <2>5. (add => Z = 2 * GD + 2 * SD) /\ (~add => Z = 2 * GD - 2 * SD)
    BY <2>3
  <2> HIDE DEF Z
  <2>6. W \in Int /\ y \in Int /\ W = Z + y
    <3>1. CASE add
      BY <1>1, <1>2, <1>3, <2>1, <2>4, <2>5, <3>1
    <3>2. CASE ~add
      BY <1>1, <1>2, <1>3, <2>1, <2>4, <2>5, <3>2
    <3> QED
      BY <3>1, <3>2
  <2> QED
    BY <2>6 DEF Z
<1> QED
  BY <1>2, <1>3, <1>7, <1>8, <1>9 DEF D, S, m, N, W, y, H

\* Whether the core knows all it drops: in a sum unless both a bit of the product and bits of
\* the addend are lost, in a difference if nothing is.
FusedLoses(gl, L, ll, d)      == gl = 1 \/ ll = 1 \/ L % 2^d # 0
FusedKnows(add, gl, L, ll, d) == (add /\ ~(gl = 1 /\ L % 2^d # 0)) \/ ~FusedLoses(gl, L, ll, d)

\* A number r that stands for what is lost, as near to it as the rounding can tell.
FusedRest(add, G, gl, L, ll, d, k, r) ==
  LET N == FusedWhole(add, G, L \div 2^d)
      X == 2 * 2^d
      z == FusedScale(N, k) * FusedDiff(add, gl, L, ll, d)
  IN  /\ r \in Nat /\ (r # 0 <=> FusedLoses(gl, L, ll, d))
      /\ r < X \/ (r < 2 * X /\ \E i \in Nat : FusedNorm(N, k) = 2 * i)
      /\ -(X * 2^FracBits) < z - r /\ z - r < X * 2^FracBits
      /\ FusedKnows(add, gl, L, ll, d) => z - r = 0

LEMMA FusedRestExists ==
  ASSUME NEW add, NEW G, NEW gl, NEW L, NEW ll, NEW d, FusedTerms(add, G, gl, L, ll, d),
         NEW N, N = FusedWhole(add, G, L \div 2^d), NEW k \in Nat,
         FusedNorm(N, k) \in (2*ProductOne)..(4*ProductOne - 1), N >= ProductOne => k = 0,
         FusedKnows(add, gl, L, ll, d) \/ add \/ N >= 2 * 2^FracBits
  PROVE  \E r : FusedRest(add, G, gl, L, ll, d, k, r)
<1> DEFINE H == ProductOne  M == 2^FracBits  D == 2^d  m == L % D  X == 2 * D  T == 2^k
           I == FusedScale(N, k)  norm == FusedNorm(N, k)  y == FusedDiff(add, gl, L, ll, d)
           loses == FusedLoses(gl, L, ll, d)  z == I * y
<1>1. /\ D \in Nat /\ D > 0 /\ N \in Nat /\ y \in Int /\ m \in 0..(D-1)
      /\ (add => N >= H) /\ (~add => N < 2 * H)
  BY FusedSums
<1>2. /\ add \in BOOLEAN /\ gl \in 0..1 /\ ll \in 0..1 /\ (gl = 0 \/ ll = 0)
  BY DEF FusedTerms
<1>3. M \in Nat /\ M >= 2 /\ H \in Nat /\ H = M * M /\ H >= M /\ T \in Nat /\ T > 0 /\ (k = 0 => T = 1)
  BY FusedWidths, PowerPositive, PowerZero DEF ProductOne
<1>4. /\ y = (IF add THEN gl * D + (2*m + ll) ELSE gl * D - (2*m + ll))
      /\ loses <=> gl = 1 \/ ll = 1 \/ m # 0
  BY DEF FusedDiff, FusedLoses
<1>5. I = (IF N >= 2 * H THEN 1 ELSE 2) * T /\ norm = I * N
  <2>1. FusedCarry(N) = (IF N >= 2 * H THEN 1 ELSE 0)
    BY DEF FusedCarry
  <2>2. FusedScale(N, k) = (2 - FusedCarry(N)) * T /\ FusedNorm(N, k) = ((2 - FusedCarry(N)) * N) * T
    BY DEF FusedScale, FusedNorm
  <2> DEFINE b == 2 - FusedCarry(N)
  <2>3. b = (IF N >= 2 * H THEN 1 ELSE 2) /\ b \in Nat
    BY <2>1
  <2> HIDE DEF b, T
  <2>4. (b * N) * T = (b * T) * N
    BY <1>1, <1>3, <2>3
  <2> QED
    BY <2>2, <2>3, <2>4 DEF b
<1>6. FusedKnows(add, gl, L, ll, d) <=> (add /\ ~(gl = 1 /\ m # 0)) \/ ~loses
  BY DEF FusedKnows
<1>7. norm \in (2*H)..(4*H-1) /\ (N >= H => k = 0)
  OBVIOUS
<1>8. ASSUME NEW r \in Nat, r # 0 <=> loses, r < X \/ (r < 2 * X /\ \E i \in Nat : norm = 2 * i),
             -(X * M) < z - r, z - r < X * M,
             (add /\ ~(gl = 1 /\ m # 0)) \/ ~loses => z - r = 0
      PROVE  FusedRest(add, G, gl, L, ll, d, k, r)
  BY <1>6, <1>8 DEF FusedRest
<1> HIDE DEF D, M, H, T, I, norm, y, loses, m
<1>9. D <= D * M /\ 2 * D <= D * M /\ X * M = 2 * (D * M) /\ D * M \in Nat
  BY <1>1, <1>3
\* Nothing is lost.
<1>10. CASE ~loses
  <2>1. gl = 0 /\ ll = 0 /\ m = 0
    BY <1>1, <1>2, <1>4, <1>10
  <2>2. y = 0
    <3>1. 0 * D = 0
      BY <1>1
    <3> QED
      BY <1>4, <2>1, <3>1
  <2>3. z = 0
    <3>1. I \in Int
      BY <1>3, <1>5
    <3> QED
      BY <2>2, <3>1
  <2> DEFINE r == 0
  <2>4. r \in Nat /\ r < X /\ -(X * M) < z - r /\ z - r < X * M /\ z - r = 0 /\ ~(r # 0)
    <3> DEFINE DM == D * M  XM == X * M
    <3>1. DM \in Nat /\ D <= DM /\ XM = 2 * DM
      BY <1>9
    <3> HIDE DEF DM, XM
    <3> QED
      BY <1>1, <2>3, <3>1 DEF XM
  <2> HIDE DEF r, z, X
  <2> QED
    BY <1>8, <1>10, <2>4
\* A sum.
<1>11. CASE loses /\ add
  <2>1. k = 0 /\ T = 1 /\ N >= H
    BY <1>1, <1>3, <1>7, <1>11
  <2>2. I = (IF N >= 2 * H THEN 1 ELSE 2)
    BY <1>5, <2>1
  <2>3. y = gl * D + (2*m + ll)
    BY <1>4, <1>11
  <2>4. (gl = 0 => gl * D = 0) /\ (gl = 1 => gl * D = D)
    BY <1>1
  <2>5. I * y \in Int /\ (I = 1 => z = y) /\ (I = 2 => z = 2 * y) /\ I \in {1, 2}
    BY <1>1, <2>2
  <2>6. I = 2 => \E i \in Nat : norm = 2 * i
    BY <1>1, <1>5
  <2>7. CASE ~(gl = 1 /\ m # 0)
    <3>1. y \in Nat /\ y > 0 /\ y < X
      <4>1. CASE gl = 1
        <5>1. m = 0 /\ ll = 0 /\ y = D
          BY <1>1, <1>2, <2>3, <2>4, <2>7, <4>1
        <5> QED
          BY <1>1, <5>1
      <4>2. CASE gl = 0
        BY <1>1, <1>2, <1>4, <1>11, <2>3, <2>4, <4>2
      <4> QED
        BY <1>2, <4>1, <4>2
    <3> DEFINE r == z
    <3>2. r \in Nat /\ r # 0 /\ z - r = 0
          /\ (r < X \/ (r < 2 * X /\ \E i \in Nat : norm = 2 * i))
      <4>1. CASE I = 1
        <5>1. r = y
          BY <2>5, <4>1
        <5> HIDE DEF r, z
        <5>2. z = r
          BY DEF r
        <5> QED
          BY <3>1, <5>1, <5>2
      <4>2. CASE I = 2
        <5>1. r = 2 * y /\ \E i \in Nat : norm = 2 * i
          BY <2>5, <2>6, <4>2
        <5> HIDE DEF r, z
        <5>2. z = r
          BY DEF r
        <5>3. r < 2 * X /\ r \in Nat /\ r # 0 /\ z - r = 0
          BY <1>1, <3>1, <5>1, <5>2
        <5> QED
          BY <5>1, <5>3
      <4> QED
        BY <2>5, <4>1, <4>2
    <3>3. -(X * M) < z - r /\ z - r < X * M
      <4> DEFINE XM == X * M
      <4>1. XM > 0 /\ XM \in Nat
        <5> DEFINE DM == D * M
        <5>1. DM \in Nat /\ D <= DM /\ XM = 2 * DM
          BY <1>9
        <5> HIDE DEF DM, XM
        <5> QED
          BY <1>1, <5>1
      <4> HIDE DEF XM, z
      <4>2. -XM < z - r /\ z - r < XM
        BY <3>2, <4>1
      <4> QED
        BY <4>2 DEF XM
    <3> HIDE DEF r, z, X
    <3> QED
      BY <1>8, <1>11, <3>2, <3>3
  <2>8. CASE gl = 1 /\ m # 0
    <3>1. ll = 0 /\ y = D + 2 * m
      BY <1>1, <1>2, <2>3, <2>4, <2>8
    <3> DEFINE r == X - 1
    <3>2. r \in Nat /\ r # 0 /\ r < X
      BY <1>1
    <3>3. -(X * M) < z - r /\ z - r < X * M
      <4> DEFINE XM == X * M  DM == D * M
      <4>1. DM \in Nat /\ 2 * D <= DM /\ XM = 2 * DM
        BY <1>9
      <4>2. y \in Nat /\ y <= 3 * D - 2
        BY <1>1, <3>1
      <4>3. z = y \/ z = 2 * y
        BY <2>5
      <4> HIDE DEF XM, DM, z
      <4>4. -XM < z - r /\ z - r < XM
        BY <1>1, <4>1, <4>2, <4>3
      <4> QED
        BY <4>4 DEF XM
    <3>4. ~((add /\ ~(gl = 1 /\ m # 0)) \/ ~loses)
      BY <1>11, <2>8
    <3> HIDE DEF r, z, X
    <3> QED
      BY <1>8, <1>11, <3>2, <3>3, <3>4
  <2> QED
    BY <2>7, <2>8
\* A difference.
<1>12. CASE loses /\ ~add
  <2>1. N < 2 * H /\ N >= 2 * M
    BY <1>1, <1>6, <1>12 DEF M
  <2>2. I = 2 * T
    BY <1>1, <1>3, <1>5, <2>1
  <2>3. 2 * T <= M
    <3>1. T < M
      <4> SUFFICES ASSUME M <= T PROVE FALSE
        BY <1>3
      <4>1. (2 * M) * M <= N * T
        <5>1. (2 * M) * M <= (2 * M) * T /\ (2 * M) * T <= N * T
          <6>1. M * (2 * M) <= T * (2 * M)
            <7> DEFINE c == 2 * M
            <7>1. c \in Nat
              BY <1>3
            <7> HIDE DEF c
            <7>2. M * c <= T * c
              BY <1>3, <7>1, TimesOrder
            <7> QED
              BY <7>2 DEF c
          <6>2. (2 * M) * T <= N * T
            <7>1. 2 * M \in Int /\ 2 * M <= N /\ N \in Int
              BY <1>1, <1>3, <2>1
            <7> QED
              BY <1>3, <7>1, TimesOrder
          <6> QED
            BY <1>3, <6>1, <6>2
        <5>2. (2 * M) * M \in Int /\ (2 * M) * T \in Int /\ N * T \in Int
          BY <1>1, <1>3
        <5> QED
          BY <5>1, <5>2
      <4>2. norm = 2 * (N * T) /\ N * T \in Nat
        BY <1>1, <1>3, <1>5, <2>2
      <4>3. (2 * M) * M = 2 * H
        BY <1>3
      <4> DEFINE NT == N * T
      <4>4. 2 * H <= NT /\ norm = 2 * NT /\ NT \in Nat
        BY <4>1, <4>2, <4>3
      <4> HIDE DEF NT
      <4> QED
        BY <1>3, <1>7, <4>4
    <3>2. k < FracBits
      <4> SUFFICES ASSUME FracBits <= k PROVE FALSE
        BY FormatPowers
      <4>1. M <= T
        BY FormatPowers, PowerMonotone DEF M, T
      <4> QED
        BY <1>3, <3>1, <4>1
    <3>3. k + 1 \in Nat /\ k + 1 <= FracBits /\ FracBits \in Nat
      BY <3>2, FormatPowers
    <3>4. 2^(k+1) <= 2^FracBits /\ 2^(k+1) = 2 * 2^k
      <4> DEFINE i == k + 1
      <4>1. i \in Nat /\ i <= FracBits
        BY <3>3
      <4> HIDE DEF i
      <4>2. 2^i <= 2^FracBits
        BY <3>3, <4>1, PowerMonotone
      <4> QED
        BY <4>2, PowerNext DEF i
    <3> QED
      BY <3>4 DEF M, T
  <2>4. -(2 * D - 1) <= y /\ y <= D
    <3>1. (gl = 0 => gl * D = 0) /\ (gl = 1 => gl * D = D)
      BY <1>1
    <3>2. y = gl * D - (2*m + ll)
      BY <1>4, <1>12
    <3> DEFINE gD == gl * D
    <3> HIDE DEF gD
    <3>3. gD \in {0, D} /\ y = gD - (2*m + ll)
      BY <1>2, <3>1, <3>2 DEF gD
    <3> QED
      BY <1>1, <1>2, <3>3
  <2> DEFINE r == 1  J == 2 * T  a == 2 * D - 1  XM == X * M
  <2>5. z <= D * J /\ -(a * J) <= z /\ z \in Int
    <3>1. J \in Nat /\ z = y * J /\ a \in Int /\ -a \in Int
      BY <1>1, <1>3, <2>2
    <3> HIDE DEF J, z, a
    <3>2. y * J <= D * J /\ (-a) * J <= y * J /\ (-a) * J = -(a * J) /\ y * J \in Int
      BY <1>1, <2>4, <3>1, TimesOrder DEF a
    <3> QED
      BY <3>1, <3>2
  <2>6. D * J <= D * M /\ a * J <= a * M /\ a * M = XM - M
    <3>1. J \in Nat /\ J <= M /\ a \in Nat
      BY <1>1, <1>3, <2>3
    <3>2. a * M = XM - M
      BY <1>1, <1>3
    <3> HIDE DEF J, a, XM
    <3>3. J * D <= M * D /\ J * a <= M * a
      BY <1>1, <1>3, <3>1, TimesOrder
    <3>4. J * D = D * J /\ M * D = D * M /\ J * a = a * J /\ M * a = a * M
      BY <1>1, <1>3, <3>1
    <3> QED
      BY <3>2, <3>3, <3>4
  <2>7. -XM < z - r /\ z - r < XM
    <3> DEFINE DM == D * M  DJ == D * J  aJ == a * J  aM == a * M
    <3>1. DM \in Nat /\ D <= DM /\ XM = 2 * DM
      BY <1>9
    <3>2. DJ \in Int /\ aJ \in Int
      BY <1>1, <1>3
    <3>3. z <= DJ /\ -aJ <= z /\ z \in Int /\ DJ <= DM /\ aJ <= aM /\ aM = XM - M
      BY <2>5, <2>6
    <3> HIDE DEF DM, DJ, aJ, aM, XM, z
    <3> QED
      BY <1>1, <1>3, <3>1, <3>2, <3>3
  <2>8. r \in Nat /\ r # 0 /\ r < X /\ ~((add /\ ~(gl = 1 /\ m # 0)) \/ ~loses)
    BY <1>1, <1>12
  <2>9. -(X * M) < z - r /\ z - r < X * M
    BY <2>7 DEF XM
  <2> HIDE DEF r, z, X
  <2> QED
    BY <1>8, <1>12, <2>8, <2>9
<1> QED
  BY <1>2, <1>10, <1>11, <1>12

\* The shift can express half the places of the adder, and one that leaves a sum as large
\* as its range says.
LEMMA FusedShift ==
  ASSUME NEW N \in Nat, NEW k \in Nat, N > 0, FusedNorm(N, k) < 4 * ProductOne,
         N >= ProductOne => k = 0,
         N >= 2 * 2^FracBits \/ N >= 2^(MulBits - 1 - ShiftRange(MulBits))
  PROVE  k < ShiftRange(MulBits)
<1> DEFINE w == MulBits  b == NormBits(w)  h == b - 1  s == ShiftRange(w)  F == FracBits
           M == 2^F  H == ProductOne  T == 2^k
<1>1. /\ w \in Nat /\ w >= 2 /\ w = F + F + 2 /\ F \in Nat /\ F >= 1 /\ M \in Nat /\ M >= 2
      /\ H \in Nat /\ H >= M /\ 2^(F+F) = H /\ 2^(w-1) = 2 * H /\ H = M * M
  BY FusedWidths DEF ProductOne
<1>2. b \in Nat /\ 2^b >= w /\ (b = 0 \/ 2^(b-1) < w)
  BY <1>1, Log2CeilIs DEF NormBits
<1>3. h \in Nat /\ s = 2^h /\ 2^b = 2 * 2^h /\ s \in Nat
  <2>1. b # 0
    <3>1. b = 0 => 2^b = 1
      BY PowerZero
    <3> HIDE DEF b
    <3> QED
      BY <1>1, <1>2, <3>1
  <2>2. s = 2^h
    BY DEF ShiftRange
  <2> HIDE DEF b, s
  <2>3. h \in Nat /\ h + 1 = b
    BY <1>2, <2>1
  <2> HIDE DEF h
  <2>4. 2^(h+1) = 2 * 2^h /\ 2^h \in Nat
    BY <2>3, PowerNext, PowerPositive
  <2> QED
    BY <2>2, <2>3, <2>4
<1>4. s >= F + 1 /\ s < w
  <2> DEFINE B == 2^b
  <2>1. B >= w /\ B = 2 * s
    BY <1>2, <1>3
  <2>2. s < w
    <3>1. b # 0
      BY <1>3
    <3>2. s = 2^(b-1)
      BY DEF ShiftRange
    <3> QED
      BY <1>2, <3>1, <3>2
  <2> HIDE DEF b, s, h, B, w
  <2> QED
    BY <1>1, <1>3, <2>1, <2>2
<1> HIDE DEF b, h, s
<1>5. T \in Nat /\ T > 0
  BY PowerPositive
<1>6. CASE N >= H
  BY <1>1, <1>3, <1>4, <1>6 DEF s, w
<1>7. CASE N < H
  <2>1. N * T < 2 * H /\ N * T \in Nat
    <3>1. FusedCarry(N) = 0
      BY <1>1, <1>7 DEF FusedCarry
    <3>2. FusedNorm(N, k) = (2 * N) * T
      BY <3>1 DEF FusedNorm
    <3> HIDE DEF T
    <3>3. (2 * N) * T = 2 * (N * T) /\ N * T \in Nat
      BY <1>5
    <3> DEFINE NT == N * T
    <3>4. FusedNorm(N, k) = 2 * NT /\ NT \in Nat
      BY <3>2, <3>3
    <3> HIDE DEF NT
    <3>5. NT < 2 * H
      BY <1>1, <3>4
    <3> QED
      BY <3>4, <3>5 DEF NT
  <2>2. CASE N >= 2 * M
    <3>1. T < M
      <4> SUFFICES ASSUME M <= T PROVE FALSE
        BY <1>1, <1>5
      <4> DEFINE c == 2 * M  NT == N * T
      <4>1. c \in Nat /\ c <= N /\ c * M = 2 * H
        BY <1>1, <2>2
      <4>2. NT \in Nat /\ NT < 2 * H
        BY <2>1
      <4> HIDE DEF c, T, M
      <4>3. M * c <= T * c /\ c * T <= N * T
        BY <1>1, <1>5, <4>1, TimesOrder
      <4>4. M * c = c * M /\ T * c = c * T /\ c * T \in Nat
        BY <1>1, <1>5, <4>1
      <4>5. 2 * H <= NT
        BY <1>1, <4>1, <4>2, <4>3, <4>4
      <4> HIDE DEF NT
      <4> QED
        BY <1>1, <4>2, <4>5
    <3>2. k < F
      <4> SUFFICES ASSUME F <= k PROVE FALSE
        BY <1>1
      <4>1. M <= T
        BY <1>1, PowerMonotone
      <4> QED
        BY <1>1, <1>5, <3>1, <4>1
    <3> QED
      BY <1>1, <1>3, <1>4, <3>2 DEF s, w
  <2>3. CASE N >= 2^(w - 1 - s)
    <3> DEFINE i == w - 1 - s
    <3>1. i \in Nat
      BY <1>1, <1>3, <1>4
    <3> SUFFICES ASSUME s <= k PROVE FALSE
      BY <1>3 DEF s, w
    <3>2. i + k \in Nat /\ w - 1 \in Nat /\ w - 1 <= i + k
      BY <1>1, <1>3, <3>1
    <3> HIDE DEF i
    <3>3. 2^(i + k) = 2^i * T /\ 2^i \in Nat
      BY <3>1, PowerSum, PowerPositive
    <3>4. 2^(w-1) <= 2^(i+k)
      <4> DEFINE x == w - 1  z == i + k
      <4>1. x \in Nat /\ z \in Nat /\ x <= z
        BY <3>2
      <4> HIDE DEF x, z
      <4>2. 2^x <= 2^z
        BY <4>1, PowerMonotone
      <4> QED
        BY <4>2 DEF x, z
    <3> DEFINE P == 2^i
    <3>5. P \in Nat /\ P <= N /\ 2 * H <= P * T
      BY <1>1, <2>3, <3>3, <3>4 DEF i
    <3> HIDE DEF P, T
    <3>6. P * T <= N * T /\ P * T \in Nat
      BY <1>5, <3>5, TimesOrder
    <3> QED
      BY <1>1, <2>1, <3>5, <3>6
  <2> QED
    BY <2>2, <2>3 DEF M, w, s
<1> QED
  BY <1>1, <1>6, <1>7

LEMMA FusedRangeIsNat == ShiftRange(MulBits) \in Nat /\ ShiftRange(MulBits) > 0
<1> DEFINE w == MulBits  b == NormBits(w)
<1>1. w \in Nat /\ w >= 2
  BY FusedWidths
<1>2. b \in Nat /\ 2^b >= w
  BY <1>1, Log2CeilIs DEF NormBits
<1>3. b # 0
  <2>1. b = 0 => 2^b = 1
    BY PowerZero
  <2> HIDE DEF b
  <2> QED
    BY <1>1, <1>2, <2>1
<1> DEFINE h == b - 1
<1>4. h \in Nat
  BY <1>2, <1>3
<1>5. ShiftRange(w) = 2^h
  BY DEF ShiftRange
<1> HIDE DEF h
<1> QED
  BY <1>4, <1>5, PowerPositive

\* Fractions that cancel give zero.
LEMMA FusedCancels ==
  ASSUME NEW add, NEW G, NEW S, FusedFractions(add, G, S, 0),
         NEW sign, NEW e, NEW lost
  PROVE  LET a == FusedOut(add, G, S, sign, e, lost, FALSE, FALSE)
         IN  Generate(a.out, a.trailing, a.sticky) = 0
<1> DEFINE W == MulBits  H == ProductOne
           sum      == FusedAdder(add, G, S)
           overflow == add /\ sum >= 2^(W-1)
           frac     == IF overflow THEN sum ELSE 2 * Low(sum, W-1)
           norm     == Low(frac * 2^LeadingZeros(frac, W), W)
           a        == FusedOut(add, G, S, sign, e, lost, FALSE, FALSE)
<1>1. /\ W \in Nat /\ W >= 2 /\ 2^(W-1) = 2 * H /\ H \in Nat /\ H > 0 /\ 2^HiddenBits \in Nat
      /\ 2^HiddenBits > 0
  BY FusedWidths, Widths, PowerPositive
<1>2. sum = 0 /\ Low(0, W-1) = 0
  <2> DEFINE N == FusedWhole(add, G, S)
  <2>1. /\ add \in BOOLEAN /\ G \in H .. (2*H - 1) /\ S \in 0..(2*H - 1) /\ S <= G /\ N = 0
    BY DEF FusedFractions
  <2>2. sum = N /\ (N < 2 * H => Low(N, W-1) = N)
    BY <2>1, FusedSum
  <2> HIDE DEF N, sum, H
  <2> QED
    BY <1>1, <2>1, <2>2
<1> HIDE DEF sum, H
<1>3. frac = 0
  BY <1>1, <1>2
<1>4. norm = 0
  <2>1. LeadingZeros(frac, W) = W - 1 /\ W - 1 \in Nat
    BY <1>1, <1>3 DEF LeadingZeros
  <2>2. 2^(W-1) \in Nat
    BY <2>1, PowerPositive
  <2>3. frac * 2^LeadingZeros(frac, W) = 0
    BY <1>3, <2>1, <2>2
  <2> DEFINE m == 2^W
  <2>4. m \in Nat /\ m > 0
    BY <1>1, PowerPositive
  <2> HIDE DEF m, frac
  <2>5. 0 % m = 0
    BY <2>4
  <2> QED
    BY <2>3, <2>5 DEF Low, m
<1>5. a.out.fraction = norm \div 2^HiddenBits /\ a.out.isNaR = FALSE
  BY DEF FusedOut, Answer, sum
<1> HIDE DEF norm, a
<1>6. a.out.fraction = 0
  <2> DEFINE m == 2^HiddenBits
  <2>1. m \in Nat /\ m > 0
    BY <1>1
  <2> HIDE DEF m
  <2>2. 0 \div m = 0
    BY <2>1
  <2> QED
    BY <1>4, <1>5, <2>2 DEF m
<1>7. Generate(a.out, a.trailing, a.sticky) = 0
  BY <1>5, <1>6 DEF Generate
<1> QED
  BY <1>7 DEF a

\* The core and the generator on two aligned fractions.
FusedReaches(add, G, L, d, N, e) ==
  LET bound == (NBits - 1) * 2^ES
  IN  /\ N = FusedWhole(add, G, L \div 2^d)
      /\ -(2 * bound) <= e /\ e <= 2 * bound /\ (N >= ProductOne \/ -bound <= e)
FusedRight(add, G, gl, L, ll, d, N, sign, e, lost, z) ==
  LET a == FusedOut(add, G, L \div 2^d, sign, e, lost, FALSE, FALSE)
      g == Generate(a.out, a.trailing, a.sticky)
  IN  /\ add \/ N >= 2 * 2^FracBits => Surrounds(g, NBits, ES, z)
      /\ /\ FusedKnows(add, gl, L, ll, d)
         /\ add \/ N = 0 \/ N >= 2^(MulBits - 1 - ShiftRange(MulBits))
         => RoundsTo(g, NBits, ES, z)

LEMMA FusedTermsRound ==
  ASSUME NEW add, NEW G, NEW gl, NEW L, NEW ll, NEW d, FusedTerms(add, G, gl, L, ll, d),
         NEW N, NEW e \in Int, FusedReaches(add, G, L, d, N, e),
         NEW sign \in BOOLEAN, NEW lost \in BOOLEAN, lost <=> FusedLoses(gl, L, ll, d),
         NEW c \in Int, NEW j \in Int,
         ExactIs(c, j, sign, FusedExact(add, G, gl, L, ll, d), FusedUnit(e, d))
  PROVE  FusedRight(add, G, gl, L, ll, d, N, sign, e, lost, <<c, j>>)
<1> DEFINE H == ProductOne  M == 2^FracBits  D == 2^d  S == L \div D  bound == (NBits - 1) * 2^ES
           W == FusedExact(add, G, gl, L, ll, d)  y == FusedDiff(add, gl, L, ll, d)
           knows == FusedKnows(add, gl, L, ll, d)  loses == FusedLoses(gl, L, ll, d)
           least == 2^(MulBits - 1 - ShiftRange(MulBits))
           a == FusedOut(add, G, S, sign, e, lost, FALSE, FALSE)
           g == Generate(a.out, a.trailing, a.sticky)
           z == <<c, j>>
<1> /\ N = FusedWhole(add, G, L \div 2^d) /\ -(2 * bound) <= e /\ e <= 2 * bound
    /\ N >= ProductOne \/ -bound <= e
  BY DEF FusedReaches
<1>1. /\ FusedFractions(add, G, S, N)
      /\ D \in Nat /\ D > 0 /\ N \in Nat /\ W \in Int /\ y \in Int
      /\ W = (2 * D) * N + y
      /\ add => N >= H
      /\ ~add => N < 2 * H
      /\ L % D \in 0..(D-1)
  BY FusedSums
<1>2. M \in Nat /\ M >= 2 /\ H \in Nat /\ H >= M
  BY FusedWidths
<1>3. add \in BOOLEAN /\ gl \in 0..1 /\ ll \in 0..1 /\ d \in Nat /\ (gl = 0 \/ ll = 0)
  BY DEF FusedTerms
<1>4. z[1] = c
  OBVIOUS
<1>5. ExactIs(c, j, sign, W, FusedUnit(e, d))
  OBVIOUS
<1>6. y = (IF add THEN gl * D + (2 * (L % D) + ll) ELSE gl * D - (2 * (L % D) + ll))
      /\ (loses <=> gl = 1 \/ ll = 1 \/ L % D # 0)
  BY DEF FusedDiff, FusedLoses
<1>7. knows => add \/ ~loses
  BY DEF FusedKnows
<1> HIDE DEF W, y, knows, loses, least, D, M, H
<1>8. CASE N = 0
  <2>1. ~add /\ ~(N >= 2 * M)
    BY <1>1, <1>2, <1>8
  <2>2. ASSUME knows PROVE RoundsTo(g, NBits, ES, z)
    <3>1. gl = 0 /\ ll = 0 /\ L % D = 0
      BY <1>1, <1>3, <1>6, <1>7, <2>1, <2>2
    <3>2. y = 0
      <4>1. 0 * D = 0
        BY <1>1
      <4> QED
        BY <1>6, <2>1, <3>1, <4>1
    <3>3. W = 0
      <4>1. (2 * D) * 0 = 0
        BY <1>1
      <4> QED
        BY <1>1, <1>8, <3>2, <4>1
    <3>4. c = 0
      <4>1. FusedUnit(e, d) \in Int
        BY <1>3, FormatPowers DEF FusedUnit
      <4>2. W \in Nat
        BY <3>3
      <4>3. SignsOfSum(c, j, sign, W, FusedUnit(e, d))
        BY <1>5, <4>1, <4>2, ExactSigns
      <4> QED
        BY <3>3, <4>3 DEF SignsOfSum
    <3>5. g = 0
      <4> DEFINE n == 0
      <4>1. FusedFractions(add, G, S, n)
        BY <1>1, <1>8
      <4> HIDE DEF S
      <4>2. Generate(a.out, a.trailing, a.sticky) = 0
        BY <4>1, FusedCancels
      <4> QED
        BY <4>2
    <3> HIDE DEF g, z
    <3> QED
      BY <1>4, <3>4, <3>5, Zenon DEF RoundsTo
  <2> HIDE DEF g, z, a
  <2>3. (add \/ N >= 2 * M => Surrounds(g, NBits, ES, z)) /\ (knows => RoundsTo(g, NBits, ES, z))
    BY <2>1, <2>2
  <2> QED
    BY <2>3, Zenon DEF FusedRight, g, a, z, knows, M, S, D
<1>9. CASE N # 0
  <2>1. N > 0
    BY <1>1, <1>9
  <2>2. PICK K \in Nat \ {0} :
          /\ 2^FracBits = 2 * K /\ 2^(HiddenBits-TrailingBits) = K
          /\ 2^HiddenBits = 4 * K /\ 2^(MulBits-1) = 8 * (K * K) /\ 2^TrailingBits = 4
    BY ProductWidths
  <2>3. PICK k \in 0..(MulBits-1) :
           /\ FusedAnswer(a, K, N, k, sign, e, lost)
           /\ FusedNorm(N, k) \in (2*H)..(4*H - 1)
           /\ N >= H => k = 0
    <3>1. FusedPlaces(K)
      BY <2>2 DEF FusedPlaces
    <3>2. FusedIs(a, add, G, S, sign, e, lost)
      BY DEF FusedIs
    <3> HIDE DEF a, S
    <3>3. \E k \in 0..(MulBits-1) : FusedFound(a, K, N, k, sign, e, lost)
      BY <1>1, <2>1, <3>1, <3>2, FusedAnswers
    <3> QED
      BY <3>3 DEF FusedFound, H
  <2>4. k \in Nat /\ FusedNorm(N, k) \in Int /\ FusedNorm(N, k) < 4 * H
    <3>1. MulBits \in Nat
      BY FusedWidths
    <3> QED
      BY <1>2, <2>3, <3>1
  <2>5. FusedCarry(N) \in 0..1
    BY DEF FusedCarry
  <2>6. ASSUME k < ShiftRange(MulBits), knows \/ add \/ N >= 2 * M
        PROVE  Surrounds(g, NBits, ES, z) /\ (knows => RoundsTo(g, NBits, ES, z))
    <3>1. PICK r : FusedRest(add, G, gl, L, ll, d, k, r)
      <4>1. FusedNorm(N, k) \in (2*ProductOne)..(4*ProductOne - 1) /\ (N >= ProductOne => k = 0)
        BY <2>3 DEF H
      <4>2. FusedKnows(add, gl, L, ll, d) \/ add \/ N >= 2 * 2^FracBits
        BY <2>6 DEF knows, M
      <4> QED
        BY <2>4, <4>1, <4>2, FusedRestExists
    <3> DEFINE X == 2 * D  I == FusedScale(N, k)  norm == FusedNorm(N, k)
               gap == FusedGap(N, k, d, W, r)
    <3>2. /\ r \in Nat /\ (r # 0 <=> loses)
          /\ r < X \/ (r < 2 * X /\ \E i \in Nat : norm = 2 * i)
          /\ -(X * M) < I * y - r /\ I * y - r < X * M
          /\ knows => I * y - r = 0
      BY <3>1 DEF FusedRest, loses, knows, D, M, y
    <3>3. I \in Nat /\ I > 0 /\ norm = I * N
      <4> DEFINE T == 2^k  b == 2 - FusedCarry(N)
      <4>1. T \in Nat /\ T > 0 /\ b \in Nat /\ b > 0
        BY <2>4, <2>5, PowerPositive
      <4>2. I = b * T /\ norm = (b * N) * T
        BY DEF FusedScale, FusedNorm
      <4> HIDE DEF T, b
      <4>3. (b * N) * T = (b * T) * N /\ b * T \in Nat /\ b * T > 0
        BY <1>1, <4>1
      <4> HIDE DEF I, norm
      <4> QED
        BY <4>2, <4>3
    <3> HIDE DEF I, norm
    <3>4. gap = I * y - r
      <4>1. gap = (I * W - X * norm) - r
        BY DEF FusedGap, D, I, norm
      <4>2. I * W = X * norm + I * y
        <5>1. I * ((2 * D) * N + y) = (2 * D) * (I * N) + I * y
          BY <1>1, <3>3
        <5> QED
          BY <1>1, <3>3, <5>1
      <4>3. X * norm \in Int /\ I * y \in Int
        <5>1. I * N \in Int
          BY <1>1, <3>3
        <5> DEFINE n == norm
        <5> HIDE DEF n
        <5>2. n \in Int
          BY <3>3, <5>1 DEF n
        <5> QED
          BY <1>1, <3>3, <5>2 DEF n
      <4> DEFINE p == X * norm  q == I * y  w == I * W
      <4>4. gap = (w - p) - r /\ w = p + q /\ p \in Int /\ q \in Int
        BY <4>1, <4>2, <4>3
      <4> HIDE DEF p, q, w, gap
      <4>5. gap = q - r
        BY <3>2, <4>4
      <4> QED
        BY <4>5 DEF q
    <3>5. W \in Nat /\ W > 0
      <4> DEFINE m == L % D
      <4>1. m \in 0..(D-1)
        BY <1>1
      <4> HIDE DEF m
      <4>2. (gl = 0 => gl * D = 0) /\ (gl = 1 => gl * D = D)
        BY <1>1
      <4> DEFINE gD == gl * D
      <4> HIDE DEF gD
      <4>3. y > -(2 * D)
        BY <1>1, <1>3, <1>6, <4>1, <4>2 DEF m, gD
      <4>4. (2 * D) * N >= 2 * D
        <5>1. 1 * (2 * D) <= N * (2 * D)
          <6> DEFINE q == 2 * D  o == 1
          <6>1. q \in Nat /\ o \in Int /\ o <= N /\ N \in Int
            BY <1>1, <2>1
          <6> HIDE DEF q, o
          <6>2. o * q <= N * q
            BY <6>1, TimesOrder
          <6> QED
            BY <6>2 DEF q, o
        <5> QED
          BY <1>1, <5>1
      <4> DEFINE p == (2 * D) * N
      <4>5. W = p + y /\ p >= 2 * D /\ p \in Int
        BY <1>1, <4>4
      <4> HIDE DEF p
      <4> QED
        BY <1>1, <4>3, <4>5
    <3>6. a.out.exponent = FusedExp(e, N, k)
      <4>1. a.out.exponent = Signed(e + FusedCarry(N) - k, ExpBits)
        BY <2>3, <2>6 DEF FusedAnswer
      <4>2. k = 0 \/ (k < ShiftRange(MulBits) /\ -bound <= e)
        BY <2>3, <2>6 DEF H
      <4> DEFINE carry == FusedCarry(N)
      <4>3. carry \in 0..1
        BY <2>5
      <4> HIDE DEF carry, a
      <4>4. Signed(e + carry - k, ExpBits) = e + carry - k
        BY <2>4, <4>2, <4>3, FusedExponent
      <4> QED
        BY <4>1, <4>4 DEF FusedExp, carry
    <3>7. FusedMeets(a, K, N, k, sign, e, d, W, r)
      <4>1. FusedAnswer(a, K, N, k, sign, e, r # 0)
        <5>1. lost = (r # 0)
          BY <3>2 DEF loses
        <5> QED
          BY <2>3, <5>1
      <4>2. r < 2 * 2^d \/ (r < 2 * (2 * 2^d) /\ \E i \in Nat : FusedNorm(N, k) = 2 * i)
        BY <3>2 DEF D, norm
      <4> HIDE DEF a
      <4> QED
        BY <1>1, <1>3, <2>3, <2>4, <3>2, <3>5, <3>6, <4>1, <4>2 DEF FusedMeets, H
    <3>8. -((2 * 2^d) * 2^FracBits) < gap /\ gap < (2 * 2^d) * 2^FracBits
      BY <3>2, <3>4 DEF D, M
    <3> HIDE DEF a
    <3>9. Surrounds(g, NBits, ES, z) /\ (gap = 0 => RoundsTo(g, NBits, ES, z))
      BY <1>5, <2>2, <3>7, <3>8, FusedAround
    <3> HIDE DEF g, z, gap
    <3> QED
      BY <3>2, <3>4, <3>9
  <2>7. N >= 2 * M \/ N >= least => k < ShiftRange(MulBits)
    <3> SUFFICES ASSUME N >= 2 * M \/ N >= least PROVE k < ShiftRange(MulBits)
      OBVIOUS
    <3>1. N >= 2 * 2^FracBits \/ N >= 2^(MulBits - 1 - ShiftRange(MulBits))
      BY DEF M, least
    <3>2. FusedNorm(N, k) < 4 * ProductOne /\ (N >= ProductOne => k = 0)
      BY <2>3, <2>4 DEF H
    <3> QED
      BY <1>1, <2>1, <2>4, <3>1, <3>2, FusedShift
  <2>8. add => k < ShiftRange(MulBits)
    <3> SUFFICES ASSUME add PROVE k < ShiftRange(MulBits)
      OBVIOUS
    <3>1. k = 0
      BY <1>1, <2>3
    <3>2. ShiftRange(MulBits) > 0
      BY FusedRangeIsNat
    <3> QED
      BY <3>1, <3>2
  <2> HIDE DEF g, z, a
  <2>9. /\ add \/ N >= 2 * M => Surrounds(g, NBits, ES, z)
        /\ knows /\ (add \/ N = 0 \/ N >= least) => RoundsTo(g, NBits, ES, z)
    BY <1>9, <2>6, <2>7, <2>8
  <2> QED
    BY <2>9, Zenon DEF FusedRight, g, a, z, knows, M, S, D, least
<1> QED
  BY <1>8, <1>9

\* The two terms of an operation as the first half of the core leaves them: bit is what the
\* product has dropped.
FusedReady(r, bit, u, v, negate, zero) ==
  LET H == ProductOne
      p == r.product
      a == r.addend
      bound == (NBits - 1) * 2^ES
  IN  /\ ~r.isNaR /\ ~r.isZero /\ bit \in 0..1 /\ negate \in BOOLEAN
      /\ p.sign \in BOOLEAN /\ p.exponent \in Int /\ p.fraction \in H..(2*H-1)
      /\ -(2 * bound) <= p.exponent /\ p.exponent <= 2 * bound
      /\ FusedTerm(u, p.sign # negate, 2 * p.fraction + bit, p.exponent)
      /\ a.sign \in BOOLEAN /\ a.exponent \in Int
      /\ IF zero THEN a.fraction = 0 /\ ~r.addendIsLarger
         ELSE /\ a.fraction \in H..(2*H-1)
              /\ -bound <= a.exponent /\ a.exponent <= bound
              /\ r.addendIsLarger <=> FirstIsLarger(a, p)
              /\ FusedTerm(v, a.sign # negate, 2 * a.fraction + 0, a.exponent)

FusedBit(op)    == IF ProductDrops(op) THEN 1 ELSE 0
FusedAddend(op) == IF IsSub(op) THEN Negative(Val(op.num3)) ELSE Val(op.num3)

LEMMA FusedReads ==
  ASSUME NEW op, op.num1 \in Posits \ {0, NaR}, op.num2 \in Posits \ {0, NaR},
         op.num3 \in Posits \ {NaR}
  PROVE  FusedReady(FMAOperands(op), FusedBit(op), Times(Val(op.num1), Val(op.num2)),
                    FusedAddend(op), Negates(op), op.num3 = 0)
<1> DEFINE x == Extract(op.num1)  y == Extract(op.num2)  w == Extract(op.num3)
           sub == IsSub(op)  negate == Negates(op)  zero == op.num3 = 0
           r == FMAOperands(op)  p == r.product  a == r.addend  bit == FusedBit(op)
           u == Times(Val(op.num1), Val(op.num2))  v == FusedAddend(op)
           H == ProductOne  M == 2^FracBits  bound == (NBits - 1) * 2^ES
           prod == x.fraction * y.fraction  overflow == prod >= 2^(MulBits-1)
           G  == IF overflow THEN prod \div 2 ELSE prod
           gl == IF overflow /\ prod % 2 = 1 THEN 1 ELSE 0
           ge == x.exponent + y.exponent + IF overflow THEN 1 ELSE 0
<1>1. ASSUME NEW n \in Posits \ {0, NaR}
      PROVE  /\ Extract(n).fraction \in M..(2*M-1) /\ Extract(n).sign \in BOOLEAN
             /\ Extract(n).exponent \in Int
             /\ -bound <= Extract(n).exponent /\ Extract(n).exponent < bound
             /\ ~Extract(n).isZero /\ ~Extract(n).isNaR
             /\ TermIs(Val(n), Extract(n).sign, Extract(n).fraction, Extract(n).exponent)
  <2>1. TermIs(Val(n), Extract(n).sign, Extract(n).fraction, Extract(n).exponent)
    BY SignedValue, Zenon DEF TermIs, Val
  <2> QED
    BY <2>1, NumberUnpacks, ExtractedExponent
<1>2. /\ p.sign = ((x.sign # y.sign) # negate) /\ p.exponent = ge /\ p.fraction = G
      /\ a.sign = ((w.sign # negate) # sub) /\ a.exponent = w.exponent
      /\ a.fraction = (IF w.isZero THEN 0 ELSE w.fraction * M)
      /\ r.isNaR = (x.isNaR \/ y.isNaR \/ w.isNaR)
      /\ r.isZero = ((x.isZero \/ y.isZero) /\ w.isZero)
      /\ r.addendIsLarger = (~w.isZero /\ FirstIsLarger(a, p))
  <2> HIDE DEF x, y, w, sub, negate
  <2>1. r = FMAProduct(x, y, w, sub, negate)
    BY DEF FMAOperands, x, y, w, sub, negate
  <2> HIDE DEF r
  <2> QED
    BY <2>1 DEF FMAProduct
<1>3. /\ x.fraction \in M..(2*M-1) /\ x.sign \in BOOLEAN /\ x.exponent \in Int
      /\ -bound <= x.exponent /\ x.exponent < bound /\ ~x.isZero /\ ~x.isNaR
      /\ TermIs(Val(op.num1), x.sign, x.fraction, x.exponent)
  BY <1>1
<1>4. /\ y.fraction \in M..(2*M-1) /\ y.sign \in BOOLEAN /\ y.exponent \in Int
      /\ -bound <= y.exponent /\ y.exponent < bound /\ ~y.isZero /\ ~y.isNaR
      /\ TermIs(Val(op.num2), y.sign, y.fraction, y.exponent)
  BY <1>1
<1>5. w.exponent \in Int /\ w.sign \in BOOLEAN /\ w.isZero = zero /\ ~w.isNaR /\ sub \in BOOLEAN /\ negate \in BOOLEAN
  <2>1. w.sign = (op.num3 >= NaR) /\ w.isZero = zero /\ w.isNaR = (op.num3 = NaR)
    BY DEF Extract
  <2>2. sub \in BOOLEAN /\ negate \in BOOLEAN
    BY DEF IsSub, Negates
  <2>6. w.exponent \in Int
    BY OperandTypes DEF OperandType, Unpacked
  <2>3. op.num3 # NaR
    OBVIOUS
  <2>4. w.sign \in BOOLEAN
    BY <2>1
  <2>5. ~w.isNaR
    BY <2>1, <2>3
  <2> HIDE DEF w, sub, negate, zero
  <2> QED
    BY <2>1, <2>2, <2>4, <2>5, <2>6
<1>6. bit = gl
  BY DEF FusedBit, ProductDrops
<1>7. G \in H..(2*H-1) /\ gl \in 0..1 /\ ge \in Int /\ FusedTerm(u, x.sign # y.sign, 2 * G + gl, ge)
  BY <1>3, <1>4, FusedProductTerm
<1>8. -(2 * bound) <= ge /\ ge <= 2 * bound /\ bound \in Int
  <2>1. bound \in Int
    BY FormatPowers
  <2> HIDE DEF bound, x, y, prod
  <2> QED
    BY <1>3, <1>4, <2>1
<1> HIDE DEF r, G, gl, ge, u, x, y, sub, negate, bit
<1>9. ~r.isNaR /\ ~r.isZero
  BY <1>2, <1>3, <1>4, <1>5
<1>10. FusedTerm(u, p.sign # negate, 2 * p.fraction + bit, p.exponent) /\ p.sign \in BOOLEAN
  <2>1. (p.sign # negate) = (x.sign # y.sign) /\ p.sign \in BOOLEAN
    BY <1>2, <1>3, <1>4, <1>5
  <2> QED
    BY <1>2, <1>6, <1>7, <2>1
<1>11. a.sign \in BOOLEAN /\ a.exponent \in Int
  BY <1>2, <1>5
<1> DEFINE product == /\ ~r.isNaR /\ ~r.isZero /\ bit \in 0..1 /\ negate \in BOOLEAN
                      /\ p.sign \in BOOLEAN /\ p.exponent \in Int /\ p.fraction \in H..(2*H-1)
                      /\ -(2 * bound) <= p.exponent /\ p.exponent <= 2 * bound
                      /\ FusedTerm(u, p.sign # negate, 2 * p.fraction + bit, p.exponent)
                      /\ a.sign \in BOOLEAN /\ a.exponent \in Int
           addend == IF zero THEN a.fraction = 0 /\ ~r.addendIsLarger
                     ELSE /\ a.fraction \in H..(2*H-1)
                          /\ -bound <= a.exponent /\ a.exponent <= bound
                          /\ r.addendIsLarger <=> FirstIsLarger(a, p)
                          /\ FusedTerm(v, a.sign # negate, 2 * a.fraction + 0, a.exponent)
<1>12. product
  BY <1>2, <1>5, <1>6, <1>7, <1>8, <1>9, <1>10, <1>11
<1> HIDE DEF zero
<1>13. ASSUME zero PROVE addend
  <2>1. a.fraction = 0 /\ ~r.addendIsLarger
    BY <1>2, <1>5, <1>13
  <2> QED
    BY <1>13, <2>1
<1>14. ASSUME ~zero PROVE addend
  <2>1. /\ w.fraction \in M..(2*M-1) /\ w.exponent \in Int
        /\ -bound <= w.exponent /\ w.exponent < bound
        /\ TermIs(Val(op.num3), w.sign, w.fraction, w.exponent)
    BY <1>1, <1>14 DEF zero
  <2>2. TermIs(v, w.sign # sub, w.fraction, w.exponent)
    <3>1. w.fraction \in Int
      <4> DEFINE f == w.fraction
      <4>1. f \in M..(2*M-1) /\ M \in Nat
        BY <2>1, FormatPowers
      <4> HIDE DEF f, M
      <4> QED
        BY <4>1 DEF f
    <3> HIDE DEF w
    <3> QED
      BY <1>5, <2>1, <3>1, NegatedTerm DEF FusedAddend, sub
  <2> HIDE DEF w, v
  <2>3. /\ w.fraction * M \in H..(2*H-1)
        /\ FusedTerm(v, w.sign # sub, 2 * (w.fraction * M) + 0, w.exponent)
    BY <1>5, <2>1, <2>2, FusedAddendTerm
  <2>4. a.fraction = w.fraction * M /\ a.exponent = w.exponent
    BY <1>2, <1>5, <1>14
  <2>5. (a.sign # negate) = (w.sign # sub)
    BY <1>2, <1>5
  <2>6. FusedTerm(v, a.sign # negate, 2 * a.fraction + 0, a.exponent)
    BY <2>3, <2>4, <2>5
  <2>7. r.addendIsLarger <=> FirstIsLarger(a, p)
    BY <1>2, <1>5, <1>14
  <2>8. -bound <= a.exponent /\ a.exponent <= bound /\ a.exponent \in Int /\ a.fraction \in H..(2*H-1)
    <3> HIDE DEF bound
    <3> QED
      BY <1>8, <2>1, <2>3, <2>4
  <2> HIDE DEF a, p, bound, H
  <2> QED
    BY <1>14, <2>6, <2>7, <2>8, Zenon
<1>15. FusedReady(r, bit, u, v, negate, zero)
  <2>1. addend
    BY <1>13, <1>14
  <2> QED
    BY <1>12, <2>1, Zenon DEF FusedReady
<1> QED
  BY <1>15 DEF r, bit, u, v, negate, zero

\* What the two terms are when the greater one has been found: d places apart, with the bits
\* that the core does not keep.
FusedSides(add, gs, G, gl, e, L, ll, d) ==
  LET bound == (NBits - 1) * 2^ES
  IN  /\ FusedTerms(add, G, gl, L, ll, d) /\ gs \in BOOLEAN /\ e \in Int
      /\ -(2 * bound) <= e /\ e <= 2 * bound
      /\ L = 0 \/ (-bound <= e /\ d <= 3 * bound)

FusedSide(u, negate, gs, G, gl, ge) == FusedTerm(u, gs # negate, 2 * G + gl, ge)
FusedOrder(G, gl, ge, L, ll, le) ==
  LET H == ProductOne
      bound == (NBits - 1) * 2^ES
  IN  /\ G \in H..(2*H-1) /\ L \in H..(2*H-1) /\ ge \in Int /\ le \in Int
      /\ gl \in 0..1 /\ ll \in 0..1 /\ (gl = 0 \/ ll = 0)
      /\ ge > le \/ (~(ge < le) /\ L <= G)
      /\ -(2 * bound) <= le /\ ge <= 2 * bound /\ -bound <= ge
      /\ -bound <= le \/ ge <= bound

FusedPair(z, negate, gs, G, gl, ge, ls, L, ll, d) ==
  /\ FusedSides(gs = ls, gs, G, gl, ge, L, ll, d)
  /\ FusedSumIs(z, gs # negate, FusedExact(gs = ls, G, gl, L, ll, d), FusedUnit(ge, d))

LEMMA FusedTwoTerms ==
  ASSUME NEW negate \in BOOLEAN,
         NEW gs \in BOOLEAN, NEW G, NEW gl, NEW ge, NEW ls \in BOOLEAN, NEW L, NEW ll, NEW le,
         FusedOrder(G, gl, ge, L, ll, le),
         NEW u, FusedSide(u, negate, gs, G, gl, ge), NEW v, FusedSide(v, negate, ls, L, ll, le),
         NEW z, IsSum(z, u, v)
  PROVE  FusedPair(z, negate, gs, G, gl, ge, ls, L, ll, ge - le)
<1> DEFINE d == ge - le  bound == (NBits - 1) * 2^ES  H == ProductOne
           W == FusedExact(gs = ls, G, gl, L, ll, d)
<1>1. /\ bound \in Int /\ H \in Nat /\ H > 0
      /\ G \in H..(2*H-1) /\ L \in H..(2*H-1) /\ ge \in Int /\ le \in Int
      /\ gl \in 0..1 /\ ll \in 0..1 /\ (gl = 0 \/ ll = 0)
  BY FormatPowers, FusedWidths DEF FusedOrder
<1>2. d \in Nat /\ (d = 0 => L <= G) /\ d <= 3 * bound /\ ge - le = d
      /\ -bound <= ge /\ -(2 * bound) <= ge /\ ge <= 2 * bound
  <2>1. /\ -(2 * bound) <= le /\ ge <= 2 * bound /\ -bound <= ge
        /\ -bound <= le \/ ge <= bound
        /\ G \in Int /\ L \in Int
        /\ ge > le \/ (~(ge < le) /\ L <= G)
    BY <1>1 DEF FusedOrder
  <2> HIDE DEF bound
  <2> QED
    BY <1>1, <2>1
<1>3. FusedTerms(gs = ls, G, gl, L, ll, d)
  <2>1. G \in H..(2*H-1) /\ L \in 0..(2*H-1)
    BY <1>1
  <2>2. (gs = ls) \in BOOLEAN
    OBVIOUS
  <2> HIDE DEF d
  <2> QED
    BY <1>1, <1>2, <2>1, <2>2 DEF FusedTerms, H
<1> HIDE DEF d
<1>4. FusedSides(gs = ls, gs, G, gl, ge, L, ll, d)
  <2> DEFINE add == gs = ls
  <2>1. FusedTerms(add, G, gl, L, ll, d)
    BY <1>3
  <2> HIDE DEF add
  <2>2. FusedSides(add, gs, G, gl, ge, L, ll, d)
    BY <1>1, <1>2, <2>1 DEF FusedSides
  <2> QED
    BY <2>2 DEF add
<1>5. FusedSumIs(z, gs # negate, FusedHalves(gs # negate, 2*G + gl, ls # negate, 2*L + ll, d),
                 FusedUnit(ge, d))
  <2> DEFINE g2 == 2*G + gl  l2 == 2*L + ll  s == (gs # negate)  t == (ls # negate)
  <2>1. s \in BOOLEAN /\ t \in BOOLEAN
    OBVIOUS
  <2>2. FusedTerm(u, s, g2, ge) /\ FusedTerm(v, t, l2, le)
    BY DEF FusedSide
  <2>3. Apart(ge, le, d)
    BY <1>2 DEF Apart
  <2> HIDE DEF g2, l2, s, t
  <2>4. FusedSumIs(z, s, FusedHalves(s, g2, t, l2, d), FusedUnit(ge, d))
    BY <1>1, <1>2, <2>1, <2>2, <2>3, FusedIsExact
  <2> QED
    BY <2>4 DEF g2, l2, s, t
<1>6. FusedHalves(gs # negate, 2*G + gl, ls # negate, 2*L + ll, d) = W
  <2>1. ((gs # negate) = (ls # negate)) <=> (gs = ls)
    OBVIOUS
  <2> QED
    BY <2>1 DEF FusedHalves, FusedExact
<1> HIDE DEF W
<1>7. FusedSumIs(z, gs # negate, W, FusedUnit(ge, d))
  BY <1>5, <1>6
<1> QED
  BY <1>4, <1>7 DEF d, W, FusedPair

\* The terms in the order the core finds.
FusedShiftOf(r) == IF Lesser(r).fraction = 0 THEN 0 ELSE Greater(r).exponent - Lesser(r).exponent
FusedGl(r, bit) == IF r.addendIsLarger THEN 0 ELSE bit
FusedLl(r, bit) == IF r.addendIsLarger THEN bit ELSE 0

LEMMA FusedOrdered ==
  ASSUME NEW r, NEW bit, NEW u, NEW v, NEW negate, NEW zero \in BOOLEAN,
         FusedReady(r, bit, u, v, negate, zero),
         NEW z, IF zero THEN z = u ELSE z = Plus(u, v)
  PROVE  LET great == Greater(r)
             less  == Lesser(r)
             add == great.sign = less.sign
             gl  == FusedGl(r, bit)
             ll  == FusedLl(r, bit)
             d   == FusedShiftOf(r)
         IN  /\ FusedSides(add, great.sign, great.fraction, gl, great.exponent, less.fraction, ll, d)
             /\ less.exponent \in Int
             /\ FusedSumIs(z, great.sign # negate,
                           FusedExact(add, great.fraction, gl, less.fraction, ll, d),
                           FusedUnit(great.exponent, d))
<1> DEFINE p == r.product  a == r.addend  H == ProductOne  bound == (NBits - 1) * 2^ES
           great == Greater(r)  less == Lesser(r)  add == great.sign = less.sign
           gl == FusedGl(r, bit)  ll == FusedLl(r, bit)  d == FusedShiftOf(r)
<1>1. /\ bit \in 0..1 /\ negate \in BOOLEAN /\ p.sign \in BOOLEAN /\ p.exponent \in Int
      /\ p.fraction \in H..(2*H-1) /\ a.sign \in BOOLEAN /\ a.exponent \in Int
      /\ -(2 * bound) <= p.exponent /\ p.exponent <= 2 * bound
      /\ FusedTerm(u, p.sign # negate, 2 * p.fraction + bit, p.exponent)
  BY Zenon DEF FusedReady
<1>2. IF zero THEN a.fraction = 0 /\ ~r.addendIsLarger
      ELSE /\ a.fraction \in H..(2*H-1)
           /\ -bound <= a.exponent /\ a.exponent <= bound
           /\ r.addendIsLarger <=> FirstIsLarger(a, p)
           /\ FusedTerm(v, a.sign # negate, 2 * a.fraction + 0, a.exponent)
  BY Zenon DEF FusedReady
<1>3. H \in Nat /\ H > 0 /\ bound \in Nat /\ (H..(2*H-1) \subseteq Nat \ {0})
  <2>1. NBits - 1 \in Nat /\ 2^ES \in Nat
    BY FormatPowers
  <2> DEFINE n == NBits - 1  b == 2^ES
  <2> HIDE DEF n, b
  <2>2. n * b \in Nat
    BY <2>1 DEF n, b
  <2>3. bound \in Nat
    BY <2>2 DEF n, b
  <2>4. H \in Nat /\ H > 0
    BY FusedWidths
  <2> HIDE DEF H, bound
  <2> QED
    BY <2>3, <2>4
<1>4. CASE zero
  <2>1. great = p /\ less = a /\ gl = bit /\ ll = 0 /\ a.fraction = 0 /\ d = 0
    BY <1>2, <1>4 DEF Greater, Lesser, FusedGl, FusedLl, FusedShiftOf
  <2>2. FusedSumIs(u, p.sign # negate, 2 * p.fraction + bit, FusedUnit(p.exponent, 0))
    <3> DEFINE g2 == 2 * p.fraction + bit  s == (p.sign # negate)
    <3>1. s \in BOOLEAN /\ FusedTerm(u, s, g2, p.exponent)
      BY <1>1
    <3> HIDE DEF g2, s
    <3>2. FusedSumIs(u, s, g2, FusedUnit(p.exponent, 0))
      BY <1>1, <3>1, FusedAlone
    <3> QED
      BY <3>2 DEF g2, s
  <2>3. FusedExact(add, p.fraction, bit, 0, 0, 0) = 2 * p.fraction + bit
    <3>1. 2^0 = 1
      BY PowerZero
    <3> DEFINE g2 == 2 * p.fraction + bit
    <3>2. g2 \in Int
      <4> DEFINE f == p.fraction
      <4>1. f \in Nat
        BY <1>1, <1>3
      <4> HIDE DEF f, p
      <4> QED
        BY <1>1, <4>1 DEF f
    <3> HIDE DEF g2
    <3>3. g2 * 1 + (2*0 + 0) = g2 /\ g2 * 1 - (2*0 + 0) = g2
      BY <3>2
    <3> HIDE DEF add
    <3> QED
      BY <3>1, <3>3 DEF FusedExact, g2
  <2>4. FusedTerms(add, p.fraction, bit, 0, 0, 0)
    <3>1. add \in BOOLEAN
      OBVIOUS
    <3>2. 0 \in 0..(2*H-1) /\ 0 <= p.fraction
      <4> HIDE DEF H, p
      <4> QED
        BY <1>1, <1>3
    <3> HIDE DEF add, p
    <3> QED
      BY <1>1, <3>1, <3>2 DEF FusedTerms, H
  <2>5. FusedSides(add, p.sign, p.fraction, bit, p.exponent, 0, 0, 0)
    <3> HIDE DEF add, p
    <3> QED
      BY <1>1, <2>4 DEF FusedSides
  <2>6. z = u
    BY <1>4
  <2>7. FusedSumIs(z, p.sign # negate, 2 * p.fraction + bit, FusedUnit(p.exponent, 0))
    BY <2>2, <2>6
  <2> HIDE DEF great, less, gl, ll, d, p, a
  <2>8. /\ FusedSides(add, great.sign, great.fraction, gl, great.exponent, less.fraction, ll, d)
        /\ less.exponent \in Int
        /\ FusedSumIs(z, great.sign # negate,
                      FusedExact(add, great.fraction, gl, less.fraction, ll, d),
                      FusedUnit(great.exponent, d))
    BY <1>1, <2>1, <2>3, <2>5, <2>7
  <2> QED
    BY <2>8 DEF great, less, gl, ll, d
<1>5. CASE ~zero
  <2>1. /\ a.fraction \in H..(2*H-1) /\ a.exponent \in Int
        /\ -bound <= a.exponent /\ a.exponent <= bound
        /\ r.addendIsLarger <=> FirstIsLarger(a, p)
        /\ FusedTerm(v, a.sign # negate, 2 * a.fraction + 0, a.exponent)
    BY <1>1, <1>2, <1>5
  <2>2. IsSum(z, u, v) /\ IsSum(z, v, u)
    BY <1>5 DEF IsSum
  <2>3. a.fraction # 0 /\ p.fraction # 0 /\ a.fraction \in Int /\ p.fraction \in Int
    BY <1>1, <1>3, <2>1
  <2> DEFINE n == 0
  <2>4. n \in 0..1 /\ (n = 0 \/ bit = 0) /\ (bit = 0 \/ n = 0)
    OBVIOUS
  <2>5. CASE r.addendIsLarger
    <3>1. great = a /\ less = p /\ gl = n /\ ll = bit /\ d = a.exponent - p.exponent
      BY <2>3, <2>5 DEF Greater, Lesser, FusedGl, FusedLl, FusedShiftOf
    <3>2. a.exponent > p.exponent \/ (~(a.exponent < p.exponent) /\ p.fraction <= a.fraction)
      <4> DEFINE f == a.fraction  g == p.fraction
      <4>1. a.exponent > p.exponent \/ (a.exponent = p.exponent /\ f > g)
        BY <2>1, <2>5 DEF FirstIsLarger
      <4>2. f \in Int /\ g \in Int
        BY <2>3
      <4> HIDE DEF f, g, a, p
      <4> QED
        BY <1>1, <2>1, <4>1, <4>2 DEF f, g
    <3>3. a.exponent <= 2 * bound /\ -(2 * bound) <= p.exponent
      <4> HIDE DEF bound, a
      <4> QED
        BY <1>1, <1>3, <2>1
    <3>4. FusedTerm(v, a.sign # negate, 2 * a.fraction + n, a.exponent)
      BY <2>1
    <3> HIDE DEF n
    <3>5. FusedPair(z, negate, a.sign, a.fraction, n, a.exponent, p.sign, p.fraction, bit,
                    a.exponent - p.exponent)
      <4> HIDE DEF a, p
      <4>1. FusedOrder(a.fraction, n, a.exponent, p.fraction, bit, p.exponent)
        BY <1>1, <2>1, <2>4, <3>2, <3>3 DEF FusedOrder
      <4>2. FusedSide(u, negate, p.sign, p.fraction, bit, p.exponent)
        BY <1>1 DEF FusedSide
      <4>3. FusedSide(v, negate, a.sign, a.fraction, n, a.exponent)
        BY <3>4 DEF FusedSide
      <4> QED
        BY <1>1, <2>2, <4>1, <4>2, <4>3, FusedTwoTerms
    <3> HIDE DEF great, less, gl, ll, d, a, p
    <3>6. /\ FusedSides(add, great.sign, great.fraction, gl, great.exponent, less.fraction, ll, d)
          /\ less.exponent \in Int
          /\ FusedSumIs(z, great.sign # negate,
                        FusedExact(add, great.fraction, gl, less.fraction, ll, d),
                        FusedUnit(great.exponent, d))
      BY <1>1, <3>1, <3>5 DEF FusedPair
    <3> QED
      BY <3>6 DEF great, less, gl, ll, d
  <2>6. CASE ~r.addendIsLarger
    <3>1. great = p /\ less = a /\ gl = bit /\ ll = n /\ d = p.exponent - a.exponent
      BY <2>3, <2>6 DEF Greater, Lesser, FusedGl, FusedLl, FusedShiftOf
    <3>2. p.exponent > a.exponent \/ (~(p.exponent < a.exponent) /\ a.fraction <= p.fraction)
      <4> DEFINE f == a.fraction  g == p.fraction
      <4>1. ~(a.exponent > p.exponent) /\ ~(a.exponent = p.exponent /\ f > g)
        BY <2>1, <2>6 DEF FirstIsLarger
      <4>2. f \in Int /\ g \in Int
        BY <2>3
      <4> HIDE DEF f, g, a, p
      <4> QED
        BY <1>1, <2>1, <4>1, <4>2 DEF f, g
    <3>3. -(2 * bound) <= a.exponent /\ -bound <= p.exponent
      <4>1. a.exponent <= p.exponent
        <5> HIDE DEF a, p
        <5> QED
          BY <1>1, <2>1, <3>2
      <4> HIDE DEF bound, a, p
      <4> QED
        BY <1>1, <1>3, <2>1, <4>1
    <3>4. FusedTerm(v, a.sign # negate, 2 * a.fraction + n, a.exponent)
      BY <2>1
    <3> HIDE DEF n
    <3>5. FusedPair(z, negate, p.sign, p.fraction, bit, p.exponent, a.sign, a.fraction, n,
                    p.exponent - a.exponent)
      <4> HIDE DEF a, p
      <4>1. FusedOrder(p.fraction, bit, p.exponent, a.fraction, n, a.exponent)
        BY <1>1, <2>1, <2>4, <3>2, <3>3 DEF FusedOrder
      <4>2. FusedSide(u, negate, p.sign, p.fraction, bit, p.exponent)
        BY <1>1 DEF FusedSide
      <4>3. FusedSide(v, negate, a.sign, a.fraction, n, a.exponent)
        BY <3>4 DEF FusedSide
      <4> QED
        BY <1>1, <2>2, <4>1, <4>2, <4>3, FusedTwoTerms
    <3> HIDE DEF great, less, gl, ll, d, a, p
    <3>6. /\ FusedSides(add, great.sign, great.fraction, gl, great.exponent, less.fraction, ll, d)
          /\ less.exponent \in Int
          /\ FusedSumIs(z, great.sign # negate,
                        FusedExact(add, great.fraction, gl, less.fraction, ll, d),
                        FusedUnit(great.exponent, d))
      BY <1>1, <2>1, <3>1, <3>5 DEF FusedPair
    <3> QED
      BY <3>6 DEF great, less, gl, ll, d
  <2> QED
    BY <2>5, <2>6
<1> QED
  BY <1>4, <1>5

\* The low bits of a number that fits.
LEMMA LowPart ==
  ASSUME NEW L \in Nat, NEW c \in Nat, L < 2^c, NEW m \in Nat, c <= m, NEW d \in Nat
  PROVE  Low(L, Min2(d, m)) = L % 2^d
<1>1. CASE d <= m
  BY <1>1 DEF Min2, Low
<1>2. CASE ~(d <= m)
  <2>1. Min2(d, m) = m /\ m <= d
    BY <1>2 DEF Min2
  <2>2. 2^c <= 2^m /\ 2^m <= 2^d /\ 2^c \in Nat /\ 2^m \in Nat /\ 2^d \in Nat
    BY <2>1, PowerMonotone, PowerPositive
  <2>3. L \in 0..(2^m - 1) /\ L \in 0..(2^d - 1)
    <3> DEFINE x == 2^c  y == 2^m  z == 2^d
    <3>1. L < x /\ x <= y /\ y <= z /\ x \in Nat /\ y \in Nat /\ z \in Nat
      BY <2>2
    <3> HIDE DEF x, y, z
    <3>2. L \in 0..(y-1) /\ L \in 0..(z-1)
      BY <3>1
    <3> QED
      BY <3>2 DEF y, z
  <2>4. Low(L, m) = L /\ Low(L, d) = L
    BY <2>3, LowOfSmall
  <2> QED
    BY <2>1, <2>4 DEF Low
<1> QED
  BY <1>1, <1>2

\* The difference of the exponents fits its field.
LEMMA FusedDistance ==
  ASSUME NEW d \in Nat, d <= 3 * ((NBits - 1) * 2^ES)
  PROVE  Low(d, ExpBits + 1) = d
<1> DEFINE base == 2^ES  c == Log2Ceil(NBits)  l == 2^c  bound == (NBits - 1) * base
<1>1. /\ NBits \in Nat /\ ES \in Nat /\ c \in Nat /\ c + ES \in Nat
      /\ ExpBits + 1 = (((c + ES) + 1) + 1) + 1 /\ ExpBits + 1 \in Nat
  BY FormatAssumption, Log2CeilIsNat DEF ExpBits
<1>2. 2^(ExpBits+1) = 8 * (l * base)
  <2>1. /\ 2^(((c + ES) + 1) + 1) = 2 * 2^((c + ES) + 1) /\ 2^((c + ES) + 1) = 2 * 2^(c + ES)
        /\ 2^((((c + ES) + 1) + 1) + 1) = 2 * 2^(((c + ES) + 1) + 1)
    BY <1>1, PowerNext
  <2>2. 2^(c + ES) = l * base
    BY <1>1, PowerSum
  <2>3. 2^(c + ES) \in Nat
    BY <1>1, PowerPositive
  <2> QED
    BY <1>1, <2>1, <2>2, <2>3
<1>3. base \in Nat /\ base > 0 /\ l \in Nat /\ l >= NBits
  BY <1>1, PowerPositive, Log2CeilIsNat
<1>4. d <= 3 * bound
  OBVIOUS
<1> HIDE DEF base, l, c
<1>5. bound < l * base /\ bound \in Int /\ l * base \in Int
  <2>1. NBits * base <= l * base /\ NBits * base = bound + base /\ NBits * base \in Int
    BY <1>1, <1>3
  <2>2. bound \in Int /\ l * base \in Int
    BY <1>1, <1>3
  <2> HIDE DEF bound
  <2> QED
    BY <1>3, <2>1, <2>2
<1>6. d \in 0..(2^(ExpBits+1) - 1)
  <2> DEFINE q == l * base
  <2> HIDE DEF bound, q
  <2>1. d < 8 * q
    BY <1>4, <1>5 DEF q
  <2> QED
    BY <1>2, <1>5, <2>1 DEF q
<1> QED
  BY <1>1, <1>6, LowOfSmall

\* The second half of the core on an operation: what it reads as lost is what is lost.
FusedCore(op) == FMAFinish(FMAOperands(op), Extract(op.num1), Extract(op.num2))

FusedSeen(op, r, add, gs, G, e, L, gl, ll, d) ==
  /\ \E lost \in BOOLEAN :
       /\ lost <=> FusedLoses(gl, L, ll, d)
       /\ FusedCore(op) = FusedOut(add, G, L \div 2^d, gs, e, lost, FALSE, FALSE)
  /\ AlignmentDrops(r) <=> L % 2^d # 0
  /\ FMADifference(r) = G - (L \div 2^d)
  /\ \A k : FMACancels(r, k) <=> ~add /\ FMADifference(r) \in 0 .. (2^(MulBits-1-k) - 1)

LEMMA FusedFinish ==
  ASSUME NEW op, NEW r, r = FMAOperands(op), ~r.isNaR, ~r.isZero,
         NEW add, add = (Greater(r).sign = Lesser(r).sign),
         NEW gs, gs = Greater(r).sign, NEW G, G = Greater(r).fraction,
         NEW e, e = Greater(r).exponent, NEW L, L = Lesser(r).fraction,
         NEW gl, gl = FusedGl(r, FusedBit(op)), NEW ll, ll = FusedLl(r, FusedBit(op)),
         NEW d, d = FusedShiftOf(r), FusedSides(add, gs, G, gl, e, L, ll, d),
         Lesser(r).exponent \in Int
  PROVE  FusedSeen(op, r, add, gs, G, e, L, gl, ll, d)
<1> DEFINE x == Extract(op.num1)  y == Extract(op.num2)
           great == IF r.addendIsLarger THEN r.addend ELSE r.product
           less  == IF r.addendIsLarger THEN r.product ELSE r.addend
           expDiff  == Low(great.exponent - less.exponent, ExpBits+1)
           shifted  == IF expDiff < MulBits - 1 THEN less.fraction \div 2^expDiff ELSE 0
           lost     == Low(less.fraction, Min2(expDiff, MulBits)) # 0
           product  == x.fraction * y.fraction
           prodLost == product >= 2^(MulBits-1) /\ product % 2 = 1
           W == 2^(MulBits-1)  D == 2^d
           distance == great.exponent - less.exponent
<1>1. great = Greater(r) /\ less = Lesser(r)
  BY DEF Greater, Lesser
<1>2. FusedCore(op) = FusedOut(great.sign = less.sign, great.fraction, shifted, great.sign,
                               great.exponent, prodLost \/ lost, ~r.isNaR /\ r.isZero, r.isNaR)
  <2>1. FusedCore(op) = FMAFinish(r, x, y)
    BY DEF FusedCore
  <2> HIDE DEF x, y
  <2> QED
    BY <2>1, Zenon DEF FMAFinish, FusedOut, FusedAdder
<1> HIDE DEF great, less
<1>3. /\ L \in Nat /\ L < W /\ d \in Nat /\ e \in Int /\ G \in Nat /\ W \in Nat /\ D \in Nat /\ D > 0
      /\ L = 0 \/ d <= 3 * ((NBits - 1) * 2^ES)
  <2> DEFINE H == ProductOne
  <2>1. G \in H..(2*H-1) /\ L \in 0..(2*H-1) /\ d \in Nat /\ e \in Int /\ H \in Nat /\ W = 2 * H
        /\ (L = 0 \/ d <= 3 * ((NBits - 1) * 2^ES))
    BY FusedWidths DEF FusedSides, FusedTerms
  <2>2. D \in Nat /\ D > 0
    BY <2>1, PowerPositive
  <2> HIDE DEF H, W, D
  <2> QED
    BY <2>1, <2>2
<1>4. expDiff \in Nat /\ (L # 0 => expDiff = d /\ distance = d) /\ distance \in Int
  <2>1. distance \in Int
    BY <1>1, <1>3
  <2>2. ExpBits + 1 \in Nat
    BY CoreWidths
  <2>3. expDiff \in Nat
    <3> DEFINE w == ExpBits + 1  m == 2^w
    <3>1. m \in Nat /\ expDiff \in 0..(m-1)
      BY <2>1, <2>2, LowRange, PowerPositive
    <3> HIDE DEF m, expDiff
    <3> QED
      BY <3>1
  <2>4. L # 0 => d = distance
    BY <1>1 DEF FusedShiftOf
  <2>5. L # 0 => Low(d, ExpBits + 1) = d
    BY <1>3, FusedDistance
  <2> QED
    BY <2>1, <2>3, <2>4, <2>5
<1>5. MulBits \in Nat /\ MulBits - 1 \in Nat /\ MulBits - 1 <= MulBits + AdderBits /\ AdderBits \in Nat
  BY FormatAssumption DEF MulBits, AdderBits, HiddenBits, TrailingBits, FracBits
<1>6. L % D = 0 \/ L # 0
  BY <1>3
<1>7. d >= MulBits - 1 => L \div D = 0
  <2> SUFFICES ASSUME d >= MulBits - 1 PROVE L \div D = 0
    OBVIOUS
  <2>1. W <= D
    <3> DEFINE w == MulBits - 1
    <3>1. w \in Nat /\ w <= d
      BY <1>5
    <3> HIDE DEF w
    <3>2. 2^w <= 2^d
      BY <1>3, <3>1, PowerMonotone
    <3> QED
      BY <3>2 DEF w
  <2> HIDE DEF W, D
  <2>2. L < D
    BY <1>3, <2>1
  <2> QED
    BY <1>3, <2>2
<1>8. shifted = L \div D
  <2>1. CASE L = 0
    <3>1. 2^expDiff \in Nat /\ 2^expDiff > 0
      BY <1>4, PowerPositive
    <3> DEFINE E == 2^expDiff
    <3> HIDE DEF E, D, expDiff
    <3>2. 0 \div E = 0 /\ 0 \div D = 0
      BY <1>3, <3>1 DEF E
    <3> QED
      BY <1>1, <2>1, <3>2 DEF E
  <2>2. CASE L # 0
    <3>1. expDiff = d /\ less.fraction = L
      BY <1>1, <1>4, <2>2
    <3> HIDE DEF expDiff
    <3>2. shifted = IF d < MulBits - 1 THEN L \div D ELSE 0
      BY <3>1
    <3>3. d < MulBits - 1 \/ d >= MulBits - 1
      BY <1>3, <1>5
    <3> QED
      BY <1>7, <3>2, <3>3
  <2> QED
    BY <2>1, <2>2
<1>9. lost <=> L % D # 0
  <2>1. CASE L = 0
    <3> DEFINE m == Min2(expDiff, MulBits)  E == 2^m
    <3>1. m \in Nat
      BY <1>4, <1>5 DEF Min2
    <3> HIDE DEF m
    <3>2. E \in Nat /\ E > 0
      BY <3>1, PowerPositive
    <3> HIDE DEF E, D
    <3>3. 0 % E = 0 /\ 0 % D = 0
      BY <1>3, <3>2
    <3>4. Low(0, m) = 0
      BY <3>3 DEF Low, E
    <3> QED
      BY <1>1, <2>1, <3>3, <3>4 DEF m
  <2>2. CASE L # 0
    <3>1. expDiff = d /\ less.fraction = L
      BY <1>1, <1>4, <2>2
    <3> HIDE DEF expDiff
    <3>2. Low(L, Min2(d, MulBits)) = L % 2^d
      <4> DEFINE c == MulBits - 1
      <4>1. c \in Nat /\ c <= MulBits /\ L < 2^c
        BY <1>3, <1>5
      <4> HIDE DEF c
      <4> QED
        BY <1>3, <1>5, <4>1, LowPart
    <3> QED
      BY <3>1, <3>2
  <2> QED
    BY <2>1, <2>2
<1>10. AlignmentDrops(r) <=> L % D # 0
  <2>1. Low(L, Min2(d, MulBits + AdderBits)) = L % 2^d
    <3> DEFINE c == MulBits - 1  m == MulBits + AdderBits
    <3>1. c \in Nat /\ c <= m /\ L < 2^c /\ m \in Nat
      BY <1>3, <1>5
    <3> HIDE DEF c, m
    <3>2. Low(L, Min2(d, m)) = L % 2^d
      BY <1>3, <3>1, LowPart
    <3> QED
      BY <3>2 DEF m
  <2>2. AlignmentDrops(r) <=> L # 0 /\ Low(L, Min2(distance, MulBits + AdderBits)) # 0
    BY <1>1 DEF AlignmentDrops, Drops
  <2> HIDE DEF distance, D
  <2> QED
    BY <1>4, <1>6, <2>1, <2>2 DEF D
<1>11. prodLost <=> gl = 1 \/ ll = 1
  <2>1. prodLost <=> ProductDrops(op)
    BY DEF ProductDrops
  <2> HIDE DEF prodLost
  <2> QED
    BY <2>1 DEF FusedGl, FusedLl, FusedBit
<1>12. FMADifference(r) = G - (L \div D)
  <2>1. (IF L = 0 \/ distance >= MulBits - 1 THEN 0 ELSE L \div 2^distance) = L \div D
    <3>1. CASE L = 0
      <4> HIDE DEF D
      <4>1. 0 \div D = 0
        BY <1>3
      <4> QED
        BY <3>1, <4>1
    <3>2. CASE L # 0
      <4>1. distance = d
        BY <1>4, <3>2
      <4> HIDE DEF distance
      <4> QED
        BY <1>7, <3>2, <4>1
    <3> QED
      BY <3>1, <3>2
  <2> DEFINE S == IF L = 0 \/ distance >= MulBits - 1 THEN 0 ELSE L \div 2^distance
  <2>2. FMADifference(r) = G - S
    BY <1>1 DEF FMADifference
  <2> HIDE DEF S, D
  <2> QED
    BY <2>1, <2>2 DEF S
<1>13. \A k : FMACancels(r, k) <=> ~add /\ FMADifference(r) \in 0 .. (2^(MulBits-1-k) - 1)
  BY Zenon DEF FMACancels
<1> DEFINE loses == prodLost \/ lost
<1>14. loses \in BOOLEAN /\ (loses <=> FusedLoses(gl, L, ll, d))
  <2> HIDE DEF prodLost, lost
  <2> QED
    BY <1>9, <1>11 DEF FusedLoses, D
<1>15. FusedCore(op) = FusedOut(add, G, L \div D, gs, e, loses, FALSE, FALSE)
  <2> DEFINE zero == ~r.isNaR /\ r.isZero  nan == r.isNaR
  <2>1. FusedCore(op) = FusedOut(great.sign = less.sign, great.fraction, shifted, great.sign,
                                 great.exponent, loses, zero, nan)
    BY <1>2
  <2>2. zero = FALSE /\ nan = FALSE
    OBVIOUS
  <2> HIDE DEF shifted, loses, zero, nan
  <2> QED
    BY <1>1, <1>8, <2>1, <2>2, Zenon
<1> HIDE DEF loses
<1> QED
  BY <1>10, <1>12, <1>13, <1>14, <1>15 DEF FusedSeen, D

\* The exact result of an operation on numbers, in the order that the core finds the terms.
FusedIn(z, r, bit) ==
  LET great == Greater(r)
      less  == Lesser(r)
      add == great.sign = less.sign
      gl  == FusedGl(r, bit)
      ll  == FusedLl(r, bit)
      d   == FusedShiftOf(r)
  IN  /\ ~r.isNaR /\ ~r.isZero /\ bit \in 0..1
      /\ FusedSides(add, great.sign, great.fraction, gl, great.exponent, less.fraction, ll, d)
      /\ less.exponent \in Int
      /\ FusedSumIs(z, great.sign, FusedExact(add, great.fraction, gl, less.fraction, ll, d),
                    FusedUnit(great.exponent, d))

LEMMA NegatedZero ==
  ASSUME NEW w, w[1] = 0
  PROVE  Negative(w)[1] = 0
<1> DEFINE i == w[1]
<1>1. i = 0 /\ Negative(w)[1] = -i
  BY DEF Negative
<1> HIDE DEF i
<1>2. i \in Int /\ ~(i < 0) /\ ~(0 < i)
  BY <1>1
<1>3. -i = i
  BY <1>2
<1> QED
  BY <1>1, <1>3

LEMMA NoAddend ==
  ASSUME NEW op, op.num3 = 0
  PROVE  FusedAddend(op)[1] = 0
<1> DEFINE w == Val(op.num3)
<1>1. w[1] = 0
  BY DEF Val, Value
<1>2. FusedAddend(op) = IF IsSub(op) THEN Negative(w) ELSE w
  BY Zenon DEF FusedAddend
<1> HIDE DEF w
<1>3. Negative(w)[1] = 0
  BY <1>1, NegatedZero
<1> QED
  BY <1>1, <1>2, <1>3

LEMMA FusedExactIs ==
  ASSUME NEW op, op.num1 \in Posits \ {0, NaR}, op.num2 \in Posits \ {0, NaR},
         op.num3 \in Posits \ {NaR}
  PROVE  FusedIn(ExactFMA(op), FMAOperands(op), FusedBit(op))
<1> DEFINE r == FMAOperands(op)  bit == FusedBit(op)  negate == Negates(op)  zero == op.num3 = 0
           u == Times(Val(op.num1), Val(op.num2))  v == FusedAddend(op)  z == Plus(u, v)
           great == Greater(r)  less == Lesser(r)  add == great.sign = less.sign
           gs == great.sign  G == great.fraction  e == great.exponent  L == less.fraction
           gl == FusedGl(r, bit)  ll == FusedLl(r, bit)  d == FusedShiftOf(r)
           W == FusedExact(add, G, gl, L, ll, d)  unit == FusedUnit(e, d)  s == gs # negate
           exact == ExactFMA(op)
<1>1. FusedReady(r, bit, u, v, negate, zero)
  BY FusedReads
<1>2. zero => z = u
  <2> SUFFICES ASSUME zero PROVE z = u
    OBVIOUS
  <2>2. v[1] = 0
    BY NoAddend, Zenon
  <2>3. u[1] # 0
    <3>1. FusedTerm(u, r.product.sign # negate, 2 * r.product.fraction + bit, r.product.exponent)
      BY <1>1, Zenon DEF FusedReady
    <3> DEFINE q == r.product.sign # negate
    <3> HIDE DEF q, u
    <3>2. \E m \in Nat \ {0}, i \in Int : u = <<IF q THEN -m ELSE m, i>>
      BY <3>1, Zenon DEF FusedTerm, q
    <3> QED
      BY <3>2
  <2> HIDE DEF u, v
  <2> QED
    BY <2>2, <2>3 DEF Plus
<1>3. exact = IF negate THEN Negative(z) ELSE z
  BY Zenon DEF ExactFMA, FusedAddend
<1>4. zero \in BOOLEAN /\ negate \in BOOLEAN /\ ~r.isNaR /\ ~r.isZero /\ bit \in 0..1
  BY <1>1, Zenon DEF FusedReady
<1> HIDE DEF r, bit, negate, zero, u, v, z, exact
<1>5. /\ FusedSides(add, gs, G, gl, e, L, ll, d) /\ less.exponent \in Int
      /\ FusedSumIs(z, s, W, unit)
  <2>1. IF zero THEN z = u ELSE z = Plus(u, v)
    BY <1>2 DEF z
  <2>2. LET g == Greater(r)
            h == Lesser(r)
            same == g.sign = h.sign
            gbit == FusedGl(r, bit)
            hbit == FusedLl(r, bit)
            k == FusedShiftOf(r)
        IN  /\ FusedSides(same, g.sign, g.fraction, gbit, g.exponent, h.fraction, hbit, k)
            /\ h.exponent \in Int
            /\ FusedSumIs(z, g.sign # negate, FusedExact(same, g.fraction, gbit, h.fraction, hbit, k),
                          FusedUnit(g.exponent, k))
    BY <1>1, <1>4, <2>1, FusedOrdered
  <2> QED
    BY <2>2, Zenon
<1>6. W \in Int /\ unit \in Int /\ gs \in BOOLEAN
  <2>1. FusedTerms(add, G, gl, L, ll, d) /\ gs \in BOOLEAN /\ e \in Int
    BY <1>5, Zenon DEF FusedSides
  <2>2. W \in Int
    BY <2>1, FusedSums
  <2>3. d \in Nat /\ FracBits \in Nat
    BY <2>1, FormatPowers DEF FusedTerms
  <2> HIDE DEF d, e, W
  <2>4. unit \in Int
    BY <2>1, <2>3 DEF FusedUnit
  <2> QED
    BY <2>1, <2>2, <2>4
<1>7. FusedSumIs(exact, gs, W, unit)
  <2>1. s \in BOOLEAN /\ (s # negate) = gs
    <3> HIDE DEF gs
    <3> QED
      BY <1>4, <1>6
  <2>2. FusedSumIs(z, s, W, unit)
    BY <1>5
  <2> HIDE DEF s, W, unit, gs
  <2>3. FusedSumIs(IF negate THEN Negative(z) ELSE z, s # negate, W, unit)
    BY <1>4, <1>6, <2>1, <2>2, FusedNegated
  <2> QED
    BY <1>3, <2>1, <2>3, Zenon
<1>8. FusedIn(exact, r, bit)
  BY <1>4, <1>5, <1>7, Zenon DEF FusedIn
<1> QED
  BY <1>8 DEF exact, r, bit

\* What the core and the generator make of the operands of a fused operation.
FusedShownOf(op) ==
  LET a == FusedCore(op)
  IN  Generate(a.out, a.trailing, a.sticky)

\* A fused operation whose factors are not zero.
LEMMA NumbersFused ==
  ASSUME NEW op, op.num1 \in Posits \ {0, NaR}, op.num2 \in Posits \ {0, NaR},
         op.num3 \in Posits \ {NaR}
  PROVE  LET r == FMAOperands(op)
             g == FusedShownOf(op)
         IN  /\ (IF Greater(r).sign = Lesser(r).sign
                 THEN ~(AlignmentDrops(r) /\ ProductDrops(op) /\ ~r.addendIsLarger)
                 ELSE /\ ~AlignmentDrops(r) /\ ~ProductDrops(op)
                      /\ FMADifference(r) = 0 \/ ~FMACancels(r, ShiftRange(MulBits)))
                => RoundsTo(g, NBits, ES, ExactFMA(op))
             /\ ~FMACancels(r, FracBits) => Surrounds(g, NBits, ES, ExactFMA(op))
<1> DEFINE r == FMAOperands(op)  bit == FusedBit(op)  x == ExactFMA(op)
           great == Greater(r)  less == Lesser(r)  add == great.sign = less.sign
           gs == great.sign  G == great.fraction  e == great.exponent  L == less.fraction
           gl == FusedGl(r, bit)  ll == FusedLl(r, bit)  d == FusedShiftOf(r)
           W == FusedExact(add, G, gl, L, ll, d)  unit == FusedUnit(e, d)
           S == L \div 2^d  N == FusedWhole(add, G, S)
           H == ProductOne  bound == (NBits - 1) * 2^ES  range == ShiftRange(MulBits)
           least == 2^(MulBits - 1 - range)  M == 2^FracBits
           g == FusedShownOf(op)
           drops == AlignmentDrops(r)  prodDrops == ProductDrops(op)  first == r.addendIsLarger
           rounds == RoundsTo(g, NBits, ES, x)  surrounds == Surrounds(g, NBits, ES, x)
<1>1. /\ ~r.isNaR /\ ~r.isZero /\ bit \in 0..1
      /\ FusedSides(add, gs, G, gl, e, L, ll, d)
      /\ less.exponent \in Int
      /\ FusedSumIs(x, gs, W, unit)
  BY FusedExactIs, Zenon DEF FusedIn
<1>2. /\ FusedTerms(add, G, gl, L, ll, d) /\ gs \in BOOLEAN /\ e \in Int
      /\ -(2 * bound) <= e /\ e <= 2 * bound
      /\ L = 0 \/ -bound <= e
  BY <1>1, Zenon DEF FusedSides
<1>3. /\ \E lost \in BOOLEAN :
              /\ lost <=> FusedLoses(gl, L, ll, d)
              /\ FusedCore(op) = FusedOut(add, G, S, gs, e, lost, FALSE, FALSE)
      /\ drops <=> L % 2^d # 0
      /\ FMADifference(r) = G - S
      /\ \A k : FMACancels(r, k) <=> ~add /\ FMADifference(r) \in 0 .. (2^(MulBits-1-k) - 1)
  <2>1. /\ r = FMAOperands(op) /\ add = (Greater(r).sign = Lesser(r).sign)
        /\ gs = Greater(r).sign /\ G = Greater(r).fraction /\ e = Greater(r).exponent
        /\ L = Lesser(r).fraction /\ gl = FusedGl(r, FusedBit(op)) /\ ll = FusedLl(r, FusedBit(op))
        /\ d = FusedShiftOf(r) /\ Lesser(r).exponent \in Int
    BY <1>1
  <2>2. ~r.isNaR /\ ~r.isZero /\ FusedSides(add, gs, G, gl, e, L, ll, d)
    BY <1>1
  <2> HIDE DEF r, add, gs, G, e, L, gl, ll, d
  <2>3. FusedSeen(op, r, add, gs, G, e, L, gl, ll, d)
    BY <2>1, <2>2, FusedFinish
  <2> QED
    BY <2>3, Zenon DEF FusedSeen
<1>4. PICK lost \in BOOLEAN : /\ lost <=> FusedLoses(gl, L, ll, d)
                              /\ FusedCore(op) = FusedOut(add, G, S, gs, e, lost, FALSE, FALSE)
  BY <1>3
<1>5. PICK c \in Int, j \in Int : x = <<c, j>> /\ ExactIs(c, j, gs, W, unit)
  BY <1>1, Zenon DEF FusedSumIs
<1>6. /\ FusedFractions(add, G, S, N) /\ N \in Nat /\ (add => N >= H)
  BY <1>2, FusedSums
<1>7. N >= H \/ -bound <= e
  <2>1. CASE L = 0
    <3>1. 2^d \in Nat /\ 2^d > 0
      BY <1>2, PowerPositive DEF FusedTerms
    <3> DEFINE D == 2^d
    <3> HIDE DEF D, L
    <3>2. S = 0
      BY <2>1, <3>1 DEF D
    <3>3. G \in H..(2*H-1) /\ H \in Nat
      BY <1>2, FusedWidths DEF FusedTerms
    <3> HIDE DEF S, G, H
    <3>4. N = G + 0 \/ N = G - 0
      BY <3>2 DEF FusedWhole
    <3> HIDE DEF N
    <3> QED
      BY <3>3, <3>4
  <2>2. CASE L # 0
    BY <1>2, <2>2
  <2> QED
    BY <2>1, <2>2
<1>8. /\ add \/ N >= 2 * M => surrounds
      /\ FusedKnows(add, gl, L, ll, d) /\ (add \/ N = 0 \/ N >= least) => rounds
  <2> DEFINE a == FusedOut(add, G, S, gs, e, lost, FALSE, FALSE)
             h == Generate(a.out, a.trailing, a.sticky)
  <2>1. g = h
    BY <1>4, Zenon DEF FusedShownOf
  <2>2. /\ add \/ N >= 2 * M => Surrounds(h, NBits, ES, <<c, j>>)
        /\ FusedKnows(add, gl, L, ll, d) /\ (add \/ N = 0 \/ N >= least)
             => RoundsTo(h, NBits, ES, <<c, j>>)
    <3>1. /\ FusedTerms(add, G, gl, L, ll, d) /\ gs \in BOOLEAN /\ e \in Int
          /\ FusedReaches(add, G, L, d, N, e)
          /\ ExactIs(c, j, gs, FusedExact(add, G, gl, L, ll, d), FusedUnit(e, d))
      BY <1>2, <1>5, <1>7 DEF FusedReaches
    <3> HIDE DEF N, add, gs, G, e, L, gl, ll, d
    <3>2. FusedRight(add, G, gl, L, ll, d, N, gs, e, lost, <<c, j>>)
      BY <1>4, <3>1, FusedTermsRound
    <3> QED
      BY <3>2, Zenon DEF FusedRight
  <2> HIDE DEF g, h, x
  <2> QED
    BY <1>5, <2>1, <2>2, Zenon
<1>9. ~add => /\ FMADifference(r) = N
              /\ \A k : ~FMACancels(r, k) => N \notin 0 .. (2^(MulBits-1-k) - 1)
  <2>1. ~add => N = G - S
    BY Zenon DEF FusedWhole
  <2> HIDE DEF N
  <2> QED
    BY <1>3, <2>1
<1>10. ~FMACancels(r, FracBits) => surrounds
  <2>1. ~FMACancels(r, FracBits) => add \/ N \notin 0 .. (2^(MulBits-1-FracBits) - 1)
    BY <1>9
  <2>2. 2^(MulBits-1-FracBits) = 2 * M /\ M \in Nat
    <3>1. FracBits \in Nat /\ MulBits = FracBits + FracBits + 2 /\ M \in Nat
      BY FusedWidths
    <3>2. MulBits - 1 - FracBits = FracBits + 1
      BY <3>1
    <3> QED
      BY <3>1, <3>2, PowerNext
  <2> HIDE DEF N, M, add, surrounds
  <2> QED
    BY <1>6, <1>8, <2>1, <2>2
<1>11. ASSUME IF add THEN ~(drops /\ prodDrops /\ ~first)
              ELSE ~drops /\ ~prodDrops /\ (FMADifference(r) = 0 \/ ~FMACancels(r, range))
       PROVE  rounds
  <2>1. (gl = 1 <=> prodDrops /\ ~first) /\ (ll = 1 <=> prodDrops /\ first)
    BY DEF FusedGl, FusedLl, FusedBit
  <2>2. FusedKnows(add, gl, L, ll, d)
    <3> DEFINE cut == L % 2^d # 0
    <3> HIDE DEF add, drops, prodDrops, first, gl, ll
    <3>1. CASE add
      <4>1. ~(gl = 1 /\ cut)
        BY <1>3, <1>11, <2>1, <3>1
      <4> QED
        BY <3>1, <4>1 DEF FusedKnows
    <3>2. CASE ~add
      <4>1. gl # 1 /\ ll # 1 /\ ~cut
        BY <1>3, <1>11, <2>1, <3>2
      <4> QED
        BY <4>1 DEF FusedKnows, FusedLoses
    <3> QED
      BY <3>1, <3>2
  <2>3. add \/ N = 0 \/ N >= least
    <3>1. CASE ~add
      <4>1. N = 0 \/ N \notin 0 .. (least - 1)
        BY <1>9, <1>11, <3>1
      <4>2. least \in Int
        <5>1. MulBits \in Nat /\ MulBits >= 2
          BY FusedWidths
        <5>2. MulBits - range \in Nat \ {0}
          BY <5>1, ShiftInWidth
        <5>3. range \in Nat
          BY FusedRangeIsNat
        <5> HIDE DEF range
        <5>4. MulBits - 1 - range \in Nat
          BY <5>1, <5>2, <5>3
        <5> QED
          BY <5>4, PowerPositive
      <4> HIDE DEF N, least
      <4> QED
        BY <1>6, <4>1, <4>2
    <3> QED
      BY <3>1
  <2> HIDE DEF rounds
  <2> QED
    BY <1>8, <2>2, <2>3
<1> HIDE DEF rounds, surrounds
<1>12. /\ (IF add THEN ~(drops /\ prodDrops /\ ~first)
           ELSE ~drops /\ ~prodDrops /\ (FMADifference(r) = 0 \/ ~FMACancels(r, range)))
          => rounds
       /\ ~FMACancels(r, FracBits) => surrounds
  BY <1>10, <1>11
<1> QED
  BY <1>12, Zenon DEF rounds, surrounds

\* A fused operation whose product and addend are zero.
LEMMA ZerosFused ==
  ASSUME NEW op, op.num1 \in Posits \ {NaR}, op.num2 \in Posits \ {NaR},
         0 \in {op.num1, op.num2}, op.num3 = 0
  PROVE  /\ RoundsTo(FusedShownOf(op), NBits, ES, ExactFMA(op))
         /\ Surrounds(FusedShownOf(op), NBits, ES, ExactFMA(op))
<1> DEFINE x == Extract(op.num1)  y == Extract(op.num2)  w == Extract(op.num3)
           r == FMAOperands(op)  a == FMAFinish(r, x, y)  g == FusedShownOf(op)
           u == Times(Val(op.num1), Val(op.num2))  v == FusedAddend(op)  s == Plus(u, v)
           z == ExactFMA(op)
<1>1. /\ (x.isZero \/ y.isZero) /\ w.isZero /\ ~x.isNaR /\ ~y.isNaR /\ ~w.isNaR
  <2>1. /\ x.isZero = (op.num1 = 0) /\ x.isNaR = (op.num1 = NaR)
        /\ y.isZero = (op.num2 = 0) /\ y.isNaR = (op.num2 = NaR)
        /\ w.isZero = (op.num3 = 0) /\ w.isNaR = (op.num3 = NaR)
    BY DEF Extract
  <2>2. NaR # 0
    BY Halves
  <2> HIDE DEF x, y, w
  <2> QED
    BY <2>1, <2>2
<1>2. r.isZero /\ ~r.isNaR
  <2> DEFINE sub == IsSub(op)  negate == Negates(op)
  <2>1. r = FMAProduct(x, y, w, sub, negate)
    BY DEF FMAOperands
  <2> HIDE DEF x, y, w, r, sub, negate
  <2>2. r.isNaR = (x.isNaR \/ y.isNaR \/ w.isNaR) /\ r.isZero = ((x.isZero \/ y.isZero) /\ w.isZero)
    BY <2>1 DEF FMAProduct
  <2> QED
    BY <1>1, <2>2
<1>3. a.out.isZero /\ ~a.out.isNaR
  <2> HIDE DEF x, y, r
  <2>1. a.out.isZero = (~r.isNaR /\ r.isZero) /\ a.out.isNaR = r.isNaR
    BY Zenon DEF FMAFinish, Answer
  <2> HIDE DEF a
  <2> QED
    BY <1>2, <2>1
<1>4. g = 0
  <2>1. g = Generate(a.out, a.trailing, a.sticky)
    BY DEF FusedShownOf, FusedCore
  <2> HIDE DEF a
  <2> QED
    BY <1>3, <2>1 DEF Generate
<1>5. u[1] = 0
  <2>1. ASSUME NEW n \in Posits \ {NaR} PROVE Val(n)[1] \in Int /\ (n = 0 => Val(n)[1] = 0)
    <3>1. CASE n = 0
      BY <3>1 DEF Val, Value
    <3>2. CASE n # 0
      <4>1. n \in Posits \ {0, NaR}
        BY <3>2
      <4> DEFINE f == Extract(n).fraction  i == Extract(n).exponent - FracBits
                 t == Extract(n).sign
      <4>2. Val(n) = <<IF t THEN -f ELSE f, i>>
        BY <4>1, SignedValue, Zenon DEF Val
      <4>3. f \in Nat
        BY <4>1, NumberUnpacks, FormatPowers
      <4> HIDE DEF f, i, t
      <4>4. Val(n)[1] \in Int
        BY <4>2, <4>3
      <4> QED
        BY <3>2, <4>4
    <3> QED
      BY <3>1, <3>2
  <2> DEFINE i == Val(op.num1)[1]  j == Val(op.num2)[1]
  <2>2. u[1] = i * j
    BY DEF Times
  <2>3. i \in Int /\ j \in Int /\ (i = 0 \/ j = 0)
    BY <2>1
  <2> HIDE DEF i, j, u
  <2>4. i * j = 0
    BY <2>3
  <2> QED
    BY <2>2, <2>4
<1>6. v[1] = 0
  BY NoAddend
<1>7. s[1] = 0
  <2> HIDE DEF u, v
  <2> QED
    BY <1>5, <1>6 DEF Plus
<1>8. z[1] = 0
  <2>1. z = IF Negates(op) THEN Negative(s) ELSE s
    BY Zenon DEF ExactFMA, FusedAddend
  <2> HIDE DEF z, s
  <2>2. Negative(s)[1] = 0
    BY <1>7, NegatedZero
  <2> QED
    BY <1>7, <2>1, <2>2
<1> HIDE DEF g, z
<1>9. RoundsTo(g, NBits, ES, z) /\ Surrounds(g, NBits, ES, z)
  BY <1>4, <1>8, Zenon DEF RoundsTo, Surrounds
<1> QED
  BY <1>9 DEF g, z

\* What the core and the generator make of any three operands.
FusedIsRight(op, g) ==
  LET r == FMAOperands(op)
      adds == Greater(r).sign = Lesser(r).sign
  IN  IF NaR \in {op.num1, op.num2, op.num3} THEN g = NaR
      ELSE 0 \notin {op.num1, op.num2} \/ op.num3 = 0 =>
        LET exact == ExactFMA(op) IN
           /\ (IF adds THEN ~(AlignmentDrops(r) /\ ProductDrops(op) /\ ~r.addendIsLarger)
               ELSE /\ ~AlignmentDrops(r) /\ ~ProductDrops(op)
                    /\ FMADifference(r) = 0 \/ ~FMACancels(r, ShiftRange(MulBits)))
              => RoundsTo(g, NBits, ES, exact)
           /\ ~FMACancels(r, FracBits) => Surrounds(g, NBits, ES, exact)

LEMMA AnyFused ==
  ASSUME NEW op, op.num1 \in Posits, op.num2 \in Posits, op.num3 \in Posits
  PROVE  FusedIsRight(op, FusedShownOf(op))
<1> DEFINE g == FusedShownOf(op)
<1>1. CASE NaR \in {op.num1, op.num2, op.num3}
  <2> DEFINE x == Extract(op.num1)  y == Extract(op.num2)  w == Extract(op.num3)
             sub == IsSub(op)  negate == Negates(op)
             r == FMAOperands(op)  a == FMAFinish(r, x, y)
  <2>1. x.isNaR \/ y.isNaR \/ w.isNaR
    BY <1>1 DEF Extract
  <2>2. r = FMAProduct(x, y, w, sub, negate)
    BY DEF FMAOperands
  <2>3. g = Generate(a.out, a.trailing, a.sticky)
    BY DEF FusedShownOf, FusedCore
  <2>4. a = FMAFinish(r, x, y)
    OBVIOUS
  <2> HIDE DEF x, y, w, sub, negate, r
  <2>5. r.isNaR
    BY <2>1, <2>2 DEF FMAProduct
  <2>6. a.out.isNaR
    BY <2>4, <2>5 DEF FMAFinish, Answer
  <2> HIDE DEF a, g
  <2>7. g = NaR
    BY <2>3, <2>6 DEF Generate
  <2> QED
    BY <1>1, <2>7, Zenon DEF FusedIsRight, g
<1>2. CASE NaR \notin {op.num1, op.num2, op.num3} /\ 0 \notin {op.num1, op.num2}
  <2>1. op.num1 \in Posits \ {0, NaR} /\ op.num2 \in Posits \ {0, NaR} /\ op.num3 \in Posits \ {NaR}
    BY <1>2
  <2> QED
    BY <1>2, <2>1, NumbersFused DEF FusedIsRight
<1>3. CASE NaR \notin {op.num1, op.num2, op.num3} /\ 0 \in {op.num1, op.num2} /\ op.num3 = 0
  <2>1. op.num1 \in Posits \ {NaR} /\ op.num2 \in Posits \ {NaR}
    BY <1>3
  <2>2. RoundsTo(g, NBits, ES, ExactFMA(op)) /\ Surrounds(g, NBits, ES, ExactFMA(op))
    BY <1>3, <2>1, ZerosFused
  <2> HIDE DEF g
  <2> QED
    BY <1>3, <2>2, Zenon DEF FusedIsRight, g
<1>4. CASE NaR \notin {op.num1, op.num2, op.num3} /\ 0 \in {op.num1, op.num2} /\ op.num3 # 0
  BY <1>4, Zenon DEF FusedIsRight
<1> QED
  BY <1>1, <1>2, <1>3, <1>4

-----------------------------------------------------------------------------
(* What the result register shows of a fused operation.                    *)

\* The register row of the core holds the operands of exec after the product, and a fused
\* result in the result register is the one of the operation shown with it.
FusedShown ==
  /\ fmaValid => fmaReg = FMAProduct(num1, num2, num3, subMode, negateMode)
  /\ Shows("fma") =>
       /\ resultOp.num1 \in Posits /\ resultOp.num2 \in Posits /\ resultOp.num3 \in Posits
       /\ result.answer = FusedCore(resultOp)

LEMMA FusedShownStep == DigitsInv /\ RegisterTypes /\ FusedShown /\ [Next]_vars => FusedShown'
<1>1. ASSUME DigitsInv, RegisterTypes, FusedShown, Next PROVE FusedShown'
  <2>1. /\ resultOp' = exec
        /\ result' = [answer |-> CoreAnswer, flags |-> Compare(exec.num1, exec.num2)]
        /\ resultValid' = newResultValid
        /\ fmaReg' = FMAProduct(num1, num2, num3, subMode, negateMode) /\ fmaValid' = Starts("fma")
        /\ Load \/ Hold
    BY <1>1 DEF Next, Clock, Registers
  <2>2. fmaValid' => fmaReg' = FMAProduct(num1', num2', num3', subMode', negateMode')
    <3> SUFFICES ASSUME fmaValid'
                 PROVE  fmaReg' = FMAProduct(num1', num2', num3', subMode', negateMode')
      OBVIOUS
    <3>1. execValid
      BY <2>1 DEF Starts
    <3>2. exec' = exec
      BY <2>1, <3>1 DEF Load, Hold
    <3>3. /\ num1' = num1 /\ num2' = num2 /\ num3' = num3
          /\ subMode' = subMode /\ negateMode' = negateMode
      BY <3>2 DEF num1, num2, num3, subMode, negateMode
    <3> QED
      BY <2>1, <3>3
  <2>3. ASSUME Shows("fma")'
        PROVE  /\ exec.num1 \in Posits /\ exec.num2 \in Posits /\ exec.num3 \in Posits
               /\ CoreAnswer = FusedCore(exec)
    <3>1. newResultValid /\ exec.inst = "fma"
      BY <2>1, <2>3 DEF Shows
    <3>2. fmaValid
      BY <1>1, <3>1 DEF newResultValid, Starts, DigitsInv, ControlInv, AnswerOnTheWay, validOut
    <3>3. fmaReg = FMAProduct(num1, num2, num3, subMode, negateMode)
      BY <1>1, <3>2 DEF FusedShown
    <3>4. CoreAnswer = fmaOut
      BY <3>1 DEF CoreAnswer
    <3>5. fmaOut = FMAFinish(fmaReg, num1, num2)
      BY Zenon DEF fmaOut
    <3>6. FusedCore(exec)
            = FMAFinish(FMAProduct(num1, num2, num3, subMode, negateMode), num1, num2)
      BY Zenon DEF FusedCore, FMAOperands, num1, num2, num3, subMode, negateMode, IsSub, Negates
    <3>7. exec.num1 \in Posits /\ exec.num2 \in Posits /\ exec.num3 \in Posits
      BY <1>1 DEF DigitsInv, OperandsArePosits, RegisterTypes
    <3> QED
      BY <3>3, <3>4, <3>5, <3>6, <3>7, Zenon
  <2>4. result'.answer = CoreAnswer
    BY <2>1
  <2>5. Posits' = Posits
    BY DEF Posits
  <2>6. FusedCore(resultOp)' = FusedCore(exec)
    BY <2>1, Zenon DEF FusedCore, FMAOperands, IsSub, Negates
  <2> QED
    BY <2>1, <2>2, <2>3, <2>4, <2>5, <2>6, Zenon DEF FusedShown
<1>2. ASSUME FusedShown, UNCHANGED vars PROVE FusedShown'
  <2>1. /\ resultOp' = resultOp /\ result' = result /\ resultValid' = resultValid
        /\ exec' = exec /\ fmaValid' = fmaValid /\ fmaReg' = fmaReg
    BY <1>2 DEF vars, elementVars
  <2>2. Posits' = Posits
    BY DEF Posits
  <2>3. /\ num1' = num1 /\ num2' = num2 /\ num3' = num3
        /\ subMode' = subMode /\ negateMode' = negateMode
    BY <2>1 DEF num1, num2, num3, subMode, negateMode
  <2>4. Shows("fma")' <=> Shows("fma")
    BY <2>1 DEF Shows
  <2>5. FusedCore(resultOp)' = FusedCore(resultOp)
    BY <2>1, Zenon DEF FusedCore, FMAOperands, IsSub, Negates
  <2> QED
    BY <1>2, <2>1, <2>2, <2>3, <2>4, <2>5, Zenon DEF FusedShown
<1> QED
  BY <1>1, <1>2

LEMMA AllFusedShown == Spec => []FusedShown
<1>1. Init => FusedShown
  BY DEF Init, FusedShown, Shows
<1> QED
  BY <1>1, DigitsInvariant, RegistersFit, FusedShownStep, PTL DEF Spec

\* A fused multiply-add in the result register is NaR, or the posit nearest to the exact
\* result, ties to the even pattern, when what the core drops is dropped of a sum, or
\* nothing is dropped of a difference; and one of the two posits next to it when fewer than
\* FracBits places cancel (PositFMA.scala L21-96, PositGenerator.scala L24-57): in every
\* format, for all operands but the ones the conditions of FusedRounded leave out, whatever
\* operations surround it.
THEOREM FusedResultsAreRounded == Spec => []FusedRounded
<1>1. FusedShown => FusedRounded
  <2>1. SUFFICES ASSUME FusedShown, Shows("fma") PROVE FusedRounded
    BY <2>1 DEF FusedRounded
  <2> DEFINE op == resultOp
  <2>2. /\ op.num1 \in Posits /\ op.num2 \in Posits /\ op.num3 \in Posits
        /\ result.answer = FusedCore(op)
    BY <2>1, Zenon DEF FusedShown
  <2>3. Output = FusedShownOf(op)
    BY <2>2, Zenon DEF Output, FusedShownOf
  <2>4. FusedIsRight(op, Output)
    BY <2>2, <2>3, AnyFused
  <2> QED
    BY <2>4, Zenon DEF FusedRounded, FusedIsRight, IsNeighbourOf, Rounds
<1> QED
  BY <1>1, AllFusedShown, PTL
=============================================================================

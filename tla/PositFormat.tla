---------------------------- MODULE PositFormat ----------------------------
(***************************************************************************)
(* The posit codec of the accelerator: the widths of common.scala, the     *)
(* extractor that unpacks a posit and the generator that rounds and packs  *)
(* one.  A bit vector is a natural number below 2^width, a bit field is a  *)
(* quotient and a remainder by powers of two, and an SInt is an integer    *)
(* wrapped to its width where the code can wrap it.                        *)
(***************************************************************************)
EXTENDS Integers

CONSTANTS NBits, ES
ASSUME FormatAssumption ==
  /\ NBits \in Nat /\ ES \in Nat
  /\ NBits > ES + 3

TrailingBits == 2
FracBits     == NBits - 3 - ES
HiddenBits   == FracBits + 1
AdderBits    == HiddenBits + TrailingBits + 2
MulBits      == 2 * HiddenBits
DivBits      == HiddenBits + TrailingBits + 2

Min2(a, b) == IF a <= b THEN a ELSE b

\* chisel3.util.log2Ceil.
Log2Ceil(n) == CHOOSE k \in 0..n : 2^k >= n /\ (k = 0 \/ 2^(k-1) < n)
ExpBits     == Log2Ceil(NBits) + ES + 2

\* The low w bits of x, and the same bits read as a signed number.
Low(x, w)    == x % 2^w
Signed(x, w) == LET u == Low(x, w) IN IF u >= 2^(w-1) THEN u - 2^w ELSE u
Bit(x, i)    == (x \div 2^i) % 2
Negated(x, w) == Low(2^w - x, w)

\* countLeadingZeros: a priority encoder, which answers the last position
\* when no bit is set.
LeadingZeros(x, w) ==
  IF x = 0 THEN w - 1 ELSE CHOOSE k \in 0..(w-1) : Bit(x, w-1-k) = 1 /\ x < 2^(w-k)

NaR    == 2^(NBits-1)
Posits == 0..(2^NBits - 1)

Unpacked == [sign : BOOLEAN, exponent : Int, fraction : Nat,
             isZero : BOOLEAN, isNaR : BOOLEAN]

\* default_unpacked, and the reset value of the operand registers.
NoOperand == [sign |-> FALSE, exponent |-> 0, fraction |-> 0,
              isZero |-> FALSE, isNaR |-> FALSE]

\* PositExtractor.  Zero and NaR have no regime to end: they unpack as the
\* regime -(NBits-1) with fraction 1.0, and only their flag tells them apart.
Extract(in) ==
  LET sign   == in >= NaR
      abs    == IF sign THEN Negated(in, NBits) ELSE in
      negExp == Bit(abs, NBits-2) = 0
      body   == Low(abs, NBits-1)
      zeros  == IF negExp THEN body ELSE 2^(NBits-1) - 1 - body
      count  == IF zeros = 0 THEN NBits-1 ELSE LeadingZeros(zeros, NBits-1)
      regime == IF negExp THEN -count ELSE count - 1
      rest   == Low(abs * 2^(count+2), NBits)
  IN  [sign     |-> sign,
       exponent |-> regime * 2^ES + rest \div 2^(NBits-ES),
       fraction |-> 2^FracBits + Low(rest \div 2^3, FracBits),
       isZero   |-> in = 0,
       isNaR    |-> in = NaR]

\* The rounding bit of the generator, roundToNearestEven of PositRound.scala:
\* the guard bit, unless it is an exact half below an even neighbour.
RoundsUp_HalfUp(last, guard, round, sticky) == guard = 1
RoundsUp(last, guard, round, sticky) ==
  guard = 1 /\ (last = 1 \/ round = 1 \/ sticky)

\* PositGenerator: the regime is written by an arithmetic shift of a word that
\* starts with 10 or 01, what the shift drops goes to the sticky bit, and a
\* nonzero value never rounds to zero.
Generate(in, trailing, stickyIn) ==
  LET negExp == in.exponent < 0
      floor  == in.exponent \div 2^ES
      regime == IF negExp THEN -floor ELSE floor
      offset == IF negExp /\ regime # NBits-1 THEN regime - 1 ELSE regime
      word   == (IF negExp THEN 1 ELSE 2) * 2^(NBits-1)
                  + Low(in.exponent, ES) * 2^(FracBits+2)
                  + Low(in.fraction, FracBits) * 2^2 + trailing
      shifted  == Low(Signed(word, NBits+1) \div 2^offset, NBits+1)
      unrounded == shifted \div 2^2
      sticky    == stickyIn \/ Low(word, Min2(offset, NBits-2)) # 0
      up        == /\ unrounded # 2^(NBits-1) - 1
                   /\ RoundsUp(Bit(shifted, 2), Bit(shifted, 1), Bit(shifted, 0), sticky)
      rounded   == unrounded + IF up THEN 1 ELSE 0
      magnitude == IF rounded = 0 THEN 1 ELSE rounded
  IN  IF in.isNaR THEN NaR
      ELSE IF in.fraction = 0 \/ in.isZero THEN 0
      ELSE IF in.sign THEN Negated(magnitude, NBits) ELSE magnitude
=============================================================================

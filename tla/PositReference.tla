--------------------------- MODULE PositReference ---------------------------
(***************************************************************************)
(* What the arithmetic promises: the posit nearest to the exact result,    *)
(* ties to the even pattern, never zero and never NaR for a nonzero real   *)
(* result.  Values are exact: <<m, e>> stands for m * 2^e.  The value of a *)
(* posit is defined from the powers of the base and linear interpolation,  *)
(* not from the bit fields that the extractor takes apart; the boundary    *)
(* between two neighbours is the posit of one more bit between them.       *)
(***************************************************************************)
EXTENDS Integers

\* x * 2^d < y for positive whole numbers, by trying the smaller powers first: no
\* power is computed that is far beyond y.
ScaledLess(x, d, y) == \A k \in 0..d : x <= (y-1) \div 2^k

PositiveLess(x, y) ==
  IF x[2] >= y[2] THEN ScaledLess(x[1], x[2] - y[2], y[1])
  ELSE ~ScaledLess(y[1], y[2] - x[2], x[1] + 1)

Negative(x)  == <<-x[1], x[2]>>
Magnitude(x) == IF x[1] < 0 THEN Negative(x) ELSE x
DyadicLess(x, y) ==
  IF x[1] > 0 /\ y[1] > 0 THEN PositiveLess(x, y)
  ELSE IF x[1] < 0 /\ y[1] < 0 THEN PositiveLess(Negative(y), Negative(x))
  ELSE x[1] < y[1]
DyadicEqual(x, y) == ~DyadicLess(x, y) /\ ~DyadicLess(y, x)

Times(x, y)  == <<x[1] * y[1], x[2] + y[2]>>

\* The same number with the smallest mantissa.
Reduced(x) ==
  LET k == CHOOSE k \in 0..Magnitude(x)[1] : x[1] % 2^k = 0 /\ (x[1] \div 2^k) % 2 = 1
  IN  <<x[1] \div 2^k, x[2] + k>>
Plus(x, y)   ==
  IF x[1] = 0 THEN y ELSE IF y[1] = 0 THEN x
  ELSE LET u == Reduced(x)
           v == Reduced(y)
           e == IF u[2] < v[2] THEN u[2] ELSE v[2]
       IN  <<u[1] * 2^(u[2]-e) + v[1] * 2^(v[2]-e), e>>

\* The pattern of an n-bit posit whose value is the base 2^(2^es) to the r.
PowerPattern(r, n) == IF r >= 0 THEN 2^(n-1) - 2^(n-2-r) ELSE 2^(n-2+r)

\* The value of a positive posit p of n bits: between two powers of the base
\* the pattern moves linearly through exponents and fractions.
ValueOf(p, n, es) ==
  LET r == CHOOSE r \in (2-n)..(n-2) :
             /\ PowerPattern(r, n) <= p
             /\ r = n-2 \/ p < PowerPattern(r+1, n)
      width == IF r = n-2 THEN 1 ELSE PowerPattern(r+1, n) - PowerPattern(r, n)
      one   == 2^(n-3-es)
      steps == ((p - PowerPattern(r, n)) * 2^(n-3)) \div width
  IN  <<one + (steps % one), r * 2^es + (steps \div one) - (n-3-es)>>

IsNaRPattern(p, n) == p = 2^(n-1)
IsNegative(p, n)   == p > 2^(n-1)
Opposite(p, n)     == (2^n - p) % 2^n

Value(p, n, es) ==
  IF p = 0 THEN <<0, 0>>
  ELSE IF IsNegative(p, n) THEN Negative(ValueOf(Opposite(p, n), n, es))
  ELSE ValueOf(p, n, es)

\* p is the rounding of a positive real number that Above(m) compares with m
\* and At(m) finds equal to it.
RoundsPositive(p, n, es, Above(_), At(_)) ==
  LET Boundary(q) == ValueOf(2*q + 1, n+1, es)
      even == p % 2 = 0
  IN  /\ p \in 1..(2^(n-1) - 1)
      /\ p = 1 \/ Above(Boundary(p-1)) \/ (even /\ At(Boundary(p-1)))
      /\ \/ p = 2^(n-1) - 1
         \/ ~Above(Boundary(p)) /\ (At(Boundary(p)) => even)

\* p is one of the two posits around that number, or the number itself.
SurroundsPositive(p, n, es, Above(_), At(_)) ==
  /\ p \in 1..(2^(n-1) - 1)
  /\ p = 1 \/ Above(ValueOf(p-1, n, es))
  /\ p = 2^(n-1) - 1 \/ ~(Above(ValueOf(p+1, n, es)) \/ At(ValueOf(p+1, n, es)))

\* The same for a number of either sign or zero, given as a dyadic number.
RoundsTo(p, n, es, x) ==
  LET Above(m) == DyadicLess(m, Magnitude(x))
      At(m)    == DyadicEqual(m, Magnitude(x))
  IN  IF x[1] = 0 THEN p = 0
      ELSE RoundsPositive(IF x[1] < 0 THEN Opposite(p, n) ELSE p, n, es, Above, At)
Surrounds(p, n, es, x) ==
  LET Above(m) == DyadicLess(m, Magnitude(x))
      At(m)    == DyadicEqual(m, Magnitude(x))
  IN  IF x[1] = 0 THEN p = 0
      ELSE SurroundsPositive(IF x[1] < 0 THEN Opposite(p, n) ELSE p, n, es, Above, At)

\* A quotient x / y is compared by multiplying the boundary with y, a square
\* root by squaring the boundary.
QuotientRoundsTo(p, n, es, x, y) ==
  LET Above(m) == DyadicLess(Times(m, Magnitude(y)), Magnitude(x))
      At(m)    == DyadicEqual(Times(m, Magnitude(y)), Magnitude(x))
      negative == (x[1] < 0) # (y[1] < 0)
  IN  IF x[1] = 0 THEN p = 0
      ELSE RoundsPositive(IF negative THEN Opposite(p, n) ELSE p, n, es, Above, At)
RootRoundsTo(p, n, es, x) ==
  LET Above(m) == DyadicLess(Times(m, m), x)
      At(m)    == DyadicEqual(Times(m, m), x)
  IN  IF x[1] = 0 THEN p = 0 ELSE RoundsPositive(p, n, es, Above, At)

\* The same without values, for every width: the pattern p that is nearest to a
\* point between two patterns, at exact / unit patterns from 0, and an even one in a
\* tie.  With more the point is a little beyond.
Nearest(p, exact, unit, more) ==
  LET d == 2 * (p * unit - exact)
  IN  /\ -unit <= d /\ d <= unit
      /\ d = -unit => ~more /\ p % 2 = 0
      /\ d = unit  => more \/ p % 2 = 0

\* The regime of num/den * 2^e, for den <= num < 2*den, gives two powers of the base,
\* and the pattern moves linearly from the one's to the other's.
RoundsRatio(p, n, es, e, num, den) ==
  LET r     == e \div 2^es
      place == (e % 2^es) * den + (num - den)
      unit  == 2^es * den
      width == PowerPattern(r+1, n) - PowerPattern(r, n)
  IN  /\ p \in 1..(2^(n-1) - 1)
      /\ IF r >= n-2 THEN p = 2^(n-1) - 1
         ELSE IF r <= -(n-1) THEN p = 1
         ELSE Nearest(p, PowerPattern(r, n) * unit + width * place, unit, FALSE)

\* p rounds the number with this sign and magnitude num/den * 2^e, which is at least
\* 2^(e-1) and below 2^(e+2).
RoundsNumber(p, n, es, negative, e, num, den) ==
  LET q == IF negative THEN Opposite(p, n) ELSE p
  IN  IF num >= 2 * den THEN RoundsRatio(q, n, es, e+1, num, 2 * den)
      ELSE IF num >= den THEN RoundsRatio(q, n, es, e, num, den)
      ELSE RoundsRatio(q, n, es, e-1, 2 * num, den)
=============================================================================

-------------------------- MODULE PositDatapathMC --------------------------
EXTENDS PositDatapathCheck

\* All operands on one side; zero, NaR, every positive posit and a few negative
\* ones on the other: the cores treat signs and magnitudes apart.
Left  == Posits
Right == 0..NaR \cup {p \in Posits : p > NaR /\ p % 13 = 0}

\* Factors of every regime, with short and full fractions, zero and NaR.
Factors == {0, 1, 3, 13, 21, 27, 31, 37, 45, 63, NaR, 101}

Ops(inst, modes, S, T, U) ==
  [inst : {inst}, mode : modes, num1 : S, num2 : T, num3 : U]

Requests ==
  Ops("addsub", 0..1, Left, Right, {0}) \cup Ops("mul", {0}, Left, Right, {0})
  \cup Ops("cmp", {0}, Left, Right, {0}) \cup Ops("sqrtdiv", {0}, Left, Right, {0})
  \cup Ops("sqrtdiv", {1}, Left, {0}, {0}) \cup Ops("fma", 0..3, Factors, Factors, Right)

Differences == Ops("addsub", {1}, Right, Right, {0})

\* What the element does first, to leave its registers used: a root with an
\* odd exponent, and a quotient that is negative and does not end.
WarmUps == {Op("sqrtdiv", 1, 41, 0, 0), Op("sqrtdiv", 0, 100, 39, 0)}
=============================================================================

------------------------- MODULE PositFormat_proofs -------------------------
(***************************************************************************)
(* For every posit format: that what the generator makes is a posit, that  *)
(* the comparison of packed posits is the one of the unpacked, that        *)
(* packing undoes unpacking, that packing rounds to nearest, and that a    *)
(* pattern that is nearest by regimes and places is nearest by values;     *)
(* and the fields of products and the exact sums the cores are held to.    *)
(***************************************************************************)
EXTENDS PositCores, PositReference, FiniteSetTheorems, FunctionTheorems,
        WellFoundedInduction, TLAPS

-----------------------------------------------------------------------------
(* Powers of two.  The provers know no law of exponentiation for a         *)
(* variable exponent; the library knows that 2^k counts the subsets of a   *)
(* set of k elements, and the laws follow from that.                       *)

LEMMA PowerCounts ==
  ASSUME NEW k \in Nat
  PROVE  IsFiniteSet(SUBSET (1..k)) /\ Cardinality(SUBSET (1..k)) = 2^k
<1>1. IsFiniteSet(1..k) /\ Cardinality(1..k) = k
  BY FS_Interval
<1> QED
  BY <1>1, FS_SUBSET

LEMMA PowerPositive ==
  ASSUME NEW k \in Nat
  PROVE  2^k \in Nat /\ 2^k > 0
<1>1. 2^k \in Nat
  BY PowerCounts, FS_CardinalityType
<1>2. SUBSET (1..k) # {}
  OBVIOUS
<1>3. 2^k # 0
  BY <1>2, PowerCounts, FS_EmptySet
<1> QED
  BY <1>1, <1>3

LEMMA PowerZero ==
  ASSUME NEW k, k = 0
  PROVE  2^k = 1
<1>1. SUBSET (1..k) = {{}}
  OBVIOUS
<1>2. Cardinality({{}}) = 1
  BY FS_Singleton
<1>3. Cardinality(SUBSET (1..k)) = 2^k
  BY PowerCounts
<1> QED
  BY <1>1, <1>2, <1>3

\* A subset of 1..k+1 is one of 1..k, or becomes one without k+1.
LEMMA PowerNext ==
  ASSUME NEW k \in Nat
  PROVE  2^(k+1) = 2 * 2^k
<1> DEFINE A == SUBSET (1..k)
           B == {T \in SUBSET (1..(k+1)) : k+1 \in T}
           f == [T \in A |-> T \cup {k+1}]
<1>1. k+1 \notin 1..k /\ 1..(k+1) = (1..k) \cup {k+1}
  OBVIOUS
<1>2. SUBSET (1..(k+1)) = A \cup B
  <2>1. \A T \in SUBSET (1..(k+1)) : k+1 \notin T => T \in A
    BY <1>1
  <2>2. A \subseteq SUBSET (1..(k+1))
    BY <1>1
  <2> QED
    BY <2>1, <2>2
<1>3. A \cap B = {}
  BY <1>1
<1>4. ExistsBijection(A, B)
  <2>1. f \in [A -> B]
    BY <1>1
  <2>2. \A S, T \in A : f[S] = f[T] => S = T
    <3> TAKE S, T \in A
    <3> HAVE f[S] = f[T]
    <3>1. S \cup {k+1} = T \cup {k+1} /\ k+1 \notin S /\ k+1 \notin T
      BY <1>1
    <3> QED
      BY <3>1
  <2>3. \A T \in B : \E S \in A : f[S] = T
    <3> TAKE T \in B
    <3>1. T \ {k+1} \in A /\ (T \ {k+1}) \cup {k+1} = T
      BY <1>1
    <3> QED
      BY <3>1
  <2>4. f \in Bijection(A, B)
    BY <2>1, <2>2, <2>3, Fun_IsBij
  <2> QED
    BY <2>4, Fun_ExistsBij
<1>5. IsFiniteSet(A) /\ Cardinality(A) = 2^k
  BY PowerCounts
<1>6. IsFiniteSet(B) /\ Cardinality(B) = 2^k
  BY <1>4, <1>5, FS_Bijection
<1>7. Cardinality(A \cup B) = 2^k + 2^k - Cardinality(A \cap B)
  BY <1>5, <1>6, FS_Union
<1>8. Cardinality(A \cup B) = 2^(k+1)
  <2> DEFINE n == k+1
  <2>1. n \in Nat
    OBVIOUS
  <2> HIDE DEF n
  <2>2. Cardinality(SUBSET (1..n)) = 2^n
    BY <2>1, PowerCounts
  <2>3. Cardinality(SUBSET (1..(k+1))) = 2^(k+1)
    BY <2>2 DEF n
  <2> QED
    BY <1>2, <2>3
<1>9. Cardinality(A \cap B) = 0
  BY <1>3, FS_EmptySet
<1> QED
  BY <1>7, <1>8, <1>9, PowerPositive

LEMMA PowerMonotone ==
  ASSUME NEW i \in Nat, NEW j \in Nat, i <= j
  PROVE  2^i <= 2^j
<1> DEFINE S == SUBSET (1..i)
           T == SUBSET (1..j)
<1>1. S \in SUBSET T
  OBVIOUS
<1>2. IsFiniteSet(T) /\ Cardinality(S) = 2^i /\ Cardinality(T) = 2^j
  BY PowerCounts
<1> HIDE DEF S, T
<1>3. Cardinality(S) <= Cardinality(T)
  BY <1>1, <1>2, FS_Subset
<1> QED
  BY <1>2, <1>3

\* A set of natural numbers with a member has a least one.
LEMMA LeastMember ==
  ASSUME NEW S, S \subseteq Nat, S # {}
  PROVE  \E x \in S : \A y \in S : x <= y
<1> DEFINE R == OpToRel(<, Nat)
<1>1. IsWellFoundedOn(R, Nat)
  BY NatLessThanWellFounded
<1>2. \A x, y \in Nat : ~ (<<y, x>> \in R) => x <= y
  BY DEF OpToRel
<1> HIDE DEF R
<1>3. PICK x \in S : \A y \in S : ~ (<<y, x>> \in R)
  BY <1>1, WFMin
<1>4. \A y \in S : x <= y
  BY <1>2, <1>3
<1> QED
  BY <1>4

-----------------------------------------------------------------------------
(* Bit fields.                                                             *)

\* The low bits of a number are below the power of two of their width.
LEMMA LowRange ==
  ASSUME NEW x \in Int, NEW w \in Nat
  PROVE  Low(x, w) \in 0..(2^w - 1)
<1> DEFINE m == 2^w
<1>1. m \in Nat /\ m > 0
  BY PowerPositive
<1> HIDE DEF m
<1>2. x % m \in 0..(m - 1)
  BY <1>1
<1> QED
  BY <1>2 DEF Low, m

LEMMA LowOfSmall ==
  ASSUME NEW w \in Nat, NEW x \in 0..(2^w - 1)
  PROVE  Low(x, w) = x
<1> DEFINE m == 2^w
<1>1. m \in Nat /\ m > 0
  BY PowerPositive
<1>2. x \in 0..(m - 1)
  OBVIOUS
<1> HIDE DEF m
<1>3. x % m = x
  BY <1>1, <1>2
<1> QED
  BY <1>3 DEF Low, m

\* The priority encoder answers a position.
LEMMA LeadingZerosRange ==
  ASSUME NEW w \in Nat, NEW x \in 1..(2^w - 1)
  PROVE  LeadingZeros(x, w) \in 0..(w-1)
<1>1. x \in Nat /\ x > 0 /\ x < 2^w
  BY PowerPositive
<1>2. PICK j \in {i \in Nat : x < 2^i} : \A i \in {i \in Nat : x < 2^i} : j <= i
  BY <1>1, LeastMember
<1>3. j \in 1..w
  <2>1. j <= w
    BY <1>1, <1>2
  <2>2. j # 0
    BY <1>1, <1>2, PowerZero
  <2> QED
    BY <2>1, <2>2
<1> DEFINE m == 2^(j-1)
<1>4. m \in Nat /\ m > 0 /\ m <= x /\ x < 2 * m
  <2>1. j-1 \in Nat /\ j = (j-1) + 1 /\ ~ (j <= j-1)
    BY <1>3
  <2>2. m \in Nat /\ m > 0 /\ 2^j = 2 * m
    BY <2>1, PowerPositive, PowerNext
  <2>3. ~ (x < m)
    BY <1>2, <2>1
  <2> QED
    BY <1>1, <1>2, <2>2, <2>3
<1> DEFINE k == w - j
<1>5. k \in 0..(w-1) /\ w-1-k = j-1 /\ w-k = j
  BY <1>3
<1>6. Bit(x, w-1-k) = 1 /\ x < 2^(w-k)
  <2>1. (x \div m) % 2 = 1
    <3> HIDE DEF m
    <3>1. x \div m = 1
      BY <1>1, <1>4
    <3> QED
      BY <3>1
  <2> HIDE DEF k
  <2> QED
    BY <1>2, <1>5, <2>1 DEF Bit
<1> HIDE DEF k
<1>7. \E i \in 0..(w-1) : Bit(x, w-1-i) = 1 /\ x < 2^(w-i)
  BY <1>5, <1>6
<1>8. LeadingZeros(x, w) =
        CHOOSE i \in 0..(w-1) : Bit(x, w-1-i) = 1 /\ x < 2^(w-i)
  BY <1>1 DEF LeadingZeros
<1> QED
  BY <1>7, <1>8

-----------------------------------------------------------------------------
(* Operands: what unpacking makes, and the widths it fits.                 *)

\* The widths of the divider and of the fractions.
LEMMA Widths ==
  /\ FracBits \in Nat /\ HiddenBits \in Nat /\ DivBits \in Nat /\ NBits - 1 \in Nat
  /\ HiddenBits = FracBits + 1 /\ DivBits = FracBits + 5
  BY FormatAssumption DEF DivBits, HiddenBits, FracBits, TrailingBits

\* Two powers that follow one another, and a bound of both.
LEMMA PowersUpTo ==
  ASSUME NEW k \in Nat, NEW w \in Nat, k + 2 <= w
  PROVE  /\ 2^k \in Nat /\ 2^(k+1) = 2 * 2^k /\ 2^(k+2) = 2 * 2^(k+1)
         /\ 2^(k+2) <= 2^w
<1>1. 2^k \in Nat /\ 2^(k+1) = 2 * 2^k
  BY PowerPositive, PowerNext
<1> DEFINE h == k + 1
<1>2. h \in Nat /\ h + 1 \in Nat /\ h + 1 <= w /\ h + 1 = k + 2
  OBVIOUS
<1> HIDE DEF h
<1>3. 2^(h+1) = 2 * 2^h /\ 2^(h+1) <= 2^w
  <2>1. 2^(h+1) = 2 * 2^h
    BY <1>2, PowerNext
  <2> DEFINE g == h + 1
  <2> HIDE DEF g
  <2>2. g \in Nat /\ g <= w
    BY <1>2 DEF g
  <2>3. 2^g <= 2^w
    BY <2>2, PowerMonotone
  <2> QED
    BY <2>1, <2>3 DEF g
<1>4. 2^(k+2) = 2 * 2^(k+1) /\ 2^(k+2) <= 2^w
  BY <1>2, <1>3 DEF h
<1> QED
  BY <1>1, <1>4

\* What starts with a hidden bit fits the divider.
LEMMA FractionBelow == 2 * 2^FracBits <= 2^DivBits /\ 2^DivBits \in Nat
<1>1. /\ 2^FracBits \in Nat /\ 2^(FracBits+1) = 2 * 2^FracBits
      /\ 2^(FracBits+2) = 2 * 2^(FracBits+1) /\ 2^(FracBits+2) <= 2^DivBits
  BY Widths, PowersUpTo
<1>2. 2^DivBits \in Nat
  BY Widths, PowerPositive
<1> QED
  BY <1>1, <1>2

\* An unpacked fraction has its leading bit set.
LEMMA ExtractedFraction ==
  ASSUME NEW p \in Posits
  PROVE  Extract(p).fraction \in 2^FracBits .. (2 * 2^FracBits - 1)
<1> DEFINE abs    == IF p >= NaR THEN Negated(p, NBits) ELSE p
           negExp == Bit(abs, NBits-2) = 0
           body   == Low(abs, NBits-1)
           zeros  == IF negExp THEN body ELSE 2^(NBits-1) - 1 - body
           count  == IF zeros = 0 THEN NBits-1 ELSE LeadingZeros(zeros, NBits-1)
           rest   == Low(abs * 2^(count+2), NBits)
<1>1. NBits \in Nat /\ NBits - 1 \in Nat
  BY FormatAssumption, Widths
<1>2. 2^NBits \in Nat /\ p \in Nat
  BY <1>1, PowerPositive DEF Posits
<1>3. abs \in Nat
  <2> DEFINE d == 2^NBits - p
  <2>1. d \in Int
    BY <1>2
  <2> HIDE DEF d
  <2>2. Low(d, NBits) \in 0..(2^NBits - 1)
    BY <1>1, <2>1, LowRange
  <2>3. Negated(p, NBits) \in Nat
    BY <1>2, <2>2 DEF Negated, d
  <2> QED
    BY <1>2, <2>3
<1>4. zeros \in 0..(2^(NBits-1) - 1)
  <2> HIDE DEF abs, negExp
  <2>1. body \in 0..(2^(NBits-1) - 1) /\ 2^(NBits-1) \in Nat
    BY <1>1, <1>3, LowRange, PowerPositive
  <2> QED
    BY <2>1
<1>5. count \in Nat
  <2> HIDE DEF zeros
  <2>1. zeros # 0 => zeros \in 1..(2^(NBits-1) - 1)
    BY <1>4
  <2>2. zeros # 0 => LeadingZeros(zeros, NBits-1) \in 0..(NBits-1-1)
    BY <1>1, <2>1, LeadingZerosRange
  <2> QED
    BY <1>1, <2>2
<1>6. rest \in 0..(2^NBits - 1)
  <2> HIDE DEF count, abs
  <2>1. 2^(count+2) \in Nat
    BY <1>5, PowerPositive
  <2>2. abs * 2^(count+2) \in Int
    BY <1>3, <2>1
  <2> QED
    BY <1>1, <2>2, LowRange
<1>7. Low(rest \div 2^3, FracBits) \in 0..(2^FracBits - 1)
  <2> HIDE DEF rest
  <2>1. rest \div 2^3 \in Int
    BY <1>6, <1>2
  <2> QED
    BY <2>1, Widths, LowRange
<1>8. Extract(p).fraction = 2^FracBits + Low(rest \div 2^3, FracBits)
  BY DEF Extract
<1>9. 2^FracBits \in Nat
  BY Widths, PowerPositive
<1> HIDE DEF rest
<1> QED
  BY <1>7, <1>8, <1>9

LEMMA ZeroIsPosit == 0 \in Posits
<1>1. 2^NBits \in Nat /\ 2^NBits > 0
  BY FormatAssumption, PowerPositive
<1> QED
  BY <1>1 DEF Posits

\* An operand register: unpacked, with its leading bit or as after reset.
OperandType == {u \in Unpacked : u.fraction < 2 * 2^FracBits}

LEMMA PowerAbove ==
  ASSUME NEW n \in Nat
  PROVE  2^n >= n
<1> DEFINE S == {k \in Nat : 2^k < k}
<1> SUFFICES ASSUME ~(2^n >= n) PROVE FALSE
  OBVIOUS
<1>1. 2^n \in Nat
  BY PowerPositive
<1>2. n \in S
  BY <1>1
<1>3. PICK k \in S : \A j \in S : k <= j
  BY <1>2, LeastMember
<1>4. k \in Nat /\ 2^k < k /\ 2^k \in Nat /\ 2^k > 0
  BY <1>3, PowerPositive
<1>5. k - 1 \in Nat /\ k - 1 \notin S /\ (k - 1) + 1 = k
  BY <1>3, <1>4
<1> DEFINE m == 2^(k-1)
<1>6. m \in Nat /\ m > 0 /\ ~(m < k - 1)
  BY <1>5, PowerPositive
<1>7. 2^k = 2 * m
  <2>1. 2^((k-1)+1) = 2 * 2^(k-1)
    BY <1>5, PowerNext
  <2> QED
    BY <1>5, <2>1
<1> HIDE DEF m
<1> QED
  BY <1>4, <1>6, <1>7

LEMMA Log2CeilIsNat ==
  ASSUME NEW n \in Nat
  PROVE  Log2Ceil(n) \in Nat /\ 2^Log2Ceil(n) >= n
<1> DEFINE S == {k \in Nat : 2^k >= n}
<1>1. n \in S
  BY PowerAbove
<1>2. PICK k \in S : \A j \in S : k <= j
  BY <1>1, LeastMember
<1>3. k \in 0..n /\ 2^k >= n
  BY <1>1, <1>2
<1>4. k = 0 \/ 2^(k-1) < n
  <2> SUFFICES ASSUME k # 0 PROVE 2^(k-1) < n
    OBVIOUS
  <2>1. k - 1 \in Nat /\ k - 1 \notin S
    BY <1>2, <1>3
  <2>2. 2^(k-1) \in Nat
    BY <2>1, PowerPositive
  <2> QED
    BY <2>1, <2>2
<1>5. \E i \in 0..n : 2^i >= n /\ (i = 0 \/ 2^(i-1) < n)
  BY <1>3, <1>4
<1>6. Log2Ceil(n) \in 0..n /\ 2^Log2Ceil(n) >= n
  BY <1>5 DEF Log2Ceil
<1> QED
  BY <1>6

\* The widths of the cores.
LEMMA CoreWidths ==
  /\ AdderBits - 1 \in Nat /\ AdderBits - 1 = FracBits + 4
  /\ MulBits \in Nat /\ MulBits - 1 \in Nat /\ HiddenBits - TrailingBits \in Nat
  /\ ExpBits \in Nat /\ NBits \in Nat /\ NBits - 1 \in Nat /\ NBits - 2 \in Nat
  /\ ES \in Nat /\ NBits - ES \in Nat /\ TrailingBits \in Nat
<1>1. /\ NBits \in Nat /\ ES \in Nat /\ NBits > ES + 3
  BY FormatAssumption
<1>2. Log2Ceil(NBits) \in Nat
  BY <1>1, Log2CeilIsNat
<1>3. ExpBits \in Nat
  BY <1>1, <1>2 DEF ExpBits
<1> QED
  BY <1>1, <1>3 DEF AdderBits, MulBits, HiddenBits, FracBits, TrailingBits

LEMMA PowerIsNat ==
  ASSUME NEW k \in Nat
  PROVE  /\ 2^k \in Nat /\ 2^k > 0
         /\ \A x \in Nat : x \div 2^k \in Nat /\ x \div 2^k <= x
         /\ \A x \in Int : x \div 2^k \in Int
<1> DEFINE m == 2^k
<1>1. m \in Nat /\ m > 0
  BY PowerPositive
<1> HIDE DEF m
<1>2. /\ \A x \in Nat : x \div m \in Nat /\ x \div m <= x
      /\ \A x \in Int : x \div m \in Int
  BY <1>1
<1> QED
  BY <1>1, <1>2 DEF m

LEMMA LowIsNat ==
  ASSUME NEW x \in Int, NEW w \in Nat
  PROVE  Low(x, w) \in Nat
<1>1. Low(x, w) \in 0..(2^w - 1)
  BY LowRange
<1> QED
  BY <1>1

LEMMA SignedIsInt ==
  ASSUME NEW x \in Int, NEW w \in Nat
  PROVE  Signed(x, w) \in Int
<1>1. Low(x, w) \in Nat /\ 2^w \in Nat
  BY LowIsNat, PowerPositive
<1> QED
  BY <1>1 DEF Signed

LEMMA LeadingZerosIsNat ==
  ASSUME NEW w \in Nat, w > 0, NEW x \in 0..(2^w - 1)
  PROVE  LeadingZeros(x, w) \in Nat
<1>1. CASE x = 0
  BY <1>1 DEF LeadingZeros
<1>2. CASE x # 0
  <2>1. x \in 1..(2^w - 1)
    BY <1>2
  <2>2. LeadingZeros(x, w) \in 0..(w-1)
    BY <2>1, LeadingZerosRange
  <2> QED
    BY <2>2
<1> QED
  BY <1>1, <1>2

LEMMA NegatedRange ==
  ASSUME NEW x \in Int, NEW w \in Nat
  PROVE  Negated(x, w) \in 0..(2^w - 1) /\ Negated(x, w) \in Nat
<1> DEFINE m == 2^w
<1>1. m \in Nat /\ m > 0
  BY PowerPositive
<1> HIDE DEF m
<1>2. m - x \in Int
  BY <1>1
<1>3. Low(m - x, w) \in 0..(2^w - 1)
  BY <1>2, LowRange
<1>4. Negated(x, w) = Low(m - x, w)
  BY DEF Negated, m
<1>5. Negated(x, w) \in 0..(m - 1)
  BY <1>3, <1>4 DEF m
<1> QED
  BY <1>1, <1>5 DEF m

LEMMA OperandTypes ==
  /\ NoOperand \in OperandType
  /\ \A p \in Posits : Extract(p) \in OperandType
<1>1. 2^FracBits \in Nat /\ 2^FracBits > 0
  BY Widths, PowerPositive
<1>2. NoOperand \in OperandType
  BY <1>1 DEF NoOperand, OperandType, Unpacked
<1>3. ASSUME NEW p \in Posits PROVE Extract(p) \in OperandType
  <2> DEFINE abs    == IF p >= NaR THEN Negated(p, NBits) ELSE p
             negExp == Bit(abs, NBits-2) = 0
             body   == Low(abs, NBits-1)
             zeros  == IF negExp THEN body ELSE 2^(NBits-1) - 1 - body
             count  == IF zeros = 0 THEN NBits-1 ELSE LeadingZeros(zeros, NBits-1)
             regime == IF negExp THEN -count ELSE count - 1
             rest   == Low(abs * 2^(count+2), NBits)
             exponent == regime * 2^ES + rest \div 2^(NBits-ES)
  <2>1. p \in Nat
    BY CoreWidths, PowerPositive DEF Posits
  <2>2. abs \in Nat
    <3>1. p \in Int /\ NBits \in Nat
      BY <2>1, CoreWidths
    <3>2. Negated(p, NBits) \in Nat
      BY <3>1, NegatedRange
    <3> QED
      BY <2>1, <3>2
  <2>3. zeros \in 0..(2^(NBits-1) - 1)
    <3> HIDE DEF abs, negExp
    <3>1. abs \in Int /\ NBits - 1 \in Nat
      BY <2>2, CoreWidths
    <3>2. body \in 0..(2^(NBits-1) - 1)
      BY <3>1, LowRange
    <3> DEFINE m == 2^(NBits-1)
    <3>3. m \in Nat /\ m > 0
      BY <3>1, PowerPositive
    <3> HIDE DEF m, body
    <3>4. body \in 0..(m - 1)
      BY <3>2 DEF m
    <3>5. zeros = IF negExp THEN body ELSE m - 1 - body
      BY DEF m
    <3> HIDE DEF zeros
    <3>6. zeros \in 0..(m - 1)
      BY <3>3, <3>4, <3>5
    <3> QED
      BY <3>6 DEF m
  <2>4. count \in Nat
    <3> HIDE DEF zeros
    <3>1. NBits - 1 > 0
      BY FormatAssumption
    <3> QED
      BY <2>3, <3>1, CoreWidths, LeadingZerosIsNat
  <2>5. regime \in Int
    <3> HIDE DEF count, negExp
    <3> QED
      BY <2>4
  <2>6. rest \in Nat
    <3> HIDE DEF count, abs
    <3>1. abs * 2^(count+2) \in Int
      BY <2>2, <2>4, PowerPositive
    <3> QED
      BY <3>1, CoreWidths, LowIsNat
  <2>7. exponent \in Int
    <3> HIDE DEF regime, rest
    <3>1. regime * 2^ES \in Int
      BY <2>5, CoreWidths, PowerPositive
    <3>2. rest \div 2^(NBits-ES) \in Int
      BY <2>6, CoreWidths, PowerIsNat
    <3> QED
      BY <3>1, <3>2
  <2>8. /\ Extract(p).exponent = exponent
        /\ Extract(p).sign = (p >= NaR) /\ Extract(p).isZero = (p = 0)
        /\ Extract(p).isNaR = (p = NaR)
        /\ Extract(p) = [sign |-> Extract(p).sign, exponent |-> Extract(p).exponent,
                         fraction |-> Extract(p).fraction,
                         isZero |-> Extract(p).isZero, isNaR |-> Extract(p).isNaR]
    BY DEF Extract
  <2> HIDE DEF exponent
  <2>9. Extract(p).fraction \in Nat /\ Extract(p).fraction < 2 * 2^FracBits
    BY <1>1, ExtractedFraction
  <2>10. NaR \in Int /\ (p >= NaR) \in BOOLEAN
    BY CoreWidths, PowerPositive DEF NaR
  <2>11. Extract(p) \in Unpacked
    BY <2>7, <2>8, <2>9, <2>10 DEF Unpacked
  <2> QED
    BY <2>9, <2>11 DEF OperandType
<1> QED
  BY <1>2, <1>3

LEMMA QuarterOf ==
  ASSUME NEW s \in Nat, NEW k \in Nat, s <= 4 * k + 3
  PROVE  s \div 4 \in 0..k
OBVIOUS

\* A shift by the regime never goes the wrong way.
LEMMA RegimeOffset ==
  ASSUME NEW e \in Int, NEW m \in Nat, m > 0
  PROVE  /\ e < 0 => -(e \div m) \in Nat \ {0}
         /\ e >= 0 => e \div m \in Nat
<1>1. ASSUME e >= 0 PROVE e \div m \in Nat
  BY <1>1
<1>2. ASSUME e < 0 PROVE -(e \div m) \in Nat \ {0}
  <2>1. e \div m \in Int /\ e \div m < 0
    BY <1>2
  <2> DEFINE f == e \div m
  <2>2. f \in Int /\ f < 0
    BY <2>1
  <2> HIDE DEF f
  <2>3. -f \in Nat \ {0}
    BY <2>2
  <2> QED
    BY <2>3 DEF f
<1> QED
  BY <1>1, <1>2

LEMMA GenerateType ==
  ASSUME NEW u \in Unpacked, NEW trailing \in Nat, NEW stickyIn \in BOOLEAN
  PROVE  Generate(u, trailing, stickyIn) \in Posits
<1> DEFINE negExp == u.exponent < 0
           floor  == u.exponent \div 2^ES
           regime == IF negExp THEN -floor ELSE floor
           offset == IF negExp /\ regime # NBits-1 THEN regime - 1 ELSE regime
           word   == (IF negExp THEN 1 ELSE 2) * 2^(NBits-1)
                       + Low(u.exponent, ES) * 2^(FracBits+2)
                       + Low(u.fraction, FracBits) * 2^2 + trailing
           shifted  == Low(Signed(word, NBits+1) \div 2^offset, NBits+1)
           unrounded == shifted \div 2^2
           sticky    == stickyIn \/ Low(word, Min2(offset, NBits-2)) # 0
           up        == /\ unrounded # 2^(NBits-1) - 1
                        /\ RoundsUp(Bit(shifted, 2), Bit(shifted, 1), Bit(shifted, 0), sticky)
           rounded   == unrounded + IF up THEN 1 ELSE 0
           magnitude == IF rounded = 0 THEN 1 ELSE rounded
<1>1. Generate(u, trailing, stickyIn) =
        IF u.isNaR THEN NaR
        ELSE IF u.fraction = 0 \/ u.isZero THEN 0
        ELSE IF u.sign THEN Negated(magnitude, NBits) ELSE magnitude
  BY DEF Generate
<1>2. u.exponent \in Int /\ u.fraction \in Nat
  BY DEF Unpacked
<1> DEFINE half == 2^(NBits-1)
<1>3. half \in Nat /\ half > 1 /\ 2^NBits = 2 * half /\ 2^(NBits+1) = 4 * half
  <2>1. NBits - 2 \in Nat /\ NBits - 1 \in Nat /\ NBits \in Nat
        /\ (NBits - 2) + 1 = NBits - 1 /\ (NBits - 1) + 1 = NBits
    BY CoreWidths
  <2>2. 2^(NBits-2) \in Nat /\ 2^(NBits-2) > 0
    BY <2>1, PowerPositive
  <2>3. 2^(NBits-1) = 2 * 2^(NBits-2)
    <3>1. 2^((NBits-2)+1) = 2 * 2^(NBits-2)
      BY <2>1, PowerNext
    <3> QED
      BY <2>1, <3>1
  <2>4. 2^NBits = 2 * 2^(NBits-1)
    <3>1. 2^((NBits-1)+1) = 2 * 2^(NBits-1)
      BY <2>1, PowerNext
    <3> QED
      BY <2>1, <3>1
  <2>5. 2^(NBits+1) = 2 * 2^NBits
    BY <2>1, PowerNext
  <2> DEFINE quarter == 2^(NBits-2)
  <2>6. quarter \in Nat /\ quarter > 0 /\ half = 2 * quarter
    BY <2>2, <2>3
  <2>7. 2^NBits = 2 * half /\ 2^(NBits+1) = 2 * 2^NBits
    BY <2>4, <2>5
  <2> HIDE DEF quarter, half
  <2> QED
    BY <2>6, <2>7
<1>4. offset \in Nat
  <2> DEFINE base == 2^ES
  <2>1. base \in Nat /\ base > 0
    BY CoreWidths, PowerPositive
  <2>2. floor = u.exponent \div base
    OBVIOUS
  <2> HIDE DEF base, floor
  <2>3. (negExp => -floor \in Nat \ {0}) /\ (~negExp => floor \in Nat)
    BY <1>2, <2>1, <2>2, RegimeOffset
  <2>4. NBits - 1 \in Nat
    BY CoreWidths
  <2>5. (negExp => regime \in Nat \ {0}) /\ (~negExp => regime \in Nat)
    BY <2>3
  <2> HIDE DEF regime, negExp
  <2> QED
    BY <2>4, <2>5
<1>5. word \in Int
  <2>1. /\ Low(u.exponent, ES) \in Nat /\ Low(u.fraction, FracBits) \in Nat
        /\ 2^(FracBits+2) \in Nat /\ 2^2 = 4
    <3>1. u.fraction \in Int /\ ES \in Nat /\ FracBits \in Nat /\ FracBits + 2 \in Nat
      BY <1>2, CoreWidths, Widths
    <3>2. Low(u.exponent, ES) \in Nat /\ Low(u.fraction, FracBits) \in Nat
      BY <1>2, <3>1, LowIsNat
    <3>3. 2^(FracBits+2) \in Nat
      BY <3>1, PowerPositive
    <3>4. 2^2 = 4
      OBVIOUS
    <3> QED
      BY <3>2, <3>3, <3>4
  <2> DEFINE a == Low(u.exponent, ES)
             b == Low(u.fraction, FracBits)
             p == 2^(FracBits+2)
  <2>2. a \in Nat /\ b \in Nat /\ p \in Nat
    BY <2>1
  <2>3. word = (IF negExp THEN 1 ELSE 2) * half + a * p + b * 2^2 + trailing
    OBVIOUS
  <2> HIDE DEF a, b, p, word, half, negExp
  <2>4. a * p \in Nat /\ b * 2^2 \in Nat
    BY <2>1, <2>2
  <2>5. (IF negExp THEN 1 ELSE 2) * half \in Nat
    BY <1>3
  <2> QED
    BY <2>3, <2>4, <2>5
<1> HIDE DEF offset, word
<1>6. shifted \in 0..(4 * half - 1)
  <2>1. NBits + 1 \in Nat
    BY CoreWidths
  <2>2. Signed(word, NBits+1) \in Int
    BY <1>5, <2>1, SignedIsInt
  <2>3. Signed(word, NBits+1) \div 2^offset \in Int
    BY <1>4, <2>2, PowerIsNat
  <2>4. shifted \in 0..(2^(NBits+1) - 1)
    BY <2>1, <2>3, LowRange
  <2> HIDE DEF shifted, half
  <2> QED
    BY <1>3, <2>4
<1> HIDE DEF shifted
<1>7. unrounded \in 0..(half - 1)
  <2> HIDE DEF half
  <2>1. shifted \in Nat /\ half - 1 \in Nat /\ shifted <= 4 * (half - 1) + 3
    BY <1>3, <1>6
  <2>2. shifted \div 4 \in 0..(half - 1)
    BY <2>1, QuarterOf
  <2>3. unrounded = shifted \div 4
    <3>1. 2^2 = 4
      OBVIOUS
    <3> QED
      BY <3>1
  <2> QED
    BY <2>2, <2>3
<1>8. up => unrounded # half - 1
  OBVIOUS
<1> HIDE DEF unrounded, up
<1>9. magnitude \in 0..(half - 1)
  <2> HIDE DEF half
  <2>1. rounded \in 0..(half - 1)
    BY <1>3, <1>7, <1>8
  <2> HIDE DEF rounded
  <2> QED
    BY <1>3, <2>1
<1>10. Negated(magnitude, NBits) \in 0..(2^NBits - 1)
  <2>1. magnitude \in Int /\ NBits \in Nat
    <3> HIDE DEF half, magnitude
    <3> QED
      BY <1>3, <1>9, CoreWidths
  <2> QED
    BY <2>1, NegatedRange
<1>11. NaR \in Posits /\ 0 \in Posits /\ magnitude \in Posits
  <2>1. NaR = half /\ Posits = 0..(2^NBits - 1)
    BY DEF NaR, Posits
  <2> HIDE DEF half, magnitude
  <2> QED
    BY <1>3, <1>9, <2>1
<1>12. Negated(magnitude, NBits) \in Posits
  BY <1>10 DEF Posits
<1> HIDE DEF magnitude
<1> QED
  BY <1>1, <1>11, <1>12

-----------------------------------------------------------------------------
(* The codec.  A positive posit is a run of equal bits, the bit that ends  *)
(* it, and what stands behind: its regime and its place in the regime.     *)

LEMMA PowerSum ==
  ASSUME NEW a \in Nat, NEW b \in Nat
  PROVE  2^(a+b) = 2^a * 2^b
<1> DEFINE S == {i \in Nat : 2^(a+i) # 2^a * 2^i}
<1> SUFFICES ASSUME b \in S PROVE FALSE
  OBVIOUS
<1>1. PICK k \in S : \A j \in S : k <= j
  BY LeastMember
<1>2. k \in Nat /\ 2^(a+k) # 2^a * 2^k
  BY <1>1
<1>3. CASE k = 0
  <2>1. a + k = a /\ 2^k = 1 /\ 2^a \in Nat
    BY <1>3, PowerZero, PowerPositive
  <2>2. 2^(a+k) = 2^a
    BY <2>1
  <2> DEFINE m == 2^a
  <2>3. m * 1 = m
    BY <2>1
  <2> QED
    BY <1>2, <2>1, <2>2, <2>3
<1>4. CASE k # 0
  <2> DEFINE j == k - 1
  <2>1. j \in Nat /\ j + 1 = k /\ ~(k <= j)
    BY <1>2, <1>4
  <2>2. 2^(a+j) = 2^a * 2^j
    BY <1>1, <2>1
  <2>3. 2^k = 2 * 2^j
    BY <2>1, PowerNext
  <2>4. 2^(a+k) = 2 * 2^(a+j)
    <3>1. a + j \in Nat /\ (a + j) + 1 = a + k
      BY <2>1
    <3> QED
      BY <3>1, PowerNext
  <2> DEFINE l == 2^a  m == 2^j
  <2>5. l \in Nat /\ m \in Nat
    BY <2>1, PowerPositive
  <2> HIDE DEF l, m, j
  <2>6. 2 * (l * m) = l * (2 * m)
    BY <2>5
  <2> QED
    BY <1>2, <2>2, <2>3, <2>4, <2>6 DEF l, m
<1> QED
  BY <1>3, <1>4

\* Quotient and remainder of any integer.
LEMMA DivIs ==
  ASSUME NEW m \in Nat, m > 0, NEW t \in Int, NEW s \in 0..(m-1)
  PROVE  (t * m + s) \div m = t /\ (t * m + s) % m = s
<1> DEFINE x == t * m + s
           k == x \div m
           y == x % m
<1>1. x \in Int /\ k \in Int /\ y \in 0..(m-1) /\ x = m * k + y
  OBVIOUS
<1>2. x = m * t + s
  OBVIOUS
<1> HIDE DEF x, k, y
<1>3. ~(k < t)
  <2> SUFFICES ASSUME k + 1 <= t PROVE FALSE
    BY <1>1
  <2>1. m * (k + 1) <= m * t
    BY <1>1
  <2>2. m * (k + 1) = m * k + m
    BY <1>1
  <2> QED
    BY <1>1, <1>2, <2>1, <2>2
<1>4. ~(t < k)
  <2> SUFFICES ASSUME t + 1 <= k PROVE FALSE
    BY <1>1
  <2>1. m * (t + 1) <= m * k
    BY <1>1
  <2>2. m * (t + 1) = m * t + m
    OBVIOUS
  <2> QED
    BY <1>1, <1>2, <2>1, <2>2
<1>5. k = t
  BY <1>1, <1>3, <1>4
<1>6. y = s
  BY <1>1, <1>2, <1>5
<1> QED
  BY <1>5, <1>6 DEF x, k, y

\* The priority encoder answers the place of the first bit that is set.
LEMMA LeadingOne ==
  ASSUME NEW w \in Nat, NEW x \in 1..(2^w - 1)
  PROVE  \E k \in 0..(w-1) :
           /\ LeadingZeros(x, w) = k
           /\ 2^(w-1-k) <= x /\ x < 2 * 2^(w-1-k)
<1>1. x \in Nat /\ x > 0 /\ x < 2^w
  BY PowerPositive
<1>2. PICK j \in {i \in Nat : x < 2^i} : \A i \in {i \in Nat : x < 2^i} : j <= i
  BY <1>1, LeastMember
<1>3. j \in 1..w
  <2>1. j <= w
    BY <1>1, <1>2
  <2>2. j # 0
    BY <1>1, <1>2, PowerZero
  <2> QED
    BY <2>1, <2>2
<1> DEFINE Place(i) == Bit(x, w-1-i) = 1 /\ x < 2^(w-i)
<1>4. \E i \in 0..(w-1) : Place(i)
  <2> DEFINE m == 2^(j-1)
  <2>1. j-1 \in Nat /\ j = (j-1) + 1 /\ ~ (j <= j-1)
    BY <1>3
  <2>2. m \in Nat /\ m > 0 /\ 2^j = 2 * m
    BY <2>1, PowerPositive, PowerNext
  <2>3. ~ (x < m)
    BY <1>2, <2>1
  <2>4. (x \div m) % 2 = 1
    <3> HIDE DEF m
    <3>1. x < 2 * m
      BY <1>2, <2>2
    <3>2. x \div m = 1
      BY <1>1, <2>2, <2>3, <3>1
    <3> QED
      BY <3>2
  <2> DEFINE k == w - j
  <2>5. k \in 0..(w-1) /\ w-1-k = j-1 /\ w-k = j
    BY <1>3
  <2> HIDE DEF k
  <2>6. Place(k)
    BY <1>2, <2>4, <2>5 DEF Bit
  <2> QED
    BY <2>5, <2>6
<1>5. LeadingZeros(x, w) = CHOOSE i \in 0..(w-1) : Place(i)
  BY <1>1 DEF LeadingZeros
<1> DEFINE k == LeadingZeros(x, w)
<1>6. k \in 0..(w-1) /\ Place(k)
  BY <1>4, <1>5
<1> HIDE DEF k
<1>7. 2^(w-1-k) <= x /\ x < 2 * 2^(w-1-k)
  <2>1. w-1-k \in Nat /\ (w-1-k) + 1 = w-k
    BY <1>6
  <2> DEFINE m == 2^(w-1-k)
  <2>2. m \in Nat /\ m > 0
    BY <2>1, PowerPositive
  <2>3. 2^(w-k) = 2 * m
    <3>1. 2^((w-1-k)+1) = 2 * m
      BY <2>1, PowerNext
    <3> QED
      BY <2>1, <3>1
  <2>4. (x \div m) % 2 = 1
    BY <1>6 DEF Bit
  <2> HIDE DEF m
  <2>5. m <= x
    <3> SUFFICES ASSUME x < m PROVE FALSE
      BY <1>1, <2>2
    <3>1. x \div m = 0
      BY <1>1, <2>2
    <3> QED
      BY <2>4, <3>1
  <2> QED
    BY <1>6, <2>3, <2>5 DEF m
<1> QED
  BY <1>6, <1>7 DEF k

\* A positive posit p has c equal bits, zeros if low is true, then the bit that
\* ends them, then k bits which are t.
Run(p, low, c, k, t) ==
  /\ low \in BOOLEAN /\ c \in Nat \ {0} /\ k \in Nat /\ c + k = NBits - 2
  /\ t \in 0..(2^k - 1)
  /\ p = IF low THEN 2^k + t ELSE 2^(NBits-1) - 2 * 2^k + t

\* The run without an end.
Largest == 2^(NBits-1) - 1

\* The powers that the codec shifts by, for a run of c bits: Q for the bits
\* behind it, D for the shift that moves them to their place.
Powers(c, k, base, M, Q, D) ==
  /\ base \in Nat \ {0} /\ M \in Nat \ {0} /\ Q \in Nat \ {0} /\ D \in Nat \ {0}
  /\ base = 2^ES /\ M = 2^FracBits /\ Q = 2^k /\ D = 2^(c-1)
  /\ D * Q = base * M
  /\ 2^(c+2) = 8 * D /\ 2^(NBits-ES) = 8 * M
  /\ 2^(NBits-2) = 2 * (D * Q) /\ 2^(NBits-1) = 4 * (D * Q) /\ 2^NBits = 8 * (D * Q)

LEMMA EightTimes ==
  ASSUME NEW n \in Nat
  PROVE  2^(n+3) = 8 * 2^n /\ 2^(n+2) = 4 * 2^n /\ 2^(n+1) = 2 * 2^n
<1>1. n + 1 \in Nat /\ n + 2 \in Nat /\ (n+1)+1 = n+2 /\ (n+2)+1 = n+3
  OBVIOUS
<1>2. /\ 2^(n+1) = 2 * 2^n /\ 2^((n+1)+1) = 2 * 2^(n+1)
      /\ 2^((n+2)+1) = 2 * 2^(n+2) /\ 2^n \in Nat
  BY <1>1, PowerNext, PowerPositive
<1>3. 2^(n+2) = 2 * 2^(n+1) /\ 2^(n+3) = 2 * 2^(n+2)
  BY <1>1, <1>2
<1> QED
  BY <1>2, <1>3

LEMMA RunPowers ==
  ASSUME NEW c \in Nat \ {0}, NEW k \in Nat, c + k = NBits - 2
  PROVE  \E base, M, Q, D : Powers(c, k, base, M, Q, D)
<1> DEFINE base == 2^ES  M == 2^FracBits  Q == 2^k  D == 2^(c-1)
<1>1. /\ NBits \in Nat /\ ES \in Nat /\ FracBits \in Nat /\ c - 1 \in Nat
      /\ (c-1) + k = ES + FracBits
      /\ NBits - 2 = (ES + FracBits) + 1 /\ NBits - 1 = (ES + FracBits) + 2
      /\ NBits = (ES + FracBits) + 3 /\ NBits - ES = FracBits + 3
      /\ c + 2 = (c-1) + 3
  BY FormatAssumption DEF FracBits
<1>2. /\ base \in Nat /\ base > 0 /\ M \in Nat /\ M > 0
      /\ Q \in Nat /\ Q > 0 /\ D \in Nat /\ D > 0
  BY <1>1, PowerPositive
<1>3. 2^((c-1) + k) = D * Q /\ 2^(ES + FracBits) = base * M
  BY <1>1, PowerSum
<1>4. D * Q = base * M
  BY <1>1, <1>3
<1>5. 2^((c-1)+3) = 8 * D /\ 2^(FracBits+3) = 8 * M
  BY <1>1, EightTimes
<1>6. /\ 2^((ES+FracBits)+1) = 2 * 2^(ES+FracBits)
      /\ 2^((ES+FracBits)+2) = 4 * 2^(ES+FracBits)
      /\ 2^((ES+FracBits)+3) = 8 * 2^(ES+FracBits)
  <2>1. ES + FracBits \in Nat
    BY <1>1
  <2> QED
    BY <2>1, EightTimes
<1>7. 2^(c+2) = 8 * D /\ 2^(NBits-ES) = 8 * M
  BY <1>1, <1>5
<1>8. /\ 2^(NBits-2) = 2 * (D * Q) /\ 2^(NBits-1) = 4 * (D * Q)
      /\ 2^NBits = 8 * (D * Q)
  BY <1>1, <1>3, <1>4, <1>6
<1>9. Powers(c, k, base, M, Q, D)
  BY <1>2, <1>4, <1>7, <1>8 DEF Powers
<1> QED
  BY <1>9

\* Every positive posit but the largest has a run with an end; the extractor's
\* leading-zero count finds its length.
LEMMA RunExists ==
  ASSUME NEW p \in 1..(Largest - 1)
  PROVE  \E low, c, k, t :
           /\ Run(p, low, c, k, t)
           /\ low <=> p < 2^(NBits-2)
           /\ c = LeadingZeros(IF low THEN p ELSE Largest - p, NBits-1)
<1> DEFINE q == 2^(NBits-2)  w == NBits - 1
           low == p < q
           x   == IF low THEN p ELSE Largest - p
<1>1. /\ q \in Nat /\ q > 0 /\ Largest = 2 * q - 1 /\ w \in Nat /\ w > 0 /\ 2^w = 2 * q
  <2>1. NBits - 2 \in Nat /\ (NBits-2) + 1 = NBits - 1 /\ NBits - 1 \in Nat /\ NBits - 1 > 0
    BY FormatAssumption
  <2>2. q \in Nat /\ q > 0 /\ 2^((NBits-2)+1) = 2 * q
    BY <2>1, PowerPositive, PowerNext
  <2> QED
    BY <2>1, <2>2 DEF Largest
<1>2. p \in Nat /\ p >= 1 /\ p <= 2 * q - 2
  BY <1>1
<1> HIDE DEF q
<1>3. x \in 1..(q - 1)
  BY <1>1, <1>2
<1> HIDE DEF x
<1>4. x \in 1..(2^w - 1)
  BY <1>1, <1>3
<1> HIDE DEF w
<1>5. PICK c \in 0..(w-1) : /\ LeadingZeros(x, w) = c
                            /\ 2^(w-1-c) <= x /\ x < 2 * 2^(w-1-c)
  BY <1>1, <1>4, LeadingOne
<1> DEFINE k == w - 1 - c
<1>6. k \in Nat /\ c \in Nat /\ c + k = NBits - 2 /\ w = NBits - 1
  <2>1. w = NBits - 1 /\ NBits \in Int
    BY FormatAssumption DEF w
  <2> QED
    BY <1>1, <2>1
<1> DEFINE Q == 2^k
<1>7. Q \in Nat /\ Q > 0 /\ Q <= x /\ x < 2 * Q
  BY <1>5, <1>6, PowerPositive
<1>8. c # 0
  <2> SUFFICES ASSUME c = 0 PROVE FALSE
    OBVIOUS
  <2>1. k = NBits - 2
    BY <1>6
  <2>2. Q = q
    BY <2>1 DEF q
  <2> HIDE DEF Q
  <2> QED
    BY <1>1, <1>3, <1>7, <2>2
<1> DEFINE u == IF low THEN p - Q ELSE p - (2 * q - 2 * Q)
<1>9. u \in 0..(Q - 1) /\ p = IF low THEN Q + u ELSE 2 * q - 2 * Q + u
  <2> HIDE DEF Q
  <2>1. CASE low
    <3>1. x = p
      BY <2>1 DEF x
    <3> HIDE DEF low
    <3> QED
      BY <1>2, <1>7, <2>1, <3>1
  <2>2. CASE ~low
    <3>1. x = 2 * q - 1 - p
      BY <1>1, <2>2 DEF x
    <3> HIDE DEF low
    <3> QED
      BY <1>1, <1>2, <1>7, <2>2, <3>1
  <2> QED
    BY <2>1, <2>2
<1>10. 2^(NBits-1) = 2 * q
  BY <1>1, <1>6
<1>11. low \in BOOLEAN
  OBVIOUS
<1> HIDE DEF u, low
<1>12. Run(p, low, c, k, u)
  BY <1>6, <1>8, <1>9, <1>10, <1>11 DEF Run
<1> QED
  BY <1>5, <1>6, <1>12 DEF x, low, q

\* Where an operand stands: its regime, and its place inside the regime.
StandsAt(x, regime, place) ==
  /\ x.exponent = regime * 2^ES + place \div 2^FracBits
  /\ x.fraction = 2^FracBits + (place % 2^FracBits)

\* A field of the remaining bits, whatever stands below it.
LEMMA EighthsDivide ==
  ASSUME NEW y \in Nat, NEW m \in Nat, m > 0
  PROVE  (8 * y) \div (8 * m) = y \div m /\ (8 * y) \div 8 = y
<1> DEFINE q == y \div m  s == y % m
<1>1. q \in Int /\ s \in 0..(m-1) /\ y = m * q + s
  OBVIOUS
<1> HIDE DEF q, s
<1> DEFINE n == 8 * m  r == 8 * s
<1>2. n \in Nat /\ n > 0 /\ r \in 0..(n-1)
  BY <1>1
<1>3. 8 * y = q * n + r
  <2>1. q * (8 * m) = 8 * (m * q)
    BY <1>1
  <2> QED
    BY <1>1, <2>1
<1>4. (q * n + r) \div n = q
  <2> HIDE DEF n, r
  <2> QED
    BY <1>1, <1>2, DivIs
<1>5. (8 * y) \div (8 * m) = q
  BY <1>3, <1>4
<1>6. (y * 8 + 0) \div 8 = y
  <2>1. y \in Int /\ 8 \in Nat /\ 8 > 0 /\ 0 \in 0..(8-1)
    OBVIOUS
  <2> QED
    BY <2>1, DivIs
<1>7. 8 * y = y * 8 + 0
  OBVIOUS
<1> QED
  BY <1>5, <1>6, <1>7 DEF q

\* What is left of a run that is shifted out.
LEMMA RunShiftedOut ==
  ASSUME NEW p, NEW low, NEW c, NEW k, NEW t, NEW base, NEW M, NEW Q, NEW D,
         Run(p, low, c, k, t), Powers(c, k, base, M, Q, D)
  PROVE  /\ Low(p * 2^(c+2), NBits) = 8 * (t * D)
         /\ t * D \in 0..(D * Q - 1)
         /\ t \in Nat /\ t < Q
<1>1. /\ Q \in Nat /\ Q > 0 /\ D \in Nat /\ D > 0
      /\ 2^(c+2) = 8 * D /\ 2^NBits = 8 * (D * Q) /\ 2^(NBits-1) = 4 * (D * Q)
      /\ Q = 2^k
  BY DEF Powers
<1>2. /\ low \in BOOLEAN /\ t \in 0..(Q - 1)
      /\ p = IF low THEN Q + t ELSE 4 * (D * Q) - 2 * Q + t
  BY <1>1 DEF Run
<1> DEFINE W == D * Q  y == t * D
<1>3. W \in Nat /\ W > 0 /\ y \in Nat /\ y < W
  <2>1. t \in Nat /\ t + 1 <= Q
    BY <1>1, <1>2
  <2>2. D * (t + 1) <= D * Q
    BY <1>1, <2>1
  <2>3. D * (t + 1) = t * D + D
    BY <1>1, <2>1
  <2>4. D * t \in Nat /\ t * D = D * t /\ D * Q \in Nat
    BY <1>1, <2>1
  <2> QED
    BY <1>1, <2>2, <2>3, <2>4
<1> DEFINE n == IF low THEN 1 ELSE 4 * D - 2
<1>4. p * (8 * D) = n * (8 * W) + 8 * y
  <2>1. CASE low
    <3>1. (Q + t) * (8 * D) = 8 * (D * Q) + 8 * (t * D)
      BY <1>1, <1>2
    <3>2. p = Q + t /\ n = 1
      BY <1>2, <2>1
    <3> HIDE DEF n, W, y
    <3>3. n * (8 * W) = 8 * W
      BY <1>3, <3>2
    <3> QED
      BY <3>1, <3>2, <3>3 DEF W, y
  <2>2. CASE ~low
    <3>1. p = 4 * W - 2 * Q + t /\ n = 4 * D - 2
      BY <1>2, <2>2
    <3>2. (4 * W - 2 * Q + t) * (8 * D) = 4 * W * (8 * D) - 2 * Q * (8 * D) + t * (8 * D)
      <4> HIDE DEF W
      <4> QED
        BY <1>1, <1>2, <1>3
    <3>3. /\ 4 * W * (8 * D) = 4 * D * (8 * W)
          /\ 2 * Q * (8 * D) = 2 * (8 * W)
          /\ t * (8 * D) = 8 * y
      BY <1>1, <1>2
    <3>4. (4 * D - 2) * (8 * W) = 4 * D * (8 * W) - 2 * (8 * W)
      <4> HIDE DEF W
      <4> QED
        BY <1>1, <1>3
    <3> HIDE DEF n, W, y
    <3> QED
      BY <3>1, <3>2, <3>3, <3>4
  <2> QED
    BY <1>2, <2>1, <2>2
<1>5. n \in Int
  <2> QED
    BY <1>1
<1> HIDE DEF n, W, y
<1>6. (n * (8 * W) + 8 * y) % (8 * W) = 8 * y
  <2> DEFINE m == 8 * W  s == 8 * y
  <2>1. m \in Nat /\ m > 0 /\ s \in 0..(m-1)
    BY <1>3
  <2> HIDE DEF m, s
  <2>2. (n * m + s) % m = s
    BY <1>5, <2>1, DivIs
  <2> QED
    BY <2>2 DEF m, s
<1>7. Low(p * 2^(c+2), NBits) = 8 * y
  BY <1>1, <1>4, <1>6 DEF Low, W
<1>8. t \in Nat /\ t < Q
  BY <1>1, <1>2
<1>9. y \in 0..(W - 1)
  BY <1>3
<1> QED
  BY <1>7, <1>8, <1>9 DEF W, y

\* The first bit behind the sign of a positive posit.
LEMMA FirstBit ==
  ASSUME NEW m \in Nat, m > 0, NEW p \in 0..(2 * m - 1)
  PROVE  (p \div m) % 2 = 0 <=> p < m
<1>1. CASE p < m
  <2>1. p \div m = 0
    BY <1>1
  <2> QED
    BY <1>1, <2>1
<1>2. CASE ~(p < m)
  <2>1. p \div m = 1
    BY <1>2
  <2> QED
    BY <1>2, <2>1
<1> QED
  BY <1>1, <1>2

LEMMA ExtractRun ==
  ASSUME NEW p \in 1..(Largest - 1)
  PROVE  \E low, c, k, t :
           /\ Run(p, low, c, k, t)
           /\ StandsAt(Extract(p), IF low THEN -c ELSE c - 1, t * 2^(c-1))
<1>1. PICK low, c, k, t :
        /\ Run(p, low, c, k, t)
        /\ low <=> p < 2^(NBits-2)
        /\ c = LeadingZeros(IF low THEN p ELSE Largest - p, NBits-1)
  BY RunExists
<1>2. c \in Nat \ {0} /\ k \in Nat /\ c + k = NBits - 2 /\ low \in BOOLEAN
  BY <1>1 DEF Run
<1>3. PICK base, M, Q, D : Powers(c, k, base, M, Q, D)
  BY <1>2, RunPowers
<1> DEFINE W == D * Q  y == t * D  place == t * 2^(c-1)
<1>4. /\ base \in Nat /\ M \in Nat /\ M > 0 /\ base = 2^ES /\ M = 2^FracBits /\ D = 2^(c-1)
      /\ D \in Nat /\ Q \in Nat /\ W = base * M
      /\ 2^(NBits-ES) = 8 * M
      /\ 2^(NBits-2) = 2 * W /\ 2^(NBits-1) = 4 * W /\ 2^NBits = 8 * W
  BY <1>3 DEF Powers
<1>5. Low(p * 2^(c+2), NBits) = 8 * y /\ y \in 0..(W - 1)
  BY <1>1, <1>3, RunShiftedOut
<1>6. W \in Nat /\ W > 0 /\ y \in Nat
  <2>1. W \in Nat
    BY <1>4
  <2> HIDE DEF W, y
  <2> QED
    BY <1>5, <2>1
<1> HIDE DEF W, y
<1>7. p \in Nat /\ p >= 1 /\ p < 4 * W - 1 /\ Largest = 4 * W - 1
  BY <1>4, <1>6 DEF Largest
<1> DEFINE abs    == IF p >= NaR THEN Negated(p, NBits) ELSE p
           negExp == Bit(abs, NBits-2) = 0
           body   == Low(abs, NBits-1)
           zeros  == IF negExp THEN body ELSE 2^(NBits-1) - 1 - body
           count  == IF zeros = 0 THEN NBits-1 ELSE LeadingZeros(zeros, NBits-1)
           regime == IF negExp THEN -count ELSE count - 1
           rest   == Low(abs * 2^(count+2), NBits)
<1>8. abs = p
  BY <1>4, <1>6, <1>7 DEF NaR
<1> HIDE DEF abs
<1>9. negExp <=> low
  <2>1. 2 * W \in Nat /\ 2 * W > 0 /\ p \in 0..(2 * (2 * W) - 1)
    BY <1>6, <1>7
  <2>2. (p \div (2 * W)) % 2 = 0 <=> p < 2 * W
    BY <2>1, FirstBit
  <2> QED
    BY <1>1, <1>4, <1>8, <2>2 DEF Bit
<1>10. body = p
  <2>1. NBits - 1 \in Nat /\ p \in 0..(2^(NBits-1) - 1)
    BY <1>4, <1>6, <1>7, CoreWidths
  <2> QED
    BY <1>8, <2>1, LowOfSmall
<1> HIDE DEF negExp, body
<1>11. count = c
  <2>1. zeros = IF low THEN p ELSE Largest - p
    BY <1>9, <1>10 DEF Largest
  <2> HIDE DEF zeros
  <2>2. zeros # 0
    BY <1>6, <1>7, <2>1
  <2> QED
    BY <1>1, <2>1, <2>2
<1> HIDE DEF count
<1>12. regime = (IF low THEN -c ELSE c - 1)
  BY <1>2, <1>9, <1>11
<1>13. rest = 8 * y
  BY <1>5, <1>8, <1>11
<1> HIDE DEF regime, rest
<1>14. /\ Extract(p).exponent = regime * 2^ES + rest \div 2^(NBits-ES)
       /\ Extract(p).fraction = 2^FracBits + Low(rest \div 2^3, FracBits)
  BY DEF Extract, abs, negExp, body, count, regime, rest
<1>15. rest \div 2^(NBits-ES) = y \div M
  BY <1>4, <1>6, <1>13, EighthsDivide
<1>16. Low(rest \div 2^3, FracBits) = y % M
  <2>1. 2^3 = 8
    OBVIOUS
  <2>2. (8 * y) \div 8 = y
    BY <1>4, <1>6, EighthsDivide
  <2> QED
    BY <1>4, <1>13, <2>1, <2>2 DEF Low
<1>17. StandsAt(Extract(p), IF low THEN -c ELSE c - 1, t * 2^(c-1))
  <2>1. t * 2^(c-1) = y
    BY <1>4 DEF y
  <2>2. M = 2^FracBits
    BY <1>4
  <2>3. Extract(p).exponent = regime * 2^ES + y \div 2^FracBits
    BY <1>14, <1>15, <2>2
  <2>4. Extract(p).fraction = 2^FracBits + (y % 2^FracBits)
    BY <1>14, <1>16, <2>2
  <2>5. StandsAt(Extract(p), regime, y)
    BY <2>3, <2>4 DEF StandsAt
  <2> QED
    BY <1>12, <2>1, <2>5
<1> QED
  BY <1>1, <1>17

LEMMA ExtractLargest ==
  /\ Largest \in Nat /\ Largest > 0
  /\ StandsAt(Extract(Largest), NBits - 2, 0)
<1> DEFINE H == 2^(NBits-1)
<1>1. /\ H \in Nat /\ H > 1 /\ 2^(NBits-2) \in Nat /\ H = 2 * 2^(NBits-2)
      /\ 2^(NBits-2) > 0 /\ 2^NBits = 2 * H /\ 2^(NBits+1) = 2 * 2^NBits
      /\ Largest = H - 1 /\ NBits - 1 \in Nat /\ NBits \in Nat
  <2>1. NBits - 2 \in Nat /\ (NBits-2) + 1 = NBits - 1 /\ (NBits-1) + 1 = NBits
        /\ NBits - 1 \in Nat /\ NBits \in Nat
    BY FormatAssumption
  <2>2. 2^(NBits-2) \in Nat /\ 2^(NBits-2) > 0 /\ 2^((NBits-2)+1) = 2 * 2^(NBits-2)
        /\ 2^((NBits-1)+1) = 2 * 2^(NBits-1) /\ 2^(NBits+1) = 2 * 2^NBits
    BY <2>1, PowerPositive, PowerNext
  <2>3. H = 2 * 2^(NBits-2) /\ 2^NBits = 2 * H
    BY <2>1, <2>2
  <2> DEFINE q == 2^(NBits-2)
  <2>4. q \in Nat /\ q > 0 /\ H = 2 * q
    BY <2>2, <2>3
  <2> HIDE DEF q, H
  <2>5. H \in Nat /\ H > 1
    BY <2>4
  <2> QED
    BY <2>1, <2>2, <2>3, <2>5 DEF H, Largest
<1> DEFINE p == Largest
           abs    == IF p >= NaR THEN Negated(p, NBits) ELSE p
           negExp == Bit(abs, NBits-2) = 0
           body   == Low(abs, NBits-1)
           zeros  == IF negExp THEN body ELSE 2^(NBits-1) - 1 - body
           count  == IF zeros = 0 THEN NBits-1 ELSE LeadingZeros(zeros, NBits-1)
           regime == IF negExp THEN -count ELSE count - 1
           rest   == Low(abs * 2^(count+2), NBits)
<1> HIDE DEF H
<1>2. p \in Nat /\ p > 0 /\ p = H - 1
  BY <1>1
<1> HIDE DEF p
<1>3. abs = p
  BY <1>1, <1>2 DEF NaR, H
<1> HIDE DEF abs
<1>4. ~negExp
  <2> DEFINE q == 2^(NBits-2)
  <2>1. q \in Nat /\ q > 0 /\ H = 2 * q
    BY <1>1
  <2> HIDE DEF q
  <2>2. p \in 0..(2 * q - 1) /\ ~(p < q)
    BY <1>2, <2>1
  <2>3. (p \div q) % 2 # 0
    BY <2>1, <2>2, FirstBit
  <2> QED
    BY <1>3, <2>3 DEF q, Bit
<1>5. body = p
  <2>1. p \in 0..(2^(NBits-1) - 1)
    BY <1>1, <1>2 DEF H
  <2> QED
    BY <1>1, <1>3, <2>1, LowOfSmall
<1> HIDE DEF negExp, body
<1>6. zeros = 0
  <2>1. zeros = H - 1 - p
    BY <1>4, <1>5 DEF H
  <2> HIDE DEF zeros
  <2> QED
    BY <1>1, <1>2, <2>1
<1>7. count = NBits - 1 /\ regime = NBits - 2
  <2>1. count = NBits - 1
    BY <1>6
  <2> HIDE DEF count
  <2> QED
    BY <1>1, <1>4, <2>1
<1>8. rest = 0
  <2> DEFINE n == 2^NBits
  <2>1. 2^(count+2) = 2 * n
    <3>1. count + 2 = NBits + 1
      BY <1>1, <1>7
    <3> QED
      BY <1>1, <3>1
  <2>2. n \in Nat /\ n > 0
    BY <1>1, PowerPositive
  <2>3. rest = (p * (2 * n)) % n
    BY <1>3, <2>1 DEF Low
  <2> HIDE DEF n, rest
  <2>4. p * (2 * n) = (2 * p) * n + 0 /\ 2 * p \in Int /\ 0 \in 0..(n-1)
    BY <1>2, <2>2
  <2>5. ((2 * p) * n + 0) % n = 0
    BY <2>2, <2>4, DivIs
  <2> QED
    BY <2>3, <2>4, <2>5
<1> HIDE DEF count, rest, regime
<1>9. /\ Extract(p).exponent = regime * 2^ES + rest \div 2^(NBits-ES)
      /\ Extract(p).fraction = 2^FracBits + Low(rest \div 2^3, FracBits)
  BY DEF Extract, abs, negExp, body, count, regime, rest
<1>10. \A m \in Nat : m > 0 => 0 \div m = 0 /\ 0 % m = 0
  OBVIOUS
<1>11. /\ rest \div 2^(NBits-ES) = 0 /\ 0 \div 2^FracBits = 0
       /\ Low(rest \div 2^3, FracBits) = 0 /\ 0 % 2^FracBits = 0
  <2>1. /\ 2^(NBits-ES) \in Nat /\ 2^(NBits-ES) > 0
        /\ 2^FracBits \in Nat /\ 2^FracBits > 0 /\ 2^3 \in Nat /\ 2^3 > 0
    BY CoreWidths, Widths, PowerPositive
  <2> QED
    BY <1>8, <1>10, <2>1 DEF Low
<1>12. StandsAt(Extract(p), NBits - 2, 0)
  BY <1>7, <1>9, <1>11 DEF StandsAt
<1> QED
  BY <1>2, <1>12 DEF p

\* What stands in a higher regime, or higher in the same one, is larger.
LEMMA PlacesOrder ==
  ASSUME NEW x, NEW y, NEW r \in Int, NEW s \in Int,
         NEW i \in 0..(2^ES * 2^FracBits - 1), NEW j \in 0..(2^ES * 2^FracBits - 1),
         StandsAt(x, r, i), StandsAt(y, s, j),
         r < s \/ (r = s /\ i < j)
  PROVE  FirstIsLarger(y, x) /\ ~FirstIsLarger(x, y)
<1> DEFINE base == 2^ES  M == 2^FracBits
           a == i \div M  b == j \div M  f == i % M  g == j % M
<1>1. base \in Nat /\ base > 0 /\ M \in Nat /\ M > 0
  BY CoreWidths, Widths, PowerPositive
<1>2. i \in Nat /\ j \in Nat /\ i < base * M /\ j < base * M
  <2> DEFINE n == base * M
  <2>1. n \in Nat /\ i \in 0..(n - 1) /\ j \in 0..(n - 1)
    BY <1>1
  <2> HIDE DEF n
  <2>2. i \in Nat /\ j \in Nat /\ i < n /\ j < n
    BY <2>1
  <2> QED
    BY <2>2 DEF n
<1>3. /\ x.exponent = r * base + a /\ x.fraction = M + f
      /\ y.exponent = s * base + b /\ y.fraction = M + g
  BY DEF StandsAt
<1> HIDE DEF base, M
<1>4. /\ a \in Nat /\ f \in 0..(M-1) /\ i = M * a + f
      /\ b \in Nat /\ g \in 0..(M-1) /\ j = M * b + g
  BY <1>1, <1>2
<1> HIDE DEF a, b, f, g
<1>5. a < base /\ b < base
  <2>1. ASSUME NEW d \in Nat, NEW h \in 0..(M-1), M * d + h < base * M PROVE d < base
    <3> SUFFICES ASSUME base <= d PROVE FALSE
      BY <1>1
    <3>1. M * base <= M * d /\ M * base = base * M
      BY <1>1
    <3> QED
      BY <1>1, <2>1, <3>1
  <2> QED
    BY <1>2, <1>4, <2>1
<1>6. CASE r < s
  <2>1. (r + 1) * base <= s * base /\ (r + 1) * base = r * base + base
    BY <1>1, <1>6
  <2>2. r * base \in Int /\ s * base \in Int
    BY <1>1
  <2>3. x.exponent < y.exponent /\ x.exponent \in Int /\ y.exponent \in Int
    BY <1>1, <1>3, <1>4, <1>5, <2>1, <2>2
  <2> QED
    BY <2>3 DEF FirstIsLarger
<1>7. CASE r = s /\ i < j
  <2>1. a < b \/ (a = b /\ f < g)
    <3>1. ASSUME b < a PROVE FALSE
      <4>1. M * (b + 1) <= M * a /\ M * (b + 1) = M * b + M
        BY <1>1, <1>4, <3>1
      <4> QED
        BY <1>1, <1>4, <1>7, <4>1
    <3>2. a = b => f < g
      BY <1>1, <1>4, <1>7
    <3> QED
      BY <1>4, <3>1, <3>2
  <2>2. r * base \in Int
    BY <1>1
  <2>3. /\ x.exponent \in Int /\ y.exponent \in Int /\ x.fraction \in Int /\ y.fraction \in Int
        /\ x.exponent < y.exponent \/ (x.exponent = y.exponent /\ x.fraction < y.fraction)
    BY <1>1, <1>3, <1>4, <1>7, <2>1, <2>2
  <2> QED
    BY <2>3 DEF FirstIsLarger
<1> QED
  BY <1>6, <1>7

\* The place of a posit inside its regime.
LEMMA RunPlace ==
  ASSUME NEW p, NEW low, NEW c, NEW k, NEW t, Run(p, low, c, k, t)
  PROVE  /\ t * 2^(c-1) \in 0..(2^ES * 2^FracBits - 1)
         /\ c \in Nat \ {0} /\ k \in Nat /\ c + k = NBits - 2 /\ low \in BOOLEAN
         /\ t \in Nat /\ t < 2^k
<1>1. c \in Nat \ {0} /\ k \in Nat /\ c + k = NBits - 2 /\ low \in BOOLEAN
  BY DEF Run
<1>2. PICK base, M, Q, D : Powers(c, k, base, M, Q, D)
  BY <1>1, RunPowers
<1>3. base = 2^ES /\ M = 2^FracBits /\ Q = 2^k /\ D = 2^(c-1) /\ D * Q = base * M
  BY <1>2 DEF Powers
<1>4. t * D \in 0..(D * Q - 1) /\ t \in Nat /\ t < Q
  BY <1>2, RunShiftedOut
<1> QED
  BY <1>1, <1>3, <1>4

\* Of two runs with an end, the larger posit has the higher regime, or the
\* same regime and the higher place.
LEMMA RunsOrder ==
  ASSUME NEW p \in Nat, NEW q \in Nat, p < q,
         NEW low, NEW c, NEW k, NEW t, Run(p, low, c, k, t),
         NEW mlow, NEW d, NEW l, NEW u, Run(q, mlow, d, l, u)
  PROVE  LET r == IF low THEN -c ELSE c - 1
             s == IF mlow THEN -d ELSE d - 1
         IN  r < s \/ (r = s /\ t * 2^(c-1) < u * 2^(d-1))
<1> DEFINE H == 2^(NBits-1)  P == 2^k  R == 2^l
<1>1. /\ c \in Nat \ {0} /\ k \in Nat /\ c + k = NBits - 2 /\ low \in BOOLEAN
      /\ d \in Nat \ {0} /\ l \in Nat /\ d + l = NBits - 2 /\ mlow \in BOOLEAN
      /\ t \in Nat /\ t < P /\ u \in Nat /\ u < R
  BY RunPlace
<1>2. NBits \in Nat /\ H \in Nat /\ P \in Nat /\ P > 0 /\ R \in Nat /\ R > 0
  BY <1>1, CoreWidths, PowerPositive
<1>3. /\ p = IF low THEN P + t ELSE H - 2 * P + t
      /\ q = IF mlow THEN R + u ELSE H - 2 * R + u
  BY DEF Run
<1>4. ASSUME k < l PROVE 2 * P <= R
  <2>1. k + 1 \in Nat /\ k + 1 <= l
    BY <1>1, <1>4
  <2>2. 2^(k+1) <= 2^l /\ 2^(k+1) = 2 * 2^k
    BY <1>1, <2>1, PowerMonotone, PowerNext
  <2> QED
    BY <2>2
<1>5. ASSUME l < k PROVE 2 * R <= P
  <2>1. l + 1 \in Nat /\ l + 1 <= k
    BY <1>1, <1>5
  <2>2. 2^(l+1) <= 2^k /\ 2^(l+1) = 2 * 2^l
    BY <1>1, <2>1, PowerMonotone, PowerNext
  <2> QED
    BY <2>2
<1>6. 4 * P <= H /\ 4 * R <= H
  <2>1. ASSUME NEW n \in Nat, n + 2 <= NBits - 1 PROVE 4 * 2^n <= H
    <3>1. 2^(n+1) = 2 * 2^n /\ 2^(n+2) = 2 * 2^(n+1) /\ 2^(n+2) <= 2^(NBits-1) /\ 2^n \in Nat
      BY <2>1, Widths, PowersUpTo
    <3> DEFINE m == 2^n  h == 2^(n+1)  g == 2^(n+2)
    <3>2. m \in Nat /\ h = 2 * m /\ g = 2 * h /\ g <= H
      BY <3>1
    <3> HIDE DEF m, h, g, H
    <3>3. 4 * m <= H
      BY <1>2, <3>2
    <3> QED
      BY <3>3 DEF m
  <2>2. k + 2 <= NBits - 1 /\ l + 2 <= NBits - 1
    BY <1>1, <1>2
  <2> QED
    BY <1>1, <2>1, <2>2
<1>7. ASSUME k = l, t < u PROVE c = d /\ t * 2^(c-1) < u * 2^(d-1)
  <2>1. c = d /\ c - 1 \in Nat
    BY <1>1, <1>2, <1>7
  <2> DEFINE m == 2^(c-1)
  <2>2. m \in Nat /\ m > 0
    BY <2>1, PowerPositive
  <2>3. 2^(d-1) = m
    BY <2>1
  <2> HIDE DEF m
  <2>4. (t + 1) * m <= u * m /\ (t + 1) * m = t * m + m /\ t * m \in Nat
    BY <1>1, <1>7, <2>2
  <2>5. u * m \in Nat
    BY <1>1, <2>2
  <2>6. t * m < u * m
    BY <2>2, <2>4, <2>5
  <2> QED
    BY <2>1, <2>3, <2>6 DEF m
<1>8. k = l => P = R
  OBVIOUS
<1>9. (k < l <=> d < c) /\ (l < k <=> c < d) /\ (k = l <=> c = d)
  BY <1>1, <1>2
<1> HIDE DEF P, R, H
<1>10. CASE low /\ mlow
  <2>1. ~(l < k)
    BY <1>1, <1>2, <1>3, <1>5, <1>10
  <2>2. k = l => t < u
    BY <1>1, <1>2, <1>3, <1>8, <1>10
  <2>3. -c < -d \/ (-c = -d /\ t * 2^(c-1) < u * 2^(d-1))
    <3>1. CASE k < l
      <4>1. -c < -d
        BY <1>1, <1>9, <3>1
      <4> QED
        BY <4>1
    <3>2. CASE k = l
      BY <1>7, <2>2, <3>2
    <3> QED
      BY <1>1, <2>1, <3>1, <3>2
  <2> QED
    BY <1>10, <2>3
<1>11. CASE ~low /\ ~mlow
  <2>1. ~(k < l)
    BY <1>1, <1>2, <1>3, <1>4, <1>11
  <2>2. k = l => t < u
    BY <1>1, <1>2, <1>3, <1>8, <1>11
  <2>3. c - 1 < d - 1 \/ (c - 1 = d - 1 /\ t * 2^(c-1) < u * 2^(d-1))
    <3>1. CASE l < k
      <4>1. c - 1 < d - 1
        BY <1>1, <1>9, <3>1
      <4> QED
        BY <4>1
    <3>2. CASE k = l
      BY <1>7, <2>2, <3>2
    <3> QED
      BY <1>1, <2>1, <3>1, <3>2
  <2> QED
    BY <1>11, <2>3
<1>12. CASE low /\ ~mlow
  <2>1. -c < d - 1
    BY <1>1
  <2> QED
    BY <1>12, <2>1
<1>13. CASE ~low /\ mlow
  BY <1>1, <1>2, <1>3, <1>6, <1>13
<1> QED
  BY <1>1, <1>10, <1>11, <1>12, <1>13

\* The extractor keeps the order of positive posits.
LEMMA PositivesOrder ==
  ASSUME NEW p \in 1..Largest, NEW q \in 1..Largest, p < q
  PROVE  /\ FirstIsLarger(Extract(q), Extract(p))
         /\ ~FirstIsLarger(Extract(p), Extract(q))
<1>1. Largest \in Nat /\ p \in Nat /\ q \in Nat
  BY ExtractLargest
<1>2. p \in 1..(Largest - 1)
  BY <1>1
<1>3. PICK low, c, k, t :
        /\ Run(p, low, c, k, t)
        /\ StandsAt(Extract(p), IF low THEN -c ELSE c - 1, t * 2^(c-1))
  BY <1>2, ExtractRun
<1> DEFINE r == IF low THEN -c ELSE c - 1
           i == t * 2^(c-1)
<1>4. /\ i \in 0..(2^ES * 2^FracBits - 1) /\ c \in Nat \ {0} /\ k \in Nat
      /\ c + k = NBits - 2 /\ low \in BOOLEAN
  BY <1>3, RunPlace
<1>5. r \in Int /\ r < NBits - 2 /\ NBits - 2 \in Int
  BY <1>4, CoreWidths
<1>6. CASE q = Largest
  <2>1. StandsAt(Extract(q), NBits - 2, 0)
    BY <1>6, ExtractLargest
  <2>2. 0 \in 0..(2^ES * 2^FracBits - 1)
    <3> DEFINE n == 2^ES * 2^FracBits
    <3>1. i \in 0..(n - 1)
      BY <1>4
    <3>2. n \in Int
      <4>1. 2^ES \in Nat /\ 2^FracBits \in Nat
        BY CoreWidths, Widths, PowerPositive
      <4> QED
        BY <4>1
    <3> HIDE DEF n, i
    <3>3. 0 \in 0..(n - 1)
      BY <3>1, <3>2
    <3> QED
      BY <3>3 DEF n
  <2> HIDE DEF r, i
  <2>3. StandsAt(Extract(p), r, i)
    BY <1>3 DEF r, i
  <2> QED
    BY <1>4, <1>5, <2>1, <2>2, <2>3, PlacesOrder
<1>7. CASE q # Largest
  <2>1. q \in 1..(Largest - 1)
    BY <1>1, <1>7
  <2>2. PICK mlow, d, l, u :
          /\ Run(q, mlow, d, l, u)
          /\ StandsAt(Extract(q), IF mlow THEN -d ELSE d - 1, u * 2^(d-1))
    BY <2>1, ExtractRun
  <2> DEFINE s == IF mlow THEN -d ELSE d - 1
             j == u * 2^(d-1)
  <2>3. /\ j \in 0..(2^ES * 2^FracBits - 1) /\ d \in Nat \ {0} /\ mlow \in BOOLEAN
    BY <2>2, RunPlace
  <2>4. s \in Int
    BY <2>3
  <2>5. r < s \/ (r = s /\ i < j)
    BY <1>1, <1>3, <2>2, RunsOrder
  <2>6. StandsAt(Extract(p), r, i) /\ StandsAt(Extract(q), s, j)
    BY <1>3, <2>2
  <2> HIDE DEF r, i, s, j
  <2> QED
    BY <1>4, <1>5, <2>3, <2>4, <2>5, <2>6, PlacesOrder
<1> QED
  BY <1>6, <1>7

\* The posits by their signs.
LEMMA Halves ==
  /\ NaR \in Nat /\ NaR > 1 /\ 2^NBits = 2 * NaR /\ Largest = NaR - 1
  /\ NaR = 2^(NBits-1) /\ NBits \in Nat
  /\ Posits = 0..(2 * NaR - 1)
<1>1. /\ NBits \in Nat /\ NBits - 1 \in Nat /\ (NBits-1) + 1 = NBits
      /\ NBits - 2 \in Nat /\ (NBits-2) + 1 = NBits - 1
  BY FormatAssumption
<1>2. /\ 2^(NBits-1) \in Nat /\ 2^((NBits-1)+1) = 2 * 2^(NBits-1)
      /\ 2^((NBits-2)+1) = 2 * 2^(NBits-2) /\ 2^(NBits-2) \in Nat /\ 2^(NBits-2) > 0
  BY <1>1, PowerPositive, PowerNext
<1>3. NaR = 2^(NBits-1) /\ 2^NBits = 2 * NaR /\ NaR = 2 * 2^(NBits-2)
  BY <1>1, <1>2 DEF NaR
<1> DEFINE q == 2^(NBits-2)
<1>4. q \in Nat /\ q > 0 /\ NaR = 2 * q
  BY <1>2, <1>3
<1> HIDE DEF q
<1>5. NaR \in Nat /\ NaR > 1
  BY <1>4
<1> QED
  BY <1>1, <1>3, <1>5 DEF Posits, Largest

LEMMA ExtractZero == Extract(0).isZero /\ ~Extract(0).sign /\ ~Extract(0).isNaR
<1>1. /\ Extract(0).isZero = (0 = 0) /\ Extract(0).sign = (0 >= NaR)
      /\ Extract(0).isNaR = (0 = NaR)
  BY DEF Extract
<1>2. ~(0 >= NaR) /\ ~(0 = NaR) /\ 0 = 0
  BY Halves
<1> QED
  BY <1>1, <1>2, Zenon

LEMMA ExtractPositive ==
  ASSUME NEW p \in 1..Largest
  PROVE  /\ p \in Posits /\ p \in Nat /\ Signed(p, NBits) = p
         /\ ~Extract(p).sign /\ ~Extract(p).isZero /\ ~Extract(p).isNaR
<1>1. p \in Nat /\ p > 0 /\ p < NaR
  BY Halves
<1>2. p \in 0..(2 * NaR - 1)
  BY <1>1, Halves
<1>3. Low(p, NBits) = p
  BY <1>2, Halves, LowOfSmall
<1>4. /\ Extract(p).sign = (p >= NaR) /\ Extract(p).isZero = (p = 0)
      /\ Extract(p).isNaR = (p = NaR)
  BY DEF Extract
<1>5. ~Extract(p).sign /\ ~Extract(p).isZero /\ ~Extract(p).isNaR
  <2>1. ~(p >= NaR) /\ ~(p = 0) /\ ~(p = NaR)
    BY <1>1, Halves
  <2> QED
    BY <1>4, <2>1, Zenon
<1>6. Signed(p, NBits) = p
  BY <1>1, <1>3, Halves DEF Signed
<1> QED
  BY <1>1, <1>2, <1>5, <1>6, Halves

\* A negative posit unpacks as its negation, with the other sign.
LEMMA ExtractNegative ==
  ASSUME NEW p \in Posits, p > NaR
  PROVE  \E a \in 1..Largest :
           /\ p = 2 * NaR - a
           /\ Negated(p, NBits) = a /\ Negated(a, NBits) = p
           /\ Signed(p, NBits) = -a
           /\ Extract(p).exponent = Extract(a).exponent
           /\ Extract(p).fraction = Extract(a).fraction
           /\ Extract(p).sign /\ ~Extract(p).isZero /\ ~Extract(p).isNaR
<1> DEFINE a == 2 * NaR - p
<1>1. p \in Nat /\ p < 2 * NaR
  BY Halves
<1>2. a \in 1..Largest /\ a \in 0..(2 * NaR - 1) /\ p = 2 * NaR - a /\ a < NaR
  BY <1>1, Halves
<1>3. Low(a, NBits) = a /\ Low(p, NBits) = p
  <2>1. a \in 0..(2^NBits - 1) /\ p \in 0..(2^NBits - 1)
    BY <1>1, <1>2, Halves
  <2> QED
    BY <2>1, Halves, LowOfSmall
<1>4. Negated(p, NBits) = a
  BY <1>3, Halves DEF Negated
<1>5. Negated(a, NBits) = p
  <2> HIDE DEF a
  <2>1. 2^NBits - a = p
    BY <1>2, Halves
  <2> QED
    BY <1>3, <2>1 DEF Negated
<1> HIDE DEF a
<1>6. Signed(p, NBits) = -a
  <2>1. Signed(p, NBits) = p - 2 * NaR
    BY <1>1, <1>3, Halves DEF Signed
  <2> QED
    BY <1>1, <1>2, <2>1, Halves
<1>7. p >= NaR /\ ~(a >= NaR) /\ p # 0 /\ p # NaR
  BY <1>1, <1>2, Halves
<1>8. /\ Extract(p).exponent = Extract(a).exponent
      /\ Extract(p).fraction = Extract(a).fraction
  BY <1>4, <1>7 DEF Extract
<1>9. Extract(p).sign /\ ~Extract(p).isZero /\ ~Extract(p).isNaR
  <2>1. /\ Extract(p).sign = (p >= NaR) /\ Extract(p).isZero = (p = 0)
        /\ Extract(p).isNaR = (p = NaR)
    BY DEF Extract
  <2> QED
    BY <1>7, <2>1
<1> QED
  BY <1>2, <1>4, <1>5, <1>6, <1>8, <1>9

\* The order of two unpacked operands that are not NaR.
UnpackedLess(x, y) ==
  \/ x.sign /\ ~y.sign
  \/ ~x.sign /\ ~y.sign /\ ~y.isZero /\ (x.isZero \/ FirstIsLarger(y, x))
  \/ x.sign /\ y.sign /\ FirstIsLarger(x, y)

\* What PositCompare sees of a posit is a signed number.
LEMMA SignedOrder ==
  ASSUME NEW p \in Posits \ {NaR}, NEW q \in Posits \ {NaR},
         Signed(p, NBits) < Signed(q, NBits)
  PROVE  UnpackedLess(Extract(p), Extract(q)) /\ ~UnpackedLess(Extract(q), Extract(p))
<1> DEFINE x == Extract(p)  y == Extract(q)
<1>1. \A n \in Posits \ {NaR} : n = 0 \/ n \in 1..Largest \/ n > NaR
  BY Halves
<1>2. Signed(0, NBits) = 0
  <2>1. Low(0, NBits) = 0
    <3>1. 0 \in 0..(2^NBits - 1)
      BY Halves
    <3> QED
      BY <3>1, Halves, LowOfSmall
  <2> QED
    BY <2>1, Halves DEF Signed
<1>3. CASE p > NaR
  <2>1. PICK a \in 1..Largest :
          /\ Signed(p, NBits) = -a
          /\ x.exponent = Extract(a).exponent /\ x.fraction = Extract(a).fraction
          /\ x.sign
    BY <1>3, ExtractNegative
  <2>2. CASE q > NaR
    <3>1. PICK b \in 1..Largest :
            /\ Signed(q, NBits) = -b
            /\ y.exponent = Extract(b).exponent /\ y.fraction = Extract(b).fraction
            /\ y.sign
      BY <2>2, ExtractNegative
    <3>2. b < a
      <4>1. a \in Nat /\ b \in Nat
        BY ExtractPositive
      <4> QED
        BY <2>1, <3>1, <4>1
    <3>3. FirstIsLarger(Extract(a), Extract(b)) /\ ~FirstIsLarger(Extract(b), Extract(a))
      BY <3>2, PositivesOrder
    <3>4. FirstIsLarger(x, y) /\ ~FirstIsLarger(y, x)
      BY <2>1, <3>1, <3>3 DEF FirstIsLarger
    <3> HIDE DEF x, y
    <3>5. UnpackedLess(x, y) /\ ~UnpackedLess(y, x)
      BY <2>1, <3>1, <3>4 DEF UnpackedLess
    <3> QED
      BY <3>5 DEF x, y
  <2>3. CASE ~(q > NaR)
    <3>1. ~y.sign
      BY <1>1, <2>3, ExtractZero, ExtractPositive
    <3> HIDE DEF x, y
    <3>2. UnpackedLess(x, y) /\ ~UnpackedLess(y, x)
      BY <2>1, <3>1 DEF UnpackedLess
    <3> QED
      BY <3>2 DEF x, y
  <2> QED
    BY <2>2, <2>3
<1>4. CASE p = 0
  <2>1. x.isZero /\ ~x.sign
    BY <1>4, ExtractZero
  <2>2. q \in 1..Largest
    <3>1. ~(q > NaR)
      <4> SUFFICES ASSUME q > NaR PROVE FALSE
        OBVIOUS
      <4>1. PICK b \in 1..Largest : Signed(q, NBits) = -b
        BY ExtractNegative
      <4>2. b \in Nat
        BY ExtractPositive
      <4> QED
        BY <1>2, <1>4, <4>1, <4>2
    <3>2. q # 0
      BY <1>2, <1>4
    <3> QED
      BY <1>1, <3>1, <3>2
  <2>3. ~y.sign /\ ~y.isZero
    BY <2>2, ExtractPositive
  <2> HIDE DEF x, y
  <2>4. UnpackedLess(x, y) /\ ~UnpackedLess(y, x)
    BY <2>1, <2>3 DEF UnpackedLess
  <2> QED
    BY <2>4 DEF x, y
<1>5. CASE p \in 1..Largest
  <2>1. Signed(p, NBits) = p /\ p \in Nat /\ p > 0 /\ ~x.sign /\ ~x.isZero
    BY <1>5, ExtractPositive
  <2>2. q \in 1..Largest
    <3>1. ~(q > NaR)
      <4> SUFFICES ASSUME q > NaR PROVE FALSE
        OBVIOUS
      <4>1. PICK b \in 1..Largest : Signed(q, NBits) = -b
        BY ExtractNegative
      <4>2. b \in Nat
        BY ExtractPositive
      <4> QED
        BY <2>1, <4>1, <4>2
    <3>2. q # 0
      BY <1>2, <2>1
    <3> QED
      BY <1>1, <3>1, <3>2
  <2>3. Signed(q, NBits) = q /\ ~y.sign /\ ~y.isZero
    BY <2>2, ExtractPositive
  <2>4. p < q
    BY <2>1, <2>3
  <2>5. FirstIsLarger(y, x) /\ ~FirstIsLarger(x, y)
    BY <1>5, <2>2, <2>4, PositivesOrder
  <2> HIDE DEF x, y
  <2>6. UnpackedLess(x, y) /\ ~UnpackedLess(y, x)
    BY <2>1, <2>3, <2>5 DEF UnpackedLess
  <2> QED
    BY <2>6 DEF x, y
<1> QED
  BY <1>1, <1>3, <1>4, <1>5

\* Different posits are different signed numbers.
LEMMA SignedIsOneToOne ==
  ASSUME NEW p \in Posits, NEW q \in Posits, Signed(p, NBits) = Signed(q, NBits)
  PROVE  p = q
<1>1. \A n \in Posits : Signed(n, NBits) = IF n >= NaR THEN n - 2 * NaR ELSE n
  <2> TAKE n \in Posits
  <2>1. n \in 0..(2^NBits - 1)
    BY Halves
  <2>2. Low(n, NBits) = n
    BY <2>1, Halves, LowOfSmall
  <2> QED
    BY <2>2, Halves DEF Signed
<1>2. p \in Nat /\ q \in Nat /\ p < 2 * NaR /\ q < 2 * NaR
  BY Halves
<1> QED
  BY <1>1, <1>2, Halves

\* PositCompare compares the packed operands as signed numbers and never unpacks
\* them (PositCompare.scala); the other cores see what PositExtractor makes of
\* them.  The two agree, in every format: the flags are the order of the
\* unpacked operands by sign, exponent and fraction, and two operands are
\* equal only when they unpack to the same number.
THEOREM ComparisonsAgree ==
  \A p, q \in Posits \ {NaR} :
    LET flags == Compare(p, q)
        x == Extract(p)
        y == Extract(q)
    IN  /\ flags.lt <=> UnpackedLess(x, y)
        /\ flags.gt <=> UnpackedLess(y, x)
        /\ flags.eq <=> x = y
<1> TAKE p, q \in Posits \ {NaR}
<1> DEFINE a == Signed(p, NBits)  b == Signed(q, NBits)
           x == Extract(p)  y == Extract(q)
<1>1. a \in Int /\ b \in Int
  <2>1. p \in Int /\ q \in Int /\ NBits \in Nat
    BY Halves
  <2> QED
    BY <2>1, SignedIsInt
<1> DEFINE f == Compare(p, q)
<1> SUFFICES /\ f.lt <=> UnpackedLess(x, y)
             /\ f.gt <=> UnpackedLess(y, x)
             /\ f.eq <=> x = y
  OBVIOUS
<1>2. f = [lt |-> a < b, eq |-> a = b, gt |-> ~(a < b) /\ ~(a = b)]
  BY DEF Compare
<1>6. /\ a < b => f.lt /\ ~f.eq /\ ~f.gt
      /\ b < a => ~f.lt /\ ~f.eq /\ f.gt
      /\ a = b => ~f.lt /\ f.eq /\ ~f.gt
  <2> HIDE DEF a, b, f
  <2>1. f.lt = (a < b) /\ f.eq = (a = b) /\ f.gt = (~(a < b) /\ ~(a = b))
    BY <1>2
  <2>2. (a < b => a # b) /\ (b < a => ~(a < b) /\ a # b) /\ (a = b => ~(a < b))
    BY <1>1
  <2> QED
    BY <2>1, <2>2, Zenon
<1> HIDE DEF f
<1>3. CASE a < b
  <2>1. UnpackedLess(x, y) /\ ~UnpackedLess(y, x)
    BY <1>3, SignedOrder
  <2>2. x # y
    BY <2>1
  <2> QED
    BY <1>3, <1>6, <2>1, <2>2
<1>4. CASE b < a
  <2>1. UnpackedLess(y, x) /\ ~UnpackedLess(x, y)
    BY <1>4, SignedOrder
  <2>2. x # y
    BY <2>1
  <2> QED
    BY <1>4, <1>6, <2>1, <2>2
<1>5. CASE a = b
  <2>1. p = q
    BY <1>5, SignedIsOneToOne
  <2>2. x = y
    BY <2>1
  <2>3. x.exponent \in Int /\ x.fraction \in Int
    BY OperandTypes DEF OperandType, Unpacked
  <2>4. ~FirstIsLarger(x, x)
    BY <2>3 DEF FirstIsLarger
  <2>5. ~UnpackedLess(x, y) /\ ~UnpackedLess(y, x)
    <3>1. ~(x.isZero /\ ~x.isZero)
      OBVIOUS
    <3> HIDE DEF x, y
    <3> QED
      BY <2>2, <2>4, <3>1 DEF UnpackedLess
  <2> QED
    BY <1>5, <1>6, <2>2, <2>5
<1> QED
  BY <1>1, <1>3, <1>4, <1>5

-----------------------------------------------------------------------------
(* Rounding.  Between two powers of the base the pattern of a posit moves  *)
(* linearly through exponents and fractions, so that a result with more    *)
(* bits than a posit has stands between two patterns: at a whole number of *)
(* units above the pattern of its regime, or, with a sticky bit, less than *)
(* one above that.                                                         *)

\* The generator in two steps: the word that the regime shifts, and what is made
\* of the shifted word.
GenOffset(e) ==
  LET regime == IF e < 0 THEN -(e \div 2^ES) ELSE e \div 2^ES
  IN  IF e < 0 /\ regime # NBits-1 THEN regime - 1 ELSE regime

GenWord(e, f, trailing) ==
  (IF e < 0 THEN 1 ELSE 2) * 2^(NBits-1) + Low(e, ES) * 2^(FracBits+2)
    + Low(f, FracBits) * 2^2 + trailing

GenShifted(word, offset) == Low(Signed(word, NBits+1) \div 2^offset, NBits+1)

GenDropped(word, offset) == Low(word, Min2(offset, NBits-2)) # 0

GenMagnitude(shifted, sticky) ==
  LET unrounded == shifted \div 2^2
      up      == /\ unrounded # 2^(NBits-1) - 1
                 /\ RoundsUp(Bit(shifted, 2), Bit(shifted, 1), Bit(shifted, 0), sticky)
      rounded == unrounded + IF up THEN 1 ELSE 0
  IN  IF rounded = 0 THEN 1 ELSE rounded

LEMMA GenerateIs ==
  ASSUME NEW u, NEW trailing, NEW sticky,
         ~u.isZero, ~u.isNaR, u.fraction # 0
  PROVE  LET word   == GenWord(u.exponent, u.fraction, trailing)
             offset == GenOffset(u.exponent)
             n      == GenMagnitude(GenShifted(word, offset),
                                    sticky \/ GenDropped(word, offset))
         IN  Generate(u, trailing, sticky) = IF u.sign THEN Negated(n, NBits) ELSE n
BY DEF Generate, GenWord, GenOffset, GenShifted, GenDropped, GenMagnitude

\* A shifted word ends with the guard and the round bit.
LEMMA LastBits ==
  ASSUME NEW n \in Nat, NEW g \in 0..1, NEW h \in 0..1
  PROVE  LET m == 4 * n + 2 * g + h
         IN  /\ m \div 2^2 = n
             /\ Bit(m, 2) = n % 2 /\ Bit(m, 1) = g /\ Bit(m, 0) = h
<1> DEFINE m == 4 * n + 2 * g + h
<1>1. 2^2 = 4 /\ 2^1 = 2 /\ 2^0 = 1
  <2>1. 2^0 = 1
    BY PowerZero
  <2>2. 2^(0+1) = 2 * 2^0
    BY PowerNext
  <2>3. 2^1 = 2
    BY <2>1, <2>2
  <2>4. 2^2 = 4
    OBVIOUS
  <2> QED
    BY <2>1, <2>3, <2>4
<1>2. (n * 4 + (2 * g + h)) \div 4 = n
  <2>1. 2 * g + h \in 0..(4-1)
    OBVIOUS
  <2> DEFINE s == 2 * g + h
  <2> HIDE DEF s
  <2>2. (n * 4 + s) \div 4 = n
    BY <2>1, DivIs DEF s
  <2> QED
    BY <2>2 DEF s
<1>3. ((2 * n + g) * 2 + h) \div 2 = 2 * n + g /\ ((2 * n + g) * 2 + h) % 2 = h
  <2>1. 2 * n + g \in Int /\ h \in 0..(2-1)
    OBVIOUS
  <2> DEFINE s == 2 * n + g
  <2> HIDE DEF s
  <2>2. (s * 2 + h) \div 2 = s /\ (s * 2 + h) % 2 = h
    BY <2>1, DivIs DEF s
  <2> QED
    BY <2>2 DEF s
<1>4. (n * 2 + g) % 2 = g
  <2>1. g \in 0..(2-1)
    OBVIOUS
  <2> QED
    BY <2>1, DivIs
<1>5. m = n * 4 + (2 * g + h) /\ m = (2 * n + g) * 2 + h /\ 2 * n + g = n * 2 + g
      /\ m \in Nat
  OBVIOUS
<1> HIDE DEF m
<1>6. m \div 4 = n /\ m \div 2 = n * 2 + g /\ m % 2 = h /\ m \div 1 = m
  <2>1. (m * 1 + 0) \div 1 = m /\ m * 1 + 0 = m
    <3>1. 0 \in 0..(1-1)
      OBVIOUS
    <3>2. m * 1 + 0 = m
      BY <1>5
    <3> QED
      BY <1>5, <3>1, <3>2, DivIs
  <2>2. m \div 1 = m
    BY <2>1
  <2> QED
    BY <1>2, <1>3, <1>5, <2>2
<1>7. m \div 2^2 = n /\ Bit(m, 2) = n % 2 /\ Bit(m, 1) = g /\ Bit(m, 0) = h
  BY <1>1, <1>4, <1>6 DEF Bit
<1> QED
  BY <1>7 DEF m

\* What the guard, the round and the sticky bit decide is the nearest pattern.
LEMMA RoundingIsNearest ==
  ASSUME NEW n \in Nat, NEW g \in 0..1, NEW h \in 0..1, n > 0, n < Largest,
         NEW D \in Nat, D > 0, NEW rem \in 0..(D-1), NEW sticky \in BOOLEAN
  PROVE  LET m == 4 * n + 2 * g + h
             v == GenMagnitude(m, sticky \/ rem # 0)
         IN  /\ v \in 1..Largest
             /\ Nearest(v, m * D + rem, 4 * D, sticky)
<1> DEFINE m == 4 * n + 2 * g + h
           up == g = 1 /\ (n % 2 = 1 \/ h = 1 \/ sticky \/ rem # 0)
           v == n + IF up THEN 1 ELSE 0
           d == 2 * (v * (4 * D) - (m * D + rem))
<1>1. GenMagnitude(m, sticky \/ rem # 0) = v
  <2>1. m \div 2^2 = n /\ Bit(m, 2) = n % 2 /\ Bit(m, 1) = g /\ Bit(m, 0) = h
    BY LastBits
  <2>2. n # 2^(NBits-1) - 1
    BY Halves DEF Largest
  <2> HIDE DEF m
  <2>3. GenMagnitude(m, sticky \/ rem # 0) = IF v = 0 THEN 1 ELSE v
    BY <2>1, <2>2 DEF GenMagnitude, RoundsUp
  <2>4. v # 0
    <3> HIDE DEF up
    <3> QED
      OBVIOUS
  <2> QED
    BY <2>3, <2>4
<1>2. v \in 1..Largest
  <2> HIDE DEF up
  <2>1. Largest \in Nat
    BY ExtractLargest
  <2> QED
    BY <2>1
<1> DEFINE low == (2 * g + h) * D + rem
<1>3. m * D + rem = 4 * (n * D) + low /\ low \in Int /\ n * D \in Int
  <2>1. (4 * n + 2 * g + h) * D = 4 * (n * D) + (2 * g + h) * D
    OBVIOUS
  <2>2. n * D \in Int /\ (2 * g + h) * D \in Int /\ rem \in Int
    OBVIOUS
  <2> QED
    BY <2>1, <2>2
<1>4. v * (4 * D) = 4 * (n * D) + IF up THEN 4 * D ELSE 0
  <2> HIDE DEF up
  <2>1. CASE up
    <3>1. (n + 1) * (4 * D) = 4 * (n * D) + 4 * D
      OBVIOUS
    <3> QED
      BY <2>1, <3>1
  <2>2. CASE ~up
    <3>1. n * (4 * D) = 4 * (n * D)
      OBVIOUS
    <3> QED
      BY <2>2, <3>1
  <2> QED
    BY <2>1, <2>2
<1>5. d = (IF up THEN 8 * D ELSE 0) - 2 * low
  <2> DEFINE a == v * (4 * D)  b == m * D + rem  x == n * D
  <2>1. a = 4 * x + (IF up THEN 4 * D ELSE 0) /\ b = 4 * x + low /\ x \in Int /\ low \in Int
    BY <1>3, <1>4
  <2>2. d = 2 * (a - b)
    OBVIOUS
  <2> HIDE DEF a, b, x, low, d, up
  <2> QED
    BY <2>1, <2>2
<1>6. low = (IF g = 1 THEN 2 * D ELSE 0) + (IF h = 1 THEN D ELSE 0) + rem
  <2>1. g = 0 \/ g = 1
    OBVIOUS
  <2>2. h = 0 \/ h = 1
    OBVIOUS
  <2> QED
    BY <2>1, <2>2
<1>7. /\ -(4 * D) <= d /\ d <= 4 * D
      /\ d = -(4 * D) => ~up /\ g = 1 /\ rem = 0 /\ h # 1
      /\ d = 4 * D => up /\ rem = 0 /\ h # 1
  <2>1. up => g = 1
    OBVIOUS
  <2>2. g = 1 /\ ~up => h # 1 /\ rem = 0
    OBVIOUS
  <2> HIDE DEF low, d, up
  <2> QED
    BY <1>5, <1>6, <2>1, <2>2
<1>8. d = -(4 * D) => ~sticky /\ v % 2 = 0
  <2> HAVE d = -(4 * D)
  <2>1. ~up /\ g = 1
    BY <1>7
  <2>2. ~sticky /\ n % 2 # 1
    BY <2>1
  <2>3. v = n /\ n % 2 \in 0..1
    BY <2>1
  <2> HIDE DEF up, v, d
  <2> QED
    BY <2>2, <2>3
<1>9. d = 4 * D => sticky \/ v % 2 = 0
  <2> HAVE d = 4 * D
  <2>1. up /\ rem = 0 /\ h # 1
    BY <1>7
  <2>2. sticky \/ n % 2 = 1
    BY <2>1
  <2>3. v = n + 1
    BY <2>1
  <2>4. n % 2 = 1 => (n + 1) % 2 = 0
    OBVIOUS
  <2> HIDE DEF up, v, d
  <2> QED
    BY <2>2, <2>3, <2>4
<1>10. Nearest(v, m * D + rem, 4 * D, sticky)
  <2> HIDE DEF v, m
  <2> QED
    BY <1>7, <1>8, <1>9 DEF Nearest
<1> QED
  BY <1>1, <1>2, <1>10

\* A place in any regime: what the generator's fields are.
LEMMA WordIs ==
  ASSUME NEW x, NEW r \in Int, NEW y \in 0..(2^ES * 2^FracBits - 1), StandsAt(x, r, y),
         NEW trailing \in 0..3
  PROVE  /\ x.exponent \in Int /\ (x.exponent < 0 <=> r < 0)
         /\ GenOffset(x.exponent) =
              IF r < 0 THEN IF r = -(NBits-1) THEN NBits-1 ELSE -r - 1 ELSE r
         /\ GenWord(x.exponent, x.fraction, trailing) =
              (IF r < 0 THEN 1 ELSE 2) * 2^(NBits-1) + (4 * y + trailing)
         /\ 4 * y + trailing \in 0..(2^(NBits-1) - 1)
<1> DEFINE base == 2^ES  M == 2^FracBits  W == base * M
           a == y \div M  s == y % M  e == x.exponent  f == x.fraction
<1>1. base \in Nat /\ base > 0 /\ M \in Nat /\ M > 0 /\ NBits - 1 \in Int
  BY CoreWidths, Widths, PowerPositive
<1>2. W \in Nat /\ 2^(NBits-1) = 4 * W
  <2>1. ES + FracBits \in Nat /\ NBits - 1 = (ES + FracBits) + 2 /\ ES \in Nat /\ FracBits \in Nat
    BY FormatAssumption DEF FracBits
  <2>2. 2^((ES+FracBits)+2) = 4 * 2^(ES+FracBits)
    BY <2>1, EightTimes
  <2>3. 2^(ES+FracBits) = W
    BY <2>1, PowerSum
  <2>4. W \in Nat
    BY <1>1
  <2> QED
    BY <2>1, <2>2, <2>3, <2>4
<1>3. y \in Nat /\ y < W
  <2>1. y \in 0..(W - 1)
    OBVIOUS
  <2> HIDE DEF W
  <2> QED
    BY <1>2, <2>1
<1>4. e = r * base + a /\ f = M + s
  BY DEF StandsAt
<1> HIDE DEF base, M
<1>5. a \in Nat /\ s \in 0..(M-1) /\ y = M * a + s
  BY <1>1, <1>3
<1> HIDE DEF a, s, e, f
<1>6. a < base
  <2> SUFFICES ASSUME base <= a PROVE FALSE
    BY <1>1, <1>5
  <2>1. M * base <= M * a /\ M * base = base * M
    BY <1>1, <1>5
  <2> QED
    BY <1>1, <1>3, <1>5, <2>1
<1>7. e \in Int /\ e \div base = r /\ e % base = a
  <2>1. a \in 0..(base - 1)
    BY <1>1, <1>5, <1>6
  <2>2. (r * base + a) \div base = r /\ (r * base + a) % base = a
    BY <1>1, <2>1, DivIs
  <2>3. r * base \in Int
    BY <1>1
  <2> QED
    BY <1>4, <1>5, <2>2, <2>3
<1>8. e < 0 <=> r < 0
  <2>1. CASE r < 0
    <3>1. (r + 1) * base <= 0 /\ (r + 1) * base = r * base + base /\ r * base \in Int
      BY <1>1, <2>1
    <3> QED
      BY <1>1, <1>4, <1>5, <1>6, <2>1, <3>1
  <2>2. CASE ~(r < 0)
    <3>1. r * base \in Nat
      BY <1>1, <2>2
    <3> QED
      BY <1>4, <1>5, <2>2, <3>1
  <2> QED
    BY <2>1, <2>2
<1>9. GenOffset(e) = IF r < 0 THEN IF r = -(NBits-1) THEN NBits-1 ELSE -r - 1 ELSE r
  <2>1. e \div 2^ES = r
    BY <1>7 DEF base
  <2>2. CASE r < 0
    <3>1. GenOffset(e) = IF -r # NBits-1 THEN -r - 1 ELSE -r
      BY <1>8, <2>1, <2>2 DEF GenOffset
    <3>2. -r = NBits-1 <=> r = -(NBits-1)
      BY <1>1
    <3> QED
      BY <1>1, <2>2, <3>1, <3>2
  <2>3. CASE ~(r < 0)
    BY <1>8, <2>1, <2>3 DEF GenOffset
  <2> QED
    BY <2>2, <2>3
<1>10. GenWord(e, f, trailing) = (IF r < 0 THEN 1 ELSE 2) * 2^(NBits-1) + (4 * y + trailing)
  <2>1. Low(e, ES) = a
    BY <1>7 DEF Low, base
  <2>2. Low(f, FracBits) = s
    <3>1. (1 * M + s) % M = s
      BY <1>1, <1>5, DivIs
    <3>2. 1 * M = M
      BY <1>1
    <3> QED
      BY <1>4, <3>1, <3>2 DEF Low, M
  <2>3. 2^(FracBits+2) = 4 * M /\ 2^2 = 4
    <3>1. 2^(FracBits+2) = 4 * 2^FracBits
      BY Widths, EightTimes
    <3>2. 2^2 = 4
      OBVIOUS
    <3> QED
      BY <3>1, <3>2 DEF M
  <2> DEFINE z == (IF r < 0 THEN 1 ELSE 2) * 2^(NBits-1)
  <2>4. GenWord(e, f, trailing) = z + a * (4 * M) + s * 4 + trailing
    BY <1>8, <2>1, <2>2, <2>3 DEF GenWord
  <2>5. a * (4 * M) + s * 4 = 4 * y /\ a * (4 * M) \in Int
    <3>1. a * (4 * M) = 4 * (M * a) /\ M * a \in Int
      BY <1>1, <1>5
    <3> QED
      BY <1>1, <1>5, <3>1
  <2>6. z \in Int
    <3>1. 4 * W \in Int /\ 2 * (4 * W) \in Int /\ 1 * (4 * W) \in Int
      BY <1>2
    <3> HIDE DEF W
    <3> QED
      BY <1>2, <3>1
  <2> HIDE DEF z
  <2>7. GenWord(e, f, trailing) = z + (4 * y + trailing)
    BY <1>1, <1>3, <1>5, <2>4, <2>5, <2>6
  <2> QED
    BY <2>7 DEF z
<1>11. 4 * y + trailing \in 0..(2^(NBits-1) - 1)
  <2> HIDE DEF W
  <2>1. 4 * y + trailing \in 0..(4 * W - 1)
    BY <1>2, <1>3
  <2> QED
    BY <1>2, <2>1
<1> QED
  BY <1>7, <1>8, <1>9, <1>10, <1>11 DEF e, f

\* The word as a signed number: it starts with 01 below the base 1, and with 10
\* from there on.
LEMMA WordSigned ==
  ASSUME NEW low \in BOOLEAN, NEW T \in 0..(2^(NBits-1) - 1)
  PROVE  LET H == 2^(NBits-1)
             word == (IF low THEN 1 ELSE 2) * H + T
         IN  /\ Signed(word, NBits+1) = IF low THEN H + T ELSE T - 2 * H
             /\ H \in Nat /\ H > 1 /\ T \in Nat /\ T < H /\ 2^(NBits+1) = 4 * H
             /\ word = IF low THEN H + T ELSE 2 * H + T
<1> DEFINE H == 2^(NBits-1)
           word == (IF low THEN 1 ELSE 2) * H + T
<1>1. /\ H \in Nat /\ H > 1 /\ 2^(NBits+1) = 4 * H /\ NBits + 1 \in Nat
      /\ 2^((NBits+1)-1) = 2 * H
  <2>1. NBits - 1 \in Nat /\ (NBits-1)+1 = NBits /\ (NBits-1)+2 = NBits+1 /\ (NBits+1)-1 = NBits
        /\ NBits + 1 \in Nat
    BY CoreWidths
  <2>2. 2^((NBits-1)+1) = 2 * 2^(NBits-1) /\ 2^((NBits-1)+2) = 4 * 2^(NBits-1)
    BY <2>1, EightTimes
  <2> QED
    BY <2>1, <2>2, Halves
<1> HIDE DEF H
<1>2. T \in Nat /\ T < H
  <2>1. T \in 0..(H - 1)
    BY DEF H
  <2> QED
    BY <1>1, <2>1
<1>3. word = IF low THEN H + T ELSE 2 * H + T
  BY <1>1, <1>2
<1> HIDE DEF word
<1>4. word \in 0..(4 * H - 1)
  BY <1>1, <1>2, <1>3
<1>5. Low(word, NBits+1) = word
  <2>1. word \in 0..(2^(NBits+1) - 1)
    BY <1>1, <1>4
  <2> QED
    BY <1>1, <2>1, LowOfSmall
<1>6. Signed(word, NBits+1) = IF word >= 2 * H THEN word - 4 * H ELSE word
  BY <1>1, <1>5 DEF Signed
<1>7. Signed(word, NBits+1) = IF low THEN H + T ELSE T - 2 * H
  BY <1>1, <1>2, <1>3, <1>6
<1> QED
  BY <1>1, <1>2, <1>3, <1>7 DEF H, word

\* The shifted word stands T above the first pattern of its regime, in units of
\* four times what was shifted out.
ShiftSplits(word, first, c, T, D) ==
  \E n \in Nat, g \in 0..1, h \in 0..1, rem \in 0..(D-1) :
    /\ n > 0 /\ n < Largest
    /\ GenShifted(word, c - 1) = 4 * n + 2 * g + h
    /\ GenDropped(word, c - 1) <=> rem # 0
    /\ (4 * n + 2 * g + h) * D + rem = first * (4 * D) + T
ShiftedFrom(word, first, c, T) == ShiftSplits(word, first, c, T, 2^(c-1))

\* In a regime with an end, the shift moves the run to the top of the pattern and
\* the place behind it.
LEMMA ShiftedRun ==
  ASSUME NEW low \in BOOLEAN, NEW c \in Nat \ {0}, NEW k \in Nat, c + k = NBits - 2,
         NEW T \in 0..(2^(NBits-1) - 1)
  PROVE  ShiftedFrom((IF low THEN 1 ELSE 2) * 2^(NBits-1) + T,
                     IF low THEN 2^k ELSE 2^(NBits-1) - 2 * 2^k, c, T)
<1>1. PICK base, M, Q, D : Powers(c, k, base, M, Q, D)
  BY RunPowers
<1> DEFINE H == 2^(NBits-1)
           W == D * Q
           word  == (IF low THEN 1 ELSE 2) * H + T
           first == IF low THEN Q ELSE H - 2 * Q
<1>2. /\ D \in Nat /\ D > 0 /\ Q \in Nat /\ Q > 0 /\ D = 2^(c-1) /\ Q = 2^k
      /\ H = 4 * W
  BY <1>1 DEF Powers
<1>3. /\ Signed(word, NBits+1) = IF low THEN H + T ELSE T - 2 * H
      /\ H \in Nat /\ T \in Nat /\ T < H /\ 2^(NBits+1) = 4 * H
      /\ word = IF low THEN H + T ELSE 2 * H + T
  BY WordSigned
<1>4. W \in Nat /\ W > 0 /\ Q <= W
  <2>1. 1 * Q <= D * Q /\ 1 * Q = Q /\ D * Q \in Nat
    BY <1>2
  <2> QED
    BY <1>2, <2>1
<1> DEFINE j == T \div D  rem == T % D
<1>5. j \in Nat /\ rem \in 0..(D-1) /\ T = D * j + rem
  <2> HIDE DEF H
  <2> QED
    BY <1>2, <1>3
<1> HIDE DEF j, rem
<1>6. j < 4 * Q
  <2> SUFFICES ASSUME 4 * Q <= j PROVE FALSE
    BY <1>2, <1>5
  <2>1. D * (4 * Q) <= D * j /\ D * (4 * Q) = 4 * W
    BY <1>2, <1>5
  <2> HIDE DEF H, W
  <2> QED
    BY <1>2, <1>3, <1>4, <1>5, <2>1
<1> DEFINE n0 == j \div 4  b == j % 4
<1>7. n0 \in Nat /\ b \in 0..3 /\ j = 4 * n0 + b /\ n0 < Q
  <2>1. n0 \in Nat /\ b \in 0..3 /\ j = 4 * n0 + b
    BY <1>5
  <2> HIDE DEF n0, b
  <2> QED
    BY <1>2, <1>6, <2>1
<1> HIDE DEF n0, b
<1> DEFINE g == IF b >= 2 THEN 1 ELSE 0
           h == b - 2 * g
           n == first + n0
<1>8. g \in 0..1 /\ h \in 0..1 /\ b = 2 * g + h
  BY <1>7
<1> HIDE DEF g, h
<1>9. n \in Nat /\ n > 0 /\ n < Largest /\ first \in Nat
  <2>1. Largest = 4 * W - 1
    BY <1>2 DEF Largest
  <2> HIDE DEF W, H
  <2> QED
    BY <1>2, <1>4, <1>7, <2>1
<1>10. 4 * n + 2 * g + h = 4 * first + j
  <2> HIDE DEF first
  <2> QED
    BY <1>7, <1>8, <1>9
<1>11. (4 * first + j) * D + rem = first * (4 * D) + T
  <2> HIDE DEF first, H
  <2>1. (4 * first + j) * D = first * (4 * D) + D * j
    BY <1>2, <1>5, <1>9
  <2>2. first * (4 * D) \in Int /\ D * j \in Int
    BY <1>2, <1>5, <1>9
  <2> QED
    BY <1>2, <1>5, <2>1, <2>2
<1> DEFINE v == IF low THEN 4 * Q + j ELSE j - 8 * Q
<1>12. Signed(word, NBits+1) \div D = v
  <2>1. Signed(word, NBits+1) = v * D + rem
    <3>1. (4 * Q + j) * D = 4 * W + D * j /\ (j - 8 * Q) * D = D * j - 8 * W
      BY <1>2, <1>5
    <3> DEFINE x == D * j
    <3>2. x \in Int
      BY <1>2, <1>5
    <3>3. v * D = IF low THEN 4 * W + x ELSE x - 8 * W
      BY <3>1
    <3> HIDE DEF x, v, W, H, word
    <3> QED
      BY <1>2, <1>3, <1>4, <1>5, <3>2, <3>3 DEF x
  <2>2. v \in Int
    BY <1>2, <1>5
  <2> HIDE DEF v, word
  <2>3. (v * D + rem) \div D = v
    BY <1>2, <1>5, <2>2, DivIs
  <2> QED
    BY <2>1, <2>3
<1>13. Low(v, NBits+1) = 4 * first + j
  <2> DEFINE m == 16 * W  s == 4 * first + j  z == IF low THEN 0 ELSE -1
  <2>1. Low(v, NBits+1) = v % m
    BY <1>2, <1>3 DEF Low
  <2> HIDE DEF W, H
  <2>2. m \in Nat /\ m > 0 /\ s \in 0..(m - 1)
    BY <1>2, <1>4, <1>5, <1>6
  <2>3. v = z * m + s /\ z \in Int
    BY <1>2, <1>4, <1>5
  <2> HIDE DEF m, v, s, z
  <2>4. (z * m + s) % m = s
    BY <2>2, <2>3, DivIs
  <2> QED
    BY <2>1, <2>3, <2>4 DEF s
<1>14. GenShifted(word, c - 1) = 4 * n + 2 * g + h
  <2>1. GenShifted(word, c - 1) = Low(v, NBits+1)
    <3> HIDE DEF v, word
    <3> QED
      BY <1>2, <1>12 DEF GenShifted
  <2> HIDE DEF v, word, n, first
  <2> QED
    BY <1>10, <1>13, <2>1
<1>15. GenDropped(word, c - 1) <=> rem # 0
  <2>1. Min2(c - 1, NBits - 2) = c - 1
    BY CoreWidths DEF Min2
  <2> DEFINE z == IF low THEN 4 * Q + j ELSE 8 * Q + j
  <2>2. word = z * D + rem /\ z \in Int
    <3>1. (4 * Q + j) * D = 4 * W + D * j /\ (8 * Q + j) * D = 8 * W + D * j
      BY <1>2, <1>5
    <3> DEFINE x == D * j
    <3>2. x \in Int
      BY <1>2, <1>5
    <3>3. z * D = IF low THEN 4 * W + x ELSE 8 * W + x
      BY <3>1
    <3>4. z \in Int
      BY <1>2, <1>5
    <3> HIDE DEF x, z, W, H, word
    <3> QED
      BY <1>2, <1>3, <1>4, <1>5, <3>2, <3>3, <3>4 DEF x
  <2> HIDE DEF z, word
  <2>3. (z * D + rem) % D = rem
    BY <1>2, <1>5, <2>2, DivIs
  <2>4. Low(word, c - 1) = rem
    BY <1>2, <2>2, <2>3 DEF Low
  <2> QED
    BY <2>1, <2>4 DEF GenDropped
<1>16. (4 * n + 2 * g + h) * D + rem = first * (4 * D) + T
  <2> HIDE DEF n, first
  <2> QED
    BY <1>10, <1>11
<1> HIDE DEF n
<1>17. /\ n \in Nat /\ g \in 0..1 /\ h \in 0..1 /\ rem \in 0..(D-1)
       /\ n > 0 /\ n < Largest
       /\ GenShifted(word, c - 1) = 4 * n + 2 * g + h
       /\ GenDropped(word, c - 1) <=> rem # 0
       /\ (4 * n + 2 * g + h) * D + rem = first * (4 * D) + T
  BY <1>5, <1>8, <1>9, <1>14, <1>15, <1>16
<1> HIDE DEF word, first
<1>18. \E i \in Nat, p \in 0..1, q \in 0..1, l \in 0..(D-1) :
         /\ i > 0 /\ i < Largest
         /\ GenShifted(word, c - 1) = 4 * i + 2 * p + q
         /\ GenDropped(word, c - 1) <=> l # 0
         /\ (4 * i + 2 * p + q) * D + l = first * (4 * D) + T
  BY <1>17
<1>19. ShiftedFrom(word, first, c, T)
  <2>1. D = 2^(c-1)
    BY <1>2
  <2>2. ShiftSplits(word, first, c, T, D)
    BY <1>18, Zenon DEF ShiftSplits
  <2> QED
    BY <2>1, <2>2 DEF ShiftedFrom
<1>20. first = IF low THEN 2^k ELSE H - 2 * 2^k
  BY <1>2 DEF first
<1> QED
  BY <1>19, <1>20 DEF word, H

\* Above every regime the generator gives the largest pattern.
LEMMA SaturatesHigh ==
  ASSUME NEW T \in 0..(2^(NBits-1) - 1), NEW r \in Int, r >= NBits - 2, NEW sticky
  PROVE  GenMagnitude(GenShifted(2 * 2^(NBits-1) + T, r), sticky) = Largest
<1> DEFINE H == 2^(NBits-1)  q == 2^(NBits-2)  P == 2^r  x == T - 2 * H  d == x \div P
           word == 2 * H + T
<1>1. /\ Signed(word, NBits+1) = x
      /\ H \in Nat /\ H > 1 /\ T \in Nat /\ T < H /\ 2^(NBits+1) = 4 * H
  <2>1. (IF FALSE THEN 1 ELSE 2) * H + T = word
    OBVIOUS
  <2> HIDE DEF word
  <2> QED
    BY <2>1, WordSigned DEF H
<1>2. P \in Nat /\ P > 0 /\ q \in Nat /\ q <= P /\ H = 2 * q
  <2>1. r \in Nat /\ NBits - 2 \in Nat /\ (NBits-2)+1 = NBits-1
    BY FormatAssumption
  <2>2. 2^((NBits-2)+1) = 2 * 2^(NBits-2) /\ 2^(NBits-2) \in Nat
    BY <2>1, PowerNext, PowerPositive
  <2> QED
    BY <2>1, <2>2, PowerPositive, PowerMonotone
<1> HIDE DEF H, q, P
<1>3. x \in Int /\ -(4 * P) <= x /\ x < 0
  BY <1>1, <1>2
<1>4. d \in Int /\ -4 <= d /\ d < 0
  <2> DEFINE s == x % P
  <2>1. d \in Int /\ s \in 0..(P-1) /\ x = P * d + s
    BY <1>2, <1>3
  <2> HIDE DEF x, d, s
  <2>2. d >= -4
    <3> SUFFICES ASSUME d <= -5 PROVE FALSE
      BY <2>1
    <3>1. P * d <= P * (-5)
      BY <1>2, <2>1
    <3>2. P * d \in Int /\ P * (-5) = -(5 * P)
      BY <1>2, <2>1
    <3> QED
      BY <1>2, <1>3, <2>1, <3>1, <3>2
  <2>3. d < 0
    <3> SUFFICES ASSUME d >= 0 PROVE FALSE
      BY <2>1
    <3>1. P * d \in Nat
      BY <1>2, <2>1
    <3> QED
      BY <1>2, <1>3, <2>1, <3>1
  <2> QED
    BY <2>1, <2>2, <2>3
<1> DEFINE b == d + 4  g == IF b >= 2 THEN 1 ELSE 0  h == b - 2 * g  n == H - 1
           m == 4 * n + 2 * g + h
<1> HIDE DEF d
<1>5. n \in Nat /\ n > 0 /\ g \in 0..1 /\ h \in 0..1 /\ m = 4 * H + d
  BY <1>1, <1>4
<1>6. GenShifted(word, r) = m
  <2>1. GenShifted(word, r) = d % (4 * H)
    <3> HIDE DEF word, x
    <3> QED
      BY <1>1 DEF GenShifted, Low, P, d
  <2> DEFINE k == 4 * H
  <2>2. k \in Nat /\ k > 0 /\ m \in 0..(k-1) /\ d = (-1) * k + m
    BY <1>1, <1>4, <1>5
  <2> HIDE DEF m, k
  <2>3. ((-1) * k + m) % k = m
    <3>1. -1 \in Int
      OBVIOUS
    <3> QED
      BY <2>2, <3>1, DivIs
  <2> QED
    BY <2>1, <2>2, <2>3 DEF k
<1>7. m \div 2^2 = n
  BY <1>5, LastBits
<1>8. n = 2^(NBits-1) - 1 /\ n = Largest
  BY DEF H, Largest
<1> HIDE DEF m, n
<1>9. GenMagnitude(m, sticky) = IF n + 0 = 0 THEN 1 ELSE n + 0
  BY <1>7, <1>8 DEF GenMagnitude
<1> HIDE DEF word
<1> QED
  BY <1>5, <1>6, <1>8, <1>9 DEF word, H

\* Below every regime it gives the smallest one, and never zero.
LEMMA SaturatesLow ==
  ASSUME NEW T \in 0..(2^(NBits-1) - 1), NEW offset \in Int, offset >= NBits - 1, NEW sticky
  PROVE  GenMagnitude(GenShifted(2^(NBits-1) + T, offset), sticky) = 1
<1> DEFINE H == 2^(NBits-1)  P == 2^offset  word == H + T  h == word \div P
           m == 4 * 0 + 2 * 0 + h
<1>1. /\ Signed(word, NBits+1) = word
      /\ H \in Nat /\ H > 1 /\ T \in Nat /\ T < H /\ 2^(NBits+1) = 4 * H
  <2>1. H \in Nat
    BY Halves
  <2>2. (IF TRUE THEN 1 ELSE 2) * H + T = word
    BY <2>1
  <2> HIDE DEF word
  <2> QED
    BY <2>2, WordSigned DEF H, word
<1>2. P \in Nat /\ P > 0 /\ H <= P
  <2>1. offset \in Nat /\ NBits - 1 \in Nat
    BY FormatAssumption
  <2> QED
    BY <2>1, PowerPositive, PowerMonotone
<1> HIDE DEF H, P
<1>3. word \in Nat /\ word < 2 * P
  BY <1>1, <1>2
<1> HIDE DEF word
<1>4. h \in 0..1
  <2> DEFINE s == word % P
  <2>1. h \in Nat /\ s \in 0..(P-1) /\ word = P * h + s
    BY <1>2, <1>3
  <2> HIDE DEF h, s
  <2> SUFFICES ASSUME h >= 2 PROVE FALSE
    BY <2>1
  <2>2. P * 2 <= P * h /\ P * h \in Nat
    BY <1>2, <2>1
  <2> QED
    BY <1>2, <1>3, <2>1, <2>2
<1> HIDE DEF h
<1>5. m = h
  BY <1>4
<1>6. GenShifted(word, offset) = m
  <2>1. GenShifted(word, offset) = Low(h, NBits+1)
    <3> HIDE DEF word
    <3> QED
      BY <1>1 DEF GenShifted, P, h
  <2>2. h \in 0..(2^(NBits+1) - 1) /\ NBits + 1 \in Nat
    BY <1>1, <1>4, CoreWidths
  <2> QED
    BY <1>5, <2>1, <2>2, LowOfSmall
<1>7. m \div 2^2 = 0 /\ Bit(m, 1) = 0
  <2>1. 0 \in Nat /\ 0 \in 0..1
    OBVIOUS
  <2> QED
    BY <1>4, <2>1, LastBits
<1> HIDE DEF m
<1>8. GenMagnitude(m, sticky) = 1
  <2>1. ~RoundsUp(Bit(m, 2), Bit(m, 1), Bit(m, 0), sticky)
    BY <1>7 DEF RoundsUp
  <2> QED
    BY <1>7, <2>1 DEF GenMagnitude
<1> HIDE DEF word
<1> QED
  BY <1>6, <1>8 DEF word, H

\* The regime of an operand, and its place in the regime.
RegimeOf(u) == u.exponent \div 2^ES

PlaceOf(u)  == (u.exponent % 2^ES) * 2^FracBits + (u.fraction - 2^FracBits)

\* A number with a leading one, and neither zero nor NaR.
Normalized(u) ==
  /\ u \in Unpacked /\ ~u.isZero /\ ~u.isNaR
  /\ u.fraction \in 2^FracBits .. (2 * 2^FracBits - 1)

LEMMA NormalizedStands ==
  ASSUME NEW u, Normalized(u)
  PROVE  /\ RegimeOf(u) \in Int /\ PlaceOf(u) \in 0..(2^ES * 2^FracBits - 1)
         /\ StandsAt(u, RegimeOf(u), PlaceOf(u))
<1> DEFINE base == 2^ES  M == 2^FracBits  e == u.exponent  s == u.fraction - M
           r == e \div base  a == e % base  y == a * M + s
<1>1. base \in Nat /\ base > 0 /\ M \in Nat /\ M > 0
  BY CoreWidths, Widths, PowerPositive, FormatAssumption
<1>2. e \in Int /\ u.fraction \in M..(2 * M - 1)
  BY DEF Normalized, Unpacked
<1> HIDE DEF base, M, e
<1>3. s \in 0..(M-1) /\ u.fraction = M + s
  BY <1>1, <1>2
<1>4. r \in Int /\ a \in 0..(base-1) /\ e = r * base + a
  <2>1. r \in Int /\ a \in 0..(base-1) /\ e = base * r + a
    BY <1>1, <1>2
  <2> HIDE DEF r, a
  <2> QED
    BY <1>1, <2>1
<1> HIDE DEF r, a, s
<1>5. y \div M = a /\ y % M = s
  BY <1>1, <1>3, <1>4, DivIs
<1>6. y \in 0..(base * M - 1)
  <2>1. (a + 1) * M <= base * M /\ (a + 1) * M = a * M + M /\ a * M \in Nat /\ base * M \in Nat
    BY <1>1, <1>4
  <2> QED
    BY <1>1, <1>3, <2>1
<1>7. RegimeOf(u) = r /\ PlaceOf(u) = y
  BY DEF RegimeOf, PlaceOf, r, a, s, base, M, e
<1>8. StandsAt(u, r, y)
  BY <1>3, <1>4, <1>5 DEF StandsAt, base, M, e
<1> HIDE DEF y
<1> QED
  BY <1>4, <1>6, <1>7, <1>8 DEF base, M

\* The powers of the base in the reference, and how far apart they are.
LEMMA PatternOfRun ==
  ASSUME NEW low \in BOOLEAN, NEW c \in Nat \ {0}, NEW k \in Nat, c + k = NBits - 2
  PROVE  LET r == IF low THEN -c ELSE c - 1
         IN  /\ PowerPattern(r, NBits) = IF low THEN 2^k ELSE 2^(NBits-1) - 2 * 2^k
             /\ PowerPattern(r+1, NBits) - PowerPattern(r, NBits) = 2^k
<1> DEFINE r == IF low THEN -c ELSE c - 1  H == 2^(NBits-1)  Q == 2^k
<1>1. NBits \in Nat /\ 2^(k+1) = 2 * Q /\ Q \in Nat /\ H \in Nat
  BY FormatAssumption, PowerNext, PowerPositive, Halves
<1>2. CASE low
  <2>1. r = -c /\ ~(r >= 0) /\ NBits - 2 + r = k
    BY <1>1, <1>2
  <2>2. PowerPattern(r, NBits) = Q
    BY <2>1 DEF PowerPattern
  <2>3. PowerPattern(r+1, NBits) = 2 * Q
    <3>1. CASE c = 1
      <4>1. r + 1 = 0 /\ NBits - 2 - (r + 1) = k + 1 /\ k + 1 \in Nat /\ (k+1)+1 = NBits - 1
        BY <1>1, <2>1, <3>1
      <4>2. 2^((k+1)+1) = 2 * 2^(k+1)
        BY <4>1, PowerNext
      <4>3. H = 2 * (2 * Q)
        BY <1>1, <4>1, <4>2
      <4>4. PowerPattern(r+1, NBits) = H - 2^(k+1)
        BY <4>1 DEF PowerPattern
      <4> HIDE DEF H, Q, r
      <4> QED
        BY <1>1, <4>3, <4>4
    <3>2. CASE c # 1
      <4>1. ~(r + 1 >= 0) /\ NBits - 2 + (r + 1) = k + 1
        BY <1>1, <2>1, <3>2
      <4>2. PowerPattern(r+1, NBits) = 2^(k+1)
        BY <4>1 DEF PowerPattern
      <4> HIDE DEF H, Q, r
      <4> QED
        BY <1>1, <4>2
    <3> QED
      BY <3>1, <3>2
  <2> HIDE DEF H, Q, r
  <2>4. PowerPattern(r, NBits) = Q /\ PowerPattern(r+1, NBits) - PowerPattern(r, NBits) = Q
    BY <1>1, <2>2, <2>3
  <2> QED
    BY <1>2, <2>4 DEF Q, r
<1>3. CASE ~low
  <2>1. r = c - 1 /\ r >= 0 /\ r + 1 >= 0 /\ NBits - 2 - r = k + 1 /\ NBits - 2 - (r + 1) = k
    BY <1>1, <1>3
  <2>2. PowerPattern(r, NBits) = H - 2^(k+1)
    BY <2>1 DEF PowerPattern
  <2>3. PowerPattern(r+1, NBits) = H - Q
    BY <2>1 DEF PowerPattern
  <2> HIDE DEF H, Q, r
  <2>4. /\ PowerPattern(r, NBits) = H - 2 * Q
        /\ PowerPattern(r+1, NBits) - PowerPattern(r, NBits) = Q
    BY <1>1, <2>2, <2>3
  <2> QED
    BY <1>3, <2>4 DEF H, Q, r
<1> QED
  BY <1>2, <1>3

\* The unit does not matter.
LEMMA NearestScaled ==
  ASSUME NEW n \in Nat, NEW x \in Int, NEW unit \in Nat, NEW sticky,
         NEW q \in Nat, q > 0, Nearest(n, x, unit, sticky)
  PROVE  Nearest(n, x * q, unit * q, sticky)
<1> DEFINE d == 2 * (n * unit - x)  e == 2 * (n * (unit * q) - x * q)
<1>1. d \in Int /\ e = d * q
  <2>1. n * unit \in Int /\ n * (unit * q) = (n * unit) * q
    OBVIOUS
  <2> DEFINE m == n * unit
  <2>2. 2 * (m * q - x * q) = 2 * (m - x) * q
    BY <2>1
  <2> QED
    BY <2>1, <2>2
<1>2. /\ -unit <= d /\ d <= unit
      /\ d = -unit => ~sticky /\ n % 2 = 0
      /\ d = unit  => sticky \/ n % 2 = 0
  BY DEF Nearest
<1> HIDE DEF d
<1>3. -(unit * q) <= d * q /\ d * q <= unit * q
  <2>1. (-unit) * q <= d * q /\ d * q <= unit * q /\ (-unit) * q = -(unit * q)
    BY <1>1, <1>2
  <2> QED
    BY <2>1
<1>4. d * q = unit * q => d = unit
  BY <1>1
<1>5. d * q = -(unit * q) => d = -unit
  <2>1. (-unit) * q = -(unit * q)
    OBVIOUS
  <2>2. d * q = (-unit) * q => d = -unit
    BY <1>1
  <2> QED
    BY <2>1, <2>2
<1>6. /\ -(unit * q) <= e /\ e <= unit * q
      /\ e = -(unit * q) => ~sticky /\ n % 2 = 0
      /\ e = unit * q => sticky \/ n % 2 = 0
  <2> HIDE DEF e
  <2>1. e = d * q
    BY <1>1
  <2> QED
    BY <1>2, <1>3, <1>4, <1>5, <2>1
<1> QED
  BY <1>6 DEF Nearest

\* Between the extremes the generator's pattern is the nearest one.
LEMMA GeneratesNearest ==
  ASSUME NEW u, Normalized(u), NEW trailing \in 0..3, NEW sticky \in BOOLEAN,
         -(NBits-1) < RegimeOf(u), RegimeOf(u) < NBits - 2
  PROVE  LET r     == RegimeOf(u)
             unit  == 4 * (2^ES * 2^FracBits)
             width == PowerPattern(r+1, NBits) - PowerPattern(r, NBits)
         IN  \E n \in 1..Largest :
               /\ Generate(u, trailing, sticky) = IF u.sign THEN Negated(n, NBits) ELSE n
               /\ Nearest(n, PowerPattern(r, NBits) * unit
                               + width * (4 * PlaceOf(u) + trailing), unit, sticky)
<1> DEFINE r == RegimeOf(u)  y == PlaceOf(u)  T == 4 * y + trailing
           low == r < 0  c == IF low THEN -r ELSE r + 1  k == NBits - 2 - c
           word == GenWord(u.exponent, u.fraction, trailing)
<1>1. r \in Int /\ y \in 0..(2^ES * 2^FracBits - 1) /\ StandsAt(u, r, y)
  BY NormalizedStands
<1>2. -(NBits-1) < r /\ r < NBits - 2 /\ NBits \in Nat
  BY Halves
<1> HIDE DEF r, y
<1>3. /\ low \in BOOLEAN /\ c \in Nat \ {0} /\ k \in Nat /\ c + k = NBits - 2
      /\ r = IF low THEN -c ELSE c - 1
  BY <1>1, <1>2
<1>4. /\ GenOffset(u.exponent) = c - 1
      /\ word = (IF low THEN 1 ELSE 2) * 2^(NBits-1) + T
      /\ T \in 0..(2^(NBits-1) - 1)
  <2>1. /\ GenOffset(u.exponent) =
             IF r < 0 THEN IF r = -(NBits-1) THEN NBits-1 ELSE -r - 1 ELSE r
        /\ word = (IF r < 0 THEN 1 ELSE 2) * 2^(NBits-1) + T
        /\ T \in 0..(2^(NBits-1) - 1)
    BY <1>1, WordIs
  <2> HIDE DEF word, T
  <2>2. r # -(NBits-1)
    BY <1>1, <1>2
  <2>3. GenOffset(u.exponent) = IF r < 0 THEN -r - 1 ELSE r
    BY <2>1, <2>2
  <2>4. c - 1 = IF r < 0 THEN -r - 1 ELSE r
    BY <1>1
  <2> QED
    BY <2>1, <2>3, <2>4
<1> DEFINE P == PowerPattern(r, NBits)  D == 2^(c-1)
           width == PowerPattern(r+1, NBits) - P
<1>5. P = (IF low THEN 2^k ELSE 2^(NBits-1) - 2 * 2^k) /\ width = 2^k
  <2> DEFINE s == IF low THEN -c ELSE c - 1
  <2>1. s = r
    BY <1>3
  <2> HIDE DEF low, c, k
  <2>2. /\ PowerPattern(s, NBits) = IF low THEN 2^k ELSE 2^(NBits-1) - 2 * 2^k
        /\ PowerPattern(s+1, NBits) - PowerPattern(s, NBits) = 2^k
    BY <1>3, PatternOfRun
  <2> HIDE DEF s
  <2> QED
    BY <2>1, <2>2
<1> HIDE DEF low, c, k, P
<1>6. ShiftedFrom(word, P, c, T)
  <2> HIDE DEF word, T
  <2>1. ShiftedFrom((IF low THEN 1 ELSE 2) * 2^(NBits-1) + T,
                    IF low THEN 2^k ELSE 2^(NBits-1) - 2 * 2^k, c, T)
    BY <1>3, <1>4, ShiftedRun
  <2> QED
    BY <1>4, <1>5, <2>1
<1> HIDE DEF T, word
<1>7. PICK n \in Nat, g \in 0..1, h \in 0..1, rem \in 0..(D-1) :
        /\ n > 0 /\ n < Largest
        /\ GenShifted(word, c - 1) = 4 * n + 2 * g + h
        /\ GenDropped(word, c - 1) <=> rem # 0
        /\ (4 * n + 2 * g + h) * D + rem = P * (4 * D) + T
  BY <1>6 DEF ShiftedFrom, ShiftSplits
<1> DEFINE m == 4 * n + 2 * g + h  v == GenMagnitude(m, sticky \/ rem # 0)
<1>8. PICK base, M, Q, E : Powers(c, k, base, M, Q, E)
  BY <1>3, RunPowers
<1>9. /\ D \in Nat /\ D > 0 /\ Q \in Nat /\ Q > 0 /\ width = Q
      /\ 4 * (2^ES * 2^FracBits) = (4 * D) * Q
  <2>1. /\ E = D /\ Q = 2^k /\ base = 2^ES /\ M = 2^FracBits /\ E * Q = base * M
        /\ E \in Nat \ {0} /\ Q \in Nat \ {0}
    BY <1>8 DEF Powers
  <2>2. width = Q
    <3> HIDE DEF width
    <3> QED
      BY <1>5, <2>1
  <2> HIDE DEF D, width
  <2>3. D \in Nat /\ D > 0 /\ Q \in Nat /\ Q > 0 /\ 2^ES * 2^FracBits = D * Q
    BY <2>1
  <2>4. 4 * (D * Q) = (4 * D) * Q
    BY <2>3
  <2> QED
    BY <2>2, <2>3, <2>4
<1> HIDE DEF D
<1>10. v \in 1..Largest /\ Nearest(v, m * D + rem, 4 * D, sticky)
  <2>1. n \in Nat /\ g \in 0..1 /\ h \in 0..1 /\ n > 0 /\ n < Largest
    BY <1>7
  <2>2. D \in Nat /\ D > 0 /\ rem \in 0..(D-1) /\ sticky \in BOOLEAN
    BY <1>7, <1>9
  <2> QED
    BY <2>1, <2>2, RoundingIsNearest, Zenon
<1>11. Generate(u, trailing, sticky) = IF u.sign THEN Negated(v, NBits) ELSE v
  <2>1. ~u.isZero /\ ~u.isNaR
    BY DEF Normalized
  <2>2. u.fraction # 0
    <3>1. 2^FracBits \in Nat /\ 2^FracBits > 0
      BY Widths, PowerPositive
    <3> DEFINE M0 == 2^FracBits
    <3>2. u.fraction \in M0..(2 * M0 - 1)
      BY DEF Normalized
    <3> HIDE DEF M0
    <3> QED
      BY <3>1, <3>2 DEF M0
  <2>3. GenShifted(word, c - 1) = m
    BY <1>7
  <2>4. (sticky \/ GenDropped(word, c - 1)) = (sticky \/ rem # 0)
    BY <1>7, Zenon DEF GenDropped
  <2> DEFINE w == GenMagnitude(GenShifted(word, c - 1), sticky \/ GenDropped(word, c - 1))
  <2>5. w = v
    <3> HIDE DEF m
    <3> QED
      BY <2>3, <2>4
  <2>6. Generate(u, trailing, sticky) = IF u.sign THEN Negated(w, NBits) ELSE w
    <3> HIDE DEF c
    <3> QED
      BY <1>4, <2>1, <2>2, GenerateIs DEF word
  <2> HIDE DEF v, w
  <2> QED
    BY <2>5, <2>6
<1> HIDE DEF v, m
<1> DEFINE x == m * D + rem
<1>12. x = P * (4 * D) + T /\ x \in Int /\ T \in Int /\ P \in Int
  <2>1. P \in Int
    <3>1. 2^k \in Nat /\ 2^(NBits-1) \in Nat
      BY <1>3, PowerPositive, Halves
    <3> QED
      BY <1>5, <3>1
  <2>2. m \in Int
    BY <1>7 DEF m
  <2>3. T \in Int
    <3>1. 2^(NBits-1) \in Nat
      BY Halves
    <3> QED
      BY <1>4, <3>1
  <2>4. m * D + rem = P * (4 * D) + T
    BY <1>7 DEF m
  <2> QED
    BY <1>7, <1>9, <2>1, <2>2, <2>3, <2>4
<1>13. Nearest(v, x * Q, (4 * D) * Q, sticky)
  <2>1. v \in Nat /\ 4 * D \in Nat
    BY <1>9, <1>10, ExtractLargest
  <2> HIDE DEF x
  <2>2. Nearest(v, x, 4 * D, sticky)
    BY <1>10 DEF x
  <2> QED
    BY <1>9, <1>12, <2>1, <2>2, NearestScaled
<1>14. x * Q = P * ((4 * D) * Q) + Q * T
  <2> HIDE DEF x
  <2>1. (P * (4 * D) + T) * Q = P * ((4 * D) * Q) + Q * T
    BY <1>9, <1>12
  <2> QED
    BY <1>12, <2>1
<1> HIDE DEF x, width
<1> DEFINE unit == 4 * (2^ES * 2^FracBits)
<1>15. Nearest(v, P * unit + width * T, unit, sticky)
  <2>1. unit = (4 * D) * Q /\ width = Q
    BY <1>9
  <2> HIDE DEF unit
  <2> QED
    BY <1>13, <1>14, <2>1
<1> HIDE DEF unit
<1>16. \E i \in 1..Largest :
         /\ Generate(u, trailing, sticky) = IF u.sign THEN Negated(i, NBits) ELSE i
         /\ Nearest(i, P * unit + width * T, unit, sticky)
  BY <1>10, <1>11, <1>15
<1> QED
  BY <1>16 DEF unit, width, P, T, r, y

\* A value that stands beyond the extremes gets the extreme.
LEMMA GeneratesExtreme ==
  ASSUME NEW u, Normalized(u), NEW trailing \in 0..3, NEW sticky \in BOOLEAN
  PROVE  /\ RegimeOf(u) >= NBits - 2 =>
              Generate(u, trailing, sticky) = IF u.sign THEN Negated(Largest, NBits) ELSE Largest
         /\ RegimeOf(u) <= -(NBits-1) =>
              Generate(u, trailing, sticky) = IF u.sign THEN Negated(1, NBits) ELSE 1
<1> DEFINE r == RegimeOf(u)  y == PlaceOf(u)  T == 4 * y + trailing
           word   == GenWord(u.exponent, u.fraction, trailing)
           offset == GenOffset(u.exponent)
           H == 2^(NBits-1)
           n == GenMagnitude(GenShifted(word, offset), sticky \/ GenDropped(word, offset))
<1>1. r \in Int /\ y \in 0..(2^ES * 2^FracBits - 1) /\ StandsAt(u, r, y)
  BY NormalizedStands
<1> HIDE DEF r, y
<1>2. /\ offset = IF r < 0 THEN IF r = -(NBits-1) THEN NBits-1 ELSE -r - 1 ELSE r
      /\ word = (IF r < 0 THEN 1 ELSE 2) * H + T
      /\ T \in 0..(H - 1)
  BY <1>1, WordIs
<1>3. Generate(u, trailing, sticky) = IF u.sign THEN Negated(n, NBits) ELSE n
  <2>1. ~u.isZero /\ ~u.isNaR
    BY DEF Normalized
  <2>2. u.fraction # 0
    <3>1. 2^FracBits \in Nat /\ 2^FracBits > 0
      BY Widths, PowerPositive
    <3> DEFINE M0 == 2^FracBits
    <3>2. u.fraction \in M0..(2 * M0 - 1)
      BY DEF Normalized
    <3> HIDE DEF M0
    <3> QED
      BY <3>1, <3>2 DEF M0
  <2> QED
    BY <2>1, <2>2, GenerateIs
<1>4. NBits \in Nat /\ NBits - 2 \in Nat /\ H \in Nat
  BY FormatAssumption, Halves
<1> HIDE DEF word, offset, T
<1> DEFINE lost == sticky \/ GenDropped(word, offset)
<1> HIDE DEF lost
<1>5. CASE r >= NBits - 2
  <2>1. ~(r < 0) /\ offset = r /\ word = 2 * H + T /\ r >= NBits - 2
    BY <1>1, <1>2, <1>4, <1>5
  <2>2. GenMagnitude(GenShifted(2 * H + T, r), lost) = Largest
    BY <1>1, <1>2, <2>1, SaturatesHigh
  <2>3. n = Largest
    BY <2>1, <2>2 DEF lost
  <2>4. ~(r <= -(NBits-1))
    BY <1>1, <1>4, <1>5
  <2> HIDE DEF n
  <2> QED
    BY <1>3, <2>3, <2>4 DEF r
<1>6. CASE r <= -(NBits-1)
  <2>1. r < 0 /\ word = H + T /\ offset \in Int /\ offset >= NBits - 1
    <3>1. r < 0
      BY <1>1, <1>4, <1>6
    <3>2. 1 * H = H
      BY <1>4
    <3>3. offset = IF r = -(NBits-1) THEN NBits-1 ELSE -r - 1
      BY <1>2, <3>1
    <3>4. word = H + T
      BY <1>2, <3>1, <3>2
    <3> HIDE DEF H
    <3> QED
      BY <1>1, <1>4, <1>6, <3>1, <3>3, <3>4
  <2>2. GenMagnitude(GenShifted(H + T, offset), lost) = 1
    BY <1>2, <2>1, SaturatesLow
  <2>3. n = 1
    BY <2>1, <2>2 DEF lost
  <2>4. ~(r >= NBits - 2)
    BY <1>1, <1>4, <1>6
  <2> HIDE DEF n
  <2> QED
    BY <1>3, <2>3, <2>4 DEF r
<1>7. CASE ~(r >= NBits - 2) /\ ~(r <= -(NBits-1))
  BY <1>7 DEF r
<1> QED
  BY <1>5, <1>6, <1>7

\* Both together, for what a core hands the generator.
LEMMA GeneratesRounded ==
  \A u, trailing, sticky :
    Normalized(u) /\ trailing \in 0..3 /\ sticky \in BOOLEAN =>
      LET r     == RegimeOf(u)
          unit  == 4 * (2^ES * 2^FracBits)
          width == PowerPattern(r+1, NBits) - PowerPattern(r, NBits)
          exact == PowerPattern(r, NBits) * unit + width * (4 * PlaceOf(u) + trailing)
      IN  \E n \in 1..Largest :
            /\ Generate(u, trailing, sticky) = IF u.sign THEN Negated(n, NBits) ELSE n
            /\ IF r >= NBits - 2 THEN n = Largest
               ELSE IF r <= -(NBits-1) THEN n = 1
               ELSE Nearest(n, exact, unit, sticky)
<1> SUFFICES ASSUME NEW u, NEW trailing, NEW sticky,
                    Normalized(u), trailing \in 0..3, sticky \in BOOLEAN
             PROVE  LET r     == RegimeOf(u)
                        unit  == 4 * (2^ES * 2^FracBits)
                        width == PowerPattern(r+1, NBits) - PowerPattern(r, NBits)
                        exact == PowerPattern(r, NBits) * unit
                                   + width * (4 * PlaceOf(u) + trailing)
                    IN  \E n \in 1..Largest :
                          /\ Generate(u, trailing, sticky) =
                               IF u.sign THEN Negated(n, NBits) ELSE n
                          /\ IF r >= NBits - 2 THEN n = Largest
                             ELSE IF r <= -(NBits-1) THEN n = 1
                             ELSE Nearest(n, exact, unit, sticky)
  OBVIOUS
<1> DEFINE r == RegimeOf(u)
           unit == 4 * (2^ES * 2^FracBits)
           exact == PowerPattern(r, NBits) * unit
                      + (PowerPattern(r+1, NBits) - PowerPattern(r, NBits))
                          * (4 * PlaceOf(u) + trailing)
           Packs(n) == Generate(u, trailing, sticky) = IF u.sign THEN Negated(n, NBits) ELSE n
<1>1. Largest \in 1..Largest /\ 1 \in 1..Largest
  BY ExtractLargest
<1>2. r \in Int /\ NBits \in Nat
  BY NormalizedStands, Halves
<1>3. r >= NBits - 2 => Packs(Largest)
  BY GeneratesExtreme
<1>4. r <= -(NBits-1) => Packs(1)
  BY GeneratesExtreme
<1>5. ~(r >= NBits - 2) /\ ~(r <= -(NBits-1)) =>
        \E n \in 1..Largest : Packs(n) /\ Nearest(n, exact, unit, sticky)
  <2> HAVE ~(r >= NBits - 2) /\ ~(r <= -(NBits-1))
  <2>1. -(NBits-1) < r /\ r < NBits - 2
    BY <1>2
  <2> QED
    BY <2>1, GeneratesNearest
<1> HIDE DEF Packs, exact, unit, r
<1>6. \E n \in 1..Largest :
        /\ Packs(n)
        /\ IF r >= NBits - 2 THEN n = Largest
           ELSE IF r <= -(NBits-1) THEN n = 1
           ELSE Nearest(n, exact, unit, sticky)
  BY <1>1, <1>3, <1>4, <1>5, Zenon
<1> QED
  BY <1>6 DEF Packs, exact, unit, r

\* An operand stands at one place.
LEMMA StandsOnce ==
  ASSUME NEW u, NEW r \in Int, NEW y \in 0..(2^ES * 2^FracBits - 1), StandsAt(u, r, y)
  PROVE  RegimeOf(u) = r /\ PlaceOf(u) = y
<1> DEFINE base == 2^ES  M == 2^FracBits  W == base * M  a == y \div M  s == y % M
<1>1. base \in Nat /\ base > 0 /\ M \in Nat /\ M > 0 /\ W \in Nat
  BY CoreWidths, Widths, PowerPositive, FormatAssumption
<1>2. y \in Nat /\ y < W
  <2>1. y \in 0..(W - 1)
    OBVIOUS
  <2> HIDE DEF W
  <2> QED
    BY <1>1, <2>1
<1>3. u.exponent = r * base + a /\ u.fraction = M + s
  BY DEF StandsAt
<1> HIDE DEF base, M
<1>4. a \in Nat /\ s \in 0..(M-1) /\ y = M * a + s
  BY <1>1, <1>2
<1> HIDE DEF a, s
<1>5. a \in 0..(base-1)
  <2> SUFFICES ASSUME base <= a PROVE FALSE
    BY <1>1, <1>4
  <2>1. M * base <= M * a /\ M * base = W /\ M * a \in Nat
    BY <1>1, <1>4
  <2> HIDE DEF W
  <2> QED
    BY <1>1, <1>2, <1>4, <2>1
<1>6. u.exponent \div base = r /\ u.exponent % base = a
  <2>1. (r * base + a) \div base = r /\ (r * base + a) % base = a
    BY <1>1, <1>5, DivIs
  <2> QED
    BY <1>3, <2>1
<1>7. (u.exponent % base) * M + (u.fraction - M) = y
  <2>1. a * M = M * a
    BY <1>1, <1>4
  <2> QED
    BY <1>1, <1>3, <1>4, <1>6, <2>1
<1> QED
  BY <1>6, <1>7 DEF RegimeOf, PlaceOf, base, M

\* The nearest pattern to a pattern is that pattern.
LEMMA NearestToItself ==
  ASSUME NEW n \in Int, NEW p \in Int, NEW unit \in Nat, unit > 0,
         Nearest(n, p * unit, unit, FALSE)
  PROVE  n = p
<1> DEFINE d == 2 * (n * unit - p * unit)  e == 2 * (n - p)
<1>1. -unit <= d /\ d <= unit
  BY DEF Nearest
<1>2. d = e * unit /\ e \in Int
  OBVIOUS
<1> HIDE DEF d, e
<1>3. e < 2
  <2> SUFFICES ASSUME e >= 2 PROVE FALSE
    BY <1>2
  <2>1. e * unit >= 2 * unit
    BY <1>2
  <2> QED
    BY <1>1, <1>2, <2>1
<1>4. e > -2
  <2> SUFFICES ASSUME e <= -2 PROVE FALSE
    BY <1>2
  <2>1. e * unit <= (-2) * unit /\ (-2) * unit = -(2 * unit)
    BY <1>2
  <2> QED
    BY <1>1, <1>2, <2>1
<1> QED
  BY <1>3, <1>4 DEF e

\* What unpacks from a positive posit packs as that posit.
LEMMA PositivePacks ==
  ASSUME NEW p \in 1..Largest, NEW u, Normalized(u),
         u.exponent = Extract(p).exponent, u.fraction = Extract(p).fraction
  PROVE  Generate(u, 0, FALSE) = IF u.sign THEN Negated(p, NBits) ELSE p
<1> DEFINE unit  == 4 * (2^ES * 2^FracBits)
           width == PowerPattern(RegimeOf(u)+1, NBits) - PowerPattern(RegimeOf(u), NBits)
           exact == PowerPattern(RegimeOf(u), NBits) * unit + width * (4 * PlaceOf(u) + 0)
<1>1. NBits \in Nat /\ NBits - 2 \in Nat /\ Largest \in Nat
  BY FormatAssumption, ExtractLargest
<1>2. PICK n \in 1..Largest :
        /\ Generate(u, 0, FALSE) = IF u.sign THEN Negated(n, NBits) ELSE n
        /\ IF RegimeOf(u) >= NBits - 2 THEN n = Largest
           ELSE IF RegimeOf(u) <= -(NBits-1) THEN n = 1
           ELSE Nearest(n, exact, unit, FALSE)
  <2>1. 0 \in 0..3 /\ FALSE \in BOOLEAN
    OBVIOUS
  <2> QED
    BY <2>1, GeneratesRounded
<1> HIDE DEF exact, unit
<1> SUFFICES n = p
  BY <1>2
<1>3. CASE p = Largest
  <2>1. StandsAt(u, NBits - 2, 0)
    BY <1>3, ExtractLargest DEF StandsAt
  <2>2. 0 \in 0..(2^ES * 2^FracBits - 1)
    <3>1. 2^ES \in Nat \ {0} /\ 2^FracBits \in Nat \ {0}
      BY Widths, PowerPositive, FormatAssumption
    <3> DEFINE a == 2^ES  b == 2^FracBits
    <3> HIDE DEF a, b
    <3>2. a * b \in Nat \ {0}
      BY <3>1 DEF a, b
    <3> DEFINE w == a * b
    <3> HIDE DEF w
    <3>3. 0 \in 0..(w - 1)
      BY <3>2 DEF w
    <3> QED
      BY <3>3 DEF w, a, b
  <2>3. RegimeOf(u) = NBits - 2
    BY <1>1, <2>1, <2>2, StandsOnce
  <2>4. RegimeOf(u) >= NBits - 2
    BY <1>1, <2>3
  <2> QED
    BY <1>2, <1>3, <2>4
<1>4. CASE p # Largest
  <2>1. p \in 1..(Largest - 1)
    BY <1>1, <1>4
  <2>2. PICK low, c, k, t :
          /\ Run(p, low, c, k, t)
          /\ StandsAt(Extract(p), IF low THEN -c ELSE c - 1, t * 2^(c-1))
    BY <2>1, ExtractRun
  <2> DEFINE r == IF low THEN -c ELSE c - 1  D == 2^(c-1)  y == t * D
  <2>3. /\ y \in 0..(2^ES * 2^FracBits - 1)
        /\ c \in Nat \ {0} /\ k \in Nat /\ c + k = NBits - 2 /\ low \in BOOLEAN
        /\ t \in Nat
    BY <2>2, RunPlace
  <2>4. StandsAt(u, r, y)
    BY <2>2 DEF StandsAt
  <2>5. r \in Int /\ ~(r >= NBits - 2) /\ ~(r <= -(NBits-1))
    BY <1>1, <2>3
  <2>6. /\ PowerPattern(r, NBits) = IF low THEN 2^k ELSE 2^(NBits-1) - 2 * 2^k
        /\ PowerPattern(r+1, NBits) - PowerPattern(r, NBits) = 2^k
    BY <2>3, PatternOfRun
  <2> HIDE DEF r, y
  <2>7. RegimeOf(u) = r /\ PlaceOf(u) = y
    BY <2>3, <2>4, <2>5, StandsOnce
  <2>8. Nearest(n, exact, unit, FALSE)
    BY <1>2, <2>5, <2>7
  <2>9. PICK base, M, Q, E : Powers(c, k, base, M, Q, E)
    BY <2>3, RunPowers
  <2>10. /\ Q \in Nat /\ Q > 0 /\ D \in Nat /\ D > 0 /\ Q = 2^k
         /\ unit = 4 * (D * Q) /\ y = t * D
    BY <2>9 DEF Powers, unit, y
  <2> HIDE DEF D
  <2> DEFINE first == PowerPattern(r, NBits)
  <2>11. p = first + t /\ first \in Int /\ width = Q
    <3>1. p = IF low THEN 2^k + t ELSE 2^(NBits-1) - 2 * 2^k + t
      BY <2>2 DEF Run
    <3> DEFINE H == 2^(NBits-1)
    <3>2. H \in Nat
      BY Halves
    <3> HIDE DEF H
    <3>3. first = (IF low THEN Q ELSE H - 2 * Q) /\ width = Q
      BY <2>6, <2>7, <2>10 DEF H
    <3>4. p = IF low THEN Q + t ELSE H - 2 * Q + t
      BY <2>10, <3>1 DEF H
    <3> HIDE DEF first, width
    <3>5. CASE low
      BY <2>3, <2>10, <3>2, <3>3, <3>4, <3>5
    <3>6. CASE ~low
      BY <2>3, <2>10, <3>2, <3>3, <3>4, <3>6
    <3> QED
      BY <3>5, <3>6
  <2>12. exact = first * unit + width * (4 * y + 0)
    BY <2>7 DEF exact
  <2> HIDE DEF first, width
  <2>13. exact = p * unit /\ unit \in Nat /\ unit > 0
    <3> DEFINE w == D * Q
    <3>1. w \in Nat /\ w > 0 /\ unit = 4 * w
      BY <2>10
    <3>2. Q * (4 * (t * D) + 0) = t * (4 * w)
      BY <2>3, <2>10
    <3> HIDE DEF w
    <3>3. exact = first * unit + t * unit
      BY <2>10, <2>11, <2>12, <3>1, <3>2
    <3>4. (first + t) * unit = first * unit + t * unit
      BY <2>3, <2>11, <3>1
    <3> QED
      BY <2>11, <3>1, <3>3, <3>4
  <2>14. n \in Int /\ p \in Int
    BY <1>1
  <2> QED
    BY <2>8, <2>13, <2>14, NearestToItself
<1> QED
  BY <1>3, <1>4

\* PositGenerator undoes PositExtractor: in every format a posit that is
\* unpacked and packed again is the same posit, zero and NaR included, so that
\* what the cores are handed loses nothing.
THEOREM PackingUndoesUnpacking ==
  \A p \in Posits : Generate(Extract(p), 0, FALSE) = p
<1> TAKE p \in Posits
<1> DEFINE u == Extract(p)
<1>1. u.fraction \in 2^FracBits .. (2 * 2^FracBits - 1) /\ u \in Unpacked
  BY ExtractedFraction, OperandTypes DEF OperandType
<1>2. p = 0 \/ p = NaR \/ p \in 1..Largest \/ p > NaR
  BY Halves
<1>3. CASE p = 0
  <2>1. u.isZero /\ ~u.isNaR
    BY <1>3, ExtractZero
  <2> HIDE DEF u
  <2>2. Generate(u, 0, FALSE) = 0
    BY <2>1 DEF Generate
  <2> QED
    BY <1>3, <2>2 DEF u
<1>4. CASE p = NaR
  <2>1. u.isNaR = (p = NaR)
    BY DEF Extract
  <2>2. u.isNaR
    BY <1>4, <2>1
  <2> HIDE DEF u
  <2>3. Generate(u, 0, FALSE) = NaR
    BY <2>2 DEF Generate
  <2> QED
    BY <1>4, <2>3 DEF u
<1>5. CASE p \in 1..Largest
  <2>1. ~u.isZero /\ ~u.isNaR /\ ~u.sign
    BY <1>5, ExtractPositive
  <2>2. Normalized(u)
    <3> HIDE DEF u
    <3> QED
      BY <1>1, <2>1 DEF Normalized
  <2>3. u.exponent = Extract(p).exponent /\ u.fraction = Extract(p).fraction
    OBVIOUS
  <2> HIDE DEF u
  <2>4. Generate(u, 0, FALSE) = IF u.sign THEN Negated(p, NBits) ELSE p
    BY <1>5, <2>2, <2>3, PositivePacks
  <2> QED
    BY <2>1, <2>4 DEF u
<1>6. CASE p > NaR
  <2>1. PICK a \in 1..Largest :
          /\ Negated(a, NBits) = p
          /\ u.exponent = Extract(a).exponent /\ u.fraction = Extract(a).fraction
          /\ u.sign /\ ~u.isZero /\ ~u.isNaR
    BY <1>6, ExtractNegative
  <2> HIDE DEF u
  <2>2. Normalized(u)
    BY <1>1, <2>1 DEF Normalized
  <2>3. Generate(u, 0, FALSE) = IF u.sign THEN Negated(a, NBits) ELSE a
    BY <2>1, <2>2, PositivePacks
  <2> QED
    BY <2>1, <2>3 DEF u
<1> QED
  BY <1>2, <1>3, <1>4, <1>5, <1>6

LEMMA NearestUnscaled ==
  ASSUME NEW n \in Nat, NEW x \in Int, NEW unit \in Nat, NEW more,
         NEW q \in Nat, q > 0, Nearest(n, x * q, unit * q, more)
  PROVE  Nearest(n, x, unit, more)
<1> DEFINE d == 2 * (n * unit - x)  e == 2 * (n * (unit * q) - x * q)
<1>1. d \in Int /\ e = d * q
  <2>1. n * unit \in Int /\ n * (unit * q) = (n * unit) * q
    OBVIOUS
  <2> DEFINE m == n * unit
  <2>2. 2 * (m * q - x * q) = 2 * (m - x) * q
    BY <2>1
  <2> QED
    BY <2>1, <2>2
<1>2. /\ -(unit * q) <= e /\ e <= unit * q
      /\ e = -(unit * q) => ~more /\ n % 2 = 0
      /\ e = unit * q => more \/ n % 2 = 0
  BY DEF Nearest
<1> HIDE DEF d, e
<1>3. d <= unit
  <2> SUFFICES ASSUME d >= unit + 1 PROVE FALSE
    BY <1>1
  <2>1. d * q >= (unit + 1) * q /\ (unit + 1) * q = unit * q + q
    BY <1>1
  <2> QED
    BY <1>1, <1>2, <2>1
<1>4. -unit <= d
  <2> SUFFICES ASSUME d <= -unit - 1 PROVE FALSE
    BY <1>1
  <2>1. d * q <= (-unit - 1) * q /\ (-unit - 1) * q = -(unit * q) - q
    BY <1>1
  <2> QED
    BY <1>1, <1>2, <2>1
<1>5. d = unit => e = unit * q
  BY <1>1
<1>6. d = -unit => e = -(unit * q)
  <2>1. (-unit) * q = -(unit * q)
    OBVIOUS
  <2> QED
    BY <1>1, <2>1
<1> QED
  BY <1>2, <1>3, <1>4, <1>5, <1>6 DEF Nearest, d

\* A sticky bit stands for any rest below the last trailing bit.
LEMMA StickyIsMore ==
  ASSUME NEW n \in Nat, NEW P \in Int, NEW Q \in Nat, Q > 0, NEW D \in Nat, D > 0,
         NEW T \in Int, NEW den \in Nat, den > 0, NEW rest \in 0..(den-1),
         NEW more \in BOOLEAN, more <=> rest # 0,
         Nearest(n, P * (4 * (D * Q)) + Q * T, 4 * (D * Q), more)
  PROVE  Nearest(n, (P * (4 * (D * Q)) + Q * T) * den + Q * rest, (4 * (D * Q)) * den, FALSE)
<1> DEFINE u == 4 * D  x == P * u + T  z == 2 * (n * u - x)
<1>1. Nearest(n, x, u, more)
  <2>1. 4 * (D * Q) = u * Q /\ u \in Nat
    OBVIOUS
  <2>2. P * (u * Q) + Q * T = x * Q /\ x \in Int
    <3>1. (P * u + T) * Q = P * (u * Q) + Q * T /\ P * u \in Int
      OBVIOUS
    <3> QED
      BY <3>1
  <2>3. Nearest(n, x * Q, u * Q, more)
    <3> HIDE DEF x, u
    <3> QED
      BY <2>1, <2>2
  <2> HIDE DEF x, u
  <2> QED
    BY <2>1, <2>2, <2>3, NearestUnscaled
<1>2. /\ -u <= z /\ z <= u
      /\ z = -u => ~more /\ n % 2 = 0
      /\ z = u  => more \/ n % 2 = 0
  BY <1>1 DEF Nearest
<1>3. x \in Int /\ u \in Nat /\ n * u \in Int
  <2>1. P * (4 * D) \in Int /\ n * (4 * D) \in Int
    OBVIOUS
  <2> QED
    BY <2>1
<1>4. z \in Int /\ \E i \in Int : z = 2 * i
  <2> DEFINE i == n * u - x
  <2>1. i \in Int /\ z = 2 * i
    BY <1>3
  <2> HIDE DEF i, z
  <2> QED
    BY <2>1
<1>5. PICK i \in Int : z = 2 * i
  BY <1>4
<1> DEFINE y == x * den + rest  v == 2 * (n * (u * den) - y)
<1>6. v = z * den - 2 * rest
  <2>1. n * (u * den) = (n * u) * den
    BY <1>3
  <2> DEFINE m == n * u
  <2>2. m \in Int /\ x \in Int
    BY <1>3
  <2> HIDE DEF m, x
  <2>3. 2 * (m * den - (x * den + rest)) = (2 * (m - x)) * den - 2 * rest
    BY <2>2
  <2> QED
    BY <2>1, <2>3 DEF m
<1>7. u = 2 * (2 * D)
  OBVIOUS
<1> DEFINE w == u * den
<1>8. /\ -w <= v /\ v <= w
      /\ v = -w => n % 2 = 0
      /\ v = w  => n % 2 = 0
  <2>1. z * den \in Int /\ w \in Int /\ z * den <= w
    BY <1>2, <1>3, <1>4
  <2>2. CASE more
    <3>1. rest \in Nat /\ rest > 0 /\ rest < den
      BY <2>2
    <3>2. z >= -u + 2
      <4>1. z # -u
        BY <1>2, <2>2
      <4> HIDE DEF z, u
      <4> QED
        BY <1>2, <1>3, <1>5, <1>7, <4>1
    <3> HIDE DEF z, u
    <3>3. z * den >= (-u + 2) * den /\ (-u + 2) * den = -w + 2 * den
      BY <1>3, <1>4, <3>2
    <3> HIDE DEF v, w
    <3> QED
      BY <1>6, <2>1, <3>1, <3>3
  <2>3. CASE ~more
    <3>1. rest = 0
      BY <2>3
    <3>2. v = z * den
      BY <1>6, <2>1, <3>1
    <3> HIDE DEF z, u
    <3>3. z * den >= (-u) * den /\ (-u) * den = -w
      BY <1>2, <1>3, <1>4
    <3>4. z * den = (-u) * den => z = -u
      BY <1>3, <1>4
    <3>5. z * den = u * den => z = u
      BY <1>3, <1>4
    <3> HIDE DEF v
    <3>6. v = -w => n % 2 = 0
      BY <1>2, <3>2, <3>3, <3>4
    <3>7. v = w => n % 2 = 0
      BY <1>2, <2>3, <3>2, <3>5
    <3> QED
      BY <2>1, <3>2, <3>3, <3>6, <3>7
  <2> QED
    BY <2>2, <2>3
<1>9. Nearest(n, y, w, FALSE)
  BY <1>8 DEF Nearest
<1>10. y \in Int /\ w \in Nat
  <2>1. x * den \in Int
    BY <1>3
  <2> HIDE DEF x
  <2>2. u * den \in Nat
    BY <1>3
  <2> QED
    BY <2>1, <2>2
<1>11. Nearest(n, y * Q, w * Q, FALSE)
  <2> HIDE DEF y, w
  <2> QED
    BY <1>9, <1>10, NearestScaled
<1>12. y * Q = (P * (4 * (D * Q)) + Q * T) * den + Q * rest
  <2>1. P * (4 * (D * Q)) + Q * T = x * Q
    <3>1. P * (4 * (D * Q)) = (P * (4 * D)) * Q
      OBVIOUS
    <3>2. P * (4 * D) \in Int
      OBVIOUS
    <3> DEFINE s == P * (4 * D)
    <3> HIDE DEF s
    <3>3. (s + T) * Q = s * Q + Q * T
      BY <3>2 DEF s
    <3> QED
      BY <3>1, <3>3 DEF s
  <2> HIDE DEF x
  <2>2. (x * den + rest) * Q = (x * Q) * den + Q * rest
    BY <1>3
  <2> QED
    BY <2>1, <2>2
<1>13. w * Q = (4 * (D * Q)) * den
  OBVIOUS
<1> HIDE DEF y, w
<1> QED
  BY <1>11, <1>12, <1>13

\* What a core hands the generator are the leading digits of a number: its
\* fraction, two more, and whether anything follows.
DigitsOf(u, trailing, sticky, num, den) ==
  /\ Normalized(u) /\ trailing \in 0..3 /\ sticky \in BOOLEAN
  /\ num \in Nat /\ den \in Nat \ {0}
  /\ \E rest \in 0..(den-1) :
       /\ num * (4 * 2^FracBits) = (4 * u.fraction + trailing) * den + rest
       /\ sticky <=> rest # 0

\* A regime of the format is as wide as its bits behind the run.
LEMMA RegimeWidth ==
  ASSUME NEW r \in Int, ~(r >= NBits - 2), ~(r <= -(NBits-1))
  PROVE  \E Q \in Nat \ {0}, D \in Nat \ {0} :
           /\ PowerPattern(r, NBits) \in Int
           /\ PowerPattern(r+1, NBits) - PowerPattern(r, NBits) = Q
           /\ 2^ES * 2^FracBits = D * Q
<1> DEFINE low == r < 0  c == IF low THEN -r ELSE r + 1  k == NBits - 2 - c
           s == IF low THEN -c ELSE c - 1
<1>1. NBits \in Nat /\ NBits > 3
  BY FormatAssumption
<1>2. low \in BOOLEAN /\ c \in Nat \ {0} /\ k \in Nat /\ c + k = NBits - 2 /\ s = r
  BY <1>1
<1> HIDE DEF low, c, k
<1>3. /\ PowerPattern(s, NBits) = IF low THEN 2^k ELSE 2^(NBits-1) - 2 * 2^k
      /\ PowerPattern(s+1, NBits) - PowerPattern(s, NBits) = 2^k
  BY <1>2, PatternOfRun
<1>4. PICK base, M, Q, D : Powers(c, k, base, M, Q, D)
  BY <1>2, RunPowers
<1>5. /\ Q \in Nat \ {0} /\ D \in Nat \ {0} /\ Q = 2^k /\ 2^ES * 2^FracBits = D * Q
  BY <1>4 DEF Powers
<1> HIDE DEF s
<1>6. PowerPattern(r, NBits) \in Int
  <2> DEFINE H == 2^(NBits-1)
  <2>1. H \in Nat
    BY Halves
  <2>2. PowerPattern(r, NBits) = IF low THEN Q ELSE H - 2 * Q
    BY <1>2, <1>3, <1>5
  <2> HIDE DEF H
  <2> QED
    BY <1>2, <1>5, <2>1, <2>2
<1>7. PowerPattern(r+1, NBits) - PowerPattern(r, NBits) = Q
  BY <1>2, <1>3, <1>5
<1> QED
  BY <1>5, <1>6, <1>7

\* PositGenerator rounds what a core hands it (PositGenerator.scala,
\* PositRound.scala), in every format and for every exponent, also one far beyond
\* the format: the magnitude it packs is the rounding of the number whose digits
\* it is given.  It is never zero and never NaR, the largest or the smallest posit
\* where the regime leaves the format, and in between the pattern nearest to the
\* number's place between two powers of the base, ties to even.  Two trailing
\* bits and a sticky bit are enough, whatever width the regime leaves for the
\* fraction.
THEOREM GeneratorRounds ==
  \A u, trailing, sticky, num, den :
    DigitsOf(u, trailing, sticky, num, den) =>
      \E p \in 1..Largest :
        /\ Generate(u, trailing, sticky) = IF u.sign THEN Negated(p, NBits) ELSE p
        /\ RoundsRatio(p, NBits, ES, u.exponent, num, den)
<1> SUFFICES ASSUME NEW u, NEW trailing, NEW sticky, NEW num, NEW den,
                    DigitsOf(u, trailing, sticky, num, den)
             PROVE  \E p \in 1..Largest :
                      /\ Generate(u, trailing, sticky) = IF u.sign THEN Negated(p, NBits) ELSE p
                      /\ RoundsRatio(p, NBits, ES, u.exponent, num, den)
  OBVIOUS
<1> DEFINE r     == RegimeOf(u)
           base  == 2^ES
           M     == 2^FracBits
           a     == u.exponent % base
           f     == u.fraction
           T     == 4 * PlaceOf(u) + trailing
           P     == PowerPattern(r, NBits)
           width == PowerPattern(r+1, NBits) - P
           place == a * den + (num - den)
           X     == P * (base * den) + width * place
<1>1. /\ Normalized(u) /\ trailing \in 0..3 /\ sticky \in BOOLEAN
      /\ num \in Nat /\ den \in Nat /\ den > 0
  BY DEF DigitsOf
<1>2. PICK rest \in 0..(den-1) :
        /\ num * (4 * M) = (4 * f + trailing) * den + rest
        /\ sticky <=> rest # 0
  BY DEF DigitsOf
<1>3. PICK p \in 1..Largest :
        /\ Generate(u, trailing, sticky) = IF u.sign THEN Negated(p, NBits) ELSE p
        /\ IF r >= NBits - 2 THEN p = Largest
           ELSE IF r <= -(NBits-1) THEN p = 1
           ELSE Nearest(p, P * (4 * (base * M)) + width * T, 4 * (base * M), sticky)
  BY <1>1, GeneratesRounded
<1>4. /\ base \in Nat /\ base > 0 /\ M \in Nat /\ M > 0 /\ a \in Nat /\ f \in Nat
      /\ r \in Int /\ T \in Int /\ T = 4 * (a * M + (f - M)) + trailing
  <2>1. base \in Nat /\ base > 0 /\ M \in Nat /\ M > 0
    BY Widths, PowerPositive, FormatAssumption
  <2>2. u.exponent \in Int /\ f \in Nat
    BY <1>1 DEF Normalized, Unpacked
  <2>3. r \in Int
    BY <1>1, NormalizedStands
  <2>4. T = 4 * (a * M + (f - M)) + trailing
    BY DEF PlaceOf
  <2> HIDE DEF base, M, f, r, T
  <2>5. a \in Nat
    BY <2>1, <2>2
  <2> HIDE DEF a
  <2>6. a * M \in Int
    BY <2>1, <2>5
  <2> QED
    BY <1>1, <2>1, <2>2, <2>3, <2>4, <2>5, <2>6
<1> HIDE DEF base, M, a, f, r, T
<1> SUFFICES RoundsRatio(p, NBits, ES, u.exponent, num, den)
  BY <1>3
<1> HIDE DEF X
<1> SUFFICES ~(r >= NBits - 2) /\ ~(r <= -(NBits-1)) => Nearest(p, X, base * den, FALSE)
  <2>1. /\ p \in 1..Largest
        /\ IF r >= NBits - 2 THEN p = Largest
           ELSE IF r <= -(NBits-1) THEN p = 1
           ELSE Nearest(p, X, base * den, FALSE)
    BY <1>3
  <2> QED
    BY <2>1 DEF RoundsRatio, Largest, r, RegimeOf, X, place, base, a
<1> HAVE ~(r >= NBits - 2) /\ ~(r <= -(NBits-1))
<1>5. Nearest(p, P * (4 * (base * M)) + width * T, 4 * (base * M), sticky)
  BY <1>3
<1>6. PICK Q \in Nat \ {0}, D \in Nat \ {0} :
        P \in Int /\ width = Q /\ base * M = D * Q
  BY <1>4, RegimeWidth DEF base, M
<1>7. p \in Nat
  BY ExtractLargest
<1> HIDE DEF P, width
<1>8. Nearest(p, (P * (4 * (D * Q)) + Q * T) * den + Q * rest, (4 * (D * Q)) * den, FALSE)
  <2>1. Nearest(p, P * (4 * (D * Q)) + Q * T, 4 * (D * Q), sticky)
    BY <1>5, <1>6
  <2>2. Q \in Nat /\ Q > 0 /\ D \in Nat /\ D > 0
    OBVIOUS
  <2>3. sticky <=> rest # 0
    BY <1>2
  <2> QED
    BY <1>1, <1>4, <1>6, <1>7, <2>1, <2>2, <2>3, StickyIsMore
<1>9. (4 * (D * Q)) * den = (base * den) * (4 * M)
  <2>1. (4 * (base * M)) * den = (base * den) * (4 * M)
    BY <1>1, <1>4
  <2> QED
    BY <1>6, <2>1
<1>10. X = P * (base * den) + Q * place /\ X \in Int /\ place \in Int
  <2>1. a * den \in Int
    BY <1>1, <1>4
  <2>2. place \in Int
    BY <1>1, <2>1
  <2> HIDE DEF place
  <2>3. P * (base * den) \in Int /\ Q * place \in Int
    BY <1>1, <1>4, <1>6, <2>2
  <2>4. X = P * (base * den) + Q * place
    BY <1>6 DEF X
  <2> QED
    BY <2>2, <2>3, <2>4
<1>11. place * (4 * M) = T * den + rest
  <2> DEFINE v == 4 * M
  <2>1. v \in Int /\ T = a * v + 4 * f - v + trailing
    <3>1. 4 * (a * M) = a * (4 * M) /\ a * M \in Int /\ a * (4 * M) \in Int
      BY <1>4
    <3> QED
      BY <1>1, <1>4, <3>1
  <2>2. num * v = (4 * f + trailing) * den + rest
    BY <1>2
  <2>3. rest \in Int
    OBVIOUS
  <2> HIDE DEF v
  <2>4. (a * den + (num - den)) * v = (a * v) * den + num * v - v * den
    BY <1>1, <1>4, <2>1
  <2>5. (a * v + 4 * f - v + trailing) * den = (a * v) * den + (4 * f + trailing) * den - v * den
    <3> DEFINE s == a * v
    <3>1. s \in Int
      BY <1>4, <2>1
    <3> HIDE DEF s
    <3>2. (s + 4 * f - v + trailing) * den = s * den + (4 * f + trailing) * den - v * den
      BY <1>1, <1>4, <2>1, <3>1
    <3> QED
      BY <3>2 DEF s
  <2> DEFINE s1 == (a * v) * den  s2 == (4 * f + trailing) * den  s3 == v * den
             s4 == num * v
  <2>6. s1 \in Int /\ s2 \in Int /\ s3 \in Int /\ s4 \in Int
    BY <1>1, <1>4, <2>1
  <2>7. place * v = s1 + s4 - s3 /\ s4 = s2 + rest /\ T * den = s1 + s2 - s3
    BY <2>1, <2>2, <2>4, <2>5
  <2> HIDE DEF s1, s2, s3, s4, place
  <2>8. place * v = T * den + rest
    BY <2>3, <2>6, <2>7
  <2> QED
    BY <2>8 DEF v
<1> HIDE DEF place
<1>12. (P * (4 * (D * Q)) + Q * T) * den + Q * rest = X * (4 * M)
  <2> DEFINE z == (4 * (D * Q)) * den  v == 4 * M  w == base * den
  <2>1. z = w * v /\ v \in Int /\ w \in Int
    BY <1>1, <1>4, <1>9
  <2>2. (P * (4 * (D * Q)) + Q * T) * den + Q * rest = P * z + Q * (T * den + rest)
    <3> DEFINE s == 4 * (D * Q)
    <3>1. s \in Int
      BY <1>6
    <3> HIDE DEF s
    <3>2. (P * s + Q * T) * den + Q * rest = P * (s * den) + Q * (T * den + rest)
      BY <1>1, <1>4, <1>6, <3>1
    <3> QED
      BY <3>2 DEF s
  <2> HIDE DEF z, v, w
  <2>3. X * v = P * (w * v) + Q * (place * v)
    <3>1. X = P * w + Q * place
      BY <1>10 DEF w
    <3>2. (P * w + Q * place) * v = P * (w * v) + Q * (place * v)
      BY <1>6, <1>10, <2>1
    <3> QED
      BY <3>1, <3>2
  <2>4. place * v = T * den + rest
    BY <1>11 DEF v
  <2> QED
    BY <2>1, <2>2, <2>3, <2>4 DEF v
<1>13. Nearest(p, X * (4 * M), (base * den) * (4 * M), FALSE)
  BY <1>8, <1>9, <1>12
<1>14. base * den \in Nat /\ 4 * M \in Nat /\ 4 * M > 0
  BY <1>1, <1>4
<1> QED
  BY <1>7, <1>10, <1>13, <1>14, NearestUnscaled

-----------------------------------------------------------------------------
(* Exponents and signs: what the sum of two exponents fits, and the packed *)
(* posit with its sign put back.                                           *)

LEMMA SignedOfSmall ==
  ASSUME NEW w \in Nat, w > 0, NEW x \in Int, -(2^(w-1)) <= x, x < 2^(w-1)
  PROVE  Signed(x, w) = x
<1> DEFINE h == 2^(w-1)  m == 2^w
<1>1. h \in Nat /\ h > 0 /\ m = 2 * h
  <2>1. w - 1 \in Nat /\ (w-1)+1 = w
    OBVIOUS
  <2>2. 2^((w-1)+1) = 2 * 2^(w-1)
    BY <2>1, PowerNext
  <2> QED
    BY <2>1, <2>2, PowerPositive
<1>2. -h <= x /\ x < h
  OBVIOUS
<1> HIDE DEF h, m
<1>3. CASE x >= 0
  <2>1. x % m = x
    BY <1>1, <1>2, <1>3
  <2>2. Low(x, w) = x
    BY <2>1 DEF Low, m
  <2> QED
    BY <1>1, <1>2, <1>3, <2>2 DEF Signed, h
<1>4. CASE ~(x >= 0)
  <2>1. x + m \in 0..(m-1) /\ x = (-1) * m + (x + m) /\ m \in Nat /\ m > 0
    BY <1>1, <1>2, <1>4
  <2> DEFINE s == x + m
  <2> HIDE DEF s
  <2>2. ((-1) * m + s) % m = s
    <3>1. -1 \in Int
      OBVIOUS
    <3> QED
      BY <2>1, <3>1, DivIs DEF s
  <2>3. x % m = x + m
    BY <2>1, <2>2 DEF s
  <2>4. Low(x, w) = x + m
    BY <2>3 DEF Low, m
  <2>5. x + m >= h
    BY <1>1, <1>2
  <2>6. Signed(x, w) = (x + m) - m
    BY <2>4, <2>5 DEF Signed, h, m
  <2> QED
    BY <1>1, <2>6
<1> QED
  BY <1>3, <1>4

\* The exponent of a posit that is not zero and not NaR.
LEMMA ExtractedExponent ==
  ASSUME NEW p \in Posits \ {0, NaR}
  PROVE  LET bound == (NBits - 1) * 2^ES
         IN  /\ Extract(p).exponent \in Int
             /\ -bound <= Extract(p).exponent /\ Extract(p).exponent < bound
<1> DEFINE base == 2^ES  M == 2^FracBits  bound == (NBits - 1) * base
<1>1. base \in Nat /\ base > 0 /\ M \in Nat /\ M > 0 /\ NBits \in Nat /\ NBits > 3
  BY Widths, PowerPositive, FormatAssumption
<1>2. ASSUME NEW u, NEW r \in Int, -(NBits-2) <= r, r <= NBits - 2,
             NEW y \in 0..(base * M - 1), StandsAt(u, r, y)
      PROVE  u.exponent \in Int /\ -bound <= u.exponent /\ u.exponent < bound
  <2> DEFINE a == y \div M  W == base * M
  <2>1. u.exponent = r * base + a
    BY <1>2 DEF StandsAt
  <2>2. W \in Nat /\ y \in Nat /\ y < W
    <3>1. W \in Nat /\ y \in 0..(W - 1)
      BY <1>1
    <3> HIDE DEF W
    <3> QED
      BY <3>1
  <2> HIDE DEF base, M
  <2>3. a \in Nat /\ M * a <= y
    BY <1>1, <2>2
  <2> HIDE DEF a
  <2>4. a < base
    <3> SUFFICES ASSUME base <= a PROVE FALSE
      BY <1>1, <2>3
    <3>1. M * base <= M * a /\ M * base = W /\ M * a \in Nat
      BY <1>1, <2>3
    <3> HIDE DEF W
    <3> QED
      BY <2>2, <2>3, <3>1
  <2>5. r * base >= (-(NBits - 2)) * base /\ r * base <= (NBits - 2) * base /\ r * base \in Int
    BY <1>1, <1>2
  <2>6. bound = (NBits - 2) * base + base /\ (-(NBits - 2)) * base = -((NBits - 2) * base)
        /\ (NBits - 2) * base \in Int
    BY <1>1
  <2> HIDE DEF bound
  <2> QED
    BY <1>1, <2>1, <2>3, <2>4, <2>5, <2>6
<1>3. ASSUME NEW a \in 1..Largest
      PROVE  /\ Extract(a).exponent \in Int
             /\ -bound <= Extract(a).exponent /\ Extract(a).exponent < bound
  <2>1. CASE a = Largest
    <3>1. StandsAt(Extract(a), NBits - 2, 0)
      BY <2>1, ExtractLargest
    <3>2. 0 \in 0..(base * M - 1)
      <4> HIDE DEF base, M
      <4>1. base * M \in Nat /\ base * M > 0
        BY <1>1
      <4> DEFINE W == base * M
      <4> HIDE DEF W
      <4>2. 0 \in 0..(W - 1)
        BY <4>1 DEF W
      <4> QED
        BY <4>2 DEF W
    <3>3. NBits - 2 \in Int /\ -(NBits-2) <= NBits - 2 /\ NBits - 2 <= NBits - 2
      BY <1>1
    <3> HIDE DEF bound, base, M
    <3> QED
      BY <1>2, <3>1, <3>2, <3>3
  <2>2. CASE a # Largest
    <3>1. a \in 1..(Largest - 1)
      BY <2>2, ExtractLargest
    <3>2. PICK low, c, k, t :
            /\ Run(a, low, c, k, t)
            /\ StandsAt(Extract(a), IF low THEN -c ELSE c - 1, t * 2^(c-1))
      BY <3>1, ExtractRun
    <3>3. /\ t * 2^(c-1) \in 0..(base * M - 1)
          /\ c \in Nat \ {0} /\ k \in Nat /\ c + k = NBits - 2 /\ low \in BOOLEAN
      BY <3>2, RunPlace
    <3> DEFINE r == IF low THEN -c ELSE c - 1
    <3>4. r \in Int /\ -(NBits-2) <= r /\ r <= NBits - 2
      BY <1>1, <3>3
    <3>5. StandsAt(Extract(a), r, t * 2^(c-1))
      BY <3>2
    <3> HIDE DEF bound, base, M, r
    <3> QED
      BY <1>2, <3>3, <3>4, <3>5
  <2> QED
    BY <2>1, <2>2
<1> HIDE DEF bound
<1>4. CASE p \in 1..Largest
  BY <1>3, <1>4 DEF bound
<1>5. CASE p > NaR
  <2>1. PICK a \in 1..Largest : Extract(p).exponent = Extract(a).exponent
    BY <1>5, ExtractNegative
  <2> QED
    BY <1>3, <2>1 DEF bound
<1>6. p \in 1..Largest \/ p > NaR
  BY Halves
<1> QED
  BY <1>4, <1>5, <1>6

\* The exponent field has room for the sum of two exponents and a carry.
LEMMA ExponentRoom ==
  ASSUME NEW e \in Int, -(2 * ((NBits - 1) * 2^ES) + 1) <= e, e <= 2 * ((NBits - 1) * 2^ES) + 1
  PROVE  Signed(e, ExpBits) = e
<1> DEFINE base == 2^ES  L == 2^Log2Ceil(NBits)  bound == (NBits - 1) * base
<1>1. /\ NBits \in Nat /\ ES \in Nat /\ ExpBits \in Nat /\ ExpBits > 0
      /\ ExpBits - 1 = (Log2Ceil(NBits) + ES) + 1
      /\ Log2Ceil(NBits) \in Nat /\ Log2Ceil(NBits) + ES \in Nat
  BY FormatAssumption, Log2CeilIsNat DEF ExpBits
<1>2. 2^(ExpBits-1) = 2 * (L * base)
  <2>1. 2^((Log2Ceil(NBits) + ES) + 1) = 2 * 2^(Log2Ceil(NBits) + ES)
    BY <1>1, PowerNext
  <2>2. 2^(Log2Ceil(NBits) + ES) = L * base
    BY <1>1, PowerSum
  <2> QED
    BY <1>1, <2>1, <2>2
<1>3. base \in Nat /\ base > 0 /\ L \in Nat /\ L >= NBits
  BY <1>1, PowerPositive, Log2CeilIsNat
<1>4. -(2 * bound + 1) <= e /\ e <= 2 * bound + 1
  OBVIOUS
<1> HIDE DEF base, L
<1>5. bound + 1 <= L * base /\ bound \in Int /\ L * base \in Int
  <2>1. NBits * base <= L * base
    BY <1>1, <1>3
  <2>2. NBits * base = bound + base /\ NBits * base \in Int
    BY <1>1, <1>3
  <2>3. bound \in Int /\ L * base \in Int
    BY <1>1, <1>3
  <2> HIDE DEF bound
  <2> QED
    BY <1>3, <2>1, <2>2, <2>3
<1> DEFINE l == L * base
<1>6. -(2 * l) <= e /\ e < 2 * l
  <2> HIDE DEF bound, l
  <2> QED
    BY <1>4, <1>5 DEF l
<1>7. -(2^(ExpBits-1)) <= e /\ e < 2^(ExpBits-1)
  BY <1>2, <1>6
<1> QED
  BY <1>1, <1>7, SignedOfSmall

\* The exponent registers hold a sum or difference of two of them, and one more.
LEMMA ExponentFits ==
  ASSUME NEW p \in Posits \ {0, NaR}, NEW q \in Posits \ {0, NaR}, NEW carry \in -1..1
  PROVE  LET x == Extract(p).exponent
             y == Extract(q).exponent
         IN  /\ Signed(x + y + carry, ExpBits) = x + y + carry
             /\ Signed(x - y + carry, ExpBits) = x - y + carry
             /\ x \in Int /\ y \in Int
<1> DEFINE x == Extract(p).exponent  y == Extract(q).exponent  bound == (NBits - 1) * 2^ES
<1>1. /\ x \in Int /\ y \in Int
      /\ -bound <= x /\ x < bound /\ -bound <= y /\ y < bound
  BY ExtractedExponent
<1>2. bound \in Int
  BY PowerPositive, FormatAssumption
<1>3. ASSUME NEW e \in Int, -(2 * bound + 1) <= e, e <= 2 * bound + 1
      PROVE  Signed(e, ExpBits) = e
  BY <1>3, ExponentRoom
<1> HIDE DEF x, y, bound
<1>4. /\ x + y + carry \in Int /\ -(2 * bound + 1) <= x + y + carry /\ x + y + carry <= 2 * bound + 1
      /\ x - y + carry \in Int /\ -(2 * bound + 1) <= x - y + carry /\ x - y + carry <= 2 * bound + 1
  BY <1>1, <1>2
<1>5. /\ Signed(x + y + carry, ExpBits) = x + y + carry
      /\ Signed(x - y + carry, ExpBits) = x - y + carry
  BY <1>3, <1>4
<1> QED
  BY <1>1, <1>5 DEF x, y

\* Half of an exponent fits as well.
LEMMA HalfExponentFits ==
  ASSUME NEW p \in Posits \ {0, NaR}
  PROVE  LET h == Extract(p).exponent \div 2
         IN  h \in Int /\ Signed(h - 0, ExpBits) = h
<1> DEFINE x == Extract(p).exponent  h == x \div 2  bound == (NBits - 1) * 2^ES
<1>1. x \in Int /\ -bound <= x /\ x < bound
  BY ExtractedExponent
<1>2. bound \in Int
  BY PowerPositive, FormatAssumption
<1>3. ASSUME NEW e \in Int, -(2 * bound + 1) <= e, e <= 2 * bound + 1
      PROVE  Signed(e, ExpBits) = e
  BY <1>3, ExponentRoom
<1> HIDE DEF x, bound
<1>4. h \in Int /\ x = 2 * h + (x % 2) /\ x % 2 \in {0, 1}
  BY <1>1
<1> HIDE DEF h
<1>5. -(2 * bound + 1) <= h /\ h <= 2 * bound + 1 /\ h - 0 = h
  BY <1>1, <1>2, <1>4
<1>6. Signed(h, ExpBits) = h
  BY <1>3, <1>4, <1>5
<1> QED
  BY <1>4, <1>5, <1>6 DEF h, x

LEMMA OppositeBack ==
  ASSUME NEW p \in 1..Largest
  PROVE  Opposite(Negated(p, NBits), NBits) = p
<1>1. NaR \in Nat /\ Largest = NaR - 1 /\ 2^NBits = 2 * NaR
  BY Halves
<1>2. p \in Nat /\ p > 0 /\ p < NaR
  BY <1>1
<1>3. Negated(p, NBits) = 2 * NaR - p
  <2>1. (2 * NaR - p) % (2 * NaR) = 2 * NaR - p
    BY <1>1, <1>2
  <2> QED
    BY <1>1, <2>1 DEF Negated, Low
<1>4. Opposite(2 * NaR - p, NBits) = (2 * NaR - (2 * NaR - p)) % (2 * NaR)
  BY <1>1 DEF Opposite
<1>5. (2 * NaR - (2 * NaR - p)) % (2 * NaR) = p
  BY <1>1, <1>2
<1> QED
  BY <1>3, <1>4, <1>5

\* An operand that is a number.
LEMMA NumberUnpacks ==
  ASSUME NEW p \in Posits \ {0, NaR}
  PROVE  /\ Extract(p) \in Unpacked /\ ~Extract(p).isZero /\ ~Extract(p).isNaR
         /\ Extract(p).fraction \in 2^FracBits .. (2 * 2^FracBits - 1)
         /\ Extract(p).fraction \in Nat /\ Extract(p).sign \in BOOLEAN
<1>1. Extract(p) \in Unpacked
  BY OperandTypes DEF OperandType
<1>2. Extract(p).isZero = (p = 0) /\ Extract(p).isNaR = (p = NaR)
  BY DEF Extract
<1>3. ~Extract(p).isZero /\ ~Extract(p).isNaR
  BY <1>2
<1>4. Extract(p).fraction \in Nat /\ Extract(p).sign \in BOOLEAN
  BY <1>1 DEF Unpacked
<1> QED
  BY <1>1, <1>3, <1>4, ExtractedFraction

\* The generator on an answer that has the digits of a number.
LEMMA AnswerRounds ==
  ASSUME NEW a, NEW sign \in BOOLEAN, NEW e \in Int, NEW num, NEW den,
         a.out.exponent = e, a.out.sign = sign,
         DigitsOf(a.out, a.trailing, a.sticky, num, den)
  PROVE  LET p == Generate(a.out, a.trailing, a.sticky)
         IN  RoundsRatio(IF sign THEN Opposite(p, NBits) ELSE p, NBits, ES, e, num, den)
<1>1. PICK p \in 1..Largest :
        /\ Generate(a.out, a.trailing, a.sticky) = IF a.out.sign THEN Negated(p, NBits) ELSE p
        /\ RoundsRatio(p, NBits, ES, a.out.exponent, num, den)
  BY GeneratorRounds
<1> DEFINE g == Generate(a.out, a.trailing, a.sticky)
<1>2. (IF sign THEN Opposite(g, NBits) ELSE g) = p
  <2>1. CASE sign
    <3>1. g = Negated(p, NBits)
      BY <1>1, <2>1
    <3> HIDE DEF g
    <3> QED
      BY <2>1, <3>1, OppositeBack
  <2>2. CASE ~sign
    BY <1>1, <2>2
  <2> QED
    BY <2>1, <2>2
<1> QED
  BY <1>1, <1>2

-----------------------------------------------------------------------------
(* Exact values: numbers m * 2^e are compared as whole numbers of any unit *)
(* small enough for both.                                                  *)

\* Trying the powers in turn compares with the last.
LEMMA ScaledLessIs ==
  ASSUME NEW x \in Nat, NEW d \in Nat, NEW y \in Nat
  PROVE  ScaledLess(x, d, y) <=> x * 2^d < y
<1>1. ASSUME NEW k \in Nat
      PROVE  2^k \in Nat /\ 2^k > 0 /\ (x <= (y-1) \div 2^k <=> x * 2^k <= y - 1)
  <2> DEFINE P == 2^k  q == (y-1) \div P  s == (y-1) % P
  <2>1. P \in Nat /\ P > 0
    BY PowerPositive
  <2> HIDE DEF P
  <2>2. q \in Int /\ s \in 0..(P-1) /\ y - 1 = P * q + s
    BY <2>1
  <2> HIDE DEF q, s
  <2>3. x <= q => x * P <= P * q
    BY <2>1, <2>2
  <2>4. x >= q + 1 => x * P >= P * q + P
    BY <2>1, <2>2
  <2>5. x <= q <=> x * P <= y - 1
    <3> DEFINE a == x * P  b == P * q
    <3>1. a \in Int /\ b \in Int
      BY <2>1, <2>2
    <3> HIDE DEF a, b
    <3>2. (x <= q => a <= b) /\ (x >= q + 1 => a >= b + P)
      BY <2>3, <2>4 DEF a, b
    <3>3. x <= q <=> a <= y - 1
      BY <2>1, <2>2, <3>1, <3>2 DEF b
    <3> QED
      BY <3>3 DEF a
  <2> QED
    BY <2>1, <2>5 DEF P, q
<1>2. ASSUME ScaledLess(x, d, y) PROVE x * 2^d < y
  <2>1. d \in 0..d
    OBVIOUS
  <2>2. x <= (y-1) \div 2^d
    BY <1>2, <2>1 DEF ScaledLess
  <2>3. 2^d \in Nat /\ x * 2^d <= y - 1
    BY <1>1, <2>2
  <2> DEFINE z == x * 2^d
  <2>4. z \in Int /\ z <= y - 1
    BY <2>3
  <2> HIDE DEF z
  <2>5. z < y
    BY <2>4
  <2> QED
    BY <2>5 DEF z
<1>3. ASSUME x * 2^d < y PROVE ScaledLess(x, d, y)
  <2>1. SUFFICES ASSUME NEW k \in 0..d PROVE x <= (y-1) \div 2^k
    BY <2>1 DEF ScaledLess
  <2>2. k \in Nat /\ k <= d
    OBVIOUS
  <2>3. 2^k <= 2^d
    BY <2>2, PowerMonotone
  <2> DEFINE P == 2^k  D == 2^d
  <2>4. P \in Nat /\ D \in Nat /\ P <= D /\ x * D < y
    BY <1>1, <1>3, <2>2, <2>3
  <2> HIDE DEF P, D
  <2>5. x * P <= x * D /\ x * P \in Int /\ x * D \in Int
    BY <2>4
  <2>6. x * P <= y - 1
    BY <2>4, <2>5
  <2>7. x * 2^k <= y - 1
    BY <2>6 DEF P
  <2> QED
    BY <1>1, <2>2, <2>7
<1> QED
  BY <1>2, <1>3

\* Positive numbers, with the lower exponent as the unit.
LEMMA LessIs ==
  ASSUME NEW a \in Nat, a > 0, NEW i \in Int, NEW b \in Nat, b > 0, NEW j \in Int
  PROVE  DyadicLess(<<a, i>>, <<b, j>>) <=>
           IF i >= j THEN a * 2^(i-j) < b ELSE a < b * 2^(j-i)
<1>1. DyadicLess(<<a, i>>, <<b, j>>) <=>
        IF i >= j THEN ScaledLess(a, i-j, b) ELSE ~ScaledLess(b, j-i, a+1)
  BY DEF DyadicLess, PositiveLess
<1>2. CASE i >= j
  <2>1. i - j \in Nat
    BY <1>2
  <2>2. ScaledLess(a, i-j, b) <=> a * 2^(i-j) < b
    BY <2>1, ScaledLessIs
  <2> QED
    BY <1>1, <1>2, <2>2
<1>3. CASE ~(i >= j)
  <2>1. j - i \in Nat /\ a + 1 \in Nat
    BY <1>3
  <2>2. ScaledLess(b, j-i, a+1) <=> b * 2^(j-i) < a + 1
    BY <2>1, ScaledLessIs
  <2>3. 2^(j-i) \in Nat
    BY <2>1, PowerPositive
  <2> DEFINE z == b * 2^(j-i)
  <2>4. z \in Int
    BY <2>3
  <2> HIDE DEF z
  <2>5. ~(z < a + 1) <=> a < z
    BY <2>4
  <2>6. ScaledLess(b, j-i, a+1) <=> z < a + 1
    BY <2>2 DEF z
  <2>7. DyadicLess(<<a, i>>, <<b, j>>) <=> a < z
    BY <1>1, <1>3, <2>5, <2>6
  <2> QED
    BY <1>3, <2>7 DEF z
<1> QED
  BY <1>2, <1>3

\* Any unit 2^-K that divides both.
LEMMA LessScaled ==
  ASSUME NEW a \in Nat, a > 0, NEW i \in Int, NEW b \in Nat, b > 0, NEW j \in Int,
         NEW K \in Int, i + K \in Nat, j + K \in Nat
  PROVE  DyadicLess(<<a, i>>, <<b, j>>) <=> a * 2^(i+K) < b * 2^(j+K)
<1>1. CASE i >= j
  <2>1. i - j \in Nat /\ (i-j) + (j+K) = i + K
    BY <1>1
  <2> DEFINE d == i - j  k == j + K
  <2>2. 2^(d+k) = 2^d * 2^k /\ 2^d \in Nat /\ 2^k \in Nat /\ 2^k > 0
    <3>1. d \in Nat /\ k \in Nat
      BY <2>1
    <3> HIDE DEF d, k
    <3> QED
      BY <3>1, PowerSum, PowerPositive
  <2>3. 2^(i+K) = 2^d * 2^k
    BY <2>1, <2>2
  <2> DEFINE D == 2^d  P == 2^k
  <2>4. D \in Nat /\ P \in Nat /\ P > 0
    BY <2>2
  <2> HIDE DEF D, P
  <2>5. a * D < b <=> a * (D * P) < b * P
    <3>1. a * D \in Nat /\ a * (D * P) = (a * D) * P
      BY <2>4
    <3> DEFINE z == a * D
    <3> HIDE DEF z
    <3>2. z \in Nat /\ a * (D * P) = z * P
      BY <3>1 DEF z
    <3>3. z < b <=> z * P < b * P
      <4>1. z < b => z * P < b * P
        BY <2>4, <3>2
      <4>2. z >= b => z * P >= b * P
        BY <2>4, <3>2
      <4>3. z * P \in Int /\ b * P \in Int
        BY <2>4, <3>2
      <4> QED
        BY <3>2, <4>1, <4>2, <4>3
    <3> QED
      BY <3>2, <3>3 DEF z
  <2>6. DyadicLess(<<a, i>>, <<b, j>>) <=> a * D < b
    BY <1>1, LessIs DEF D
  <2> QED
    BY <2>3, <2>5, <2>6 DEF D, P
<1>2. CASE ~(i >= j)
  <2>1. j - i \in Nat /\ (j-i) + (i+K) = j + K
    BY <1>2
  <2> DEFINE d == j - i  k == i + K
  <2>2. 2^(d+k) = 2^d * 2^k /\ 2^d \in Nat /\ 2^k \in Nat /\ 2^k > 0
    <3>1. d \in Nat /\ k \in Nat
      BY <2>1
    <3> HIDE DEF d, k
    <3> QED
      BY <3>1, PowerSum, PowerPositive
  <2>3. 2^(j+K) = 2^d * 2^k
    BY <2>1, <2>2
  <2> DEFINE D == 2^d  P == 2^k
  <2>4. D \in Nat /\ P \in Nat /\ P > 0
    BY <2>2
  <2> HIDE DEF D, P
  <2>5. a < b * D <=> a * P < b * (D * P)
    <3>1. b * D \in Nat /\ b * (D * P) = (b * D) * P
      BY <2>4
    <3> DEFINE z == b * D
    <3> HIDE DEF z
    <3>2. z \in Nat /\ b * (D * P) = z * P
      BY <3>1 DEF z
    <3>3. a < z <=> a * P < z * P
      <4>1. a < z => a * P < z * P
        BY <2>4, <3>2
      <4>2. a >= z => a * P >= z * P
        BY <2>4, <3>2
      <4>3. z * P \in Int /\ a * P \in Int
        BY <2>4, <3>2
      <4> QED
        BY <3>2, <4>1, <4>2, <4>3
    <3> QED
      BY <3>2, <3>3 DEF z
  <2>6. DyadicLess(<<a, i>>, <<b, j>>) <=> a < b * D
    BY <1>2, LessIs DEF D
  <2> QED
    BY <2>3, <2>5, <2>6 DEF D, P
<1> QED
  BY <1>1, <1>2

\* Two numbers given by leading digits of about the same size and by an exponent: the
\* exponents decide, and then the digits.
LEMMA LexLess ==
  ASSUME NEW a \in Nat, a > 0, NEW i \in Int, NEW b \in Nat, b > 0, NEW j \in Int,
         NEW u \in Nat, NEW v \in Nat, NEW w \in Nat, NEW d \in Int,
         d = (i - u) - (j - v), d = 0 \/ d >= w \/ d <= -w, w > 0,
         a * 2^u < 2^w * (b * 2^v), b * 2^v < 2^w * (a * 2^u)
  PROVE  DyadicLess(<<a, i>>, <<b, j>>) <=> d < 0 \/ (d = 0 /\ a * 2^u < b * 2^v)
<1> DEFINE A == a * 2^u  B == b * 2^v  W == 2^w
<1>1. A \in Nat /\ B \in Nat /\ W \in Nat /\ A < W * B /\ B < W * A
  <2>1. 2^u \in Nat /\ 2^v \in Nat /\ 2^w \in Nat
    BY PowerPositive
  <2> QED
    BY <2>1
<1>2. CASE d >= 0
  <2> DEFINE K == v - j  D == 2^d
  <2>1. K \in Int /\ i + K = u + d /\ j + K = v /\ u + d \in Nat
    BY <1>2
  <2>2. DyadicLess(<<a, i>>, <<b, j>>) <=> a * 2^(u+d) < b * 2^v
    <3>1. i + K \in Nat /\ j + K \in Nat
      BY <2>1
    <3>2. DyadicLess(<<a, i>>, <<b, j>>) <=> a * 2^(i+K) < b * 2^(j+K)
      BY <2>1, <3>1, LessScaled
    <3> QED
      BY <2>1, <3>2
  <2>3. d \in Nat
    BY <1>2
  <2>4. 2^(u+d) = 2^u * D /\ 2^u \in Nat /\ D \in Nat
    BY <2>3, PowerSum, PowerPositive
  <2>5. a * 2^(u+d) = A * D
    <3> DEFINE U == 2^u
    <3>1. U \in Nat /\ D \in Nat
      BY <2>4
    <3> HIDE DEF U, D
    <3>2. a * (U * D) = (a * U) * D
      BY <3>1
    <3> QED
      BY <2>4, <3>2 DEF U, D
  <2>6. DyadicLess(<<a, i>>, <<b, j>>) <=> A * D < B
    BY <2>2, <2>5
  <2>7. CASE d = 0
    <3>1. D = 1
      BY <2>7, PowerZero
    <3> HIDE DEF A, B, D
    <3>2. A * D = A
      BY <1>1, <3>1
    <3> QED
      BY <2>6, <2>7, <3>2 DEF A, B
  <2>8. CASE d # 0
    <3>1. w <= d
      BY <1>2, <2>8
    <3>2. W <= D
      BY <2>3, <3>1, PowerMonotone
    <3> HIDE DEF A, B, D, W
    <3>3. W * A <= A * D /\ W * A \in Int /\ A * D \in Int
      BY <1>1, <2>4, <3>2
    <3>4. ~(A * D < B)
      BY <1>1, <3>3
    <3> QED
      BY <1>2, <2>6, <2>8, <3>4
  <2> QED
    BY <2>7, <2>8
<1>3. CASE d < 0
  <2> DEFINE K == u - i  D == 2^(-d)
  <2>1. K \in Int /\ i + K = u /\ j + K = v + (-d) /\ v + (-d) \in Nat /\ -d \in Nat /\ w <= -d
    BY <1>3
  <2>2. DyadicLess(<<a, i>>, <<b, j>>) <=> a * 2^u < b * 2^(v + (-d))
    <3>1. i + K \in Nat /\ j + K \in Nat
      BY <2>1
    <3>2. DyadicLess(<<a, i>>, <<b, j>>) <=> a * 2^(i+K) < b * 2^(j+K)
      BY <2>1, <3>1, LessScaled
    <3> QED
      BY <2>1, <3>2
  <2>4. 2^(v + (-d)) = 2^v * D /\ 2^v \in Nat /\ D \in Nat /\ W <= D
    BY <2>1, PowerSum, PowerPositive, PowerMonotone
  <2>5. b * 2^(v + (-d)) = B * D
    <3> DEFINE V == 2^v
    <3>1. V \in Nat /\ D \in Nat
      BY <2>4
    <3> HIDE DEF V, D
    <3>2. b * (V * D) = (b * V) * D
      BY <3>1
    <3> QED
      BY <2>4, <3>2 DEF V, D
  <2>6. DyadicLess(<<a, i>>, <<b, j>>) <=> A < B * D
    BY <2>2, <2>5
  <2> HIDE DEF A, B, D, W
  <2>7. W * B <= B * D /\ W * B \in Int /\ B * D \in Int
    BY <1>1, <2>4
  <2>8. A < B * D
    BY <1>1, <2>7
  <2> QED
    BY <1>3, <2>6, <2>8
<1> QED
  BY <1>2, <1>3

\* A regime of the posits of n bits starts at the pattern P and is Q patterns wide,
\* with D steps of the value from one pattern to the next.
RegimeIs(r, n, P, Q, D) ==
  /\ r \in (2-n)..(n-3) /\ P \in Nat /\ Q \in Nat /\ Q > 0 /\ D \in Nat /\ D > 0
  /\ PowerPattern(r, n) = P /\ PowerPattern(r+1, n) = P + Q /\ D * Q = 2^(n-3)

\* With one more bit each regime has twice the patterns.
LEMMA RegimeExists ==
  ASSUME NEW n \in Nat, n >= 4, NEW r \in (2-n)..(n-3)
  PROVE  \E P, Q, D : RegimeIs(r, n, P, Q, D) /\ RegimeIs(r, n+1, 2 * P, 2 * Q, D)
<1>0. r \in Int /\ r <= n - 3 /\ 2 - n <= r
  OBVIOUS
<1>1. /\ n - 3 \in Nat /\ (n-3) + 1 = n - 2 /\ (n-2) + 1 = n - 1 /\ (n-1) + 1 = n
      /\ n - 2 \in Nat /\ n - 1 \in Nat /\ (n+1) - 3 = n - 2 /\ (n+1) - 2 = n - 1
      /\ (n+1) - 1 = n /\ r \in (2-(n+1))..((n+1)-3)
  BY <1>0
<1> DEFINE S == 2^(n-3)
<1>2. S \in Nat /\ S > 0 /\ 2^(n-2) = 2 * S /\ 2^(n-1) = 4 * S /\ 2^n = 8 * S
  <2>1. 2^((n-3)+1) = 2 * 2^(n-3) /\ 2^((n-2)+1) = 2 * 2^(n-2) /\ 2^((n-1)+1) = 2 * 2^(n-1)
        /\ 2^(n-3) \in Nat /\ 2^(n-3) > 0
    BY <1>1, PowerNext, PowerPositive
  <2> QED
    BY <1>1, <2>1
<1>3. CASE r >= 0
  <2> DEFINE Q == 2^(n-3-r)  D == 2^r  P == 4 * S - 2 * Q
  <2>1. n - 3 - r \in Nat /\ r \in Nat /\ r + (n - 3 - r) = n - 3
        /\ (n - 3 - r) + 1 = n - 2 - r /\ n - 2 - r \in Nat /\ (n-2-r) + 1 = (n+1) - 2 - r
        /\ n - 2 - (r+1) = n - 3 - r /\ (n+1) - 2 - (r+1) = n - 2 - r /\ r + 1 >= 0
    BY <1>0, <1>3
  <2>2. /\ Q \in Nat /\ Q > 0 /\ D \in Nat /\ D > 0 /\ 2^((n-3-r)+1) = 2 * Q
        /\ 2^((n-2-r)+1) = 2 * 2^(n-2-r) /\ 2^(r + (n-3-r)) = D * Q
    BY <2>1, PowerPositive, PowerNext, PowerSum
  <2>3. 2^(n-2-r) = 2 * Q /\ 2^((n+1)-2-r) = 4 * Q /\ D * Q = S
    BY <2>1, <2>2
  <2>4. /\ PowerPattern(r, n) = 2^(n-1) - 2^(n-2-r)
        /\ PowerPattern(r+1, n) = 2^(n-1) - 2^(n-3-r)
        /\ PowerPattern(r, n+1) = 2^((n+1)-1) - 2^((n+1)-2-r)
        /\ PowerPattern(r+1, n+1) = 2^((n+1)-1) - 2^((n+1)-2-(r+1))
    BY <1>3, <2>1 DEF PowerPattern
  <2>5. Q <= S
    BY <1>1, <2>1, PowerMonotone
  <2> HIDE DEF S, Q, D
  <2>6. /\ PowerPattern(r, n) = P /\ PowerPattern(r+1, n) = P + Q
        /\ PowerPattern(r, n+1) = 2 * P /\ PowerPattern(r+1, n+1) = 2 * P + 2 * Q
    <3>1. PowerPattern(r, n) = 4 * S - 2 * Q
      BY <1>2, <2>3, <2>4
    <3>2. PowerPattern(r+1, n) = 4 * S - Q
      BY <1>2, <2>4 DEF Q
    <3>3. PowerPattern(r, n+1) = 8 * S - 4 * Q
      BY <1>1, <1>2, <2>3, <2>4
    <3>4. PowerPattern(r+1, n+1) = 8 * S - 2 * Q
      BY <1>1, <1>2, <2>1, <2>3, <2>4
    <3> QED
      BY <1>2, <2>2, <3>1, <3>2, <3>3, <3>4
  <2>7. D * Q = S /\ D * (2 * Q) = 2 * S
    BY <1>2, <2>2, <2>3
  <2>8. P \in Nat /\ 2 * P \in Nat /\ 2 * Q \in Nat /\ 2 * Q > 0
    BY <1>2, <2>2, <2>5
  <2> HIDE DEF P
  <2>9. RegimeIs(r, n, P, Q, D)
    BY <2>2, <2>6, <2>7, <2>8 DEF RegimeIs, S
  <2>10. RegimeIs(r, n+1, 2 * P, 2 * Q, D)
    BY <1>1, <1>2, <2>2, <2>6, <2>7, <2>8 DEF RegimeIs
  <2> QED
    BY <2>9, <2>10
<1>4. CASE ~(r >= 0)
  <2> DEFINE Q == 2^(n-2+r)  D == 2^(-1-r)
  <2>1. n - 2 + r \in Nat /\ -1 - r \in Nat /\ (-1-r) + (n-2+r) = n - 3
        /\ (n-2+r) + 1 = n - 2 + (r+1) /\ (n-2+r) + 1 = (n+1) - 2 + r
        /\ (n - 2 + r) + 1 \in Nat /\ ((n-2+r)+1) + 1 = (n+1) - 2 + (r+1)
    BY <1>0, <1>4
  <2>2. /\ Q \in Nat /\ Q > 0 /\ D \in Nat /\ D > 0 /\ 2^((n-2+r)+1) = 2 * Q
        /\ 2^(((n-2+r)+1)+1) = 2 * 2^((n-2+r)+1) /\ 2^((-1-r) + (n-2+r)) = D * Q
    BY <2>1, PowerPositive, PowerNext, PowerSum
  <2>3. /\ 2^(n-2+(r+1)) = 2 * Q /\ 2^((n+1)-2+r) = 2 * Q /\ 2^((n+1)-2+(r+1)) = 4 * Q
        /\ D * Q = S
    BY <2>1, <2>2
  <2>4. PowerPattern(r, n) = Q /\ PowerPattern(r, n+1) = 2 * Q
    BY <1>4, <2>3 DEF PowerPattern
  <2>5. PowerPattern(r+1, n) = 2 * Q /\ PowerPattern(r+1, n+1) = 4 * Q
    <3>1. CASE r = -1
      <4>1. r + 1 = 0 /\ n - 2 - (r+1) = n - 2 /\ (n+1) - 2 - (r+1) = n - 1 /\ n - 2 + r = n - 3
            /\ r + 1 >= 0
        BY <3>1
      <4>2. /\ PowerPattern(r+1, n) = 2^(n-1) - 2^(n-2-(r+1))
            /\ PowerPattern(r+1, n+1) = 2^((n+1)-1) - 2^((n+1)-2-(r+1))
        BY <4>1 DEF PowerPattern
      <4>3. /\ PowerPattern(r+1, n) = 2^(n-1) - 2^(n-2)
            /\ PowerPattern(r+1, n+1) = 2^n - 2^(n-1)
        BY <1>1, <4>1, <4>2
      <4>4. Q = S
        BY <4>1
      <4> HIDE DEF Q, S
      <4> QED
        BY <1>2, <4>3, <4>4
    <3>2. CASE r # -1
      <4>1. ~(r + 1 >= 0)
        BY <1>0, <1>4, <3>2
      <4> QED
        BY <2>3, <4>1 DEF PowerPattern
    <3> QED
      BY <3>1, <3>2
  <2> HIDE DEF S, Q, D
  <2>6. D * Q = S /\ D * (2 * Q) = 2 * S /\ 2 * Q \in Nat /\ 2 * Q > 0
    BY <1>2, <2>2, <2>3
  <2>7. 2 * Q = Q + Q /\ 4 * Q = 2 * Q + 2 * Q
    BY <2>2
  <2>8. RegimeIs(r, n, Q, Q, D)
    BY <2>2, <2>4, <2>5, <2>6, <2>7 DEF RegimeIs, S
  <2>9. RegimeIs(r, n+1, 2 * Q, 2 * Q, D)
    BY <1>1, <1>2, <2>2, <2>4, <2>5, <2>6, <2>7 DEF RegimeIs
  <2> QED
    BY <2>8, <2>9
<1> QED
  BY <1>3, <1>4

\* The regimes follow one another.
LEMMA RegimesGrow ==
  ASSUME NEW n \in Nat, n >= 4, NEW r \in (2-n)..(n-3), NEW s \in (2-n)..(n-2), r < s
  PROVE  PowerPattern(r+1, n) <= PowerPattern(s, n)
<1>1. r \in Int /\ s \in Int /\ n - 1 \in Nat /\ n - 2 \in Nat /\ (n-2) + 1 = n - 1 /\ r + 1 <= s
  OBVIOUS
<1>2. 2^(n-2) \in Nat /\ 2^(n-1) = 2 * 2^(n-2)
  <2>1. 2^((n-2)+1) = 2 * 2^(n-2) /\ 2^(n-2) \in Nat
    BY <1>1, PowerNext, PowerPositive
  <2> QED
    BY <1>1, <2>1
<1>3. CASE s < 0
  <2>1. r + 1 < 0 /\ ~(s >= 0) /\ ~(r + 1 >= 0) /\ n - 2 + (r+1) \in Nat /\ n - 2 + s \in Nat
        /\ n - 2 + (r+1) <= n - 2 + s
    BY <1>1, <1>3
  <2> QED
    BY <2>1, PowerMonotone DEF PowerPattern
<1>4. CASE s >= 0 /\ r + 1 < 0
  <2>1. ~(r + 1 >= 0) /\ n - 2 + (r+1) \in Nat /\ n - 2 + (r+1) <= n - 2
        /\ n - 2 - s \in Nat /\ n - 2 - s <= n - 2
    BY <1>1, <1>4
  <2>2. 2^(n-2+(r+1)) <= 2^(n-2) /\ 2^(n-2-s) <= 2^(n-2)
        /\ 2^(n-2+(r+1)) \in Nat /\ 2^(n-2-s) \in Nat
    BY <1>1, <2>1, PowerMonotone, PowerPositive
  <2>3. PowerPattern(r+1, n) = 2^(n-2+(r+1)) /\ PowerPattern(s, n) = 2^(n-1) - 2^(n-2-s)
    BY <1>4, <2>1 DEF PowerPattern
  <2> DEFINE a == 2^(n-2+(r+1))  b == 2^(n-2-s)  c == 2^(n-2)  d == 2^(n-1)
  <2>4. a \in Nat /\ b \in Nat /\ c \in Nat /\ a <= c /\ b <= c /\ d = 2 * c
        /\ PowerPattern(r+1, n) = a /\ PowerPattern(s, n) = d - b
    BY <1>2, <2>2, <2>3
  <2> HIDE DEF a, b, c, d
  <2> QED
    BY <2>4
<1>5. CASE s >= 0 /\ r + 1 >= 0
  <2>1. n - 2 - s \in Nat /\ n - 2 - (r+1) \in Nat /\ n - 2 - s <= n - 2 - (r+1)
    BY <1>1
  <2>2. 2^(n-2-s) <= 2^(n-2-(r+1)) /\ 2^(n-2-s) \in Nat /\ 2^(n-2-(r+1)) \in Nat
    BY <2>1, PowerMonotone, PowerPositive
  <2>3. PowerPattern(r+1, n) = 2^(n-1) - 2^(n-2-(r+1)) /\ PowerPattern(s, n) = 2^(n-1) - 2^(n-2-s)
    BY <1>5 DEF PowerPattern
  <2> DEFINE a == 2^(n-2-(r+1))  b == 2^(n-2-s)  d == 2^(n-1)
  <2>4. a \in Nat /\ b \in Nat /\ b <= a /\ d \in Int
        /\ PowerPattern(r+1, n) = d - a /\ PowerPattern(s, n) = d - b
    BY <1>2, <2>2, <2>3
  <2> HIDE DEF a, b, d
  <2> QED
    BY <2>4
<1> QED
  BY <1>1, <1>3, <1>4, <1>5

\* The value of a posit from its regime and its place in it.
LEMMA ValueOfIs ==
  ASSUME NEW n \in Nat, NEW es \in Nat, n > es + 3, NEW r, NEW P, NEW Q, NEW D,
         RegimeIs(r, n, P, Q, D), NEW p \in Nat, P <= p, p < P + Q
  PROVE  LET one == 2^(n-3-es)
             s   == (p - P) * D
         IN  ValueOf(p, n, es) = <<one + (s % one), r * 2^es + (s \div one) - (n-3-es)>>
<1>1. /\ r \in (2-n)..(n-3) /\ P \in Nat /\ Q \in Nat /\ Q > 0 /\ D \in Nat
      /\ PowerPattern(r, n) = P /\ PowerPattern(r+1, n) = P + Q /\ D * Q = 2^(n-3)
  BY DEF RegimeIs
<1>2. n >= 4 /\ r \in (2-n)..(n-2) /\ r # n - 2 /\ r \in Int
  BY <1>1
<1> DEFINE InRegime(x) == PowerPattern(x, n) <= p /\ (x = n-2 \/ p < PowerPattern(x+1, n))
           R == CHOOSE x \in (2-n)..(n-2) : InRegime(x)
<1>3. InRegime(r)
  BY <1>1
<1>4. \A x \in (2-n)..(n-2) : InRegime(x) => x = r
  <2>1. TAKE x \in (2-n)..(n-2)
  <2>2. HAVE InRegime(x)
  <2>3. x \in Int /\ PowerPattern(x, n) <= p
    BY <2>2
  <2>4. ~(r < x)
    <3>1. SUFFICES ASSUME r < x PROVE FALSE
      OBVIOUS
    <3>2. PowerPattern(r+1, n) <= PowerPattern(x, n)
      BY <1>1, <1>2, <3>1, RegimesGrow
    <3>3. P + Q <= PowerPattern(x, n) /\ PowerPattern(x, n) <= p /\ p < P + Q
      BY <1>1, <2>3, <3>2
    <3>4. PowerPattern(x, n) \in Int
      <4>1. CASE x >= 0
        <5>1. n - 1 \in Nat /\ n - 2 - x \in Nat
          BY <1>2, <2>3, <4>1
        <5>2. 2^(n-1) \in Nat /\ 2^(n-2-x) \in Nat
          BY <5>1, PowerPositive
        <5> QED
          BY <4>1, <5>2 DEF PowerPattern
      <4>2. CASE ~(x >= 0)
        <5>1. n - 2 + x \in Nat
          BY <1>2, <2>3, <4>2
        <5>2. 2^(n-2+x) \in Nat
          BY <5>1, PowerPositive
        <5> QED
          BY <4>2, <5>2 DEF PowerPattern
      <4> QED
        BY <4>1, <4>2
    <3> QED
      BY <1>1, <3>3, <3>4
  <2>5. ~(x < r)
    <3>1. SUFFICES ASSUME x < r PROVE FALSE
      OBVIOUS
    <3>2. x \in (2-n)..(n-3) /\ x # n - 2
      BY <1>2, <2>3, <3>1
    <3>3. PowerPattern(x+1, n) <= PowerPattern(r, n)
      BY <1>2, <3>1, <3>2, RegimesGrow
    <3>4. p < PowerPattern(x+1, n) /\ PowerPattern(x+1, n) <= P
      BY <1>1, <2>2, <3>2, <3>3
    <3>5. PICK P1, Q1, D1 : RegimeIs(x, n, P1, Q1, D1)
      BY <1>2, <3>2, RegimeExists
    <3>6. PowerPattern(x+1, n) \in Int
      BY <3>5 DEF RegimeIs
    <3> QED
      BY <1>1, <3>4, <3>6
  <2> QED
    BY <1>2, <2>3, <2>4, <2>5
<1>5. R = r
  <2>1. \E x \in (2-n)..(n-2) : InRegime(x)
    BY <1>2, <1>3
  <2> HIDE DEF InRegime
  <2>2. R \in (2-n)..(n-2) /\ InRegime(R)
    BY <2>1
  <2> QED
    BY <1>4, <2>2
<1> DEFINE one == 2^(n-3-es)  s == (p - P) * D  S == 2^(n-3)
           steps == ((p - P) * S) \div Q
<1>6. steps = s
  <2>1. p - P \in Int /\ Q \in Nat /\ Q > 0 /\ D \in Nat /\ S = D * Q
    BY <1>1
  <2> DEFINE t == p - P
  <2> HIDE DEF S, t
  <2>2. t * S = (t * D) * Q + 0
    BY <2>1 DEF t
  <2>3. 0 \in 0..(Q-1) /\ t * D \in Int
    BY <2>1 DEF t
  <2>4. ((t * D) * Q + 0) \div Q = t * D
    BY <2>1, <2>3, DivIs
  <2>5. (t * S) \div Q = t * D
    BY <2>2, <2>4
  <2> QED
    BY <2>5 DEF t
<1>7. ValueOf(p, n, es) =
        LET width == IF R = n-2 THEN 1 ELSE PowerPattern(R+1, n) - PowerPattern(R, n)
            st == ((p - PowerPattern(R, n)) * 2^(n-3)) \div width
        IN  <<one + (st % one), R * 2^es + (st \div one) - (n-3-es)>>
  BY DEF ValueOf
<1>8. PowerPattern(r+1, n) - PowerPattern(r, n) = Q
  BY <1>1
<1> HIDE DEF R, one, s
<1>9. ValueOf(p, n, es) = <<one + (steps % one), r * 2^es + (steps \div one) - (n-3-es)>>
  BY <1>1, <1>2, <1>5, <1>7, <1>8
<1> HIDE DEF steps
<1>10. ValueOf(p, n, es) = <<one + (s % one), r * 2^es + (s \div one) - (n-3-es)>>
  BY <1>6, <1>9
<1> QED
  BY <1>10 DEF one, s

\* A positive posit but the largest in its regime.
LEMMA PatternRegime ==
  ASSUME NEW p \in 1..(Largest - 1)
  PROVE  \E r, P, Q, D :
           /\ RegimeIs(r, NBits, P, Q, D) /\ P <= p /\ p < P + Q
           /\ StandsAt(Extract(p), r, (p - P) * D)
<1> DEFINE x == Extract(p)  n == NBits
<1>1. n \in Nat /\ n >= 4
  BY FormatAssumption
<1>3. p \in Nat /\ p > 0 /\ Largest \in Nat /\ Largest = NaR - 1 /\ NaR = 2^(n-1)
  BY Halves
<1>11. p \in 1..(Largest - 1)
  BY <1>3
<1>12. PICK low, c, k, t :
        /\ Run(p, low, c, k, t)
        /\ StandsAt(x, IF low THEN -c ELSE c - 1, t * 2^(c-1))
  BY <1>11, ExtractRun
<1> DEFINE r == IF low THEN -c ELSE c - 1  P == p - t  Q == 2^k  D == 2^(c-1)
<1>13. c \in Nat \ {0} /\ k \in Nat /\ c + k = n - 2 /\ low \in BOOLEAN /\ t \in 0..(2^k - 1)
      /\ p = IF low THEN 2^k + t ELSE 2^(n-1) - 2 * 2^k + t
  BY <1>12 DEF Run
<1>14. Q \in Nat /\ Q > 0 /\ D \in Nat /\ D > 0 /\ D * Q = 2^(n-3) /\ t \in Nat /\ t < Q
  <2>1. c - 1 \in Nat /\ (c-1) + k = n - 3
    BY <1>1, <1>13
  <2>2. 2^((c-1)+k) = D * Q /\ Q \in Nat /\ Q > 0 /\ D \in Nat /\ D > 0
    BY <1>13, <2>1, PowerSum, PowerPositive
  <2>3. D * Q = 2^(n-3)
    BY <2>1, <2>2
  <2>4. t \in 0..(Q - 1)
    BY <1>13
  <2> HIDE DEF Q, D
  <2> QED
    BY <2>2, <2>3, <2>4
<1>15. /\ PowerPattern(r, n) = IF low THEN 2^k ELSE 2^(n-1) - 2 * 2^k
      /\ PowerPattern(r+1, n) - PowerPattern(r, n) = 2^k
  BY <1>13, PatternOfRun
<1>16. r \in (2-n)..(n-3)
  BY <1>1, <1>13
<1> DEFINE H == 2^(n-1)
<1>17. H \in Nat /\ 2 * Q <= H
  <2>1. n - 1 \in Nat /\ k + 1 \in Nat /\ k + 1 <= n - 1
    BY <1>1, <1>13
  <2>2. H \in Nat /\ 2^(k+1) = 2 * Q /\ 2^(k+1) <= H
    BY <1>13, <2>1, PowerPositive, PowerNext, PowerMonotone
  <2> QED
    BY <2>2
<1>18. P \in Nat /\ PowerPattern(r, n) = P /\ PowerPattern(r+1, n) = P + Q /\ p - P = t
  <2>1. p = (IF low THEN Q ELSE H - 2 * Q) + t
    BY <1>13
  <2>2. PowerPattern(r, n) = IF low THEN Q ELSE H - 2 * Q
    BY <1>15
  <2>3. PowerPattern(r+1, n) - PowerPattern(r, n) = Q
    BY <1>15
  <2>4. PowerPattern(r+1, n) \in Int
    <3>1. PICK P1, Q1, D1 : RegimeIs(r, n, P1, Q1, D1)
      BY <1>1, <1>16, RegimeExists
    <3>2. P1 + Q1 \in Int
      BY <3>1 DEF RegimeIs
    <3> QED
      BY <3>1, <3>2 DEF RegimeIs
  <2> DEFINE a == PowerPattern(r, n)  b == PowerPattern(r+1, n)
  <2> HIDE DEF Q, H, r, a, b
  <2>5. a = P /\ P \in Nat /\ p - P = t
    BY <1>3, <1>14, <1>17, <2>1, <2>2 DEF a
  <2>6. b \in Int /\ b - a = Q
    BY <2>3, <2>4 DEF a, b
  <2> HIDE DEF P
  <2>7. b = P + Q
    BY <1>14, <2>5, <2>6
  <2> QED
    BY <2>5, <2>7 DEF a, b
<1>19. RegimeIs(r, n, P, Q, D)
  BY <1>14, <1>16, <1>18, Zenon DEF RegimeIs
<1>20. P <= p /\ p < P + Q
  <2> HIDE DEF Q
  <2> QED
    BY <1>3, <1>14
<1>21. StandsAt(Extract(p), r, (p - P) * D)
  BY <1>12, <1>18
<1> HIDE DEF r, P, Q, D
<1> QED
  BY <1>19, <1>20, <1>21

\* The value of a positive posit is what the extractor makes of it.
LEMMA ValueIs ==
  ASSUME NEW p \in 1..Largest
  PROVE  /\ ValueOf(p, NBits, ES) = <<Extract(p).fraction, Extract(p).exponent - FracBits>>
         /\ Extract(p).exponent \in Int
         /\ Extract(p).fraction \in 2^FracBits .. (2 * 2^FracBits - 1)
         /\ Extract(p).fraction \in Nat /\ Extract(p).fraction > 0
<1> DEFINE x == Extract(p)  M == 2^FracBits  base == 2^ES  n == NBits
<1>1. /\ n \in Nat /\ ES \in Nat /\ n > ES + 3 /\ n >= 4 /\ FracBits = n - 3 - ES
      /\ FracBits \in Nat /\ FracBits + ES = n - 3
  BY FormatAssumption DEF FracBits
<1>2. M \in Nat /\ M > 0 /\ base \in Nat /\ base > 0 /\ M * base = 2^(n-3)
  BY <1>1, PowerPositive, PowerSum
<1>3. p \in Nat /\ p > 0 /\ Largest \in Nat /\ Largest = NaR - 1 /\ NaR = 2^(n-1)
  BY Halves
<1>4. x.fraction \in M..(2 * M - 1) /\ x.fraction \in Nat /\ x.fraction > 0
  <2>1. p \in Posits
    BY ExtractPositive
  <2>2. x.fraction \in M..(2 * M - 1)
    BY <2>1, ExtractedFraction
  <2> HIDE DEF M, x
  <2> QED
    BY <1>2, <2>2
<1>5. CASE p # Largest
  <2>1. p \in 1..(Largest - 1)
    BY <1>3, <1>5
  <2>2. PICK r, P, Q, D :
          /\ RegimeIs(r, n, P, Q, D) /\ P <= p /\ p < P + Q
          /\ StandsAt(x, r, (p - P) * D)
    BY <2>1, PatternRegime
  <2>6. r \in (2-n)..(n-3) /\ P \in Nat /\ D \in Nat
    BY <2>2 DEF RegimeIs
  <2> DEFINE one == 2^(n-3-ES)  s == (p - P) * D
  <2>11. ValueOf(p, n, ES) = <<one + (s % one), r * 2^ES + (s \div one) - (n-3-ES)>>
    BY <1>1, <1>3, <2>2, ValueOfIs
  <2>12. one = M /\ n-3-ES = FracBits
    BY <1>1
  <2>13. x.exponent = r * base + (s \div M) /\ x.fraction = M + (s % M)
    BY <2>2 DEF StandsAt
  <2>14. r * base \in Int /\ s \div M \in Int
    <3>1. s \in Int /\ r \in Int
      BY <1>3, <2>6
    <3> HIDE DEF M, base, s
    <3> QED
      BY <1>2, <3>1
  <2> DEFINE a == r * base  b == s \div M
  <2>15. ValueOf(p, n, ES) = <<M + (s % M), a + b - FracBits>>
    BY <2>11, <2>12
  <2>16. x.exponent = a + b /\ a \in Int /\ b \in Int
    BY <2>13, <2>14
  <2> HIDE DEF a, b, x, M, s
  <2>17. x.exponent \in Int /\ ValueOf(p, n, ES) = <<x.fraction, x.exponent - FracBits>>
    <3>1. x.exponent \in Int
      BY <2>16
    <3> DEFINE z1 == M + (s % M)  z2 == a + b - FracBits
    <3>2. z1 = x.fraction
      BY <2>13
    <3>5. z2 = x.exponent - FracBits
      BY <1>1, <2>16
    <3>3. ValueOf(p, n, ES) = <<z1, z2>>
      BY <2>15
    <3> HIDE DEF z1, z2
    <3>4. ValueOf(p, n, ES) = <<x.fraction, x.exponent - FracBits>>
      BY <3>2, <3>3, <3>5
    <3> QED
      BY <3>1, <3>4
  <2> QED
    BY <1>4, <2>17 DEF x, M
<1>6. CASE p = Largest
  <2> DEFINE H == 2^(n-1)
  <2>1. StandsAt(x, n - 2, 0)
    BY <1>6, ExtractLargest
  <2>2. x.exponent = (n-2) * base + (0 \div M) /\ x.fraction = M + (0 % M)
    BY <2>1 DEF StandsAt
  <2>3. 0 \div M = 0 /\ 0 % M = 0
    <3> HIDE DEF M
    <3>1. 0 \in 0..(M-1) /\ 0 * M + 0 = 0
      BY <1>2
    <3>2. (0 * M + 0) \div M = 0 /\ (0 * M + 0) % M = 0
      BY <1>2, <3>1, DivIs
    <3> QED
      BY <3>1, <3>2
  <2>4. (n-2) * base \in Int
    <3> HIDE DEF base
    <3> QED
      BY <1>1, <1>2
  <2> DEFINE a == (n-2) * base
  <2>5. x.exponent = a /\ x.fraction = M
    <3>1. a + 0 = a /\ M + 0 = M
      <4>1. a \in Int
        BY <2>4
      <4> HIDE DEF a, M
      <4> QED
        BY <1>2, <4>1
    <3> QED
      BY <2>2, <2>3, <3>1
  <2> DEFINE In(y) == PowerPattern(y, n) <= p /\ (y = n-2 \/ p < PowerPattern(y+1, n))
             R == CHOOSE y \in (2-n)..(n-2) : In(y)
  <2>6. PowerPattern(n-2, n) = p
    <3>1. n - 2 >= 0 /\ n - 2 - (n-2) = 0 /\ 2^0 = 1
      BY <1>1, PowerZero
    <3> QED
      BY <1>3, <1>6, <3>1 DEF PowerPattern
  <2>7. n - 2 \in (2-n)..(n-2) /\ In(n-2)
    BY <1>1, <1>3, <2>6
  <2>8. \A y \in (2-n)..(n-2) : In(y) => y = n - 2
    <3>1. SUFFICES ASSUME NEW y \in (2-n)..(n-2), In(y), y # n - 2 PROVE FALSE
      OBVIOUS
    <3>2. y \in (2-n)..(n-3) /\ y < n - 2 /\ n - 2 \in (2-n)..(n-2)
      BY <1>1, <3>1
    <3>3. PowerPattern(y+1, n) <= PowerPattern(n-2, n)
      BY <1>1, <3>2, RegimesGrow
    <3>4. p < PowerPattern(y+1, n)
      BY <3>1
    <3>5. PowerPattern(y+1, n) \in Int
      <4>1. PICK P1, Q1, D1 : RegimeIs(y, n, P1, Q1, D1)
        BY <1>1, <3>2, RegimeExists
      <4> QED
        BY <4>1 DEF RegimeIs
    <3> QED
      BY <1>3, <2>6, <3>3, <3>4, <3>5
  <2>9. R = n - 2
    <3> HIDE DEF In
    <3> QED
      BY <2>7, <2>8
  <2> DEFINE one == 2^(n-3-ES)  st == ((p - PowerPattern(R, n)) * 2^(n-3)) \div 1
  <2>10. ValueOf(p, n, ES) = <<one + (st % one), R * 2^ES + (st \div one) - (n-3-ES)>>
    <3>1. ValueOf(p, n, ES) =
            LET width == IF R = n-2 THEN 1 ELSE PowerPattern(R+1, n) - PowerPattern(R, n)
                sx == ((p - PowerPattern(R, n)) * 2^(n-3)) \div width
            IN  <<one + (sx % one), R * 2^ES + (sx \div one) - (n-3-ES)>>
      BY DEF ValueOf
    <3> HIDE DEF R, one
    <3> QED
      BY <2>9, <3>1
  <2>11. st = 0
    <3> DEFINE S == 2^(n-3)
    <3>1. S \in Nat
      BY <1>2
    <3>2. st = ((p - p) * S) \div 1
      BY <2>6, <2>9
    <3> HIDE DEF S, st
    <3> QED
      BY <1>3, <3>1, <3>2
  <2>12. one = M /\ n-3-ES = FracBits
    BY <1>1
  <2>13. ValueOf(p, n, ES) = <<M + (0 % M), a + (0 \div M) - FracBits>>
    BY <2>9, <2>10, <2>11, <2>12
  <2>14. ValueOf(p, n, ES) = <<x.fraction, x.exponent - FracBits>> /\ x.exponent \in Int
    <3>1. x.exponent \in Int
      BY <2>4, <2>5
    <3> HIDE DEF a, M, x
    <3>2. x.exponent = a + (0 \div M) /\ x.fraction = M + (0 % M)
      BY <2>2 DEF a, x, M
    <3> DEFINE z1 == M + (0 % M)  z2 == a + (0 \div M) - FracBits
    <3>6. 0 \div M \in Int
      BY <2>3
    <3>3. z1 = x.fraction
      BY <3>2
    <3>7. z2 = x.exponent - FracBits
      BY <1>1, <2>4, <3>2, <3>6 DEF a
    <3>4. ValueOf(p, n, ES) = <<z1, z2>>
      BY <2>13
    <3> HIDE DEF z1, z2
    <3>5. ValueOf(p, n, ES) = <<x.fraction, x.exponent - FracBits>>
      BY <3>3, <3>4, <3>7
    <3> QED
      BY <3>1, <3>5
  <2> QED
    BY <1>4, <2>14 DEF x, M
<1> QED
  BY <1>5, <1>6

\* Normal numbers: exponents first, then fractions.
LEMMA NormalLess ==
  ASSUME NEW M \in Nat, M > 0, NEW f \in M..(2*M-1), NEW g \in M..(2*M-1),
         NEW e \in Int, NEW h \in Int, NEW k \in Int
  PROVE  DyadicLess(<<f, e - k>>, <<g, h - k>>) <=> e < h \/ (e = h /\ f < g)
<1> DEFINE d == e - h  i == e - k  j == h - k  z == 0  w == 1  Z == 2^z  W == 2^w
<1>1. f \in Nat /\ f > 0 /\ g \in Nat /\ g > 0 /\ i \in Int /\ j \in Int /\ d \in Int
      /\ z \in Nat /\ w \in Nat /\ w > 0 /\ f < 2 * g /\ g < 2 * f
  OBVIOUS
<1>2. d = (i - z) - (j - z) /\ (d = 0 \/ d >= w \/ d <= -w)
  OBVIOUS
<1>3. Z = 1 /\ W = 2
  <2>1. z = 0 /\ z \in Nat /\ z + 1 = w /\ w \in Nat
    OBVIOUS
  <2> HIDE DEF z, w
  <2>2. 2^z = 1 /\ 2^(z+1) = 2 * 2^z
    BY <2>1, PowerZero, PowerNext
  <2>3. Z = 1
    BY <2>2
  <2>4. W = 2 * Z
    BY <2>1, <2>2
  <2> HIDE DEF Z, W
  <2> QED
    BY <2>3, <2>4
<1>8. (d < 0 <=> e < h) /\ (d = 0 <=> e = h)
  OBVIOUS
<1> HIDE DEF d, i, j, z, w, Z, W
<1>4. f * Z = f /\ g * Z = g /\ W * (g * Z) = 2 * g /\ W * (f * Z) = 2 * f
  BY <1>1, <1>3
<1>5. f * Z < W * (g * Z) /\ g * Z < W * (f * Z)
  BY <1>1, <1>4
<1>6. DyadicLess(<<f, i>>, <<g, j>>) <=> d < 0 \/ (d = 0 /\ f * Z < g * Z)
  BY <1>1, <1>2, <1>5, LexLess DEF Z, W
<1>7. DyadicLess(<<f, i>>, <<g, j>>) <=> d < 0 \/ (d = 0 /\ f < g)
  BY <1>4, <1>6
<1> QED
  BY <1>7, <1>8 DEF i, j

\* Larger patterns have larger values.
LEMMA ValuesOrder ==
  ASSUME NEW p \in 1..Largest, NEW q \in 1..Largest
  PROVE  DyadicLess(ValueOf(p, NBits, ES), ValueOf(q, NBits, ES)) <=> p < q
<1> DEFINE x == Extract(p)  y == Extract(q)  M == 2^FracBits
<1>1. p \in Nat /\ q \in Nat
  BY ExtractPositive
<1>2. M \in Nat /\ M > 0 /\ FracBits \in Int
  BY Widths, PowerPositive
<1>3. x.fraction \in M..(2*M-1) /\ y.fraction \in M..(2*M-1) /\ x.exponent \in Int /\ y.exponent \in Int
      /\ x.fraction \in Nat /\ y.fraction \in Nat
  BY ValueIs
<1>4. DyadicLess(ValueOf(p, NBits, ES), ValueOf(q, NBits, ES)) <=>
        x.exponent < y.exponent \/ (x.exponent = y.exponent /\ x.fraction < y.fraction)
  <2>1. /\ ValueOf(p, NBits, ES) = <<x.fraction, x.exponent - FracBits>>
        /\ ValueOf(q, NBits, ES) = <<y.fraction, y.exponent - FracBits>>
    BY ValueIs
  <2> HIDE DEF x, y, M
  <2> QED
    BY <1>2, <1>3, <2>1, NormalLess
<1>5. DyadicLess(ValueOf(p, NBits, ES), ValueOf(q, NBits, ES)) <=> FirstIsLarger(y, x)
  <2> HIDE DEF x, y
  <2>1. FirstIsLarger(y, x) <=> y.exponent > x.exponent \/ (y.exponent = x.exponent /\ y.fraction > x.fraction)
    BY DEF FirstIsLarger
  <2> QED
    BY <1>3, <1>4, <2>1
<1>6. CASE p < q
  BY <1>5, <1>6, PositivesOrder
<1>7. CASE q < p
  BY <1>1, <1>5, <1>7, PositivesOrder
<1>8. CASE p = q
  <2>1. ~FirstIsLarger(x, x)
    <3> HIDE DEF x
    <3> QED
      BY <1>3 DEF FirstIsLarger
  <2> QED
    BY <1>1, <1>5, <1>8, <2>1
<1> QED
  BY <1>1, <1>6, <1>7, <1>8

-----------------------------------------------------------------------------
(* Rounding by values.  The boundary between two neighbours stands, among  *)
(* the powers of the base and their fractions, where the midpoint between  *)
(* the two patterns stands among the patterns; what is nearest by patterns *)
(* is therefore on the right side of its two boundaries.                   *)

BoundaryOf(q) == ValueOf(2*q + 1, NBits + 1, ES)

\* The boundary is below, or on, num/den * 2^e.
BelowRatio(m, e, num, den) ==
  LET h == m[2] + FracBits + 1
  IN  h < e \/ (h = e /\ m[1] * den < num * (2 * 2^FracBits))
OnRatio(m, e, num, den) ==
  m[2] + FracBits + 1 = e /\ m[1] * den = num * (2 * 2^FracBits)

LEMMA RegimeIsOnce ==
  ASSUME NEW r, NEW n, NEW P, NEW Q, NEW D, RegimeIs(r, n, P, Q, D),
         NEW P1, NEW Q1, NEW D1, RegimeIs(r, n, P1, Q1, D1)
  PROVE  P1 = P /\ Q1 = Q /\ D1 = D
<1> DEFINE S == 2^(n-3)  a == PowerPattern(r, n)  b == PowerPattern(r+1, n)
<1>1. /\ P \in Nat /\ Q \in Nat /\ Q > 0 /\ D \in Nat /\ a = P /\ b = P + Q /\ D * Q = S
      /\ P1 \in Nat /\ Q1 \in Nat /\ D1 \in Nat /\ a = P1 /\ b = P1 + Q1 /\ D1 * Q1 = S
  BY DEF RegimeIs
<1> HIDE DEF S, a, b
<1>2. P1 = P /\ Q1 = Q
  BY <1>1
<1>3. D1 * Q = D * Q
  BY <1>1, <1>2
<1>4. ~(D1 < D)
  <2>1. D1 < D => D1 * Q < D * Q
    BY <1>1
  <2>2. D1 * Q \in Int /\ D * Q \in Int
    BY <1>1
  <2> QED
    BY <1>3, <2>1, <2>2
<1>5. ~(D < D1)
  <2>1. D < D1 => D * Q < D1 * Q
    BY <1>1
  <2>2. D1 * Q \in Int /\ D * Q \in Int
    BY <1>1
  <2> QED
    BY <1>3, <2>1, <2>2
<1> QED
  BY <1>1, <1>2, <1>4, <1>5

\* The powers of the format.
LEMMA FormatPowers ==
  /\ NBits \in Nat /\ ES \in Nat /\ NBits > ES + 3 /\ NBits >= 4
  /\ FracBits \in Nat /\ FracBits = NBits - 3 - ES
  /\ 2^FracBits \in Nat /\ 2^FracBits > 0 /\ 2^ES \in Nat /\ 2^ES > 0
  /\ 2^(FracBits+1) = 2 * 2^FracBits
  /\ 2^(NBits-3) = 2^ES * 2^FracBits
  /\ Largest \in Nat /\ Largest > 2 /\ Largest = 2^(NBits-1) - 1
<1>1. /\ NBits \in Nat /\ ES \in Nat /\ NBits > ES + 3 /\ NBits >= 4
      /\ FracBits \in Nat /\ FracBits = NBits - 3 - ES /\ ES + FracBits = NBits - 3
  BY FormatAssumption DEF FracBits
<1>2. /\ 2^FracBits \in Nat /\ 2^FracBits > 0 /\ 2^ES \in Nat /\ 2^ES > 0
      /\ 2^(FracBits+1) = 2 * 2^FracBits /\ 2^(ES+FracBits) = 2^ES * 2^FracBits
  BY <1>1, PowerPositive, PowerNext, PowerSum
<1>3. 2^(NBits-3) = 2^ES * 2^FracBits
  BY <1>1, <1>2
<1>4. Largest \in Nat /\ Largest > 2 /\ Largest = 2^(NBits-1) - 1
  <2>1. NBits - 3 \in Nat /\ (NBits-3) + 1 = NBits - 2 /\ (NBits-2) + 1 = NBits - 1
        /\ NBits - 2 \in Nat
    BY <1>1
  <2>2. 2^((NBits-3)+1) = 2 * 2^(NBits-3) /\ 2^((NBits-2)+1) = 2 * 2^(NBits-2)
        /\ 2^(NBits-3) \in Nat /\ 2^(NBits-3) > 0
    BY <2>1, PowerNext, PowerPositive
  <2> DEFINE z == 2^(NBits-3)  y == 2^(NBits-1)
  <2>3. z \in Nat /\ z > 0 /\ y = 4 * z
    BY <2>1, <2>2
  <2>4. Largest = y - 1
    BY DEF Largest
  <2> HIDE DEF z
  <2> QED
    BY <2>3, <2>4
<1> QED
  BY <1>1, <1>2, <1>3, <1>4

LEMMA BoundaryIs ==
  ASSUME NEW q \in Nat, NEW r, NEW P, NEW Q, NEW D,
         RegimeIs(r, NBits, P, Q, D), P <= q, q < P + Q
  PROVE  LET M == 2^FracBits
             s == (2 * (q - P) + 1) * D
         IN  /\ s \in Nat
             /\ BoundaryOf(q) =
                  <<2 * M + (s % (2 * M)), r * 2^ES + (s \div (2 * M)) - (FracBits + 1)>>
<1> DEFINE n == NBits  m == NBits + 1  M == 2^FracBits  s == (2 * (q - P) + 1) * D
<1>1. /\ n \in Nat /\ n >= 4 /\ ES \in Nat /\ m \in Nat /\ m > ES + 3 /\ m - 3 - ES = FracBits + 1
      /\ 2^(FracBits+1) = 2 * M
  BY FormatPowers
<1>2. r \in (2-n)..(n-3) /\ P \in Nat /\ Q \in Nat /\ D \in Nat
  BY DEF RegimeIs
<1>3. RegimeIs(r, m, 2 * P, 2 * Q, D)
  <2>1. PICK P1, Q1, D1 : RegimeIs(r, n, P1, Q1, D1) /\ RegimeIs(r, n+1, 2 * P1, 2 * Q1, D1)
    BY <1>1, <1>2, RegimeExists
  <2>2. P1 = P /\ Q1 = Q /\ D1 = D
    BY <2>1, RegimeIsOnce
  <2> QED
    BY <2>1, <2>2
<1> DEFINE p == 2 * q + 1  P2 == 2 * P  Q2 == 2 * Q
<1>4. p \in Nat /\ P2 <= p /\ p < P2 + Q2 /\ p - P2 = 2 * (q - P) + 1
  BY <1>2
<1>5. s \in Nat
  <2>1. 2 * (q - P) + 1 \in Nat
    BY <1>2
  <2> QED
    BY <1>2, <2>1
<1> DEFINE one == 2^(m-3-ES)  s1 == (p - P2) * D
<1>6. ValueOf(p, m, ES) = <<one + (s1 % one), r * 2^ES + (s1 \div one) - (m-3-ES)>>
  <2>1. RegimeIs(r, m, P2, Q2, D)
    BY <1>3
  <2> HIDE DEF p, P2, Q2, m
  <2> QED
    BY <1>1, <1>4, <2>1, ValueOfIs
<1>7. one = 2 * M /\ s1 = s
  BY <1>1, <1>4
<1> HIDE DEF one, s1, s, M
<1>8. ValueOf(p, m, ES) = <<2 * M + (s % (2 * M)), r * 2^ES + (s \div (2 * M)) - (FracBits + 1)>>
  BY <1>1, <1>6, <1>7
<1> QED
  BY <1>5, <1>8 DEF BoundaryOf, s, M

\* Two points of one regime, in steps of different sizes.
LEMMA PlacesCompare ==
  ASSUME NEW base \in Nat, base > 0, NEW M \in Nat, M > 0, NEW den \in Nat, den > 0,
         NEW Q \in Nat, NEW D \in Nat, D > 0, D * Q = base * M,
         NEW a \in Int, NEW b \in Int, NEW num \in Nat, den <= num, num < 2 * den,
         NEW g \in (2*M)..(4*M-1), NEW t \in Int, t * D = b * (2 * M) + (g - 2 * M)
  PROVE  LET place == a * den + (num - den)
             L == t * (base * den)
             R == (2 * Q) * place
         IN  /\ L \in Int /\ R \in Int
             /\ L < R <=> b < a \/ (b = a /\ g * den < num * (2 * M))
             /\ L = R <=> b = a /\ g * den = num * (2 * M)
<1> DEFINE place == a * den + (num - den)  L == t * (base * den)  R == (2 * Q) * place
           V == 2 * M  W == V * den  x == g * den  y == num * V
           l == b * W + x - W  rr == a * W + y - W
<1>1. g \in Nat /\ 2 * M <= g /\ g < 4 * M /\ V \in Nat /\ V > 0
  OBVIOUS
<1>2. W \in Nat /\ W > 0 /\ x \in Nat /\ y \in Nat /\ W <= x /\ x < 2 * W /\ W <= y /\ y < 2 * W
  <2>1. V <= g /\ g < 2 * V
    BY <1>1
  <2> HIDE DEF V
  <2>2. W \in Nat /\ W > 0 /\ x \in Nat /\ y \in Nat
    BY <1>1
  <2>3. V * den <= g * den /\ g * den < (2 * V) * den
    BY <1>1, <2>1
  <2>4. den * V <= num * V /\ num * V < (2 * den) * V
    BY <1>1
  <2>5. den * V = W /\ (2 * V) * den = 2 * W /\ (2 * den) * V = 2 * W
    BY <1>1
  <2> QED
    BY <2>2, <2>3, <2>4, <2>5
<1>3. L * D = base * l
  <2>1. L * D = (t * D) * (base * den)
    BY DEF L
  <2>2. t * D = b * V + g - V
    BY <1>1
  <2> HIDE DEF V, L
  <2>3. (b * V + g - V) * (base * den) = base * ((b * V + g - V) * den)
    <3> DEFINE z == b * V
    <3>1. z \in Int
      BY <1>1
    <3> HIDE DEF z
    <3>2. (z + g - V) * (base * den) = base * ((z + g - V) * den)
      BY <1>1, <3>1
    <3> QED
      BY <3>2 DEF z
  <2>4. (b * V + g - V) * den = b * (V * den) + g * den - V * den
    <3>1. (b * V) * den = b * (V * den) /\ b * V \in Int
      BY <1>1
    <3> DEFINE z == b * V
    <3> HIDE DEF z
    <3>2. (z + g - V) * den = z * den + g * den - V * den
      <4>1. z \in Int
        BY <3>1 DEF z
      <4> QED
        BY <1>1, <4>1
    <3> QED
      BY <3>1, <3>2 DEF z
  <2> QED
    BY <2>1, <2>2, <2>3, <2>4
<1>4. R * D = base * rr
  <2>1. place \in Int
    BY DEF place
  <2>2. R * D = (base * V) * place
    <3> HIDE DEF place
    <3>1. ((2 * Q) * place) * D = (2 * (D * Q)) * place
      BY <2>1
    <3>2. (2 * (base * M)) * place = (base * (2 * M)) * place
      BY <2>1
    <3> QED
      BY <3>1, <3>2
  <2>3. V * place = rr
    <3> HIDE DEF V
    <3>1. V * (a * den) = a * (V * den)
      BY <1>1
    <3>2. V * (a * den + (num - den)) = V * (a * den) + num * V - V * den
      <4> DEFINE z == a * den
      <4>1. z \in Int
        OBVIOUS
      <4> HIDE DEF z
      <4>2. V * (z + (num - den)) = V * z + num * V - V * den
        BY <1>1, <4>1
      <4> QED
        BY <4>2 DEF z
    <3> QED
      BY <3>1, <3>2
  <2> HIDE DEF place, V
  <2>4. (base * V) * place = base * (V * place)
    BY <1>1, <2>1
  <2> QED
    BY <2>2, <2>3, <2>4
<1>5. L \in Int /\ R \in Int /\ l \in Int /\ rr \in Int
  <2>1. L \in Int
    BY DEF L
  <2>2. place \in Int
    BY DEF place
  <2>3. R \in Int
    <3> HIDE DEF place
    <3> QED
      BY <2>2
  <2> HIDE DEF W, x, y
  <2> QED
    BY <1>2, <2>1, <2>3
<1> HIDE DEF L, R, W, x, y
<1>6. (l < rr <=> b < a \/ (b = a /\ x < y)) /\ (l = rr <=> b = a /\ x = y)
  <2>1. CASE b < a
    <3>1. b + 1 <= a
      BY <2>1
    <3>2. (b + 1) * W <= a * W /\ (b + 1) * W = b * W + W
      BY <1>2, <3>1
    <3> DEFINE u == b * W  v == a * W
    <3>3. u \in Int /\ v \in Int /\ u + W <= v
      BY <1>2, <3>2
    <3> HIDE DEF u, v
    <3>4. u + x - W < v + y - W
      BY <1>2, <3>3
    <3> QED
      BY <1>5, <2>1, <3>4 DEF u, v
  <2>2. CASE b > a
    <3>1. a + 1 <= b
      BY <2>2
    <3>2. (a + 1) * W <= b * W /\ (a + 1) * W = a * W + W
      BY <1>2, <3>1
    <3> DEFINE u == b * W  v == a * W
    <3>3. u \in Int /\ v \in Int /\ v + W <= u
      BY <1>2, <3>2
    <3> HIDE DEF u, v
    <3>4. u + x - W > v + y - W
      BY <1>2, <3>3
    <3> QED
      BY <1>5, <2>2, <3>4 DEF u, v
  <2>3. CASE b = a
    <3> DEFINE v == a * W
    <3>1. v \in Int /\ l = v + x - W /\ rr = v + y - W
      BY <1>2, <2>3
    <3> HIDE DEF v, l, rr
    <3> QED
      BY <1>2, <2>3, <3>1
  <2> QED
    BY <2>1, <2>2, <2>3
<1> HIDE DEF l, rr
<1>7. (L < R <=> l < rr) /\ (L = R <=> l = rr)
  <2>1. L < R => L * D < R * D
    BY <1>5
  <2>2. R < L => R * D < L * D
    BY <1>5
  <2>3. l < rr => base * l < base * rr
    BY <1>5
  <2>4. rr < l => base * rr < base * l
    BY <1>5
  <2>5. L * D \in Int /\ R * D \in Int /\ base * l \in Int /\ base * rr \in Int
    BY <1>5
  <2> QED
    BY <1>3, <1>4, <1>5, <2>1, <2>2, <2>3, <2>4, <2>5
<1>8. x = g * den /\ y = num * (2 * M)
  BY DEF x, y
<1> QED
  BY <1>5, <1>6, <1>7, <1>8 DEF L, R

\* A number is its quotient and its remainder.
LEMMA DivParts ==
  ASSUME NEW x \in Int, NEW m \in Nat, m > 0
  PROVE  x \div m \in Int /\ x % m \in 0..(m-1) /\ x = (x \div m) * m + (x % m)
OBVIOUS

\* The boundary above q, in the regime of q: the exponent part c and the fraction g.
BoundaryAt(q, r, P, Q, D, c, g) ==
  LET M == 2^FracBits
  IN  /\ RegimeIs(r, NBits, P, Q, D) /\ P <= q /\ q < P + Q
      /\ BoundaryOf(q) = <<g, (r * 2^ES + c) - (FracBits + 1)>>
      /\ c \in 0..(2^ES - 1) /\ g \in (2*M)..(4*M - 1)
      /\ (2 * (q - P) + 1) * D = c * (2 * M) + (g - 2 * M)

LEMMA BoundaryInRegime ==
  ASSUME NEW q \in 1..(Largest - 1), NEW r1, NEW P1, NEW Q1, NEW D1,
         RegimeIs(r1, NBits, P1, Q1, D1), P1 <= q, q < P1 + Q1
  PROVE  \E c, g : BoundaryAt(q, r1, P1, Q1, D1, c, g)
<1> DEFINE M == 2^FracBits  base == 2^ES  n == NBits  b == BoundaryOf(q)
<1>1. /\ n \in Nat /\ n >= 4 /\ FracBits \in Nat /\ M \in Nat /\ M > 0 /\ base \in Nat /\ base > 0
      /\ 2^(n-3) = base * M /\ Largest \in Nat
  BY FormatPowers
<1>2. q \in Nat
  BY <1>1
<1>3. RegimeIs(r1, n, P1, Q1, D1) /\ P1 <= q /\ q < P1 + Q1
  OBVIOUS
<1> DEFINE s == (2 * (q - P1) + 1) * D1  g == 2 * M + (s % (2 * M))  h == r1 * base + (s \div (2 * M))
<1>4. s \in Nat /\ b = <<g, h - (FracBits + 1)>>
  <2>1. RegimeIs(r1, NBits, P1, Q1, D1) /\ P1 <= q /\ q < P1 + Q1
    BY <1>3
  <2> DEFINE k == s \div (2 * M)  z == r1 * base
  <2>2. s \in Nat /\ b = <<g, z + (k - (FracBits + 1))>>
    BY <1>2, <2>1, BoundaryIs, Zenon
  <2>3. k \in Int /\ z \in Int
    <3>1. r1 \in Int
      BY <2>1 DEF RegimeIs
    <3> HIDE DEF s
    <3> QED
      BY <1>1, <2>2, <3>1
  <2> HIDE DEF k, z
  <2>4. z + (k - (FracBits + 1)) = (z + k) - (FracBits + 1)
    BY <1>1, <2>3
  <2> QED
    BY <2>2, <2>4 DEF k, z
<1>5. /\ r1 \in (2-n)..(n-3) /\ P1 \in Nat /\ Q1 \in Nat /\ Q1 > 0 /\ D1 \in Nat /\ D1 > 0
      /\ PowerPattern(r1, n) = P1 /\ PowerPattern(r1+1, n) = P1 + Q1 /\ D1 * Q1 = base * M
  BY <1>1, <1>3 DEF RegimeIs
<1>6. r1 \in Int
  BY <1>5
\* where the boundary is in its regime
<1> DEFINE c == s \div (2 * M)
<1>7. c \in 0..(base - 1) /\ s = c * (2 * M) + (g - 2 * M) /\ g \in (2 * M)..(4 * M - 1) /\ h = r1 * base + c
  <2> DEFINE V == 2 * M  y == s % V
  <2>1. V \in Nat /\ V > 0
    BY <1>1
  <2>2. 2 * (q - P1) + 1 <= 2 * Q1 - 1
    BY <1>2, <1>3, <1>5
  <2>3. s < base * V
    <3> DEFINE t == 2 * (q - P1) + 1
    <3>1. t \in Int /\ t < 2 * Q1
      BY <1>2, <1>5, <2>2
    <3> HIDE DEF t
    <3>2. t * D1 < (2 * Q1) * D1
      BY <1>5, <3>1
    <3>3. (2 * Q1) * D1 = 2 * (D1 * Q1) /\ 2 * (base * M) = base * (2 * M)
      BY <1>1, <1>5
    <3> QED
      BY <1>5, <3>2, <3>3 DEF t
  <2> HIDE DEF s, V
  <2>4. c = s \div V /\ c \in Int /\ y \in 0..(V-1) /\ s = V * c + y
    <3>1. s \in Int
      BY <1>4
    <3>2. s \div V \in Int /\ s % V \in 0..(V-1) /\ s = (s \div V) * V + (s % V)
      BY <2>1, <3>1, DivParts
    <3> DEFINE z == s \div V
    <3>3. c = z /\ y = s % V
      BY DEF V
    <3> HIDE DEF z, y, c
    <3>4. z * V = V * z
      BY <2>1, <3>2 DEF z
    <3> QED
      BY <3>2, <3>3, <3>4 DEF z
  <2> HIDE DEF c, y
  <2>5. c >= 0 /\ c < base
    <3>1. ~(c < 0)
      <4>1. c <= -1 => V * c <= -V
        BY <2>1, <2>4
      <4>2. V * c \in Int
        BY <2>1, <2>4
      <4> QED
        BY <1>4, <2>1, <2>4, <4>1, <4>2
    <3>2. ~(c >= base)
      <4>1. c >= base => V * c >= V * base
        BY <1>1, <2>1, <2>4
      <4>2. V * c \in Int /\ V * base = base * V /\ base * V \in Int
        BY <1>1, <2>1, <2>4
      <4> QED
        BY <1>4, <2>3, <2>4, <4>1, <4>2
    <3> QED
      BY <1>1, <2>4, <3>1, <3>2
  <2>6. g = V + y /\ V = 2 * M /\ h = r1 * base + c
    BY DEF V, y, c
  <2> HIDE DEF g, h
  <2>7. V * c = c * V
    BY <2>1, <2>4
  <2>8. s = c * (2 * M) + (g - 2 * M) /\ g \in (2 * M)..(4 * M - 1)
    BY <1>1, <2>4, <2>6, <2>7
  <2>9. c \in 0..(base-1)
    BY <1>1, <2>4, <2>5
  <2> HIDE DEF base, M
  <2> QED
    BY <2>6, <2>8, <2>9
<1>8. BoundaryAt(q, r1, P1, Q1, D1, c, g)
  <2>1. (2 * (q - P1) + 1) * D1 = c * (2 * M) + (g - 2 * M)
    BY <1>7 DEF s
  <2>2. b = <<g, (r1 * base + c) - (FracBits + 1)>>
    BY <1>4, <1>7
  <2> HIDE DEF s, c, g, h
  <2> QED
    BY <1>3, <1>7, <2>1, <2>2 DEF BoundaryAt
<1> QED
  BY <1>8

LEMMA BoundaryExists ==
  ASSUME NEW q \in 1..(Largest - 1)
  PROVE  \E r, P, Q, D, c, g : BoundaryAt(q, r, P, Q, D, c, g)
<1>1. PICK r, P, Q, D : RegimeIs(r, NBits, P, Q, D) /\ P <= q /\ q < P + Q
  BY PatternRegime
<1> QED
  BY <1>1, BoundaryInRegime

\* The boundary above the pattern q, and a number by its regime: both orders agree.
LEMMA BoundaryOrder ==
  ASSUME NEW q \in 1..(Largest - 1), NEW e \in Int, NEW num \in Nat, NEW den \in Nat,
         den > 0, den <= num, num < 2 * den,
         NEW P, NEW Q, NEW D, RegimeIs(e \div 2^ES, NBits, P, Q, D)
  PROVE  LET b == BoundaryOf(q)
             U == 2^ES * den
             X == P * U + Q * ((e % 2^ES) * den + (num - den))
             B == (2 * q + 1) * U
         IN  /\ BelowRatio(b, e, num, den) <=> B < 2 * X
             /\ OnRatio(b, e, num, den) <=> ~(B < 2 * X) /\ ~(2 * X < B)
<1> DEFINE M == 2^FracBits  base == 2^ES  n == NBits  b == BoundaryOf(q)  a == e % base
           r == e \div base
           place == a * den + (num - den)
           U == base * den  X == P * U + Q * place  B == (2 * q + 1) * U
<1>1. /\ n \in Nat /\ n >= 4 /\ FracBits \in Nat /\ M \in Nat /\ M > 0 /\ base \in Nat /\ base > 0
      /\ 2^(n-3) = base * M /\ Largest \in Nat
  BY FormatPowers
<1>2. q \in Nat
  BY <1>1
<1>3. PICK r1, P1, Q1, D1, c, g : BoundaryAt(q, r1, P1, Q1, D1, c, g)
  BY BoundaryExists
<1> DEFINE s == (2 * (q - P1) + 1) * D1  h == r1 * base + c
<1>4. /\ b = <<g, h - (FracBits + 1)>> /\ P1 <= q /\ q < P1 + Q1
      /\ RegimeIs(r1, n, P1, Q1, D1) /\ RegimeIs(r, n, P, Q, D)
  BY <1>3 DEF BoundaryAt
<1>5. /\ r1 \in (2-n)..(n-3) /\ P1 \in Nat /\ Q1 \in Nat /\ Q1 > 0 /\ D1 \in Nat /\ D1 > 0
      /\ PowerPattern(r1, n) = P1 /\ PowerPattern(r1+1, n) = P1 + Q1 /\ D1 * Q1 = base * M
      /\ r \in (2-n)..(n-3) /\ P \in Nat /\ Q \in Nat /\ Q > 0 /\ D \in Nat /\ D > 0
      /\ PowerPattern(r, n) = P /\ PowerPattern(r+1, n) = P + Q /\ D * Q = base * M
  BY <1>1, <1>4 DEF RegimeIs
<1>6. r1 \in Int /\ r \in Int
  BY <1>5
<1> HIDE DEF r
<1>7. c \in 0..(base - 1) /\ s = c * (2 * M) + (g - 2 * M) /\ g \in (2 * M)..(4 * M - 1) /\ h = r1 * base + c
  BY <1>3 DEF BoundaryAt
<1>8. BelowRatio(b, e, num, den) <=> h < e \/ (h = e /\ g * den < num * (2 * M))
  <2>1. b[2] + FracBits + 1 = h
    <3>1. h \in Int
      BY <1>1, <1>6, <1>7
    <3> HIDE DEF h
    <3>2. b[2] = h - (FracBits + 1)
      BY <1>4
    <3> QED
      BY <1>1, <3>1, <3>2
  <2>2. b[1] = g
    BY <1>4
  <2> HIDE DEF b, h
  <2> QED
    BY <2>1, <2>2 DEF BelowRatio
<1>9. OnRatio(b, e, num, den) <=> h = e /\ g * den = num * (2 * M)
  <2>1. b[2] + FracBits + 1 = h
    <3>1. h \in Int
      BY <1>1, <1>6, <1>7
    <3> HIDE DEF h
    <3>2. b[2] = h - (FracBits + 1)
      BY <1>4
    <3> QED
      BY <1>1, <3>1, <3>2
  <2>2. b[1] = g
    BY <1>4
  <2> HIDE DEF b, h
  <2> QED
    BY <2>1, <2>2 DEF OnRatio
<1>10. e = r * base + a /\ a \in 0..(base-1) /\ place \in 0..(U-1) /\ U \in Nat /\ U > 0
  <2>1. a \in 0..(base-1) /\ e = base * r + a
    <3> HIDE DEF base, a
    <3>1. e \div base \in Int /\ e % base \in 0..(base-1) /\ e = (e \div base) * base + (e % base)
      BY <1>1, DivParts
    <3>2. r = e \div base /\ a = e % base
      BY DEF base, a, r
    <3>3. r * base = base * r
      BY <1>1, <1>6
    <3> QED
      BY <3>1, <3>2, <3>3
  <2> HIDE DEF a, base
  <2>2. base * r = r * base
    BY <1>1, <1>6
  <2>3. U \in Nat /\ U > 0
    BY <1>1
  <2>4. a + 1 <= base /\ a >= 0 /\ a \in Int
    BY <1>1, <2>1
  <2>5. (a + 1) * den <= base * den /\ (a+1) * den = a * den + den /\ a * den >= 0 /\ a * den \in Int
    BY <1>1, <2>4
  <2> DEFINE z == a * den
  <2>6. z \in Int /\ z >= 0 /\ z + den <= U
    BY <2>5
  <2> HIDE DEF z, U
  <2>7. z + (num - den) \in 0..(U-1)
    BY <2>3, <2>6
  <2> QED
    BY <2>1, <2>2, <2>3, <2>7 DEF z
<1> HIDE DEF a, place, U
<1>11. Q * place >= 0 /\ Q * place < Q * U /\ X = P * U + Q * place /\ X \in Int
  <2>1. place \in Nat /\ place < U
    BY <1>10
  <2>2. Q * place < Q * U /\ Q * place >= 0 /\ Q * place \in Int /\ P * U \in Int
    BY <1>5, <1>10, <2>1
  <2> QED
    BY <2>2
<1>12. B \in Int
  BY <1>2, <1>10
<1> HIDE DEF X, B, s, h, b
<1> SUFFICES /\ BelowRatio(b, e, num, den) <=> B < 2 * X
             /\ OnRatio(b, e, num, den) <=> ~(B < 2 * X) /\ ~(2 * X < B)
  BY DEF b, X, B, U, place, a
<1>13. CASE r1 < r
  <2>1. P1 + Q1 <= P
    <3>1. r \in (2-n)..(n-2)
      BY <1>1, <1>5
    <3>2. PowerPattern(r1+1, n) <= PowerPattern(r, n)
      BY <1>1, <1>5, <1>13, <3>1, RegimesGrow
    <3> QED
      BY <1>5, <3>2
  <2>2. q + 1 <= P
    BY <1>2, <1>4, <1>5, <2>1
  <2>3. (2 * q + 1) * U < 2 * (P * U)
    <3>1. 2 * q + 1 < 2 * P /\ 2 * q + 1 \in Int
      BY <1>2, <1>5, <2>2
    <3> DEFINE t == 2 * q + 1
    <3> HIDE DEF t
    <3>2. t * U < (2 * P) * U /\ (2 * P) * U = 2 * (P * U)
      BY <1>5, <1>10, <3>1 DEF t
    <3> QED
      BY <3>2 DEF t
  <2>4. B < 2 * X
    <3> DEFINE y == P * U  z == Q * place
    <3>1. y \in Int /\ z \in Int /\ z >= 0 /\ X = y + z /\ B < 2 * y
      <4>1. place \in Int
        BY <1>10
      <4> QED
        BY <1>5, <1>10, <1>11, <2>3, <4>1 DEF B
    <3> HIDE DEF y, z
    <3> QED
      BY <1>12, <3>1
  <2>5. h < e
    <3>1. r1 + 1 <= r
      BY <1>6, <1>13
    <3>2. (r1 + 1) * base <= r * base /\ (r1 + 1) * base = r1 * base + base
      BY <1>1, <1>6, <3>1
    <3> DEFINE y == r1 * base  z == r * base
    <3>3. y \in Int /\ z \in Int /\ y + base <= z /\ h = y + c /\ e = z + a
      BY <1>1, <1>6, <1>7, <1>10, <3>2
    <3>4. c \in Int /\ c >= 0 /\ c < base /\ a \in Int /\ a >= 0 /\ a < base /\ base \in Int
      BY <1>1, <1>7, <1>10
    <3> HIDE DEF y, z, base
    <3> QED
      BY <3>3, <3>4
  <2>6. h \in Int /\ ~(h = e)
    <3>1. h \in Int
      BY <1>1, <1>6, <1>7
    <3> QED
      BY <2>5, <3>1
  <2> QED
    BY <1>8, <1>9, <2>4, <2>5, <2>6
<1>14. CASE r < r1
  <2>1. P + Q <= P1
    <3>1. r1 \in (2-n)..(n-2)
      BY <1>1, <1>5
    <3>2. PowerPattern(r+1, n) <= PowerPattern(r1, n)
      BY <1>1, <1>5, <1>14, <3>1, RegimesGrow
    <3> QED
      BY <1>5, <3>2
  <2>2. P + Q <= q
    BY <1>2, <1>4, <1>5, <2>1
  <2>3. P * U + Q * U <= q * U
    <3>1. (P + Q) * U <= q * U /\ (P + Q) * U = P * U + Q * U
      BY <1>2, <1>5, <1>10, <2>2
    <3> QED
      BY <3>1
  <2>4. 2 * X < B
    <3> DEFINE y == P * U  z == Q * place  w == Q * U  t == q * U
    <3>1. y \in Int /\ z \in Int /\ w \in Int /\ t \in Int /\ z < w /\ X = y + z /\ y + w <= t
      <4>1. place \in Int
        BY <1>10
      <4> QED
        BY <1>2, <1>5, <1>10, <1>11, <2>3, <4>1
    <3>2. B = 2 * t + U
      BY <1>2, <1>10 DEF B
    <3> HIDE DEF y, z, w, t
    <3> QED
      BY <1>10, <1>12, <3>1, <3>2
  <2>5. e < h
    <3>1. r + 1 <= r1
      BY <1>6, <1>14
    <3>2. (r + 1) * base <= r1 * base /\ (r + 1) * base = r * base + base
      BY <1>1, <1>6, <3>1
    <3> DEFINE y == r1 * base  z == r * base
    <3>3. y \in Int /\ z \in Int /\ z + base <= y /\ h = y + c /\ e = z + a
      BY <1>1, <1>6, <1>7, <1>10, <3>2
    <3>4. c \in Int /\ c >= 0 /\ c < base /\ a \in Int /\ a >= 0 /\ a < base /\ base \in Int
      BY <1>1, <1>7, <1>10
    <3> HIDE DEF y, z, base
    <3> QED
      BY <3>3, <3>4
  <2>6. h \in Int /\ ~(h = e) /\ ~(h < e)
    <3>1. h \in Int
      BY <1>1, <1>6, <1>7
    <3> QED
      BY <2>5, <3>1
  <2>7. ~(B < 2 * X)
    BY <1>11, <1>12, <2>4
  <2> QED
    BY <1>8, <1>9, <2>4, <2>6, <2>7
<1>15. CASE r1 = r
  <2>1. P1 = P /\ Q1 = Q /\ D1 = D
    BY <1>4, <1>15, RegimeIsOnce
  <2> DEFINE t == 2 * (q - P) + 1  L == t * (base * den)  R == (2 * Q) * place
  <2>2. t \in Int /\ t * D = c * (2 * M) + (g - 2 * M)
    <3>1. s = t * D
      BY <2>1 DEF s
    <3> QED
      BY <1>2, <1>5, <1>7, <3>1
  <2>3. /\ L \in Int /\ R \in Int
        /\ L < R <=> c < a \/ (c = a /\ g * den < num * (2 * M))
        /\ L = R <=> c = a /\ g * den = num * (2 * M)
    <3>1. a \in Int /\ c \in Int
      BY <1>1, <1>7, <1>10
    <3> HIDE DEF t, M, base
    <3> QED
      BY <1>1, <1>5, <1>7, <2>2, <3>1, PlacesCompare DEF place
  <2>4. B = 2 * (P * U) + L /\ 2 * X = 2 * (P * U) + R
    <3>1. B = (2 * q + 1) * U /\ L = (2 * (q - P) + 1) * U
      BY DEF B, U
    <3>2. (2 * q + 1) * U = 2 * (P * U) + (2 * (q - P) + 1) * U
      <4> DEFINE x == 2 * (q - P) + 1  y == 2 * q + 1
      <4>1. x \in Int /\ y = 2 * P + x
        BY <1>2, <1>5
      <4> HIDE DEF x, y
      <4>2. (2 * P + x) * U = 2 * (P * U) + x * U
        BY <1>5, <1>10, <4>1
      <4> QED
        BY <4>1, <4>2 DEF x, y
    <3>3. place \in Int
      BY <1>10
    <3>4. 2 * X = 2 * (P * U) + (2 * Q) * place
      BY <1>5, <1>10, <1>11, <3>3
    <3> QED
      BY <3>1, <3>2, <3>4
  <2> DEFINE y == P * U
  <2>5. y \in Int
    BY <1>5, <1>10
  <2> HIDE DEF y, L, R
  <2>6. (B < 2 * X <=> L < R) /\ (~(B < 2 * X) /\ ~(2 * X < B) <=> L = R)
    <3>1. B = 2 * y + L /\ 2 * X = 2 * y + R
      BY <2>4 DEF y
    <3> QED
      BY <1>11, <1>12, <2>3, <2>5, <3>1
  <2>7. (h < e <=> c < a) /\ (h = e <=> c = a)
    <3> DEFINE z == r * base
    <3>1. z \in Int /\ h = z + c /\ e = z + a /\ c \in Int /\ a \in Int
      BY <1>1, <1>6, <1>7, <1>10, <1>15
    <3> HIDE DEF z
    <3> QED
      BY <3>1
  <2> QED
    BY <1>8, <1>9, <2>3, <2>6, <2>7
<1> QED
  BY <1>6, <1>13, <1>14, <1>15

\* p rounds num/den * 2^e, by the boundaries on both sides of p.
RoundsAt(p, e, num, den) ==
  /\ p \in 1..Largest
  /\ \/ p = 1
     \/ BelowRatio(BoundaryOf(p-1), e, num, den)
     \/ p % 2 = 0 /\ OnRatio(BoundaryOf(p-1), e, num, den)
  /\ \/ p = Largest
     \/ /\ ~BelowRatio(BoundaryOf(p), e, num, den)
        /\ OnRatio(BoundaryOf(p), e, num, den) => p % 2 = 0

\* A boundary in another regime than the number is on the side of its regime.
LEMMA BoundaryApart ==
  ASSUME NEW q \in 1..(Largest - 1), NEW e \in Int, NEW num, NEW den
  PROVE  /\ e \div 2^ES >= NBits - 2 => BelowRatio(BoundaryOf(q), e, num, den)
         /\ e \div 2^ES <= -(NBits - 1) => ~BelowRatio(BoundaryOf(q), e, num, den)
                                         /\ ~OnRatio(BoundaryOf(q), e, num, den)
<1> DEFINE M == 2^FracBits  base == 2^ES  n == NBits  b == BoundaryOf(q)  r == e \div base
           a == e % base
<1>1. /\ n \in Nat /\ FracBits \in Nat /\ base \in Nat /\ base > 0
  BY FormatPowers
<1>2. PICK r1, P1, Q1, D1, c, g : BoundaryAt(q, r1, P1, Q1, D1, c, g)
  BY BoundaryExists
<1> DEFINE h == r1 * base + c
<1>3. b = <<g, h - (FracBits + 1)>> /\ c \in 0..(base-1) /\ RegimeIs(r1, n, P1, Q1, D1)
  BY <1>2 DEF BoundaryAt
<1>4. r1 \in (2-n)..(n-3)
  BY <1>3 DEF RegimeIs
<1>5. r \in Int /\ a \in 0..(base-1) /\ e = r * base + a
  BY <1>1, DivParts
<1> DEFINE y == r1 * base  z == r * base
<1>6. y \in Int /\ z \in Int /\ h = y + c /\ e = z + a /\ r1 \in Int
  BY <1>1, <1>3, <1>4, <1>5
<1> HIDE DEF b, r, a, base
<1>7. h \in Int /\ b[2] + FracBits + 1 = h
  <2> HIDE DEF y, z
  <2>1. h \in Int
    BY <1>1, <1>3, <1>6
  <2> HIDE DEF h
  <2> QED
    BY <1>1, <1>3, <2>1
<1>8. r >= n - 2 => h < e
  <2> HAVE r >= n - 2
  <2>1. r1 + 1 <= r
    BY <1>1, <1>4, <1>5
  <2>2. (r1 + 1) * base <= r * base /\ (r1 + 1) * base = r1 * base + base
    BY <1>1, <1>5, <1>6, <2>1
  <2>3. y + base <= z
    BY <2>2
  <2>4. c < base /\ a >= 0 /\ c \in Int /\ a \in Int
    BY <1>1, <1>3, <1>5
  <2>5. h = y + c
    OBVIOUS
  <2> HIDE DEF y, z, h
  <2> QED
    BY <1>1, <1>6, <2>3, <2>4, <2>5
<1>9. r <= -(n-1) => e < h
  <2> HAVE r <= -(n-1)
  <2>1. r + 1 <= r1
    BY <1>1, <1>4, <1>5
  <2>2. (r + 1) * base <= r1 * base /\ (r + 1) * base = r * base + base
    BY <1>1, <1>5, <1>6, <2>1
  <2>3. z + base <= y
    BY <2>2
  <2>4. a < base /\ c >= 0 /\ c \in Int /\ a \in Int
    BY <1>1, <1>3, <1>5
  <2>5. h = y + c
    OBVIOUS
  <2> HIDE DEF y, z, h
  <2> QED
    BY <1>1, <1>6, <2>3, <2>4, <2>5
<1> HIDE DEF h, y, z
<1>10. r >= n - 2 => BelowRatio(b, e, num, den)
  BY <1>7, <1>8 DEF BelowRatio
<1>11. r <= -(n-1) => ~BelowRatio(b, e, num, den) /\ ~OnRatio(b, e, num, den)
  <2> HAVE r <= -(n-1)
  <2>1. ~(h < e) /\ h # e
    BY <1>7, <1>9
  <2> QED
    BY <1>7, <2>1 DEF BelowRatio, OnRatio
<1> QED
  BY <1>10, <1>11 DEF b, r, base

\* The nearest pattern is the pattern between the boundaries around the number.
LEMMA RatioRounds ==
  ASSUME NEW p, NEW e \in Int, NEW num \in Nat, NEW den \in Nat,
         den > 0, den <= num, num < 2 * den, RoundsRatio(p, NBits, ES, e, num, den)
  PROVE  RoundsAt(p, e, num, den)
<1> DEFINE base == 2^ES  n == NBits  r == e \div base  a == e % base
           U == base * den  place == a * den + (num - den)
<1>1. n \in Nat /\ base \in Nat /\ base > 0 /\ Largest \in Nat /\ Largest > 2 /\ Largest = 2^(n-1) - 1 /\ n >= 4
  BY FormatPowers
<1>2. p \in 1..Largest
  BY <1>1 DEF RoundsRatio
<1>3. CASE r >= n - 2
  <2>1. p = Largest
    BY <1>1, <1>3 DEF RoundsRatio
  <2>2. p - 1 \in 1..(Largest - 1)
    BY <1>1, <2>1
  <2>3. BelowRatio(BoundaryOf(p-1), e, num, den)
    BY <1>3, <2>2, BoundaryApart
  <2> QED
    BY <1>2, <2>1, <2>3 DEF RoundsAt
<1>4. CASE r <= -(n-1)
  <2>0. r \in Int
    BY <1>1, DivParts
  <2>1. p = 1
    <3>1. ~(r >= n - 2)
      <4> HIDE DEF r
      <4> QED
        BY <1>1, <1>4, <2>0
    <3> QED
      BY <1>1, <1>4, <3>1 DEF RoundsRatio
  <2>2. p \in 1..(Largest - 1)
    BY <1>1, <2>1
  <2>3. ~BelowRatio(BoundaryOf(p), e, num, den) /\ ~OnRatio(BoundaryOf(p), e, num, den)
    BY <1>4, <2>2, BoundaryApart
  <2> QED
    BY <1>2, <2>1, <2>3 DEF RoundsAt
<1>5. CASE ~(r >= n - 2) /\ ~(r <= -(n-1))
  <2> DEFINE P0 == PowerPattern(r, n)  Q0 == PowerPattern(r+1, n) - PowerPattern(r, n)
  <2>1. Nearest(p, P0 * U + Q0 * place, U, FALSE)
    BY <1>5 DEF RoundsRatio
  <2>2. r \in (2-n)..(n-3)
    <3>1. r \in Int
      BY <1>1, DivParts
    <3> HIDE DEF r
    <3> QED
      BY <1>1, <1>5, <3>1
  <2>3. PICK P, Q, D : RegimeIs(r, n, P, Q, D)
    BY <1>1, <2>2, RegimeExists
  <2>4. P \in Nat /\ Q \in Nat /\ P0 = P /\ Q0 = Q
    <3>1. P \in Nat /\ Q \in Nat /\ PowerPattern(r, n) = P /\ PowerPattern(r+1, n) = P + Q
      BY <2>3 DEF RegimeIs
    <3> QED
      BY <3>1
  <2> DEFINE X == P * U + Q * place  d == 2 * (p * U - X)
  <2>5. Nearest(p, X, U, FALSE)
    <3> HIDE DEF P0, Q0, U, place
    <3> QED
      BY <2>1, <2>4
  <2>6. place \in Int /\ U \in Int
    <3>1. a \in Int
      BY <1>1, DivParts
    <3> HIDE DEF a, base
    <3> QED
      BY <1>1, <3>1
  <2>7. X \in Int
    <3> HIDE DEF place, U
    <3> QED
      BY <2>4, <2>6
  <2>8. /\ -U <= d /\ d <= U
        /\ d = -U => p % 2 = 0
        /\ d = U => p % 2 = 0
    <3> HIDE DEF X, U
    <3> QED
      BY <2>5 DEF Nearest
  <2>9. ASSUME NEW q \in 1..(Largest - 1)
        PROVE  /\ BelowRatio(BoundaryOf(q), e, num, den) <=> (2 * q + 1) * U < 2 * X
               /\ OnRatio(BoundaryOf(q), e, num, den) <=>
                     ~((2 * q + 1) * U < 2 * X) /\ ~(2 * X < (2 * q + 1) * U)
    <3> DEFINE Xq == P * (2^ES * den) + Q * ((e % 2^ES) * den + (num - den))
               Bq == (2 * q + 1) * (2^ES * den)
    <3>1. RegimeIs(e \div 2^ES, NBits, P, Q, D)
      BY <2>3
    <3>2. /\ BelowRatio(BoundaryOf(q), e, num, den) <=> Bq < 2 * Xq
          /\ OnRatio(BoundaryOf(q), e, num, den) <=> ~(Bq < 2 * Xq) /\ ~(2 * Xq < Bq)
      BY <3>1, BoundaryOrder, Zenon
    <3> QED
      BY <3>2
  <2>10. p \in Int /\ p * U \in Int
    <3>1. p \in Int
      BY <1>1, <1>2
    <3> HIDE DEF U
    <3> QED
      BY <2>6, <3>1
  <2>11. (2 * p + 1) * U = 2 * (p * U) + U /\ (2 * (p - 1) + 1) * U = 2 * (p * U) - U
    <3> HIDE DEF U
    <3> QED
      BY <2>6, <2>10
  <2> DEFINE t == p * U
  <2>12. t \in Int /\ d = 2 * (t - X) /\ (2 * p + 1) * U = 2 * t + U /\ (2 * (p - 1) + 1) * U = 2 * t - U
    BY <2>10, <2>11
  <2> HIDE DEF X, U, place, d, t
  <2>13. p = 1 \/ BelowRatio(BoundaryOf(p-1), e, num, den)
         \/ (p % 2 = 0 /\ OnRatio(BoundaryOf(p-1), e, num, den))
    <3> SUFFICES ASSUME p # 1
                 PROVE  BelowRatio(BoundaryOf(p-1), e, num, den)
                          \/ (p % 2 = 0 /\ OnRatio(BoundaryOf(p-1), e, num, den))
      OBVIOUS
    <3>1. p - 1 \in 1..(Largest - 1)
      BY <1>1, <1>2
    <3> DEFINE A == BelowRatio(BoundaryOf(p-1), e, num, den)
               B == OnRatio(BoundaryOf(p-1), e, num, den)
    <3>2. (A <=> 2 * t - U < 2 * X) /\ (B <=> ~(2 * t - U < 2 * X) /\ ~(2 * X < 2 * t - U))
      BY <2>9, <2>12, <3>1
    <3> HIDE DEF A, B
    <3>3. d < U => 2 * t - U < 2 * X
      BY <2>6, <2>7, <2>12
    <3>4. d = U => ~(2 * t - U < 2 * X) /\ ~(2 * X < 2 * t - U)
      BY <2>6, <2>7, <2>12
    <3>5. d < U \/ d = U
      BY <2>6, <2>7, <2>8, <2>12
    <3>6. A \/ (p % 2 = 0 /\ B)
      BY <2>8, <3>2, <3>3, <3>4, <3>5
    <3> QED
      BY <3>6 DEF A, B
  <2>14. p = Largest \/ (~BelowRatio(BoundaryOf(p), e, num, den)
                         /\ (OnRatio(BoundaryOf(p), e, num, den) => p % 2 = 0))
    <3> SUFFICES ASSUME p # Largest
                 PROVE  ~BelowRatio(BoundaryOf(p), e, num, den)
                         /\ (OnRatio(BoundaryOf(p), e, num, den) => p % 2 = 0)
      OBVIOUS
    <3>1. p \in 1..(Largest - 1)
      BY <1>1, <1>2
    <3> DEFINE A == BelowRatio(BoundaryOf(p), e, num, den)
               B == OnRatio(BoundaryOf(p), e, num, den)
    <3>2. (A <=> 2 * t + U < 2 * X) /\ (B <=> ~(2 * t + U < 2 * X) /\ ~(2 * X < 2 * t + U))
      BY <2>9, <2>12, <3>1
    <3> HIDE DEF A, B
    <3>3. ~(2 * t + U < 2 * X)
      BY <2>6, <2>7, <2>8, <2>12
    <3>4. ~(2 * t + U < 2 * X) /\ ~(2 * X < 2 * t + U) => d = -U
      BY <2>6, <2>7, <2>12
    <3>6. ~A /\ (B => p % 2 = 0)
      BY <2>8, <3>2, <3>3, <3>4
    <3> QED
      BY <3>6 DEF A, B
  <2> QED
    BY <1>2, <2>13, <2>14 DEF RoundsAt
<1> QED
  BY <1>3, <1>4, <1>5

\* The number <<nn, j>> / <<s, k>> is num/den * 2^e: cross products over a common factor.
IsRatio(s, k, nn, j, e, num, den) ==
  \E u, v \in Nat, K, L \in Nat \ {0} :
    /\ K * (s * 2^u) = L * den
    /\ K * (nn * 2^v) = L * (num * (2 * 2^FracBits))
    /\ (k - u) - (j - v) = FracBits + 1 - e

LEMMA CancelLess ==
  ASSUME NEW K \in Nat, K > 0, NEW x \in Int, NEW y \in Int
  PROVE  K * x < K * y <=> x < y
<1>1. x < y => K * x < K * y
  OBVIOUS
<1>2. y <= x => K * y <= K * x
  OBVIOUS
<1>3. K * x \in Int /\ K * y \in Int
  OBVIOUS
<1> QED
  BY <1>1, <1>2, <1>3

\* A boundary times <<s, k>> against <<nn, j>> is the boundary against their quotient.
LEMMA RatioLess ==
  ASSUME NEW q \in 1..(Largest - 1), NEW e \in Int, NEW num \in Nat, NEW den \in Nat,
         den > 0, den <= num, num < 2 * den,
         NEW s \in Nat, s > 0, NEW k \in Int, NEW nn \in Nat, nn > 0, NEW j \in Int,
         IsRatio(s, k, nn, j, e, num, den)
  PROVE  LET b == BoundaryOf(q)
             x == <<b[1] * s, b[2] + k>>
             y == <<nn, j>>
         IN  /\ DyadicLess(x, y) <=> BelowRatio(b, e, num, den)
             /\ DyadicEqual(x, y) <=> OnRatio(b, e, num, den)
<1> DEFINE M == 2^FracBits  base == 2^ES  b == BoundaryOf(q)  x == <<b[1] * s, b[2] + k>>  y == <<nn, j>>
<1>1. /\ FracBits \in Nat /\ base \in Nat /\ base > 0 /\ M \in Nat /\ M > 0
  BY FormatPowers
<1>2. PICK r, P, Q, D, c, g : BoundaryAt(q, r, P, Q, D, c, g)
  BY BoundaryExists
<1> DEFINE h == r * base + c
<1>3. b = <<g, h - (FracBits + 1)>> /\ c \in 0..(base-1) /\ RegimeIs(r, NBits, P, Q, D)
      /\ g \in (2*M)..(4*M - 1)
  BY <1>2 DEF BoundaryAt
<1>4. r \in Int /\ NBits \in Int
  <2>1. r \in (2-NBits)..(NBits-3) /\ NBits \in Nat
    BY <1>3, FormatPowers DEF RegimeIs
  <2> QED
    BY <2>1
<1>5. h \in Int
  BY <1>1, <1>3, <1>4
<1> HIDE DEF h, b, base
<1>6. b[1] = g /\ b[2] = h - (FracBits + 1) /\ b[2] \in Int /\ b[2] + FracBits + 1 = h
  BY <1>1, <1>3, <1>5
<1>7. PICK u \in Nat, v \in Nat, K \in Nat \ {0}, L \in Nat \ {0} :
        /\ K * (s * 2^u) = L * den
        /\ K * (nn * 2^v) = L * (num * (2 * M))
        /\ (k - u) - (j - v) = FracBits + 1 - e
  BY DEF IsRatio
<1> HIDE DEF M
<1> DEFINE gs == g * s  i == b[2] + k  U == 2^u  V == 2^v  A == gs * U  B == nn * V
           X == g * den  Y == num * (2 * M)
<1>8. U \in Nat /\ U > 0 /\ V \in Nat /\ V > 0
  BY <1>7, PowerPositive
<1>9. g \in Nat /\ g > 0 /\ 2 * M <= g /\ g < 4 * M
  BY <1>1, <1>3
<1> HIDE DEF U, V
<1>10. gs \in Nat /\ gs > 0
  BY <1>9
<1>11. A \in Nat /\ B \in Nat /\ A > 0 /\ B > 0 /\ s * U \in Nat
  <2> HIDE DEF gs
  <2> QED
    BY <1>8, <1>10
<1>12. K * A = L * X
  <2> DEFINE z == s * U
  <2>1. A = g * z
    BY <1>8, <1>9
  <2>2. K * z = L * den
    BY <1>7 DEF U
  <2> HIDE DEF A, z
  <2>3. z \in Nat
    BY <1>11 DEF z
  <2>4. K * (g * z) = g * (K * z) /\ L * (g * den) = g * (L * den)
    BY <1>7, <1>9, <2>3
  <2> QED
    BY <2>1, <2>2, <2>4
<1>13. K * B = L * Y
  BY <1>7 DEF V
<1>14. X \in Nat /\ Y \in Nat /\ X < 2 * Y /\ Y < 2 * X
  <2>1. X \in Nat /\ Y \in Nat
    BY <1>1, <1>9
  <2> DEFINE W == den * (2 * M)
  <2>2. (2 * M) * den <= g * den /\ g * den < (4 * M) * den
    BY <1>1, <1>9
  <2>3. (2 * M) * den = W /\ (4 * M) * den = 2 * W /\ W \in Nat
    BY <1>1
  <2>4. den * (2 * M) <= num * (2 * M) /\ num * (2 * M) < (2 * den) * (2 * M)
    BY <1>1
  <2>5. (2 * den) * (2 * M) = 2 * W
    BY <1>1
  <2> HIDE DEF W
  <2>6. W <= X /\ X < 2 * W
    BY <2>2, <2>3
  <2>7. W <= Y /\ Y < 2 * W
    BY <2>4, <2>5 DEF W
  <2> HIDE DEF X, Y
  <2> QED
    BY <2>1, <2>3, <2>6, <2>7
<1> HIDE DEF A, B, X, Y
<1>15. (A < B <=> X < Y) /\ (B < A <=> Y < X)
  <2>1. K * A < K * B <=> A < B
    BY <1>7, <1>11, CancelLess
  <2>2. K * B < K * A <=> B < A
    BY <1>7, <1>11, CancelLess
  <2>3. L * X < L * Y <=> X < Y
    BY <1>7, <1>14, CancelLess
  <2>4. L * Y < L * X <=> Y < X
    BY <1>7, <1>14, CancelLess
  <2> QED
    BY <1>12, <1>13, <2>1, <2>2, <2>3, <2>4
<1>16. A < 2 * B /\ B < 2 * A
  <2>1. K * A < K * (2 * B)
    <3>1. L * X < L * (2 * Y) <=> X < 2 * Y
      BY <1>7, <1>14, CancelLess
    <3>2. L * (2 * Y) = 2 * (L * Y) /\ K * (2 * B) = 2 * (K * B)
      BY <1>7, <1>11, <1>14
    <3> QED
      BY <1>12, <1>13, <1>14, <3>1, <3>2
  <2>2. K * B < K * (2 * A)
    <3>1. L * Y < L * (2 * X) <=> Y < 2 * X
      BY <1>7, <1>14, CancelLess
    <3>2. L * (2 * X) = 2 * (L * X) /\ K * (2 * A) = 2 * (K * A)
      BY <1>7, <1>11, <1>14
    <3> QED
      BY <1>12, <1>13, <1>14, <3>1, <3>2
  <2>3. K * A < K * (2 * B) <=> A < 2 * B
    BY <1>7, <1>11, CancelLess
  <2>4. K * B < K * (2 * A) <=> B < 2 * A
    BY <1>7, <1>11, CancelLess
  <2> QED
    BY <2>1, <2>2, <2>3, <2>4
<1> DEFINE d == (i - u) - (j - v)  dd == (j - v) - (i - u)
<1>17. i \in Int /\ d \in Int /\ d = h - e /\ dd \in Int /\ dd = e - h
  BY <1>1, <1>5, <1>6, <1>7
<1> DEFINE w == 1
<1>18. w \in Nat /\ w > 0 /\ 2^w = 2
  <2>1. 2^(0+1) = 2 * 2^0 /\ 2^0 = 1
    BY PowerNext, PowerZero
  <2> QED
    BY <2>1
<1>19. gs * U < 2^w * (nn * V) /\ nn * V < 2^w * (gs * U)
  <2> HIDE DEF w, gs
  <2> QED
    BY <1>16, <1>18 DEF A, B
<1>20. d = 0 \/ d >= w \/ d <= -w
  <2> HIDE DEF d
  <2> QED
    BY <1>17
<1>21. dd = 0 \/ dd >= w \/ dd <= -w
  <2> HIDE DEF dd
  <2> QED
    BY <1>17
<1> HIDE DEF w, gs, i, d, dd
<1>22. d = (i - u) - (j - v) /\ dd = (j - v) - (i - u)
  BY DEF d, dd
<1>23. DyadicLess(<<gs, i>>, <<nn, j>>) <=> d < 0 \/ (d = 0 /\ gs * U < nn * V)
  BY <1>7, <1>10, <1>17, <1>18, <1>19, <1>20, <1>22, LexLess DEF U, V
<1>24. DyadicLess(<<nn, j>>, <<gs, i>>) <=> dd < 0 \/ (dd = 0 /\ nn * V < gs * U)
  BY <1>7, <1>10, <1>17, <1>18, <1>19, <1>21, <1>22, LexLess DEF U, V
<1>25. x = <<gs, i>>
  BY <1>6 DEF gs, i
<1>26. BelowRatio(b, e, num, den) <=> h < e \/ (h = e /\ X < Y)
  BY <1>6 DEF BelowRatio, X, Y, M
<1>27. OnRatio(b, e, num, den) <=> h = e /\ X = Y
  BY <1>6 DEF OnRatio, X, Y, M
<1>28. DyadicLess(x, y) <=> d < 0 \/ (d = 0 /\ X < Y)
  <2>1. gs * U < nn * V <=> X < Y
    BY <1>15 DEF A, B
  <2> QED
    BY <1>23, <1>25, <2>1
<1>29. DyadicLess(y, x) <=> dd < 0 \/ (dd = 0 /\ Y < X)
  <2>1. nn * V < gs * U <=> Y < X
    BY <1>15 DEF A, B
  <2> QED
    BY <1>24, <1>25, <2>1
<1> HIDE DEF x, y
<1>30. DyadicLess(x, y) <=> BelowRatio(b, e, num, den)
  BY <1>5, <1>17, <1>26, <1>28
<1>31. DyadicEqual(x, y) <=> OnRatio(b, e, num, den)
  BY <1>5, <1>14, <1>17, <1>27, <1>28, <1>29 DEF DyadicEqual
<1> QED
  BY <1>30, <1>31 DEF x, y, b

\* p rounds the quotient of <<nn, j>> by <<s, k>>: both are compared exactly.
RoundsBetween(p, s, k, nn, j) ==
  LET Side(q) == <<BoundaryOf(q)[1] * s, BoundaryOf(q)[2] + k>>
  IN  /\ p \in 1..Largest
      /\ \/ p = 1
         \/ DyadicLess(Side(p-1), <<nn, j>>)
         \/ p % 2 = 0 /\ DyadicEqual(Side(p-1), <<nn, j>>)
      /\ \/ p = Largest
         \/ /\ ~DyadicLess(Side(p), <<nn, j>>)
            /\ DyadicEqual(Side(p), <<nn, j>>) => p % 2 = 0

LEMMA RatioRoundsBetween ==
  ASSUME NEW p, NEW e \in Int, NEW num \in Nat, NEW den \in Nat,
         den > 0, den <= num, num < 2 * den, RoundsRatio(p, NBits, ES, e, num, den),
         NEW s \in Nat, s > 0, NEW k \in Int, NEW nn \in Nat, nn > 0, NEW j \in Int,
         IsRatio(s, k, nn, j, e, num, den)
  PROVE  RoundsBetween(p, s, k, nn, j)
<1> DEFINE Side(q) == <<BoundaryOf(q)[1] * s, BoundaryOf(q)[2] + k>>
<1>1. RoundsAt(p, e, num, den)
  BY RatioRounds
<1>2. \A q \in 1..(Largest - 1) :
        /\ DyadicLess(Side(q), <<nn, j>>) <=> BelowRatio(BoundaryOf(q), e, num, den)
        /\ DyadicEqual(Side(q), <<nn, j>>) <=> OnRatio(BoundaryOf(q), e, num, den)
  BY RatioLess
<1>3. p \in 1..Largest /\ Largest \in Nat
  BY <1>1, FormatPowers DEF RoundsAt
<1>4. p # 1 => p - 1 \in 1..(Largest - 1)
  BY <1>3
<1>5. p # Largest => p \in 1..(Largest - 1)
  BY <1>3
<1> HIDE DEF Side
<1>6. p = 1 \/ DyadicLess(Side(p-1), <<nn, j>>) \/ (p % 2 = 0 /\ DyadicEqual(Side(p-1), <<nn, j>>))
  BY <1>1, <1>2, <1>4 DEF RoundsAt
<1>7. p = Largest \/ (~DyadicLess(Side(p), <<nn, j>>) /\ (DyadicEqual(Side(p), <<nn, j>>) => p % 2 = 0))
  BY <1>1, <1>2, <1>5 DEF RoundsAt
<1> QED
  BY <1>3, <1>6, <1>7 DEF RoundsBetween, Side

\* The same ratio with the other of two exponents.
LEMMA RatioShifts ==
  ASSUME NEW e \in Int, NEW num \in Nat, NEW den \in Nat,
         NEW s \in Nat, NEW k \in Int, NEW nn \in Nat, NEW j \in Int,
         IsRatio(s, k, nn, j, e, num, den)
  PROVE  /\ IsRatio(s, k, nn, j, e + 1, num, 2 * den)
         /\ IsRatio(s, k, nn, j, e - 1, 2 * num, den)
<1> DEFINE M == 2^FracBits  F == FracBits
<1>1. F \in Nat /\ M \in Nat
  BY FormatPowers
<1>2. PICK u \in Nat, v \in Nat, K \in Nat \ {0}, L \in Nat \ {0} :
        /\ K * (s * 2^u) = L * den
        /\ K * (nn * 2^v) = L * (num * (2 * M))
        /\ (k - u) - (j - v) = F + 1 - e
  BY DEF IsRatio
<1> HIDE DEF F
<1>3. /\ 2^u \in Nat /\ 2^v \in Nat /\ 2^(u+1) = 2 * 2^u /\ 2^(v+1) = 2 * 2^v
      /\ u + 1 \in Nat /\ v + 1 \in Nat
  BY PowerPositive, PowerNext
<1> DEFINE U == 2^u  V == 2^v  U1 == 2^(u+1)  V1 == 2^(v+1)
<1>4. U \in Nat /\ V \in Nat /\ U1 = 2 * U /\ V1 = 2 * V
  BY <1>3
<1>5. K * (s * U) = L * den /\ K * (nn * V) = L * (num * (2 * M))
  BY <1>2
<1> HIDE DEF U, V, U1, V1, M
<1>6. K * (s * U1) = L * (2 * den)
  <2>1. K * (s * (2 * U)) = 2 * (K * (s * U)) /\ L * (2 * den) = 2 * (L * den)
    BY <1>2, <1>4
  <2> QED
    BY <1>4, <1>5, <2>1
<1>7. K * (nn * V1) = L * ((2 * num) * (2 * M))
  <2>1. K * (nn * (2 * V)) = 2 * (K * (nn * V))
    BY <1>2, <1>4
  <2>2. L * ((2 * num) * (2 * M)) = 2 * (L * (num * (2 * M)))
    BY <1>1, <1>2
  <2> QED
    BY <1>4, <1>5, <2>1, <2>2
<1>8. (k - (u+1)) - (j - v) = F + 1 - (e + 1) /\ (k - u) - (j - (v+1)) = F + 1 - (e - 1)
  BY <1>1, <1>2
<1>9. IsRatio(s, k, nn, j, e + 1, num, 2 * den)
  <2>1. /\ K * (s * 2^(u+1)) = L * (2 * den)
        /\ K * (nn * 2^v) = L * (num * (2 * 2^FracBits))
        /\ (k - (u+1)) - (j - v) = FracBits + 1 - (e + 1)
    BY <1>5, <1>6, <1>8 DEF U1, V, M, F
  <2> QED
    BY <1>2, <1>3, <2>1 DEF IsRatio
<1>10. IsRatio(s, k, nn, j, e - 1, 2 * num, den)
  <2>1. /\ K * (s * 2^u) = L * den
        /\ K * (nn * 2^(v+1)) = L * ((2 * num) * (2 * 2^FracBits))
        /\ (k - u) - (j - (v+1)) = FracBits + 1 - (e - 1)
    BY <1>5, <1>7, <1>8 DEF U, V1, M, F
  <2> QED
    BY <1>2, <1>3, <2>1 DEF IsRatio
<1> QED
  BY <1>9, <1>10

LEMMA NumberRoundsBetween ==
  ASSUME NEW p, NEW negative \in BOOLEAN, NEW e \in Int, NEW num \in Nat, NEW den \in Nat,
         den > 0, den <= 2 * num, num < 4 * den,
         RoundsNumber(p, NBits, ES, negative, e, num, den),
         NEW s \in Nat, s > 0, NEW k \in Int, NEW nn \in Nat, nn > 0, NEW j \in Int,
         IsRatio(s, k, nn, j, e, num, den)
  PROVE  RoundsBetween(IF negative THEN Opposite(p, NBits) ELSE p, s, k, nn, j)
<1> DEFINE q == IF negative THEN Opposite(p, NBits) ELSE p
<1>1. /\ IsRatio(s, k, nn, j, e + 1, num, 2 * den)
      /\ IsRatio(s, k, nn, j, e - 1, 2 * num, den)
  BY RatioShifts
<1>2. CASE num >= 2 * den
  <2>1. RoundsRatio(q, NBits, ES, e + 1, num, 2 * den)
    BY <1>2 DEF RoundsNumber
  <2> HIDE DEF q
  <2>2. e + 1 \in Int /\ 2 * den \in Nat /\ 2 * den > 0 /\ 2 * den <= num /\ num < 2 * (2 * den)
    BY <1>2
  <2>3. RoundsBetween(q, s, k, nn, j)
    BY <1>1, <2>1, <2>2, RatioRoundsBetween
  <2> QED
    BY <2>3 DEF q
<1>3. CASE ~(num >= 2 * den) /\ num >= den
  <2>1. RoundsRatio(q, NBits, ES, e, num, den)
    BY <1>3 DEF RoundsNumber
  <2> HIDE DEF q
  <2>2. den <= num /\ num < 2 * den
    BY <1>3
  <2>3. RoundsBetween(q, s, k, nn, j)
    BY <2>1, <2>2, RatioRoundsBetween
  <2> QED
    BY <2>3 DEF q
<1>4. CASE ~(num >= 2 * den) /\ ~(num >= den)
  <2>1. RoundsRatio(q, NBits, ES, e - 1, 2 * num, den)
    BY <1>4 DEF RoundsNumber
  <2> HIDE DEF q
  <2>2. e - 1 \in Int /\ 2 * num \in Nat /\ den <= 2 * num /\ 2 * num < 2 * den
    BY <1>4
  <2>3. RoundsBetween(q, s, k, nn, j)
    BY <1>1, <2>1, <2>2, RatioRoundsBetween
  <2> QED
    BY <2>3 DEF q
<1> QED
  BY <1>2, <1>3, <1>4

\* The value of a posit of either sign, from its fields.
LEMMA SignedValue ==
  ASSUME NEW p \in Posits \ {0, NaR}
  PROVE  LET x == Extract(p)
         IN  Value(p, NBits, ES)
               = <<IF x.sign THEN -x.fraction ELSE x.fraction, x.exponent - FracBits>>
<1> DEFINE x == Extract(p)  n == NBits
<1>1. NaR \in Nat /\ 2^n = 2 * NaR /\ Largest = NaR - 1 /\ NaR = 2^(n-1) /\ Posits = 0..(2 * NaR - 1)
  BY Halves
<1>2. p \in Nat /\ p # 0 /\ p # NaR /\ p < 2 * NaR
  BY <1>1
<1>3. CASE p < NaR
  <2>1. p \in 1..Largest
    BY <1>1, <1>2, <1>3
  <2>2. ~x.sign
    BY <2>1, ExtractPositive
  <2>3. ~IsNegative(p, n)
    BY <1>1, <1>2, <1>3 DEF IsNegative
  <2>4. Value(p, n, ES) = ValueOf(p, n, ES)
    BY <1>2, <2>3 DEF Value
  <2>5. ValueOf(p, n, ES) = <<x.fraction, x.exponent - FracBits>>
    BY <2>1, ValueIs
  <2> QED
    BY <2>2, <2>4, <2>5
<1>4. CASE p > NaR
  <2>1. PICK a \in 1..Largest :
          /\ p = 2 * NaR - a
          /\ x.exponent = Extract(a).exponent
          /\ x.fraction = Extract(a).fraction
          /\ x.sign
    BY <1>4, ExtractNegative
  <2>2. IsNegative(p, n)
    BY <1>1, <1>4 DEF IsNegative
  <2>3. Opposite(p, n) = a
    <3>1. 2^n - p = a /\ a \in 0..(2 * NaR - 1)
      BY <1>1, <2>1
    <3> HIDE DEF n
    <3> DEFINE m == 2 * NaR
    <3>2. 2^n = m /\ 2^n - p = a /\ a \in 0..(m - 1) /\ m \in Nat
      BY <1>1, <3>1
    <3> HIDE DEF m
    <3>3. Opposite(p, n) = a % m
      BY <3>2 DEF Opposite
    <3>4. a % m = a
      BY <3>2
    <3> QED
      BY <3>3, <3>4
  <2>4. Value(p, n, ES) = Negative(ValueOf(a, n, ES))
    BY <1>2, <2>2, <2>3 DEF Value
  <2>5. ValueOf(a, n, ES) = <<x.fraction, x.exponent - FracBits>>
    BY <2>1, ValueIs
  <2>6. Negative(<<x.fraction, x.exponent - FracBits>>) = <<-x.fraction, x.exponent - FracBits>>
    BY DEF Negative
  <2>7. Value(p, n, ES) = <<-x.fraction, x.exponent - FracBits>>
    BY <2>1, <2>4, <2>5, <2>6, Zenon
  <2> QED
    BY <2>1, <2>7
<1> QED
  BY <1>1, <1>2, <1>3, <1>4

\* What RoundsBetween says of an exact number is what RoundsTo asks for.
LEMMA DyadicRounds ==
  ASSUME NEW p, NEW negative \in BOOLEAN, NEW x, NEW nn, NEW j,
         RoundsBetween(IF negative THEN Opposite(p, NBits) ELSE p, 1, 0, nn, j),
         x[1] # 0, Magnitude(x) = <<nn, j>>, x[1] < 0 <=> negative
  PROVE  RoundsTo(p, NBits, ES, x)
<1> DEFINE q == IF negative THEN Opposite(p, NBits) ELSE p
           q0 == IF x[1] < 0 THEN Opposite(p, NBits) ELSE p
           Side(b) == <<BoundaryOf(b)[1] * 1, BoundaryOf(b)[2] + 0>>
<1>1. Largest = 2^(NBits-1) - 1 /\ Largest \in Nat
  BY FormatPowers
<1>2. /\ q \in 1..Largest
      /\ \/ q = 1
         \/ DyadicLess(Side(q-1), <<nn, j>>)
         \/ q % 2 = 0 /\ DyadicEqual(Side(q-1), <<nn, j>>)
      /\ \/ q = Largest
         \/ /\ ~DyadicLess(Side(q), <<nn, j>>)
            /\ DyadicEqual(Side(q), <<nn, j>>) => q % 2 = 0
  BY DEF RoundsBetween
<1>3. ASSUME NEW b \in 1..(Largest - 1)
      PROVE  Side(b) = BoundaryOf(b)
  <2>1. PICK r, P, Q, D, c, g : BoundaryAt(b, r, P, Q, D, c, g)
    BY BoundaryExists
  <2> DEFINE z1 == g  z2 == (r * 2^ES + c) - (FracBits + 1)
  <2>2. /\ BoundaryOf(b) = <<z1, z2>> /\ z1 \in (2 * 2^FracBits)..(4 * 2^FracBits - 1)
        /\ c \in 0..(2^ES - 1) /\ RegimeIs(r, NBits, P, Q, D)
    BY <2>1 DEF BoundaryAt
  <2>3. z1 \in Int /\ z2 \in Int
    <3>1. FracBits \in Nat /\ 2^ES \in Nat /\ 2^FracBits \in Nat /\ NBits \in Nat
      BY FormatPowers
    <3>2. r \in (2-NBits)..(NBits-3)
      BY <2>2 DEF RegimeIs
    <3> DEFINE a == 2^ES  m == 2^FracBits
    <3>3. a \in Nat /\ m \in Nat /\ c \in 0..(a-1) /\ z1 \in (2 * m)..(4 * m - 1)
      BY <2>2, <3>1
    <3> HIDE DEF a, m
    <3>4. z1 \in Int /\ c \in Int /\ r \in Int
      BY <3>1, <3>2, <3>3
    <3>5. r * a \in Int
      BY <3>3, <3>4
    <3> QED
      BY <3>1, <3>4, <3>5 DEF a
  <2> HIDE DEF z1, z2
  <2>4. BoundaryOf(b)[1] = z1 /\ BoundaryOf(b)[2] = z2
    BY <2>2
  <2>5. z1 * 1 = z1 /\ z2 + 0 = z2
    BY <2>3
  <2> QED
    BY <2>2, <2>4, <2>5
<1>4. q = q0
  OBVIOUS
<1>5. q # 1 => q - 1 \in 1..(Largest - 1)
  BY <1>1, <1>2
<1>6. q # Largest => q \in 1..(Largest - 1)
  BY <1>1, <1>2
<1> HIDE DEF Side, q, q0
<1>7. /\ \/ q = 1
         \/ DyadicLess(BoundaryOf(q-1), Magnitude(x))
         \/ q % 2 = 0 /\ DyadicEqual(BoundaryOf(q-1), Magnitude(x))
      /\ \/ q = Largest
         \/ /\ ~DyadicLess(BoundaryOf(q), Magnitude(x))
            /\ DyadicEqual(BoundaryOf(q), Magnitude(x)) => q % 2 = 0
  BY <1>2, <1>3, <1>5, <1>6
<1>8. LET Above(m) == DyadicLess(m, Magnitude(x))
          At(m)    == DyadicEqual(m, Magnitude(x))
      IN  RoundsPositive(q0, NBits, ES, Above, At)
  <2>1. q0 \in 1..(2^(NBits-1) - 1)
    BY <1>1, <1>2, <1>4
  <2>2. /\ \/ q0 = 1
           \/ DyadicLess(BoundaryOf(q0-1), Magnitude(x))
           \/ q0 % 2 = 0 /\ DyadicEqual(BoundaryOf(q0-1), Magnitude(x))
        /\ \/ q0 = 2^(NBits-1) - 1
           \/ /\ ~DyadicLess(BoundaryOf(q0), Magnitude(x))
              /\ DyadicEqual(BoundaryOf(q0), Magnitude(x)) => q0 % 2 = 0
    BY <1>1, <1>4, <1>7
  <2> QED
    BY <2>1, <2>2, Zenon DEF RoundsPositive, BoundaryOf
<1> QED
  BY <1>8, Zenon DEF RoundsTo, q0

\* Two numbers, their magnitudes and the sign of their product or quotient.
SignFacts(x, y, a, f, i, b, g, j) ==
  /\ x[1] # 0 /\ y[1] # 0
  /\ Magnitude(x) = <<f, i>> /\ Magnitude(y) = <<g, j>>
  /\ (x[1] < 0) # (y[1] < 0) <=> a # b
  /\ Times(x, y)[1] # 0
  /\ Times(x, y)[1] < 0 <=> a # b
  /\ Magnitude(Times(x, y)) = <<f * g, i + j>>

LEMMA SignsOf ==
  ASSUME NEW f \in Nat, f > 0, NEW g \in Nat, g > 0, NEW i \in Int, NEW j \in Int,
         NEW a \in BOOLEAN, NEW b \in BOOLEAN
  PROVE  SignFacts(<<IF a THEN -f ELSE f, i>>, <<IF b THEN -g ELSE g, j>>, a, f, i, b, g, j)
<1> DEFINE u == IF a THEN -f ELSE f  v == IF b THEN -g ELSE g  x == <<u, i>>  y == <<v, j>>
           m == f * g
<1>1. u \in Int /\ v \in Int /\ u # 0 /\ v # 0 /\ (u < 0 <=> a) /\ (v < 0 <=> b)
      /\ (u < 0 => -u = f) /\ (~(u < 0) => u = f) /\ (v < 0 => -v = g) /\ (~(v < 0) => v = g)
  OBVIOUS
<1>2. m \in Nat /\ m > 0
  OBVIOUS
<1>3. u * v = IF a # b THEN -m ELSE m
  <2>1. CASE a /\ b
    <3>1. u = -f /\ v = -g
      BY <2>1
    <3>2. (-f) * (-g) = m
      OBVIOUS
    <3> HIDE DEF u, v, m
    <3> QED
      BY <2>1, <3>1, <3>2
  <2>2. CASE a /\ ~b
    <3>1. u = -f /\ v = g
      BY <2>2
    <3>2. (-f) * g = -m
      OBVIOUS
    <3> HIDE DEF u, v, m
    <3> QED
      BY <2>2, <3>1, <3>2
  <2>3. CASE ~a /\ b
    <3>1. u = f /\ v = -g
      BY <2>3
    <3>2. f * (-g) = -m
      OBVIOUS
    <3> HIDE DEF u, v, m
    <3> QED
      BY <2>3, <3>1, <3>2
  <2>4. CASE ~a /\ ~b
    <3>1. u = f /\ v = g
      BY <2>4
    <3> QED
      BY <2>4, <3>1
  <2> QED
    BY <2>1, <2>2, <2>3, <2>4
<1> DEFINE t == u * v
<1>4. t \in Int /\ t # 0 /\ (t < 0 <=> a # b) /\ (t < 0 => -t = m) /\ (~(t < 0) => t = m)
  <2> HIDE DEF m, t
  <2>1. t = IF a # b THEN -m ELSE m
    BY <1>3 DEF t
  <2>2. CASE a # b
    BY <1>2, <2>1, <2>2
  <2>3. CASE ~(a # b)
    BY <1>2, <2>1, <2>3
  <2> QED
    BY <2>2, <2>3
<1> HIDE DEF u, v, m, t
<1>5. x[1] = u /\ y[1] = v /\ x[2] = i /\ y[2] = j
  OBVIOUS
<1>6. Magnitude(x) = <<f, i>>
  BY <1>1, <1>5 DEF Magnitude, Negative
<1>7. Magnitude(y) = <<g, j>>
  BY <1>1, <1>5 DEF Magnitude, Negative
<1>8. Times(x, y) = <<t, i + j>>
  BY <1>5 DEF Times, t
<1> DEFINE z == <<t, i + j>>
<1>9. z[1] = t /\ z[2] = i + j
  OBVIOUS
<1>10. Magnitude(z) = <<m, i + j>>
  BY <1>4, <1>9 DEF Magnitude, Negative
<1>11. (u < 0) # (v < 0) <=> a # b
  BY <1>1
<1>12. /\ x[1] # 0 /\ y[1] # 0 /\ ((x[1] < 0) # (y[1] < 0) <=> a # b)
       /\ Times(x, y)[1] # 0 /\ (Times(x, y)[1] < 0 <=> a # b)
       /\ Magnitude(Times(x, y)) = <<m, i + j>>
  BY <1>1, <1>4, <1>5, <1>8, <1>9, <1>10, <1>11
<1> HIDE DEF x, y
<1>13. SignFacts(x, y, a, f, i, b, g, j)
  BY <1>6, <1>7, <1>12 DEF SignFacts, m
<1> QED
  BY <1>13 DEF x, y, u, v

\* A product that rounds as a number rounds to the exact product of the two values.
LEMMA ProductMeetsValues ==
  ASSUME NEW p \in Posits \ {0, NaR}, NEW q \in Posits \ {0, NaR}, NEW n,
         RoundsNumber(n, NBits, ES, Extract(p).sign # Extract(q).sign,
                      Extract(p).exponent + Extract(q).exponent,
                      Extract(p).fraction * Extract(q).fraction, 2^FracBits * 2^FracBits)
  PROVE  RoundsTo(n, NBits, ES, Times(Value(p, NBits, ES), Value(q, NBits, ES)))
<1> DEFINE M == 2^FracBits  F == FracBits  f == Extract(p).fraction  g == Extract(q).fraction
           a == Extract(p).sign  b == Extract(q).sign
           e == Extract(p).exponent  h == Extract(q).exponent
           num == f * g  den == M * M  i == e - F  j == h - F  k == i + j
           negative == a # b
<1>1. F \in Nat /\ M \in Nat /\ M > 0 /\ 2^F = M
  BY FormatPowers
<1>2. f \in Nat /\ g \in Nat /\ a \in BOOLEAN /\ b \in BOOLEAN /\ f \in M..(2*M-1) /\ g \in M..(2*M-1)
  BY NumberUnpacks
<1>3. e \in Int /\ h \in Int
  BY ExtractedExponent
<1> DEFINE x == <<IF a THEN -f ELSE f, i>>  y == <<IF b THEN -g ELSE g, j>>
<1>4. Value(p, NBits, ES) = x /\ Value(q, NBits, ES) = y
  BY SignedValue, Zenon
<1> HIDE DEF M, F, f, g, a, b, e, h
<1>5. f > 0 /\ g > 0 /\ i \in Int /\ j \in Int /\ k = (e + h) - 2 * F /\ k \in Int /\ negative \in BOOLEAN
  BY <1>1, <1>2, <1>3
<1>6. /\ Times(x, y)[1] # 0
      /\ Times(x, y)[1] < 0 <=> negative
      /\ Magnitude(Times(x, y)) = <<num, k>>
  <2> HIDE DEF i, j
  <2>1. SignFacts(x, y, a, f, i, b, g, j)
    BY <1>2, <1>5, SignsOf
  <2> HIDE DEF x, y
  <2> QED
    BY <2>1 DEF SignFacts
<1>7. num \in Nat /\ den \in Nat /\ den > 0 /\ num > 0 /\ den <= 2 * num /\ num < 4 * den
  <2>1. num \in Nat /\ den \in Nat /\ den > 0
    BY <1>1, <1>2
  <2>2. M * M <= f * M /\ f * M <= f * g /\ f * M \in Int
    BY <1>1, <1>2
  <2>3. f * g < f * (2 * M) /\ f * (2 * M) < (2 * M) * (2 * M) /\ (2 * M) * (2 * M) = 4 * (M * M)
        /\ f * (2 * M) \in Int
    <3>1. f * g < f * (2 * M)
      BY <1>1, <1>2, <1>5
    <3>2. f * (2 * M) < (2 * M) * (2 * M)
      BY <1>1, <1>2
    <3>3. (2 * M) * (2 * M) = 4 * (M * M) /\ f * (2 * M) \in Int
      BY <1>1, <1>2
    <3> QED
      BY <3>1, <3>2, <3>3
  <2> DEFINE s == f * M  t == f * (2 * M)
  <2>4. s \in Int /\ t \in Int /\ den <= s /\ s <= num /\ num < t /\ t < 4 * den
    BY <2>2, <2>3
  <2> HIDE DEF s, t, num, den
  <2> QED
    BY <2>1, <2>4
<1>8. IsRatio(1, 0, num, k, e + h, num, den)
  <2> DEFINE v == 1
  <2>1. v \in Nat /\ 2^v = 2
    <3>1. 2^(0+1) = 2 * 2^0 /\ 2^0 = 1
      BY PowerNext, PowerZero
    <3> QED
      BY <3>1
  <2>2. M * (1 * M) = 1 * den
    BY <1>1
  <2>3. M * (num * 2) = 1 * (num * (2 * M))
    <3> HIDE DEF num
    <3> QED
      BY <1>1, <1>7
  <2>4. (0 - F) - (k - v) = F + 1 - (e + h)
    <3>1. v = 1
      OBVIOUS
    <3> HIDE DEF k, v
    <3> QED
      BY <1>1, <1>3, <1>5, <3>1
  <2>5. M \in Nat \ {0} /\ 1 \in Nat \ {0}
    BY <1>1
  <2> HIDE DEF v, num, den, k
  <2>6. M * (1 * 2^F) = 1 * den /\ M * (num * 2^v) = 1 * (num * (2 * 2^F))
    BY <1>1, <2>1, <2>2, <2>3
  <2>7. \E u, vv \in Nat, K, L \in Nat \ {0} :
          /\ K * (1 * 2^u) = L * den
          /\ K * (num * 2^vv) = L * (num * (2 * 2^F))
          /\ (0 - u) - (k - vv) = F + 1 - (e + h)
    BY <1>1, <2>1, <2>4, <2>5, <2>6, Zenon
  <2> QED
    BY <2>7, Zenon DEF IsRatio, F
<1>9. RoundsBetween(IF negative THEN Opposite(n, NBits) ELSE n, 1, 0, num, k)
  <2>1. RoundsNumber(n, NBits, ES, negative, e + h, num, den)
    BY Zenon DEF M, F, f, g, a, b, e, h
  <2>2. e + h \in Int
    BY <1>3
  <2> DEFINE one == 1  zero == 0
  <2>3. one \in Nat /\ one > 0 /\ zero \in Int /\ one = 1 /\ zero = 0
    OBVIOUS
  <2> HIDE DEF one, zero, num, den, k, negative
  <2>4. RoundsBetween(IF negative THEN Opposite(n, NBits) ELSE n, one, zero, num, k)
    BY <1>5, <1>7, <1>8, <2>1, <2>2, <2>3, NumberRoundsBetween
  <2> QED
    BY <2>3, <2>4
<1> DEFINE z == Times(x, y)
<1>10. z[1] # 0 /\ (z[1] < 0 <=> negative) /\ Magnitude(z) = <<num, k>>
  BY <1>6
<1> HIDE DEF z, negative, num, k
<1>11. RoundsTo(n, NBits, ES, z)
  BY <1>5, <1>9, <1>10, DyadicRounds
<1> QED
  BY <1>4, <1>11 DEF z

\* And a quotient.
LEMMA QuotientMeetsValues ==
  ASSUME NEW p \in Posits \ {0, NaR}, NEW q \in Posits \ {0, NaR}, NEW n,
         RoundsNumber(n, NBits, ES, Extract(p).sign # Extract(q).sign,
                      Extract(p).exponent - Extract(q).exponent,
                      Extract(p).fraction, Extract(q).fraction)
  PROVE  QuotientRoundsTo(n, NBits, ES, Value(p, NBits, ES), Value(q, NBits, ES))
<1> DEFINE M == 2^FracBits  F == FracBits  f == Extract(p).fraction  g == Extract(q).fraction
           a == Extract(p).sign  b == Extract(q).sign
           e == Extract(p).exponent  h == Extract(q).exponent
           i == e - F  j == h - F
           negative == a # b
<1>1. F \in Nat /\ M \in Nat /\ M > 0 /\ 2^F = M /\ 2^(F+1) = 2 * M /\ F + 1 \in Nat
  BY FormatPowers
<1>2. f \in Nat /\ g \in Nat /\ a \in BOOLEAN /\ b \in BOOLEAN /\ f \in M..(2*M-1) /\ g \in M..(2*M-1)
  BY NumberUnpacks
<1>3. e \in Int /\ h \in Int
  BY ExtractedExponent
<1> DEFINE x == <<IF a THEN -f ELSE f, i>>  y == <<IF b THEN -g ELSE g, j>>
<1>4. Value(p, NBits, ES) = x /\ Value(q, NBits, ES) = y
  BY SignedValue, Zenon
<1> HIDE DEF M, F, f, g, a, b, e, h
<1>5. f > 0 /\ g > 0 /\ i \in Int /\ j \in Int /\ negative \in BOOLEAN
  BY <1>1, <1>2, <1>3
<1>6. /\ x[1] # 0
      /\ (x[1] < 0) # (y[1] < 0) <=> negative
      /\ Magnitude(x) = <<f, i>> /\ Magnitude(y) = <<g, j>>
  <2> HIDE DEF i, j
  <2>1. SignFacts(x, y, a, f, i, b, g, j)
    BY <1>2, <1>5, SignsOf
  <2> HIDE DEF x, y
  <2> QED
    BY <2>1 DEF SignFacts
<1>7. g <= 2 * f /\ f < 4 * g
  BY <1>1, <1>2
<1>8. IsRatio(g, j, f, i, e - h, f, g)
  <2> DEFINE u == 0
  <2>1. u \in Nat /\ 2^u = 1
    BY PowerZero
  <2>2. 1 * (g * 2^u) = 1 * g
    BY <1>2, <2>1
  <2>3. 1 * (f * 2^(F+1)) = 1 * (f * (2 * 2^F))
    BY <1>1
  <2>4. (j - u) - (i - (F + 1)) = F + 1 - (e - h)
    <3> QED
      BY <1>1, <1>3, <1>5
  <2>5. 1 \in Nat \ {0}
    OBVIOUS
  <2> HIDE DEF u, i, j
  <2>7. \E uu, vv \in Nat, K, L \in Nat \ {0} :
          /\ K * (g * 2^uu) = L * g
          /\ K * (f * 2^vv) = L * (f * (2 * 2^F))
          /\ (j - uu) - (i - vv) = F + 1 - (e - h)
    BY <1>1, <2>1, <2>2, <2>3, <2>4, <2>5, Zenon
  <2> QED
    BY <2>7, Zenon DEF IsRatio, F
<1> DEFINE q1 == IF negative THEN Opposite(n, NBits) ELSE n
<1>9. RoundsBetween(q1, g, j, f, i)
  <2>1. RoundsNumber(n, NBits, ES, negative, e - h, f, g)
    BY Zenon DEF f, g, a, b, e, h
  <2>2. e - h \in Int
    BY <1>3
  <2> HIDE DEF negative, i, j
  <2> QED
    BY <1>2, <1>5, <1>7, <1>8, <2>1, <2>2, NumberRoundsBetween
<1>10. Largest = 2^(NBits-1) - 1
  BY FormatPowers
<1> DEFINE q0 == IF (x[1] < 0) # (y[1] < 0) THEN Opposite(n, NBits) ELSE n
<1>11. q0 = q1
  BY <1>6
<1>12. \A c : Times(c, Magnitude(y)) = <<c[1] * g, c[2] + j>>
  <2>1. Magnitude(y)[1] = g /\ Magnitude(y)[2] = j
    BY <1>6
  <2> HIDE DEF y
  <2> QED
    BY <2>1 DEF Times
<1> HIDE DEF q0, q1, x, y, i, j
<1>13. LET Above(c) == DyadicLess(Times(c, Magnitude(y)), Magnitude(x))
           At(c)    == DyadicEqual(Times(c, Magnitude(y)), Magnitude(x))
       IN  RoundsPositive(q0, NBits, ES, Above, At)
  <2> DEFINE A(c) == DyadicLess(Times(c, Magnitude(y)), Magnitude(x))
             E(c) == DyadicEqual(Times(c, Magnitude(y)), Magnitude(x))
  <2>1. \A c : /\ A(c) <=> DyadicLess(<<c[1] * g, c[2] + j>>, <<f, i>>)
               /\ E(c) <=> DyadicEqual(<<c[1] * g, c[2] + j>>, <<f, i>>)
    BY <1>6, <1>12
  <2> HIDE DEF A, E
  <2>2. /\ q0 \in 1..(2^(NBits-1) - 1)
        /\ \/ q0 = 1
           \/ A(BoundaryOf(q0-1))
           \/ q0 % 2 = 0 /\ E(BoundaryOf(q0-1))
        /\ \/ q0 = 2^(NBits-1) - 1
           \/ /\ ~A(BoundaryOf(q0))
              /\ E(BoundaryOf(q0)) => q0 % 2 = 0
    BY <1>9, <1>10, <1>11, <2>1 DEF RoundsBetween
  <2> QED
    BY <2>2, Zenon DEF RoundsPositive, BoundaryOf, A, E
<1>14. QuotientRoundsTo(n, NBits, ES, x, y)
  BY <1>6, <1>13, Zenon DEF QuotientRoundsTo, q0
<1> QED
  BY <1>4, <1>14

\* A number unpacks to a mantissa of its own sign, and a positive number is the value of
\* its pattern.
LEMMA ValueSign ==
  ASSUME NEW p \in Posits \ {NaR}
  PROVE  LET x == Value(p, NBits, ES)
             s == Signed(p, NBits)
         IN  /\ x[1] \in Int /\ s \in Int
             /\ s > 0 => p \in 1..Largest /\ s = p /\ x[1] > 0 /\ x = ValueOf(p, NBits, ES)
             /\ s = 0 => x[1] = 0
             /\ s < 0 => /\ x[1] < 0
                         /\ \E a \in 1..Largest :
                              s = -a /\ Negative(x) = ValueOf(a, NBits, ES)
<1> DEFINE x == Value(p, NBits, ES)  s == Signed(p, NBits)
<1>1. NaR \in Nat /\ NaR > 1 /\ Largest = NaR - 1 /\ Posits = 0..(2 * NaR - 1)
  BY Halves
<1>2. CASE p = 0
  <2>1. x = <<0, 0>>
    BY <1>2 DEF Value
  <2>2. s = 0
    <3> DEFINE m == NaR
    <3>1. m \in Nat /\ m > 1 /\ 2^(NBits-1) = m /\ p \in Int /\ p = 0 /\ -m <= p /\ p < m
          /\ NBits \in Nat /\ NBits > 0
      BY <1>1, <1>2, Halves, FormatAssumption
    <3> HIDE DEF m
    <3>2. -(2^(NBits-1)) <= p /\ p < 2^(NBits-1)
      BY <3>1
    <3> QED
      BY <3>1, <3>2, SignedOfSmall
  <2> HIDE DEF x, s
  <2>3. x[1] = 0
    BY <2>1
  <2>4. x[1] \in Int /\ s \in Int /\ ~(s > 0) /\ ~(s < 0)
    BY <2>2, <2>3
  <2> QED
    BY <2>3, <2>4 DEF x, s
<1>3. CASE p \in 1..Largest
  <2>1. s = p /\ ~Extract(p).sign
    BY <1>3, ExtractPositive
  <2>2. p \in Posits \ {0, NaR}
    BY <1>1, <1>3
  <2> DEFINE f == Extract(p).fraction  e == Extract(p).exponent
  <2>3. x = <<f, e - FracBits>>
    BY <2>1, <2>2, SignedValue
  <2>4. ValueOf(p, NBits, ES) = <<f, e - FracBits>> /\ f \in Nat /\ f > 0
    BY <1>3, ValueIs
  <2> HIDE DEF x, s, f, e
  <2>5. x[1] = f /\ x = ValueOf(p, NBits, ES)
    BY <2>3, <2>4
  <2>6. x[1] \in Int /\ x[1] > 0 /\ s \in Int /\ ~(s = 0) /\ ~(s < 0)
    BY <1>1, <1>3, <2>1, <2>4, <2>5
  <2> QED
    BY <1>3, <2>1, <2>5, <2>6 DEF x, s
<1>4. CASE p > NaR
  <2>1. PICK a \in 1..Largest :
          /\ p = 2 * NaR - a
          /\ s = -a
          /\ Extract(p).exponent = Extract(a).exponent
          /\ Extract(p).fraction = Extract(a).fraction
          /\ Extract(p).sign
    BY <1>4, ExtractNegative
  <2>2. p \in Posits \ {0, NaR}
    BY <1>1, <1>4
  <2> DEFINE f == Extract(p).fraction  e == Extract(p).exponent
  <2>3. x = <<-f, e - FracBits>>
    BY <2>1, <2>2, SignedValue
  <2>4. ValueOf(a, NBits, ES) = <<f, e - FracBits>> /\ f \in Nat /\ f > 0
    BY <2>1, ValueIs
  <2> HIDE DEF x, s, f, e
  <2>5. x[1] = -f /\ x[2] = e - FracBits
    BY <2>3
  <2>6. -(-f) = f /\ -f < 0 /\ -f \in Int
    BY <2>4
  <2>7. Negative(x) = <<f, e - FracBits>>
    BY <2>5, <2>6 DEF Negative
  <2>8. a \in Int /\ a > 0
    BY <1>1, <2>1
  <2>9. s \in Int /\ s < 0 /\ ~(s = 0) /\ ~(s > 0)
    BY <2>1, <2>8
  <2>10. x[1] \in Int /\ x[1] < 0
    BY <2>5, <2>6
  <2> QED
    BY <2>1, <2>4, <2>7, <2>9, <2>10 DEF x, s
<1> QED
  BY <1>1, <1>2, <1>3, <1>4

\* Packed posits as signed integers are in the order of their values.
LEMMA SignedValuesOrder ==
  ASSUME NEW p \in Posits \ {NaR}, NEW q \in Posits \ {NaR}
  PROVE  DyadicLess(Value(p, NBits, ES), Value(q, NBits, ES))
           <=> Signed(p, NBits) < Signed(q, NBits)
<1> DEFINE x == Value(p, NBits, ES)  s == Signed(p, NBits)
           y == Value(q, NBits, ES)  t == Signed(q, NBits)
<1>1. /\ x[1] \in Int /\ s \in Int
      /\ s > 0 => p \in 1..Largest /\ s = p /\ x[1] > 0 /\ x = ValueOf(p, NBits, ES)
      /\ s = 0 => x[1] = 0
      /\ s < 0 => /\ x[1] < 0
                  /\ \E a \in 1..Largest : s = -a /\ Negative(x) = ValueOf(a, NBits, ES)
  BY ValueSign
<1>2. /\ y[1] \in Int /\ t \in Int
      /\ t > 0 => q \in 1..Largest /\ t = q /\ y[1] > 0 /\ y = ValueOf(q, NBits, ES)
      /\ t = 0 => y[1] = 0
      /\ t < 0 => /\ y[1] < 0
                  /\ \E a \in 1..Largest : t = -a /\ Negative(y) = ValueOf(a, NBits, ES)
  BY ValueSign
<1> HIDE DEF x, s, y, t
<1>3. CASE s > 0 /\ t > 0
  <2>1. DyadicLess(ValueOf(p, NBits, ES), ValueOf(q, NBits, ES)) <=> p < q
    BY <1>1, <1>2, <1>3, ValuesOrder
  <2>2. DyadicLess(x, y) <=> s < t
    BY <1>1, <1>2, <1>3, <2>1
  <2> QED
    BY <2>2 DEF x, y, s, t
<1>4. CASE s < 0 /\ t < 0
  <2>1. PICK a \in 1..Largest : s = -a /\ Negative(x) = ValueOf(a, NBits, ES)
    BY <1>1, <1>4
  <2>2. PICK b \in 1..Largest : t = -b /\ Negative(y) = ValueOf(b, NBits, ES)
    BY <1>2, <1>4
  <2>3. DyadicLess(Negative(y), Negative(x)) <=> b < a
    BY <2>1, <2>2, ValuesOrder
  <2>4. Negative(y)[1] > 0 /\ Negative(x)[1] > 0
    <3>1. Negative(y)[1] = -y[1] /\ Negative(x)[1] = -x[1]
      BY DEF Negative
    <3> QED
      BY <1>1, <1>2, <1>4, <3>1
  <2>5. DyadicLess(x, y) <=> PositiveLess(Negative(y), Negative(x))
    <3>1. ~(x[1] > 0) /\ x[1] < 0 /\ y[1] < 0
      BY <1>1, <1>2, <1>4
    <3> QED
      BY <3>1, Zenon DEF DyadicLess
  <2>6. DyadicLess(Negative(y), Negative(x)) <=> PositiveLess(Negative(y), Negative(x))
    BY <2>4, Zenon DEF DyadicLess
  <2>7. a \in Int /\ b \in Int
    BY Halves
  <2>8. b < a <=> s < t
    BY <2>1, <2>2, <2>7
  <2>9. DyadicLess(x, y) <=> s < t
    BY <2>3, <2>5, <2>6, <2>8
  <2> QED
    BY <2>9 DEF x, y, s, t
<1>5. CASE ~(s > 0 /\ t > 0) /\ ~(s < 0 /\ t < 0)
  <2>1. ~(x[1] > 0 /\ y[1] > 0) /\ ~(x[1] < 0 /\ y[1] < 0) /\ (x[1] < y[1] <=> s < t)
    BY <1>1, <1>2, <1>5
  <2>2. DyadicLess(x, y) <=> x[1] < y[1]
    BY <2>1, Zenon DEF DyadicLess
  <2>3. DyadicLess(x, y) <=> s < t
    BY <2>1, <2>2
  <2> QED
    BY <2>3 DEF x, y, s, t
<1> QED
  BY <1>3, <1>4, <1>5

\* NaR is packed as the smallest of them.
LEMMA SignedNaR ==
  ASSUME NEW p \in Posits
  PROVE  /\ Signed(p, NBits) \in Int
         /\ p = NaR => Signed(p, NBits) = -NaR
         /\ p # NaR => Signed(p, NBits) > -NaR
<1>1. NaR \in Nat /\ NaR > 1 /\ Largest = NaR - 1 /\ Posits = 0..(2 * NaR - 1)
      /\ 2^NBits = 2 * NaR /\ NaR = 2^(NBits-1)
  BY Halves
<1>2. CASE p = NaR
  <2>1. Signed(p, NBits) = -NaR
    <3> DEFINE m == NaR
    <3>1. m \in Nat /\ m > 1 /\ 2^NBits = 2 * m /\ 2^(NBits-1) = m /\ p = m
      BY <1>1, <1>2
    <3> HIDE DEF m
    <3>2. Low(p, NBits) = m
      <4>1. Low(p, NBits) = p % (2 * m)
        BY <3>1 DEF Low
      <4> QED
        BY <3>1, <4>1
    <3>3. Signed(p, NBits) = m - 2 * m
      BY <3>1, <3>2 DEF Signed
    <3> QED
      BY <3>1, <3>3 DEF m
  <2> QED
    BY <1>1, <1>2, <2>1
<1>3. CASE p < NaR
  <2>1. Signed(p, NBits) = p
    <3>1. p \in Int /\ -(2^(NBits-1)) <= p /\ p < 2^(NBits-1) /\ NBits \in Nat /\ NBits > 0
      BY <1>1, <1>3, FormatPowers
    <3> QED
      BY <3>1, SignedOfSmall
  <2> QED
    BY <1>1, <1>3, <2>1
<1>4. CASE p > NaR
  <2>1. PICK a \in 1..Largest : Signed(p, NBits) = -a
    BY <1>4, ExtractNegative
  <2> QED
    BY <1>1, <1>4, <2>1
<1> QED
  BY <1>1, <1>2, <1>3, <1>4

-----------------------------------------------------------------------------
(* Roots: a boundary is squared and compared with the radicand.            *)

\* T is the integer root of 16 * M * R, and more says that it is not exact.
IntegerRoot(T, more, M, R) ==
  /\ T * T <= 16 * (M * R) /\ 16 * (M * R) < (T + 1) * (T + 1)
  /\ T \in (4 * M)..(8 * M - 1)
  /\ more <=> T * T < 16 * (M * R)

LEMMA SquareLess ==
  ASSUME NEW a \in Nat, NEW b \in Nat
  PROVE  a < b <=> a * a < b * b
<1>1. ASSUME a < b PROVE a * a < b * b
  <2>1. a * a <= a * b /\ a * b \in Nat /\ a * a \in Nat /\ b * b \in Nat
    BY <1>1
  <2>2. (a + 1) * b <= b * b /\ (a + 1) * b = a * b + b
    BY <1>1
  <2> DEFINE x == a * a  y == a * b  z == b * b
  <2>3. x <= y /\ y + b <= z /\ x \in Nat /\ y \in Nat /\ z \in Nat /\ b > 0
    BY <1>1, <2>1, <2>2
  <2> HIDE DEF x, y, z
  <2>4. x < z
    BY <2>3
  <2> QED
    BY <2>4 DEF x, z
<1>2. ASSUME b <= a PROVE b * b <= a * a
  <2>1. b * b <= b * a /\ b * a <= a * a /\ b * a \in Nat /\ a * a \in Nat /\ b * b \in Nat
    BY <1>2
  <2> QED
    BY <2>1
<1>3. a * a \in Nat /\ b * b \in Nat
  OBVIOUS
<1> QED
  BY <1>1, <1>2, <1>3

\* A whole number against the root, by its square.
LEMMA RootCompare ==
  ASSUME NEW M \in Nat, NEW R \in Nat, NEW T, NEW more \in BOOLEAN, IntegerRoot(T, more, M, R),
         NEW g \in Nat
  PROVE  LET num == 2 * T + (IF more THEN 1 ELSE 0)
         IN  /\ 4 * g < num <=> g * g < 4 * (M * R)
             /\ num < 4 * g <=> 4 * (M * R) < g * g
<1> DEFINE z == M * R  s == IF more THEN 1 ELSE 0  num == 2 * T + s  y == 16 * z  t == T * T
           k == 2 * g  G == g * g
<1>1. z \in Nat /\ T \in Nat /\ s \in {0, 1} /\ t \in Nat /\ k \in Nat /\ G \in Nat
  BY DEF IntegerRoot
<1>2. t <= y /\ y < (T + 1) * (T + 1) /\ (more <=> t < y)
  BY DEF IntegerRoot
<1>3. k * k = 4 * G
  OBVIOUS
<1>4. (k < T <=> k * k < t) /\ (T < k <=> t < k * k) /\ (k < T + 1 <=> k * k < (T + 1) * (T + 1))
  BY <1>1, SquareLess
<1>5. (G < 4 * z <=> k * k < y) /\ (4 * z < G <=> y < k * k)
  <2> HIDE DEF G, z, k
  <2> QED
    BY <1>1, <1>3
<1>6. CASE k < T
  <2>1. k * k < y /\ ~(y < k * k) /\ 4 * g < num /\ ~(num < 4 * g)
    <3>1. k * k < t /\ k * k \in Nat
      BY <1>1, <1>4, <1>6
    <3> HIDE DEF t, y, s
    <3>2. y \in Int
      BY <1>1 DEF y
    <3>3. k * k < y /\ ~(y < k * k)
      <4> DEFINE kk == k * k
      <4> HIDE DEF kk, z
      <4> QED
        BY <1>1, <1>2, <3>1, <3>2 DEF kk
    <3>4. 4 * g < num /\ ~(num < 4 * g)
      BY <1>1, <1>6
    <3> QED
      BY <3>3, <3>4
  <2> QED
    BY <1>5, <2>1
<1>7. CASE k = T
  <2>1. k * k = t
    BY <1>7
  <2>2. (k * k < y <=> more) /\ ~(y < k * k)
    <3> HIDE DEF t, y, k
    <3>1. y \in Int
      BY <1>1 DEF y
    <3> QED
      BY <1>1, <1>2, <2>1, <3>1
  <2>3. 4 * g = 2 * T /\ (4 * g < num <=> more) /\ ~(num < 4 * g)
    BY <1>1, <1>7
  <2> QED
    BY <1>5, <2>2, <2>3
<1>8. CASE T < k
  <2>1. ~(k < T + 1)
    BY <1>1, <1>8
  <2>2. y < k * k /\ ~(k * k < y)
    <3> DEFINE kk == k * k  TT == (T + 1) * (T + 1)
    <3>1. kk \in Nat /\ TT \in Nat /\ y \in Int /\ y < TT /\ ~(kk < TT)
      BY <1>1, <1>2, <1>4, <2>1
    <3> HIDE DEF kk, TT, y
    <3>2. y < kk /\ ~(kk < y)
      BY <3>1
    <3> QED
      BY <3>2 DEF kk
  <2>3. num < 4 * g /\ ~(4 * g < num)
    BY <1>1, <1>8
  <2> QED
    BY <1>5, <2>2, <2>3
<1>9. k < T \/ k = T \/ T < k
  BY <1>1
<1> QED
  BY <1>6, <1>7, <1>8, <1>9

\* The square of a boundary against a radicand is the boundary against the root.
LEMMA RootLess ==
  ASSUME NEW q \in 1..(Largest - 1), NEW e \in Int, NEW f \in 2^FracBits .. (2 * 2^FracBits - 1),
         NEW R, R = IF e % 2 = 1 THEN 2 * f ELSE f,
         NEW T, NEW more \in BOOLEAN, IntegerRoot(T, more, 2^FracBits, R)
  PROVE  LET b == BoundaryOf(q)
             x == Times(b, b)
             y == <<f, e - FracBits>>
             num == 2 * T + (IF more THEN 1 ELSE 0)
             den == 8 * 2^FracBits
         IN  /\ DyadicLess(x, y) <=> BelowRatio(b, e \div 2, num, den)
             /\ DyadicEqual(x, y) <=> OnRatio(b, e \div 2, num, den)
<1> DEFINE M == 2^FracBits  F == FracBits  base == 2^ES  b == BoundaryOf(q)  x == Times(b, b)
           y == <<f, e - FracBits>>  num == 2 * T + (IF more THEN 1 ELSE 0)  den == 8 * M
           o == e % 2  e2 == e \div 2
<1>1. /\ F \in Nat /\ base \in Nat /\ base > 0 /\ M \in Nat /\ M > 0 /\ 2^F = M
  BY FormatPowers
<1>2. PICK r, P, Q, D, c, g : BoundaryAt(q, r, P, Q, D, c, g)
  BY BoundaryExists
<1> DEFINE h == r * base + c  bexp == h - (F + 1)
<1>3. b = <<g, bexp>> /\ c \in 0..(base-1) /\ RegimeIs(r, NBits, P, Q, D)
      /\ g \in (2*M)..(4*M - 1)
  BY <1>2 DEF BoundaryAt
<1>4. r \in Int /\ NBits \in Int
  <2>1. r \in (2-NBits)..(NBits-3) /\ NBits \in Nat
    BY <1>3, FormatPowers DEF RegimeIs
  <2> QED
    BY <2>1
<1>5. h \in Int
  BY <1>1, <1>3, <1>4
<1>6. IntegerRoot(T, more, M, R) /\ f \in M..(2*M-1) /\ R = (IF o = 1 THEN 2 * f ELSE f)
  OBVIOUS
<1>7. o \in {0, 1} /\ e2 \in Int /\ e = 2 * e2 + o
  OBVIOUS
<1> HIDE DEF h, b, base, M, e2, o
<1> HIDE DEF F
<1> DEFINE i == bexp + bexp  j == e - F  G == g * g
<1>8. b[1] = g /\ b[2] = bexp /\ bexp \in Int /\ b[2] + F + 1 = h
  BY <1>1, <1>3, <1>5
<1>9. x = <<G, i>>
  BY <1>8 DEF Times
<1>10. g \in Nat /\ f \in Nat /\ f > 0 /\ R \in Nat /\ M <= R /\ R < 4 * M /\ 2 * M <= g /\ g < 4 * M /\ g > 0
  BY <1>1, <1>3, <1>6, <1>7
<1> DEFINE B == 4 * (M * R)  MM == M * M
<1>11. /\ MM \in Nat /\ G \in Nat /\ B \in Nat /\ 4 * MM <= G /\ G < 16 * MM /\ 4 * MM <= B /\ B < 16 * MM
       /\ MM > 0
  <2>1. MM \in Nat /\ MM > 0 /\ G \in Nat /\ M * R \in Nat
    BY <1>1, <1>10
  <2>2. (2 * M) * (2 * M) <= (2 * M) * g /\ (2 * M) * g <= g * g
        /\ (2 * M) * (2 * M) = 4 * MM /\ (2 * M) * g \in Nat
    BY <1>1, <1>10
  <2>3. 4 * MM <= G
    <3> DEFINE u == (2 * M) * g  w == (2 * M) * (2 * M)
    <3>1. w <= u /\ u <= G /\ w = 4 * MM /\ u \in Nat
      BY <2>2
    <3> HIDE DEF u, w, MM, G
    <3> QED
      BY <2>1, <3>1
  <2>4. g < 4 * M <=> g * g < (4 * M) * (4 * M)
    <3> DEFINE u == 4 * M
    <3>1. u \in Nat
      BY <1>1
    <3> HIDE DEF u
    <3>2. g < u <=> g * g < u * u
      BY <1>10, <3>1, SquareLess
    <3> QED
      BY <3>2 DEF u
  <2>5. (4 * M) * (4 * M) = 16 * MM
    BY <1>1
  <2>6. G < 16 * MM
    BY <1>10, <2>4, <2>5
  <2>7. M * M <= M * R /\ M * (R + 1) <= M * (4 * M) /\ M * (4 * M) = 4 * MM /\ M * (R + 1) = M * R + M
    BY <1>1, <1>10
  <2>8. MM <= M * R /\ M * R < 4 * MM
    <3> DEFINE u == M * R
    <3>1. MM <= u /\ u + M <= 4 * MM /\ u \in Nat
      BY <2>1, <2>7
    <3> HIDE DEF u, MM
    <3>2. MM <= u /\ u < 4 * MM
      BY <1>1, <2>1, <3>1
    <3> QED
      BY <3>2 DEF u
  <2>9. B \in Nat /\ 4 * MM <= B /\ B < 16 * MM
    <3> DEFINE u == M * R
    <3>1. MM <= u /\ u < 4 * MM /\ u \in Nat
      BY <2>1, <2>8
    <3> HIDE DEF u, MM
    <3>2. 4 * u \in Nat /\ 4 * MM <= 4 * u /\ 4 * u < 16 * MM
      BY <2>1, <3>1
    <3> QED
      BY <3>2 DEF u
  <2> QED
    BY <2>1, <2>3, <2>6, <2>9
<1> DEFINE u == 0  v == (F + 2) + o  w == 2  d == 2 * (h - e2)
<1>12. u \in Nat /\ v \in Nat /\ w \in Nat /\ w > 0 /\ d \in Int /\ 2^u = 1 /\ 2^w = 4
       /\ i \in Int /\ j \in Int
  <2>1. 2^2 = 4 /\ 2^u = 1
    BY PowerZero
  <2> QED
    BY <1>1, <1>5, <1>7, <1>8, <2>1
<1>13. f * 2^v = B
  <2> DEFINE k == F + 2
  <2>1. k \in Nat /\ 2^k = 4 * M
    <3>1. 2^(F+2) = 2 * 2^(F+1) /\ 2^(F+1) = 2 * 2^F
      <4>1. F + 2 \in Nat
        BY <1>1
      <4> QED
        BY <1>1, <4>1, PowersUpTo
    <3> QED
      BY <1>1, <3>1
  <2> HIDE DEF k
  <2>2. CASE o = 1
    <3>1. v = k + 1 /\ R = 2 * f
      BY <1>6, <2>2 DEF k
    <3>2. 2^v = 2 * 2^k
      BY <2>1, <3>1, PowerNext
    <3> HIDE DEF v
    <3>3. 2^v = 8 * M
      BY <1>1, <2>1, <3>2
    <3>4. f * (8 * M) = 4 * (M * (2 * f))
      BY <1>1, <1>10
    <3> QED
      BY <3>1, <3>3, <3>4
  <2>3. CASE o = 0
    <3>1. v = k /\ R = f
      BY <1>1, <1>6, <2>1, <2>3 DEF k
    <3> HIDE DEF v
    <3>4. f * (4 * M) = 4 * (M * f)
      BY <1>1, <1>10
    <3> QED
      BY <2>1, <3>1, <3>4
  <2> QED
    BY <1>7, <2>2, <2>3
<1>14. G * 2^u = G
  BY <1>11, <1>12
<1>15. d = (i - u) - (j - v) /\ -d = (j - v) - (i - u)
  BY <1>1, <1>5, <1>7, <1>8
<1>16. (d = 0 \/ d >= w \/ d <= -w) /\ (-d = 0 \/ -d >= w \/ -d <= -w)
  BY <1>5, <1>7
<1> DEFINE A == G * 2^u  BB == f * 2^v  W == 2^w
<1>17. A < W * BB /\ BB < W * A
  <2>1. A = G /\ BB = B /\ W = 4
    BY <1>12, <1>13, <1>14
  <2> HIDE DEF A, BB, W, G, B, MM
  <2> QED
    BY <1>11, <2>1
<1>18. (d < 0 <=> h < e2) /\ (d = 0 <=> h = e2) /\ (-d < 0 <=> e2 < h) /\ (-d = 0 <=> h = e2)
  BY <1>5, <1>7
<1>19. -d \in Int /\ G > 0 /\ G \in Nat
  <2>1. -d \in Int
    BY <1>12
  <2> HIDE DEF G, MM, d
  <2> QED
    BY <1>11, <2>1
<1> HIDE DEF i, j, G, u, v, w, d
<1>20. DyadicLess(<<G, i>>, <<f, j>>) <=> d < 0 \/ (d = 0 /\ G * 2^u < f * 2^v)
  BY <1>10, <1>12, <1>15, <1>16, <1>17, <1>19, LexLess
<1>21. DyadicLess(<<f, j>>, <<G, i>>) <=> -d < 0 \/ (-d = 0 /\ f * 2^v < G * 2^u)
  <2> DEFINE m == -d
  <2>1. m \in Int /\ m = (j - v) - (i - u) /\ (m = 0 \/ m >= w \/ m <= -w)
    BY <1>15, <1>16, <1>19
  <2> HIDE DEF m
  <2>2. DyadicLess(<<f, j>>, <<G, i>>) <=> m < 0 \/ (m = 0 /\ f * 2^v < G * 2^u)
    BY <1>10, <1>12, <1>17, <1>19, <2>1, LexLess
  <2> QED
    BY <2>2 DEF m
<1>22. (4 * g < num <=> G < B) /\ (num < 4 * g <=> B < G)
  BY <1>1, <1>6, <1>10, RootCompare DEF G
<1>23. num \in Nat /\ T \in Nat
  BY <1>1, <1>6 DEF IntegerRoot
<1> HIDE DEF num, B
<1>24. (g * den < num * (2 * M) <=> 4 * g < num) /\ (num * (2 * M) < g * den <=> num < 4 * g)
  <2> DEFINE K == 2 * M  a == 4 * g
  <2>1. K \in Nat /\ K > 0 /\ a \in Int
    BY <1>1, <1>10
  <2>2. g * den = K * a /\ num * (2 * M) = K * num
    BY <1>1, <1>10, <1>23
  <2> HIDE DEF K, a
  <2>3. (K * a < K * num <=> a < num) /\ (K * num < K * a <=> num < a)
    BY <1>23, <2>1, CancelLess
  <2>4. (g * den < num * (2 * M) <=> a < num) /\ (num * (2 * M) < g * den <=> num < a)
    BY <2>2, <2>3
  <2> QED
    BY <2>4 DEF a
<1> DEFINE X == g * den  Y == num * (2 * M)
<1>25. X \in Int /\ Y \in Int /\ (X < Y <=> G < B) /\ (Y < X <=> B < G)
  BY <1>1, <1>10, <1>22, <1>23, <1>24
<1> DEFINE less == DyadicLess(<<G, i>>, <<f, j>>)  more2 == DyadicLess(<<f, j>>, <<G, i>>)
<1>26. /\ less <=> h < e2 \/ (h = e2 /\ X < Y)
       /\ more2 <=> e2 < h \/ (h = e2 /\ Y < X)
  <2>1. G * 2^u = G /\ f * 2^v = B
    BY <1>13, <1>14
  <2> HIDE DEF X, Y
  <2> QED
    BY <1>18, <1>20, <1>21, <1>25, <2>1
<1> HIDE DEF less, more2, den
<1>27. ~less /\ ~more2 <=> h = e2 /\ X = Y
  <2> HIDE DEF X, Y
  <2> QED
    BY <1>5, <1>7, <1>25, <1>26
<1>28. BelowRatio(b, e2, num, den) <=> h < e2 \/ (h = e2 /\ X < Y)
  BY <1>8 DEF BelowRatio, M, F
<1>29. OnRatio(b, e2, num, den) <=> h = e2 /\ X = Y
  BY <1>8 DEF OnRatio, M, F
<1>30. y = <<f, j>>
  BY DEF j, F
<1> HIDE DEF x, y
<1>31. (DyadicLess(x, y) <=> less) /\ (DyadicEqual(x, y) <=> ~less /\ ~more2)
  BY <1>9, <1>30, Zenon DEF DyadicEqual, less, more2
<1> HIDE DEF X, Y
<1>32. /\ DyadicLess(x, y) <=> BelowRatio(b, e2, num, den)
       /\ DyadicEqual(x, y) <=> OnRatio(b, e2, num, den)
  BY <1>26, <1>27, <1>28, <1>29, <1>31
<1> QED
  BY <1>32 DEF x, y, b, e2, num, den, M, F

\* The radicand of an unpacked number whose exponent is halved.
RadicandOf(x) == IF x.exponent % 2 = 1 THEN 2 * x.fraction ELSE x.fraction

\* A pattern that rounds the integer root of a radicand rounds the root of the number.
LEMMA RootMeetsValues ==
  ASSUME NEW p \in Posits \ {0, NaR}, Extract(p).sign = FALSE, NEW n,
         NEW T, NEW more \in BOOLEAN,
         IntegerRoot(T, more, 2^FracBits, RadicandOf(Extract(p))),
         RoundsRatio(n, NBits, ES, Extract(p).exponent \div 2,
                     2 * T + (IF more THEN 1 ELSE 0), 8 * 2^FracBits)
  PROVE  RootRoundsTo(n, NBits, ES, Value(p, NBits, ES))
<1> DEFINE M == 2^FracBits  F == FracBits  f == Extract(p).fraction  e == Extract(p).exponent
           R == RadicandOf(Extract(p))  e2 == e \div 2
           num == 2 * T + (IF more THEN 1 ELSE 0)  den == 8 * M  x == <<f, e - F>>
<1>1. F \in Nat /\ M \in Nat /\ M > 0
  BY FormatPowers
<1>2. f \in Nat /\ f \in M..(2*M-1)
  BY NumberUnpacks
<1>3. e \in Int /\ e2 \in Int
  BY ExtractedExponent
<1>4. Value(p, NBits, ES) = x
  BY SignedValue, Zenon
<1>5. R = (IF e % 2 = 1 THEN 2 * f ELSE f) /\ IntegerRoot(T, more, M, R)
  BY DEF RadicandOf
<1>6. RoundsRatio(n, NBits, ES, e2, num, den)
  OBVIOUS
<1>7. num \in Nat /\ den \in Nat /\ den > 0 /\ den <= num /\ num < 2 * den
  <2>1. T \in (4 * M)..(8 * M - 1)
    BY <1>5 DEF IntegerRoot
  <2> DEFINE s == IF more THEN 1 ELSE 0
  <2>2. s \in {0, 1}
    OBVIOUS
  <2> HIDE DEF M, s
  <2> QED
    BY <1>1, <2>1, <2>2
<1>8. x[1] # 0
  BY <1>1, <1>2
<1>9. \A q \in 1..(Largest - 1) :
        LET b == BoundaryOf(q)
        IN  /\ DyadicLess(Times(b, b), x) <=> BelowRatio(b, e2, num, den)
            /\ DyadicEqual(Times(b, b), x) <=> OnRatio(b, e2, num, den)
  <2> TAKE q \in 1..(Largest - 1)
  <2> QED
    BY <1>2, <1>3, <1>5, RootLess
<1> HIDE DEF num, den, e2, x
<1>10. RoundsAt(n, e2, num, den)
  BY <1>3, <1>6, <1>7, RatioRounds
<1>11. n \in 1..Largest /\ Largest \in Nat /\ Largest = 2^(NBits-1) - 1
  BY <1>10, FormatPowers DEF RoundsAt
<1>12. (n # 1 => n - 1 \in 1..(Largest - 1)) /\ (n # Largest => n \in 1..(Largest - 1))
  BY <1>11
<1>13. LET Above(c) == DyadicLess(Times(c, c), x)
           At(c)    == DyadicEqual(Times(c, c), x)
       IN  RoundsPositive(n, NBits, ES, Above, At)
  <2> DEFINE A(c) == DyadicLess(Times(c, c), x)
             E(c) == DyadicEqual(Times(c, c), x)
  <2>1. \A q \in 1..(Largest - 1) :
          /\ A(BoundaryOf(q)) <=> BelowRatio(BoundaryOf(q), e2, num, den)
          /\ E(BoundaryOf(q)) <=> OnRatio(BoundaryOf(q), e2, num, den)
    BY <1>9, Zenon
  <2> HIDE DEF A, E
  <2>2. /\ n \in 1..Largest
        /\ \/ n = 1
           \/ BelowRatio(BoundaryOf(n-1), e2, num, den)
           \/ n % 2 = 0 /\ OnRatio(BoundaryOf(n-1), e2, num, den)
        /\ \/ n = Largest
           \/ /\ ~BelowRatio(BoundaryOf(n), e2, num, den)
              /\ OnRatio(BoundaryOf(n), e2, num, den) => n % 2 = 0
    BY <1>10, Zenon DEF RoundsAt
  <2> DEFINE k == n - 1
  <2>3. n = 1 \/ A(BoundaryOf(n-1)) \/ (n % 2 = 0 /\ E(BoundaryOf(n-1)))
    <3>1. SUFFICES ASSUME n # 1 PROVE A(BoundaryOf(k)) \/ (n % 2 = 0 /\ E(BoundaryOf(k)))
      BY <3>1
    <3>2. k \in 1..(Largest - 1)
      BY <1>12, <3>1
    <3>3. BelowRatio(BoundaryOf(k), e2, num, den)
             \/ (n % 2 = 0 /\ OnRatio(BoundaryOf(k), e2, num, den))
      BY <2>2, <3>1
    <3> HIDE DEF k
    <3>4. /\ A(BoundaryOf(k)) <=> BelowRatio(BoundaryOf(k), e2, num, den)
          /\ E(BoundaryOf(k)) <=> OnRatio(BoundaryOf(k), e2, num, den)
      BY <2>1, <3>2
    <3> QED
      BY <3>3, <3>4
  <2>4. n = Largest \/ (~A(BoundaryOf(n)) /\ (E(BoundaryOf(n)) => n % 2 = 0))
    <3>1. SUFFICES ASSUME n # Largest PROVE ~A(BoundaryOf(n)) /\ (E(BoundaryOf(n)) => n % 2 = 0)
      BY <3>1
    <3>2. n \in 1..(Largest - 1)
      BY <1>12, <3>1
    <3>4. /\ A(BoundaryOf(n)) <=> BelowRatio(BoundaryOf(n), e2, num, den)
          /\ E(BoundaryOf(n)) <=> OnRatio(BoundaryOf(n), e2, num, den)
      BY <2>1, <3>2
    <3> QED
      BY <2>2, <3>1, <3>4
  <2>5. n \in 1..(2^(NBits-1) - 1) /\ (n = Largest <=> n = 2^(NBits-1) - 1)
    BY <1>11
  <2> QED
    BY <2>3, <2>4, <2>5, Zenon DEF RoundsPositive, BoundaryOf, A, E
<1>14. RootRoundsTo(n, NBits, ES, x)
  BY <1>8, <1>13, Zenon DEF RootRoundsTo
<1> QED
  BY <1>4, <1>14

-----------------------------------------------------------------------------
(* How far a boundary is from the posits on both sides.                    *)

\* A pattern is in one regime.
LEMMA RegimeOnce ==
  ASSUME NEW q \in Nat, NEW r, NEW P, NEW Q, NEW D, RegimeIs(r, NBits, P, Q, D), P <= q,
         NEW s, NEW U, NEW V, NEW E, RegimeIs(s, NBits, U, V, E), q < U + V
  PROVE  r <= s
<1>1. NBits \in Nat /\ NBits >= 4
  BY FormatPowers
<1>2. r \in (2-NBits)..(NBits-3) /\ s \in (2-NBits)..(NBits-3) /\ s \in (2-NBits)..(NBits-2)
      /\ P \in Nat /\ U \in Nat /\ V \in Nat
      /\ PowerPattern(r, NBits) = P /\ PowerPattern(s+1, NBits) = U + V
  BY <1>1 DEF RegimeIs
<1>3. CASE s < r
  <2>1. r \in (2-NBits)..(NBits-2)
    BY <1>1, <1>2
  <2>2. PowerPattern(s+1, NBits) <= PowerPattern(r, NBits)
    BY <1>1, <1>2, <1>3, <2>1, RegimesGrow
  <2> QED
    BY <1>2, <2>2
<1> QED
  BY <1>1, <1>2, <1>3

\* Where the posit q and the posit above it are in the regime of q.
LEMMA PlacesInRegime ==
  ASSUME NEW q \in 1..(Largest - 1)
  PROVE  \E r, P, Q, D :
           LET x == Extract(q)
               y == Extract(q+1)
               M == 2^FracBits
           IN  /\ RegimeIs(r, NBits, P, Q, D) /\ P <= q /\ q < P + Q
               /\ (x.exponent - r * 2^ES) * M + (x.fraction - M) = (q - P) * D
               /\ (y.exponent - r * 2^ES) * M + (y.fraction - M) = ((q + 1) - P) * D
               /\ r * 2^ES <= x.exponent
<1> DEFINE n == NBits  base == 2^ES  M == 2^FracBits  x == Extract(q)  y == Extract(q+1)  W == base * M
<1>1. /\ n \in Nat /\ n >= 4 /\ M \in Nat /\ M > 0 /\ base \in Nat /\ base > 0
      /\ 2^(n-3) = W /\ Largest \in Nat /\ Largest > 2 /\ W \in Nat /\ W > 0
      /\ Largest = 2^(n-1) - 1 /\ q \in Nat
  BY FormatPowers
<1>2. PICK r, P, Q, D : RegimeIs(r, n, P, Q, D) /\ P <= q /\ q < P + Q /\ StandsAt(x, r, (q - P) * D)
  BY PatternRegime
<1>3. /\ r \in (2-n)..(n-3) /\ r \in Int /\ P \in Nat /\ Q \in Nat /\ Q > 0 /\ D \in Nat /\ D > 0
      /\ D * Q = W /\ PowerPattern(r, n) = P /\ PowerPattern(r+1, n) = P + Q
  BY <1>1, <1>2 DEF RegimeIs
<1>4. ASSUME NEW z, NEW s \in Int, NEW i \in Nat, StandsAt(z, s, i)
      PROVE  /\ (z.exponent - r * base) * M + (z.fraction - M) = (s - r) * W + i
             /\ z.exponent >= s * base
  <2> DEFINE d == i \div M  w == i % M
  <2>1. d \in Int /\ w \in 0..(M-1) /\ i = d * M + w
    <3> HIDE DEF M
    <3> QED
      BY <1>1, DivParts
  <2>2. z.exponent = s * base + d /\ z.fraction = M + w
    BY <1>4 DEF StandsAt
  <2> HIDE DEF d, w, base, M
  <2>3. d >= 0
    <3>1. d <= -1 => d * M <= -M
      BY <1>1, <2>1
    <3>2. d * M \in Int
      BY <1>1, <2>1
    <3> QED
      BY <1>1, <2>1, <3>1, <3>2
  <2>4. s * base \in Int /\ r * base \in Int /\ (s * base + d) - r * base = (s - r) * base + d
        /\ ((s - r) * base + d) * M = (s - r) * (base * M) + d * M
        /\ (s - r) * (base * M) \in Int /\ d * M \in Int
    BY <1>1, <1>3, <2>1
  <2> HIDE DEF W
  <2>5. W = base * M
    BY DEF W
  <2> QED
    BY <1>1, <2>1, <2>2, <2>3, <2>4, <2>5
<1>5. q - P \in Nat /\ q - P <= Q - 1 /\ (q - P) * D \in Nat /\ ((q + 1) - P) * D = (q - P) * D + D
  <2> DEFINE k == q - P
  <2>1. k \in Nat /\ (q + 1) - P = k + 1
    BY <1>1, <1>2, <1>3
  <2> HIDE DEF k
  <2>2. k * D \in Nat /\ (k + 1) * D = k * D + D
    BY <1>3, <2>1
  <2> QED
    BY <1>1, <1>2, <1>3, <2>1, <2>2 DEF k
<1>6. /\ (x.exponent - r * base) * M + (x.fraction - M) = (q - P) * D
      /\ r * base <= x.exponent
  <2> DEFINE i == (q - P) * D
  <2>1. StandsAt(x, r, i) /\ i \in Nat
    BY <1>2, <1>5
  <2> HIDE DEF i, x
  <2>2. /\ (x.exponent - r * base) * M + (x.fraction - M) = (r - r) * W + i
        /\ x.exponent >= r * base
    BY <1>3, <1>4, <2>1
  <2>3. (r - r) * W = 0 /\ 0 + i = i
    BY <1>1, <1>3, <2>1
  <2>4. x.exponent \in Int /\ r * base \in Int
    BY <1>1, <1>3, ValueIs DEF x
  <2> HIDE DEF base, M, W
  <2> QED
    BY <2>2, <2>3, <2>4 DEF i
<1>7. \E s \in Int, i \in Nat : StandsAt(y, s, i) /\ (s - r) * W + i = ((q + 1) - P) * D
  <2>1. CASE q + 1 = Largest
    <3>1. StandsAt(y, n - 2, 0)
      BY <2>1, ExtractLargest
    <3>2. r = n - 3 /\ P + Q = Largest
      <4>1. n - 3 \in Nat /\ n - 2 \in Nat /\ n - 1 \in Nat
            /\ n - 2 - (n - 3) = 1 /\ n - 2 - (n - 2) = 0
        BY <1>1
      <4>2. 2^1 = 2 /\ 2^0 = 1
        <5> DEFINE o == 0
        <5>1. 2^o = 1
          BY PowerZero
        <5>2. 2^(o+1) = 2 * 2^o
          BY PowerNext
        <5> QED
          BY <5>1, <5>2
      <4>3. PowerPattern(n-3, n) = 2^(n-1) - 2 /\ PowerPattern(n-2, n) = 2^(n-1) - 1
        <5> DEFINE t == n - 3  v == n - 2
        <5>1. t >= 0 /\ v >= 0 /\ n - 2 - t = 1 /\ n - 2 - v = 0
          BY <4>1
        <5>2. PowerPattern(t, n) = 2^(n-1) - 2^(n-2-t) /\ PowerPattern(v, n) = 2^(n-1) - 2^(n-2-v)
          <6> HIDE DEF t, v, n
          <6> QED
            BY <5>1 DEF PowerPattern
        <5>3. 2^(n-2-t) = 2 /\ 2^(n-2-v) = 1
          BY <4>2, <5>1
        <5> QED
          BY <5>2, <5>3
      <4>4. CASE r < n - 3
        <5>1. PowerPattern(r+1, n) <= PowerPattern(n-3, n)
          <6>1. n - 3 \in (2-n)..(n-2)
            BY <1>1
          <6> DEFINE t == n - 3
          <6> HIDE DEF t
          <6>2. PowerPattern(r+1, n) <= PowerPattern(t, n)
            BY <1>1, <1>3, <4>4, <6>1, RegimesGrow DEF t
          <6> QED
            BY <6>2 DEF t
        <5> QED
          BY <1>1, <1>2, <1>3, <2>1, <4>3, <5>1
      <4>5. r = n - 3
        BY <1>1, <1>3, <4>4
      <4>6. r + 1 = n - 2
        BY <1>1, <4>5
      <4> QED
        BY <1>1, <1>3, <4>3, <4>5, <4>6
    <3>3. ((q + 1) - P) * D = W
      <4>1. (q + 1) - P = Q
        BY <1>1, <1>3, <2>1, <3>2
      <4>2. Q * D = D * Q
        BY <1>3
      <4> QED
        BY <1>3, <4>1, <4>2
    <3>4. ((n - 2) - r) * W + 0 = W
      <4>1. (n - 2) - r = 1
        BY <1>1, <3>2
      <4> HIDE DEF W
      <4> QED
        BY <1>1, <4>1
    <3>5. n - 2 \in Int /\ 0 \in Nat
      BY <1>1
    <3> HIDE DEF y, W
    <3> QED
      BY <3>1, <3>3, <3>4, <3>5
  <2>2. CASE q + 1 # Largest
    <3>1. q + 1 \in 1..(Largest - 1) /\ q + 1 \in Nat
      BY <1>1, <2>2
    <3>2. PICK s, U, V, E : RegimeIs(s, n, U, V, E) /\ U <= q + 1 /\ q + 1 < U + V
                            /\ StandsAt(y, s, ((q + 1) - U) * E)
      <4> DEFINE q1 == q + 1
      <4> HIDE DEF q1
      <4>1. \E s, U, V, E : RegimeIs(s, n, U, V, E) /\ U <= q1 /\ q1 < U + V
                            /\ StandsAt(Extract(q1), s, (q1 - U) * E)
        BY <3>1, PatternRegime DEF q1
      <4> QED
        BY <4>1 DEF q1
    <3>3. /\ s \in (2-n)..(n-3) /\ s \in Int /\ U \in Nat /\ V \in Nat /\ V > 0
          /\ E \in Nat /\ E > 0 /\ PowerPattern(s, n) = U /\ PowerPattern(s+1, n) = U + V
      BY <1>1, <3>2 DEF RegimeIs
    <3>4. r <= s
      <4>1. P <= q + 1
        BY <1>1, <1>2, <1>3
      <4> DEFINE q1 == q + 1
      <4> HIDE DEF q1
      <4>2. q1 \in Nat /\ P <= q1 /\ q1 < U + V
        BY <3>1, <3>2, <4>1 DEF q1
      <4> QED
        BY <1>2, <3>2, <4>2, RegimeOnce
    <3>5. CASE s = r
      <4>1. U = P /\ V = Q /\ E = D
        BY <1>2, <3>2, <3>5, RegimeIsOnce
      <4>2. StandsAt(y, r, ((q + 1) - P) * D)
        BY <3>2, <3>5, <4>1
      <4>3. ((q + 1) - P) * D \in Nat
        BY <1>3, <1>5
      <4> DEFINE i == ((q + 1) - P) * D
      <4> HIDE DEF i, y, W
      <4>4. (r - r) * W + i = i
        BY <1>1, <1>3, <4>3 DEF i
      <4> QED
        BY <1>3, <4>2, <4>3, <4>4 DEF i
    <3>6. CASE s # r
      <4>1. r < s
        BY <1>3, <3>3, <3>4, <3>6
      <4>2. PowerPattern(r+1, n) <= PowerPattern(s, n)
        <5>1. s \in (2-n)..(n-2)
          BY <1>1, <3>3
        <5> QED
          BY <1>1, <1>3, <4>1, <5>1, RegimesGrow
      <4>3. U = q + 1 /\ P + Q = q + 1
        BY <1>1, <1>2, <1>3, <3>2, <3>3, <4>2
      <4>4. s = r + 1
        <5>1. CASE r + 1 < s
          <6> DEFINE t == r + 1
          <6>1. t \in (2-n)..(n-3) /\ t < s /\ s \in (2-n)..(n-2)
            BY <1>1, <1>3, <3>3, <5>1
          <6> HIDE DEF t
          <6>2. PICK P1, Q1, D1 : RegimeIs(t, n, P1, Q1, D1)
            BY <1>1, <6>1, RegimeExists
          <6>3. PowerPattern(t, n) = P1 /\ PowerPattern(t+1, n) = P1 + Q1 /\ P1 \in Nat /\ Q1 \in Nat /\ Q1 > 0
            BY <6>2 DEF RegimeIs
          <6>4. PowerPattern(t+1, n) <= PowerPattern(s, n)
            BY <1>1, <6>1, RegimesGrow
          <6>5. PowerPattern(t, n) = P + Q
            BY <1>3 DEF t
          <6> QED
            BY <1>1, <1>3, <3>3, <4>3, <6>3, <6>4, <6>5
        <5> QED
          BY <1>3, <3>3, <4>1, <5>1
      <4>5. StandsAt(y, s, 0)
        <5>1. ((q + 1) - U) * E = 0
          <6>1. (q + 1) - U = 0
            BY <1>1, <4>3
          <6> QED
            BY <3>3, <6>1
        <5> QED
          BY <3>2, <5>1
      <4>6. ((q + 1) - P) * D = W
        <5>1. (q + 1) - P = Q
          BY <1>1, <1>3, <4>3
        <5>2. Q * D = D * Q
          BY <1>3
        <5> QED
          BY <1>3, <5>1, <5>2
      <4>7. (s - r) * W + 0 = W
        <5>1. s - r = 1
          BY <1>3, <4>4
        <5> HIDE DEF W
        <5> QED
          BY <1>1, <5>1
      <4>8. 0 \in Nat
        OBVIOUS
      <4> HIDE DEF y, W
      <4> QED
        BY <3>3, <4>5, <4>6, <4>7, <4>8
    <3> QED
      BY <3>5, <3>6
  <2> QED
    BY <2>1, <2>2
<1>8. (y.exponent - r * base) * M + (y.fraction - M) = ((q + 1) - P) * D
  <2>1. PICK s \in Int, i \in Nat : StandsAt(y, s, i) /\ (s - r) * W + i = ((q + 1) - P) * D
    BY <1>7
  <2>2. (y.exponent - r * base) * M + (y.fraction - M) = (s - r) * W + i
    BY <1>4, <2>1
  <2> QED
    BY <2>1, <2>2
<1> QED
  BY <1>2, <1>6, <1>8

\* The boundary above q is at least one step D of its regime above the posit q, and
\* as far below the posit q+1.
GapAt(q, r, D, t, g, m, l) ==
  LET x == Extract(q)
      y == Extract(q+1)
      M == 2^FracBits
  IN  /\ r \in (2-NBits)..(NBits-3) /\ D \in Nat \ {0} /\ (\E P, Q : RegimeIs(r, NBits, P, Q, D))
      /\ BoundaryOf(q) = <<g, t - (FracBits + 1)>> /\ t \in Int /\ g \in (2*M)..(4*M-1)
      /\ r * 2^ES <= x.exponent /\ m \in Nat /\ l \in Nat
      /\ t = x.exponent + m /\ y.exponent = t + l
      /\ ~(g * 2^m < 2 * x.fraction + D)
      /\ ~((2 * y.fraction) * 2^l < g + D)

\* Of two numbers with the same distance in place and mantissa, the one in the higher
\* place is the larger one.
LEMMA PlacesAbove ==
  ASSUME NEW V \in Nat, V > 0, NEW f \in V..(2*V-1), NEW g \in V..(2*V-1),
         NEW a \in Int, NEW b \in Int, NEW D \in Nat, D > 0,
         ~(a * V + f + D < b * V + g), ~(b * V + g < a * V + f + D)
  PROVE  b - a \in Nat /\ ~(g * 2^(b-a) < f + D)
<1> DEFINE m == b - a
<1>1. m \in Int /\ f \in Nat /\ g \in Nat
  OBVIOUS
<1>2. m * V + g = f + D /\ m * V \in Int
  <2>1. b * V = a * V + m * V /\ a * V \in Int /\ m * V \in Int
    OBVIOUS
  <2> HIDE DEF m
  <2> QED
    BY <1>1, <2>1
<1> HIDE DEF m
<1>3. m >= 0
  <2>1. m <= -1 => m * V <= -V
    BY <1>1
  <2> QED
    BY <1>1, <1>2, <2>1
<1>4. m \in Nat /\ 2^m \in Nat /\ 2^m >= m + 1
  <2>1. m \in Nat
    BY <1>1, <1>3
  <2> DEFINE S == {k \in Nat : 2^k < k + 1}
  <2>2. S = {}
    <3>1. CASE S # {}
      <4>1. PICK k \in S : \A i \in S : k <= i
        BY <3>1, LeastMember
      <4>2. CASE k = 0
        <5>1. 2^k = 1
          BY <4>2, PowerZero
        <5> QED
          BY <4>1, <4>2, <5>1
      <4>3. CASE k # 0
        <5> DEFINE i == k - 1
        <5>1. i \in Nat /\ i + 1 = k
          BY <4>1, <4>3
        <5>2. 2^(i+1) = 2 * 2^i /\ 2^i \in Nat
          BY <5>1, PowerNext, PowerPositive
        <5> HIDE DEF i
        <5>3. i \notin S
          BY <4>1, <5>1
        <5>4. ~(2^i < i + 1)
          BY <5>1, <5>3
        <5>5. 2^k < k + 1
          BY <4>1
        <5> QED
          BY <5>1, <5>2, <5>4, <5>5
      <4> QED
        BY <4>2, <4>3
    <3> QED
      BY <3>1
  <2>3. 2^m \in Nat
    BY <2>1, PowerPositive
  <2>4. m \notin S
    BY <2>2
  <2> QED
    BY <2>1, <2>3, <2>4
<1> DEFINE p == 2^m
<1>5. p \in Nat /\ p >= m + 1
  BY <1>4
<1> HIDE DEF p
<1>6. g * p >= g * (m + 1) /\ g * (m + 1) = m * g + g /\ m * g \in Int /\ g * p \in Int
  BY <1>1, <1>4, <1>5
<1>7. m * g >= m * V
  BY <1>1, <1>4
<1>8. ~(g * p < f + D)
  BY <1>1, <1>2, <1>6, <1>7
<1>9. ~(g * 2^m < f + D) /\ m \in Nat
  BY <1>4, <1>8 DEF p
<1> QED
  BY <1>9 DEF m

LEMMA GapExists ==
  ASSUME NEW q \in 1..(Largest - 1)
  PROVE  \E r, D, t, g, m, l : GapAt(q, r, D, t, g, m, l)
<1> DEFINE n == NBits  base == 2^ES  M == 2^FracBits  x == Extract(q)  y == Extract(q+1)
<1>1. /\ n \in Nat /\ n >= 4 /\ M \in Nat /\ M > 0 /\ base \in Nat /\ base > 0
      /\ Largest \in Nat /\ q \in Nat /\ q \in 1..Largest /\ q + 1 \in 1..Largest
      /\ FracBits \in Nat
  BY FormatPowers
<1>2. PICK r, P, Q, D :
        /\ RegimeIs(r, NBits, P, Q, D) /\ P <= q /\ q < P + Q
        /\ (x.exponent - r * base) * M + (x.fraction - M) = (q - P) * D
        /\ (y.exponent - r * base) * M + (y.fraction - M) = ((q + 1) - P) * D
        /\ r * base <= x.exponent
  BY PlacesInRegime
<1>3. /\ r \in (2-n)..(n-3) /\ r \in Int /\ P \in Nat /\ Q \in Nat /\ Q > 0 /\ D \in Nat /\ D > 0
  BY <1>1, <1>2 DEF RegimeIs
<1>4. PICK c, g : BoundaryAt(q, r, P, Q, D, c, g)
  BY <1>2, BoundaryInRegime
<1> DEFINE e == x.exponent  f == x.fraction  h == y.exponent  k == y.fraction
           z == r * base  t == z + c  V == 2 * M  i == q - P
<1>5. /\ e \in Int /\ f \in M..(2*M-1) /\ h \in Int /\ k \in M..(2*M-1)
  BY <1>1, ValueIs
<1>6. /\ BoundaryOf(q) = <<g, t - (FracBits + 1)>> /\ c \in 0..(base - 1)
      /\ g \in (2*M)..(4*M-1) /\ (2 * i + 1) * D = c * V + (g - V)
  BY <1>4 DEF BoundaryAt
<1>7. z \in Int /\ i \in Int /\ c \in Int /\ g \in Int /\ f \in Int /\ k \in Int /\ V \in Nat /\ V > 0
  <2> HIDE DEF M, base, e, f, h, k
  <2> QED
    BY <1>1, <1>3, <1>5, <1>6
<1>8. /\ (e - z) * M + (f - M) = i * D /\ (h - z) * M + (k - M) = (i + 1) * D /\ z <= e
  <2>1. (q + 1) - P = i + 1
    BY <1>1, <1>3
  <2> QED
    BY <1>2, <2>1
<1> DEFINE A == e - z  B == h - z
<1>9. /\ (e - z) * V + 2 * f + D = c * V + g
      /\ c * V + g + D = (h - z) * V + 2 * k
  <2>1. A \in Int /\ B \in Int
    BY <1>5, <1>7
  <2>2. A * M + (f - M) = i * D /\ B * M + (k - M) = (i + 1) * D
    BY <1>8
  <2> HIDE DEF A, B, e, f, h, k, z, i, M
  <2>3. A * V = 2 * (A * M) /\ B * V = 2 * (B * M) /\ A * M \in Int /\ B * M \in Int /\ V = 2 * M
    BY <1>1, <1>7, <2>1
  <2>4. (i + 1) * D = i * D + D /\ (2 * i + 1) * D = 2 * (i * D) + D /\ i * D \in Int
    BY <1>3, <1>7
  <2> HIDE DEF V
  <2>5. c * V \in Int
    BY <1>7
  <2>6. A * V + 2 * f + D = c * V + g /\ c * V + g + D = B * V + 2 * k
    <3> DEFINE AM == A * M  BM == B * M  ID == i * D  AV == A * V  BV == B * V  CV == c * V
               I1 == (i + 1) * D  I2 == (2 * i + 1) * D
    <3>1. /\ AM + (f - M) = ID /\ BM + (k - M) = I1 /\ AV = 2 * AM /\ BV = 2 * BM
          /\ AM \in Int /\ BM \in Int /\ I1 = ID + D /\ I2 = 2 * ID + D /\ ID \in Int
          /\ CV \in Int /\ I2 = CV + (g - V) /\ V = 2 * M
      BY <1>6, <2>2, <2>3, <2>4, <2>5
    <3> HIDE DEF AM, BM, ID, AV, BV, CV, I1, I2
    <3>2. f \in Int /\ k \in Int /\ g \in Int /\ D \in Int /\ M \in Int
      BY <1>1, <1>3, <1>7
    <3>3. AV + 2 * f + D = CV + g /\ CV + g + D = BV + 2 * k
      BY <3>1, <3>2
    <3> QED
      BY <3>3 DEF AV, BV, CV
  <2> QED
    BY <2>6 DEF A, B
<1> DEFINE m == c - A  l == B - c
<1>10. m \in Nat /\ ~(g * 2^m < 2 * f + D)
  <2> DEFINE ff == 2 * f
  <2>1. ff \in V..(2*V-1) /\ g \in V..(2*V-1) /\ A \in Int /\ c \in Int
    BY <1>1, <1>5, <1>6, <1>7
  <2>2. ~(A * V + ff + D < c * V + g) /\ ~(c * V + g < A * V + ff + D)
    <3>1. A * V + ff + D = c * V + g
      BY <1>9
    <3>2. c * V + g \in Int
      BY <1>7
    <3> DEFINE a1 == A * V + ff + D  a2 == c * V + g
    <3>3. a1 = a2 /\ a2 \in Int
      BY <3>1, <3>2
    <3> HIDE DEF a1, a2
    <3>4. ~(a1 < a2) /\ ~(a2 < a1)
      BY <3>3
    <3> QED
      BY <3>4 DEF a1, a2
  <2> HIDE DEF ff, A, V
  <2>3. c - A \in Nat /\ ~(g * 2^(c-A) < ff + D)
    BY <1>3, <1>7, <2>1, <2>2, PlacesAbove
  <2> QED
    BY <2>3 DEF ff
<1>11. l \in Nat /\ ~((2 * k) * 2^l < g + D)
  <2> DEFINE kk == 2 * k
  <2>1. kk \in V..(2*V-1) /\ g \in V..(2*V-1) /\ B \in Int /\ c \in Int
    BY <1>1, <1>5, <1>6, <1>7
  <2>2. ~(c * V + g + D < B * V + kk) /\ ~(B * V + kk < c * V + g + D)
    <3>1. c * V + g + D = B * V + kk
      BY <1>9
    <3>2. c * V \in Int
      BY <1>7
    <3> DEFINE a1 == c * V + g + D  a2 == B * V + kk
    <3>3. a1 = a2 /\ a1 \in Int
      <4> DEFINE cv == c * V
      <4>1. cv \in Int
        BY <3>2
      <4> HIDE DEF cv
      <4>2. cv + g + D \in Int
        BY <1>3, <1>7, <4>1
      <4> QED
        BY <3>1, <4>2 DEF cv
    <3> HIDE DEF a1, a2
    <3>4. ~(a1 < a2) /\ ~(a2 < a1)
      BY <3>3
    <3> QED
      BY <3>4 DEF a1, a2
  <2> HIDE DEF kk, B, V
  <2>3. B - c \in Nat /\ ~(kk * 2^(B-c) < g + D)
    BY <1>3, <1>7, <2>1, <2>2, PlacesAbove
  <2> QED
    BY <2>3 DEF kk
<1>12. t = e + m /\ h = t + l /\ t \in Int
  BY <1>5, <1>7
<1>13. GapAt(q, r, D, t, g, m, l)
  <2>1. \E P9, Q9 : RegimeIs(r, NBits, P9, Q9, D)
    BY <1>2
  <2>2. r * 2^ES <= x.exponent
    BY <1>2
  <2> HIDE DEF t, m, l, M, x, y
  <2> QED
    BY <1>3, <1>6, <1>10, <1>11, <1>12, <2>1, <2>2 DEF GapAt, M, x, y
<1> QED
  BY <1>13

\* A value and a number that is known as a ratio, in whole numbers.
LEMMA ValueAgainst ==
  ASSUME NEW f \in Nat, f > 0, NEW h \in Int, NEW nn \in Nat, nn > 0, NEW j \in Int,
         NEW e \in Int, NEW num \in Nat, NEW den \in Nat, den > 0,
         IsRatio(1, 0, nn, j, e, num, den),
         NEW a \in Nat, NEW b \in Nat, ~(h - e < a - b), ~(a - b < h - e)
  PROVE  LET x == <<f, h - FracBits>>
             y == <<nn, j>>
             X == (2 * f) * 2^a * den
             Y == (num * (2 * 2^FracBits)) * 2^b
         IN  /\ DyadicLess(x, y) <=> X < Y
             /\ DyadicLess(y, x) <=> Y < X
<1> DEFINE F == FracBits  M == 2^F  i == h - F  A == 2^a  B == 2^b
           X == (2 * f) * A * den  Y == (num * (2 * M)) * B
<1>1. F \in Nat /\ M \in Nat /\ h - e = a - b
  BY FormatPowers
<1>2. PICK u \in Nat, v \in Nat, K \in Nat \ {0}, L \in Nat \ {0} :
        /\ K * (1 * 2^u) = L * den
        /\ K * (nn * 2^v) = L * (num * (2 * M))
        /\ (0 - u) - (j - v) = F + 1 - e
  BY DEF IsRatio
<1> HIDE DEF F
<1> DEFINE S == F + 1 + u + b - e  w == (a + 1) + u  z == v + b
<1>3. i \in Int /\ S \in Int /\ i + S = w /\ j + S = z /\ w \in Nat /\ z \in Nat /\ a + 1 \in Nat
  BY <1>1, <1>2
<1>4. /\ 2^w = 2^(a+1) * 2^u /\ 2^(a+1) = 2 * A /\ 2^z = 2^v * B
      /\ 2^u \in Nat /\ 2^v \in Nat /\ A \in Nat /\ B \in Nat
  BY <1>2, <1>3, PowerSum, PowerNext, PowerPositive
<1> DEFINE U == 2^u  V == 2^v  p == f * 2^w  q == nn * 2^z
<1>5. /\ DyadicLess(<<f, i>>, <<nn, j>>) <=> p < q
      /\ DyadicLess(<<nn, j>>, <<f, i>>) <=> q < p
  <2>1. i + S \in Nat /\ j + S \in Nat
    BY <1>3
  <2> HIDE DEF i, S
  <2>2. /\ DyadicLess(<<f, i>>, <<nn, j>>) <=> f * 2^(i+S) < nn * 2^(j+S)
        /\ DyadicLess(<<nn, j>>, <<f, i>>) <=> nn * 2^(j+S) < f * 2^(i+S)
    BY <1>3, <2>1, LessScaled
  <2> QED
    BY <1>3, <2>2
<1>6. p = f * ((2 * A) * U) /\ q = nn * (V * B)
  BY <1>4
<1>7. K * U = L * den /\ K * (nn * V) = L * (num * (2 * M)) /\ U \in Nat /\ V \in Nat
  <2>1. 1 * U = U
    BY <1>4
  <2> QED
    BY <1>2, <1>4, <2>1
<1> HIDE DEF A, B, U, V, M, p, q
<1>8. K * p = L * X
  <2>1. K * (f * ((2 * A) * U)) = ((2 * f) * A) * (K * U)
    BY <1>2, <1>4, <1>7
  <2>2. ((2 * f) * A) * (L * den) = L * ((2 * f) * A * den)
    BY <1>2, <1>4
  <2> QED
    BY <1>6, <1>7, <2>1, <2>2
<1>9. K * q = L * Y
  <2> DEFINE g == nn * V  m == num * (2 * M)
  <2>1. g \in Nat /\ m \in Nat /\ nn * (V * B) = g * B
    BY <1>1, <1>4, <1>7
  <2>2. K * g = L * m
    BY <1>7
  <2> HIDE DEF g, m
  <2>3. K * (g * B) = (K * g) * B /\ (L * m) * B = L * (m * B)
    BY <1>2, <1>4, <2>1
  <2>4. Y = m * B
    BY DEF m
  <2> HIDE DEF Y
  <2> QED
    BY <1>6, <2>1, <2>2, <2>3, <2>4
<1>10. p \in Int /\ q \in Int /\ X \in Int /\ Y \in Int
  <2>1. (2 * A) * U \in Nat /\ V * B \in Nat
    BY <1>4, <1>7
  <2>2. p \in Int /\ q \in Int
    BY <1>6, <2>1
  <2>3. (2 * f) * A \in Nat /\ num * (2 * M) \in Nat
    BY <1>1, <1>4
  <2>4. X \in Int /\ Y \in Int
    BY <1>4, <2>3
  <2> QED
    BY <2>2, <2>4
<1> HIDE DEF X, Y
<1>11. (p < q <=> X < Y) /\ (q < p <=> Y < X)
  <2>1. K * p < K * q <=> p < q
    BY <1>2, <1>10, CancelLess
  <2>2. K * q < K * p <=> q < p
    BY <1>2, <1>10, CancelLess
  <2>3. L * X < L * Y <=> X < Y
    BY <1>2, <1>10, CancelLess
  <2>4. L * Y < L * X <=> Y < X
    BY <1>2, <1>10, CancelLess
  <2> QED
    BY <1>8, <1>9, <2>1, <2>2, <2>3, <2>4
<1> QED
  BY <1>5, <1>11 DEF X, Y, A, B, M, F, i

LEMMA TimesOrder ==
  ASSUME NEW a \in Int, NEW b \in Int, NEW c \in Nat, a <= b
  PROVE  a * c <= b * c
OBVIOUS

\* The exact number is xnum/(den*t) and the computed one num/den, both times 2^e: they
\* are less than half a unit of the last place of a posit apart.
Close(num, den, t, xnum) ==
  LET M == 2^FracBits
  IN  /\ (num * t) * (4 * M) < xnum * (4 * M) + 2 * (den * t)
      /\ xnum * (4 * M) < (num * t) * (4 * M) + 2 * (den * t)

\* A number that is not below the boundary above q, and a number close to it, which is
\* then above q.
LEMMA BelowClose ==
  ASSUME NEW q \in 1..(Largest - 1), NEW e \in Int, NEW num \in Nat, NEW den \in Nat,
         den > 0, den <= num, num < 2 * den,
         BelowRatio(BoundaryOf(q), e, num, den) \/ OnRatio(BoundaryOf(q), e, num, den),
         NEW t \in Nat, t > 0, NEW xnum \in Nat, Close(num, den, t, xnum),
         NEW nn \in Nat, nn > 0, NEW j \in Int, IsRatio(1, 0, nn, j, e, xnum, den * t)
  PROVE  DyadicLess(ValueOf(q, NBits, ES), <<nn, j>>)
<1> DEFINE M == 2^FracBits  x == Extract(q)  f == x.fraction  h == x.exponent
<1>1. M \in Nat /\ M > 0 /\ FracBits \in Nat /\ q \in 1..Largest
  BY FormatPowers
<1>2. h \in Int /\ f \in M..(2*M-1) /\ f \in Nat /\ f > 0
      /\ ValueOf(q, NBits, ES) = <<f, h - FracBits>>
  BY <1>1, ValueIs
<1>3. PICK r, D, u, g, m, l : GapAt(q, r, D, u, g, m, l)
  BY GapExists
<1>4. /\ D \in Nat /\ D > 0 /\ BoundaryOf(q) = <<g, u - (FracBits + 1)>> /\ u \in Int
      /\ g \in (2*M)..(4*M-1) /\ m \in Nat /\ u = h + m /\ ~(g * 2^m < 2 * f + D)
  BY <1>3 DEF GapAt
<1>5. u < e \/ (u = e /\ g * den <= num * (2 * M))
  <2>1. BoundaryOf(q)[1] = g /\ BoundaryOf(q)[2] + FracBits + 1 = u
    BY <1>1, <1>4
  <2>2. g * den \in Int /\ num * (2 * M) \in Int
    BY <1>1, <1>4
  <2> QED
    BY <2>1, <2>2 DEF BelowRatio, OnRatio
<1> DEFINE b == e - h  a == 0  B == 2^b  dt == den * t  N == (num * t) * (4 * M)  X == xnum * (4 * M)
<1>6. b \in Nat /\ (b = 0 => u = e /\ m = 0)
  BY <1>2, <1>4, <1>5
<1>7. dt \in Nat /\ dt > 0 /\ N \in Nat /\ X \in Nat /\ N < X + 2 * dt /\ num * t \in Nat
  <2>1. den * t \in Nat /\ den * t > 0 /\ num * t \in Nat
    BY Z3
  <2>2. (num * t) * (4 * M) \in Nat /\ xnum * (4 * M) \in Nat
    BY <1>1, <2>1
  <2> QED
    BY <2>1, <2>2 DEF Close
<1>8. /\ 2^a = 1 /\ B \in Nat /\ B > 0
      /\ b # 0 => B >= 2
      /\ b = 0 => B = 1
  <2>1. 2^a = 1
    BY PowerZero
  <2>2. B \in Nat /\ B > 0
    BY <1>6, PowerPositive
  <2>3. b # 0 => B >= 2
    <3>1. CASE b # 0
      <4> DEFINE i == b - 1
      <4>1. i \in Nat /\ i + 1 = b
        BY <1>6, <3>1
      <4>2. 2^(i+1) = 2 * 2^i /\ 2^i \in Nat /\ 2^i > 0
        BY <4>1, PowerNext, PowerPositive
      <4> HIDE DEF i, b
      <4> QED
        BY <4>1, <4>2
    <3> QED
      BY <3>1
  <2>4. b = 0 => B = 1
    BY PowerZero
  <2> QED
    BY <2>1, <2>2, <2>3, <2>4
<1> DEFINE Xl == (2 * f) * 2^a * dt  Yl == (xnum * (2 * M)) * B
<1>9. Xl < Yl
  <2>1. Xl = (2 * f) * dt /\ (2 * f) * dt \in Nat
    <3>1. (2 * f) * 1 = 2 * f /\ 2 * f \in Nat
      BY <1>2
    <3> HIDE DEF dt, a, f
    <3> QED
      BY <1>7, <1>8, <3>1
  <2>2. 2 * Yl = X * B /\ Yl \in Nat
    <3>1. xnum * (2 * M) \in Nat /\ 2 * (xnum * (2 * M)) = X
      BY <1>1
    <3> DEFINE y == xnum * (2 * M)
    <3> HIDE DEF y, B, X
    <3>2. 2 * (y * B) = (2 * y) * B /\ y * B \in Nat
      BY <1>8, <3>1 DEF y
    <3> QED
      BY <3>1, <3>2 DEF y
  <2>3. CASE b = 0
    <3>1. (2 * f + 1) <= g /\ g * den <= num * (2 * M)
      <4>1. 2^m = 1
        BY <1>4, <1>6, <2>3, PowerZero
      <4>2. g * 2^m = g /\ g \in Int
        <5>1. g \in Int /\ g * 1 = g
          BY <1>1, <1>4
        <5> QED
          BY <4>1, <5>1
      <4>3. ~(g < 2 * f + D)
        BY <1>4, <4>2
      <4>4. g * den <= num * (2 * M)
        BY <1>4, <1>5, <1>6, <2>3
      <4> HIDE DEF f
      <4> QED
        BY <1>2, <1>4, <4>2, <4>3, <4>4
    <3>2. (2 * f + 1) * den <= num * (2 * M)
      <4>1. (2 * f + 1) * den <= g * den
        <5> DEFINE ff == 2 * f + 1
        <5>1. ff \in Nat /\ ff <= g /\ g \in Nat
          BY <1>1, <1>2, <1>4, <3>1
        <5> QED
          BY <5>1, TimesOrder
      <4>2. (2 * f + 1) * den \in Int /\ g * den \in Int /\ num * (2 * M) \in Int
        BY <1>1, <1>2, <1>4
      <4> QED
        BY <3>1, <4>1, <4>2
    <3>3. (4 * f + 2) * dt <= N
      <4> DEFINE A1 == (2 * f + 1) * den  A2 == num * (2 * M)
      <4>1. A1 \in Int /\ A2 \in Int /\ A1 <= A2
        BY <1>1, <1>2, <3>2
      <4>2. A1 * (2 * t) <= A2 * (2 * t)
        <5> HIDE DEF A1, A2
        <5> QED
          BY <4>1
      <4>3. A1 * (2 * t) = (4 * f + 2) * dt
        BY <1>2
      <4>4. A2 * (2 * t) = N
        BY <1>1
      <4> QED
        BY <4>2, <4>3, <4>4
    <3>4. (4 * f + 2) * dt = 2 * ((2 * f) * dt) + 2 * dt
      BY <1>2, <1>7
    <3>5. X * B = X
      BY <1>7, <1>8, <2>3
    <3> HIDE DEF Xl, Yl, N, X, dt, B, f
    <3> DEFINE A3 == (4 * f + 2) * dt  A4 == (2 * f) * dt
    <3>6. A3 = 2 * A4 + 2 * dt /\ A3 <= N /\ Xl = A4 /\ A4 \in Nat /\ 2 * Yl = X
      BY <2>1, <2>2, <3>3, <3>4, <3>5
    <3> HIDE DEF A3, A4
    <3> QED
      BY <1>7, <2>2, <3>6
  <2>4. CASE b # 0
    <3>1. dt * (4 * M) <= N
      <4>1. den * t <= num * t
        BY <1>1
      <4>2. dt \in Int /\ num * t \in Int /\ 4 * M \in Nat
        BY <1>1, <1>7
      <4> DEFINE nt == num * t  M4 == 4 * M
      <4>3. dt <= nt /\ nt \in Int /\ M4 \in Nat
        BY <4>1, <4>2
      <4> HIDE DEF dt, nt, M4
      <4>4. dt * M4 <= nt * M4
        BY <4>2, <4>3
      <4> QED
        BY <4>4 DEF nt, M4
    <3>2. X * 2 <= X * B
      <4> HIDE DEF X, B
      <4> QED
        BY <1>7, <1>8, <2>4
    <3>3. (2 * f) * dt <= (4 * M - 2) * dt
      <4> DEFINE ff == 2 * f  mm == 4 * M - 2
      <4>1. ff \in Nat /\ mm \in Nat /\ ff <= mm
        BY <1>1, <1>2
      <4> QED
        BY <1>7, <4>1, TimesOrder
    <3>4. (4 * M - 2) * dt = dt * (4 * M) - 2 * dt /\ dt * (4 * M) \in Int
      BY <1>1, <1>7
    <3>5. X * B \in Int
      <4> HIDE DEF X, B
      <4> QED
        BY <1>7, <1>8
    <3> DEFINE A1 == dt * (4 * M)  A2 == (4 * M - 2) * dt  A3 == (2 * f) * dt  A4 == X * B
    <3>6. A1 <= N /\ X * 2 <= A4 /\ A3 <= A2 /\ A2 = A1 - 2 * dt /\ A1 \in Int /\ A3 \in Nat /\ A4 \in Int
          /\ Xl = A3 /\ 2 * Yl = A4
      BY <2>1, <2>2, <3>1, <3>2, <3>3, <3>4, <3>5
    <3> HIDE DEF Xl, Yl, N, X, dt, A1, A2, A3, A4
    <3> QED
      BY <1>7, <2>2, <3>6
  <2> QED
    BY <2>3, <2>4
<1>10. ~(h - e < a - b) /\ ~(a - b < h - e) /\ a \in Nat
  BY <1>2, <1>6
<1>11. DyadicLess(<<f, h - FracBits>>, <<nn, j>>)
  <2> HIDE DEF f, h, a, b, dt, B
  <2>1. IsRatio(1, 0, nn, j, e, xnum, dt)
    BY DEF dt
  <2>2. DyadicLess(<<f, h - FracBits>>, <<nn, j>>) <=>
          (2 * f) * 2^a * dt < (xnum * (2 * 2^FracBits)) * 2^b
    BY <1>2, <1>6, <1>7, <1>10, <2>1, ValueAgainst
  <2> QED
    BY <1>9, <2>2 DEF B
<1> QED
  BY <1>2, <1>11

\* The same for the posit above a boundary that the computed number does not pass.
LEMMA AboveClose ==
  ASSUME NEW q \in 1..(Largest - 1), NEW e \in Int, NEW num \in Nat, NEW den \in Nat,
         den > 0, den <= num, num < 2 * den, ~BelowRatio(BoundaryOf(q), e, num, den),
         NEW t \in Nat, t > 0, NEW xnum \in Nat, Close(num, den, t, xnum),
         NEW nn \in Nat, nn > 0, NEW j \in Int, IsRatio(1, 0, nn, j, e, xnum, den * t)
  PROVE  DyadicLess(<<nn, j>>, ValueOf(q+1, NBits, ES))
<1> DEFINE M == 2^FracBits  y == Extract(q+1)  k == y.fraction  h == y.exponent
<1>1. M \in Nat /\ M > 0 /\ FracBits \in Nat /\ q + 1 \in 1..Largest
  BY FormatPowers
<1>2. h \in Int /\ k \in M..(2*M-1) /\ k \in Nat /\ k > 0
      /\ ValueOf(q+1, NBits, ES) = <<k, h - FracBits>>
  <2> DEFINE q1 == q + 1
  <2>1. q1 \in 1..Largest
    BY <1>1
  <2> HIDE DEF q1
  <2>2. /\ Extract(q1).exponent \in Int /\ Extract(q1).fraction \in M..(2*M-1)
        /\ Extract(q1).fraction \in Nat /\ Extract(q1).fraction > 0
        /\ ValueOf(q1, NBits, ES) = <<Extract(q1).fraction, Extract(q1).exponent - FracBits>>
    BY <2>1, ValueIs
  <2> QED
    BY <2>2 DEF q1
<1>3. PICK r, D, s, g, m, l : GapAt(q, r, D, s, g, m, l)
  BY GapExists
<1>4. /\ D \in Nat /\ D > 0 /\ BoundaryOf(q) = <<g, s - (FracBits + 1)>> /\ s \in Int
      /\ g \in (2*M)..(4*M-1) /\ l \in Nat /\ h = s + l /\ ~((2 * k) * 2^l < g + D)
  BY <1>3 DEF GapAt
<1>5. s > e \/ (s = e /\ num * (2 * M) <= g * den)
  <2>1. BoundaryOf(q)[1] = g /\ BoundaryOf(q)[2] + FracBits + 1 = s
    BY <1>1, <1>4
  <2>2. g * den \in Int /\ num * (2 * M) \in Int
    BY <1>1, <1>4
  <2>3. ~(s < e) /\ ~(s = e /\ g * den < num * (2 * M))
    BY <2>1 DEF BelowRatio
  <2> QED
    BY <1>4, <2>2, <2>3
<1> DEFINE a == h - e  b == 0  A == 2^a  dt == den * t  N == (num * t) * (4 * M)  X == xnum * (4 * M)
           u == (2 * k) * A
<1>6. a \in Nat
  BY <1>2, <1>4, <1>5
<1>7. dt \in Nat /\ dt > 0 /\ N \in Nat /\ X \in Nat /\ X < N + 2 * dt /\ num * t \in Nat
  <2>1. den * t \in Nat /\ den * t > 0 /\ num * t \in Nat
    BY Z3
  <2>2. (num * t) * (4 * M) \in Nat /\ xnum * (4 * M) \in Nat
    BY <1>1, <2>1
  <2> QED
    BY <2>1, <2>2 DEF Close
<1>8. 2^b = 1 /\ A \in Nat /\ A > 0 /\ u \in Nat
  <2>1. A \in Nat /\ A > 0
    BY <1>6, PowerPositive
  <2>2. 2^b = 1
    BY PowerZero
  <2> HIDE DEF A, k
  <2> QED
    BY <1>2, <2>1, <2>2
<1> DEFINE Xl == u * dt  Yl == (xnum * (2 * M)) * 2^b
<1>9. Yl < Xl
  <2>1. 2 * Yl = X /\ Yl \in Nat /\ Xl \in Nat
    <3>1. xnum * (2 * M) \in Nat /\ 2 * (xnum * (2 * M)) = X
      BY <1>1
    <3> DEFINE z == xnum * (2 * M)
    <3> HIDE DEF z, b, X, u, dt
    <3> QED
      BY <1>7, <1>8, <3>1 DEF z
  <2>2. CASE s = e
    <3>1. u >= g + 1
      <4>1. a = l
        BY <1>2, <1>4, <2>2
      <4> QED
        BY <1>4, <1>8, <4>1
    <3>2. N <= (2 * g) * dt
      <4> DEFINE A1 == g * den  A2 == num * (2 * M)
      <4>1. A1 \in Int /\ A2 \in Int /\ A2 <= A1
        BY <1>1, <1>4, <1>5, <2>2
      <4>2. A2 * (2 * t) <= A1 * (2 * t)
        <5> HIDE DEF A1, A2
        <5> QED
          BY <4>1
      <4>3. A1 * (2 * t) = (2 * g) * dt
        BY <1>4
      <4>4. A2 * (2 * t) = N
        BY <1>1
      <4> QED
        BY <4>2, <4>3, <4>4
    <3>3. (g + 1) * dt <= u * dt
      <4> DEFINE gg == g + 1
      <4>1. gg \in Int /\ gg <= u
        BY <1>4, <3>1
      <4>2. u \in Int
        BY <1>8
      <4> QED
        BY <1>7, <4>1, <4>2, TimesOrder
    <3>4. (g + 1) * dt = g * dt + dt /\ (2 * g) * dt = 2 * (g * dt) /\ g * dt \in Int
      BY <1>4, <1>7
    <3> DEFINE A3 == (g + 1) * dt  A4 == (2 * g) * dt  A5 == g * dt
    <3>5. N <= A4 /\ A3 <= Xl /\ A3 = A5 + dt /\ A4 = 2 * A5 /\ A5 \in Int
      BY <3>2, <3>3, <3>4
    <3> HIDE DEF A3, A4, A5, N, X, Xl, Yl, dt
    <3> QED
      BY <1>7, <2>1, <3>5
  <2>3. CASE s > e
    <3>1. u >= 4 * M + 2
      <4> DEFINE i == a - l  I == 2^i  L == 2^l
      <4>1. i \in Nat /\ i # 0 /\ a = l + i
        BY <1>2, <1>4, <2>3
      <4>2. I \in Nat /\ I >= 2
        <5> DEFINE c == i - 1
        <5>1. c \in Nat /\ c + 1 = i
          BY <4>1
        <5>2. 2^(c+1) = 2 * 2^c /\ 2^c \in Nat /\ 2^c > 0
          BY <5>1, PowerNext, PowerPositive
        <5> HIDE DEF c, i
        <5> QED
          BY <5>1, <5>2
      <4>3. A = L * I /\ L \in Nat
        <5> HIDE DEF i
        <5>1. 2^(l+i) = 2^l * 2^i /\ 2^l \in Nat
          BY <1>4, <4>1, PowerSum, PowerPositive
        <5> QED
          BY <4>1, <5>1
      <4> DEFINE w == (2 * k) * L
      <4>4. w \in Nat /\ w >= 2 * M + 1
        <5>1. w \in Nat
          <6> HIDE DEF L, k
          <6> QED
            BY <1>2, <4>3
        <5> QED
          BY <1>1, <1>4, <5>1
      <4>5. u = w * I
        <5> HIDE DEF L, I, k
        <5> QED
          BY <1>2, <4>2, <4>3
      <4> HIDE DEF w, I, u
      <4>6. w * 2 <= w * I /\ w * I \in Nat
        BY <4>2, <4>4
      <4> QED
        BY <1>1, <4>4, <4>5, <4>6
    <3>2. N <= dt * (8 * M)
      <4>1. num * t <= (2 * den) * t
        BY <1>1
      <4> DEFINE nt == num * t  M4 == 4 * M
      <4>2. nt <= 2 * dt /\ nt \in Int /\ M4 \in Nat /\ (2 * dt) \in Int
        BY <1>1, <1>7, <4>1
      <4>3. nt * M4 <= (2 * dt) * M4
        <5> DEFINE dd == 2 * dt
        <5>1. dd \in Int /\ nt <= dd
          BY <4>2
        <5> HIDE DEF dt, nt, M4, dd
        <5>2. nt * M4 <= dd * M4
          BY <4>2, <5>1
        <5> QED
          BY <5>2 DEF dd
      <4>4. (2 * dt) * M4 = dt * (8 * M)
        <5> HIDE DEF dt
        <5> QED
          BY <1>1, <1>7
      <4> QED
        BY <4>3, <4>4
    <3>3. (4 * M + 2) * dt <= u * dt
      <4> DEFINE gg == 4 * M + 2
      <4>1. gg \in Int /\ gg <= u
        BY <1>1, <3>1
      <4>2. u \in Int
        BY <1>8
      <4> QED
        BY <1>7, <4>1, <4>2, TimesOrder
    <3>4. (4 * M + 2) * dt = 4 * (dt * M) + 2 * dt /\ dt * (8 * M) = 8 * (dt * M) /\ dt * M \in Int
      <4> HIDE DEF dt
      <4> QED
        BY <1>1, <1>7
    <3> DEFINE A3 == (4 * M + 2) * dt  A4 == dt * (8 * M)  A5 == dt * M
    <3>5. N <= A4 /\ A3 <= Xl /\ A3 = 4 * A5 + 2 * dt /\ A4 = 8 * A5 /\ A5 \in Int
      BY <3>2, <3>3, <3>4
    <3> HIDE DEF A3, A4, A5, N, X, Xl, Yl, dt
    <3> QED
      BY <1>7, <2>1, <3>5
  <2> QED
    BY <1>5, <2>2, <2>3
<1>10. ~(h - e < a - b) /\ ~(a - b < h - e) /\ b \in Nat
  BY <1>2, <1>6
<1>11. DyadicLess(<<nn, j>>, <<k, h - FracBits>>)
  <2> HIDE DEF k, h, a, b, dt
  <2>1. IsRatio(1, 0, nn, j, e, xnum, dt)
    BY DEF dt
  <2>2. DyadicLess(<<nn, j>>, <<k, h - FracBits>>) <=>
          (xnum * (2 * 2^FracBits)) * 2^b < (2 * k) * 2^a * dt
    BY <1>2, <1>6, <1>7, <1>10, <2>1, ValueAgainst
  <2> QED
    BY <1>9, <2>2
<1> QED
  BY <1>2, <1>11

\* p is next to the number nn * 2^j, or the number itself.
Around(p, nn, j) ==
  /\ p \in 1..Largest
  /\ p = 1 \/ DyadicLess(ValueOf(p-1, NBits, ES), <<nn, j>>)
  /\ \/ p = Largest
     \/ /\ DyadicLess(<<nn, j>>, ValueOf(p+1, NBits, ES))
        /\ ~DyadicLess(ValueOf(p+1, NBits, ES), <<nn, j>>)

LEMMA LessOnce ==
  ASSUME NEW a \in Nat, a > 0, NEW i \in Int, NEW b \in Nat, b > 0, NEW j \in Int,
         DyadicLess(<<a, i>>, <<b, j>>)
  PROVE  ~DyadicLess(<<b, j>>, <<a, i>>)
<1> DEFINE K == IF i < j THEN -i ELSE -j
<1>1. K \in Int /\ i + K \in Nat /\ j + K \in Nat
  OBVIOUS
<1> HIDE DEF K
<1> DEFINE p == a * 2^(i+K)  q == b * 2^(j+K)
<1>2. DyadicLess(<<a, i>>, <<b, j>>) <=> p < q
  BY <1>1, LessScaled
<1>3. DyadicLess(<<b, j>>, <<a, i>>) <=> q < p
  BY <1>1, LessScaled
<1>4. p \in Int /\ q \in Int
  <2>1. 2^(i+K) \in Nat /\ 2^(j+K) \in Nat
    BY <1>1, PowerPositive
  <2> QED
    BY <2>1
<1> HIDE DEF p, q
<1> QED
  BY <1>2, <1>3, <1>4

\* The rounding of a number is next to every number close to it.
LEMMA AroundClose ==
  ASSUME NEW p, NEW e \in Int, NEW num \in Nat, NEW den \in Nat,
         den > 0, den <= num, num < 2 * den, RoundsRatio(p, NBits, ES, e, num, den),
         NEW t \in Nat, t > 0, NEW xnum \in Nat, Close(num, den, t, xnum),
         NEW nn \in Nat, nn > 0, NEW j \in Int, IsRatio(1, 0, nn, j, e, xnum, den * t)
  PROVE  Around(p, nn, j)
<1>1. RoundsAt(p, e, num, den)
  BY RatioRounds
<1>2. p \in 1..Largest /\ Largest \in Nat
  BY <1>1, FormatPowers DEF RoundsAt
<1>3. p = 1 \/ DyadicLess(ValueOf(p-1, NBits, ES), <<nn, j>>)
  <2>1. CASE p # 1
    <3> DEFINE q == p - 1
    <3>1. q \in 1..(Largest - 1)
      BY <1>2, <2>1
    <3>2. BelowRatio(BoundaryOf(q), e, num, den) \/ OnRatio(BoundaryOf(q), e, num, den)
      BY <1>1, <2>1 DEF RoundsAt
    <3> HIDE DEF q
    <3>3. DyadicLess(ValueOf(q, NBits, ES), <<nn, j>>)
      BY <3>1, <3>2, BelowClose
    <3> QED
      BY <3>3 DEF q
  <2> QED
    BY <2>1
<1>4. p = Largest \/ (DyadicLess(<<nn, j>>, ValueOf(p+1, NBits, ES))
                      /\ ~DyadicLess(ValueOf(p+1, NBits, ES), <<nn, j>>))
  <2>1. CASE p # Largest
    <3>1. p \in 1..(Largest - 1)
      BY <1>2, <2>1
    <3>2. ~BelowRatio(BoundaryOf(p), e, num, den)
      BY <1>1, <2>1 DEF RoundsAt
    <3> DEFINE q == p + 1  v == ValueOf(q, NBits, ES)
    <3>3. DyadicLess(<<nn, j>>, v)
      BY <3>1, <3>2, AboveClose
    <3>4. q \in 1..Largest
      BY <1>2, <3>1
    <3> HIDE DEF q
    <3>5. PICK a \in Nat, i \in Int : a > 0 /\ v = <<a, i>>
      <4>1. FracBits \in Nat
        BY FormatPowers
      <4>2. Extract(q).exponent - FracBits \in Int
        BY <3>4, <4>1, ValueIs
      <4> QED
        BY <3>4, <4>2, ValueIs
    <3>6. ~DyadicLess(v, <<nn, j>>)
      BY <3>3, <3>5, LessOnce
    <3> QED
      BY <3>3, <3>6 DEF q
  <2> QED
    BY <2>1
<1> QED
  BY <1>2, <1>3, <1>4 DEF Around

LEMMA DyadicSurrounds ==
  ASSUME NEW p, NEW negative \in BOOLEAN, NEW x, NEW nn, NEW j,
         Around(IF negative THEN Opposite(p, NBits) ELSE p, nn, j),
         x[1] # 0, Magnitude(x) = <<nn, j>>, x[1] < 0 <=> negative
  PROVE  Surrounds(p, NBits, ES, x)
<1> DEFINE q == IF negative THEN Opposite(p, NBits) ELSE p
           q0 == IF x[1] < 0 THEN Opposite(p, NBits) ELSE p
<1>1. Largest = 2^(NBits-1) - 1
  BY FormatPowers
<1>2. q = q0
  OBVIOUS
<1>3. Around(q, nn, j)
  OBVIOUS
<1> HIDE DEF q, q0
<1>4. LET Above(m) == DyadicLess(m, Magnitude(x))
          At(m)    == DyadicEqual(m, Magnitude(x))
      IN  SurroundsPositive(q0, NBits, ES, Above, At)
  <2>1. q0 \in 1..(2^(NBits-1) - 1)
    BY <1>1, <1>2, <1>3 DEF Around
  <2>2. q0 = 1 \/ DyadicLess(ValueOf(q0-1, NBits, ES), Magnitude(x))
    BY <1>2, <1>3 DEF Around
  <2>3. \/ q0 = 2^(NBits-1) - 1
        \/ ~(\/ DyadicLess(ValueOf(q0+1, NBits, ES), Magnitude(x))
             \/ DyadicEqual(ValueOf(q0+1, NBits, ES), Magnitude(x)))
    BY <1>1, <1>2, <1>3 DEF Around, DyadicEqual
  <2> QED
    BY <2>1, <2>2, <2>3, Zenon DEF SurroundsPositive
<1> QED
  BY <1>4, Zenon DEF Surrounds, q0

\* A common factor of a ratio does not count.
LEMMA RatioReduced ==
  ASSUME NEW s \in Nat, NEW k \in Int, NEW nn \in Nat, NEW j \in Int, NEW e \in Int,
         NEW num \in Nat, NEW den \in Nat, NEW t \in Nat, t > 0,
         IsRatio(s, k, nn, j, e, num * t, den * t)
  PROVE  IsRatio(s, k, nn, j, e, num, den)
<1> DEFINE M2 == 2 * 2^FracBits
<1>1. M2 \in Nat
  BY FormatPowers
<1>2. PICK u \in Nat, v \in Nat, K \in Nat \ {0}, L \in Nat \ {0} :
        /\ K * (s * 2^u) = L * (den * t)
        /\ K * (nn * 2^v) = L * ((num * t) * M2)
        /\ (k - u) - (j - v) = FracBits + 1 - e
  BY DEF IsRatio
<1> DEFINE L1 == L * t
<1> HIDE DEF M2
<1>3. L1 \in Nat \ {0} /\ L * (den * t) = L1 * den /\ L * ((num * t) * M2) = L1 * (num * M2)
  <2>1. L1 \in Nat /\ L1 > 0
    BY Z3
  <2> QED
    BY <1>1, <2>1
<1> HIDE DEF L1
<1>4. K * (s * 2^u) = L1 * den /\ K * (nn * 2^v) = L1 * (num * M2)
  BY <1>2, <1>3
<1> QED
  BY <1>2, <1>3, <1>4 DEF IsRatio, M2

-----------------------------------------------------------------------------
(* Exact sums.                                                             *)

\* The number of zero bits at the end of a whole number.
LEMMA TrailingZerosExist ==
  ASSUME NEW a \in Int, a # 0, NEW A \in Nat, A = IF a < 0 THEN -a ELSE a
  PROVE  \E k \in 0..A : a % 2^k = 0 /\ (a \div 2^k) % 2 = 1
<1> DEFINE S == {k \in Nat : a % 2^(k+1) # 0}
<1>1. A \in Nat /\ A > 0
  OBVIOUS
<1>2. A \in S
  <2>1. 2^(A+1) = 2 * 2^A /\ 2^A >= A /\ 2^A \in Nat
    BY PowerNext, PowerAbove, PowerPositive
  <2> DEFINE m == 2^(A+1)
  <2>2. m \in Nat /\ m > A /\ A > 0
    BY <1>1, <2>1
  <2> HIDE DEF m
  <2>3. a % m # 0
    <3>1. CASE a >= 0
      <4>1. a % m = a
        BY <2>2, <3>1
      <4> QED
        BY <4>1
    <3>2. CASE a < 0
      <4> DEFINE q == a \div m  w == a % m
      <4>1. w \in 0..(m-1) /\ a = q * m + w /\ q \in Int
        BY <2>2, DivParts
      <4>2. CASE w = 0
        <5> HIDE DEF q, w
        <5>0. q * m \in Int
          BY <2>2, <4>1
        <5>1. a = q * m /\ q \in Int
          BY <4>1, <4>2, <5>0
        <5>2. q >= 0 => q * m >= 0
          BY <2>2, <5>1
        <5>3. q <= -1 => q * m <= -m
          BY <2>2, <5>1
        <5> QED
          BY <2>2, <3>2, <5>1, <5>2, <5>3
      <4> QED
        BY <4>2
    <3> QED
      BY <3>1, <3>2
  <2> QED
    BY <2>3 DEF m
<1>3. PICK k \in S : \A i \in S : k <= i
  BY <1>2, LeastMember
<1>4. k \in Nat /\ k \in 0..A
  BY <1>2, <1>3
<1> DEFINE m == 2^k
<1>5. m \in Nat /\ m > 0 /\ 2^(k+1) = 2 * m
  BY <1>4, PowerPositive, PowerNext
<1>6. a % m = 0
  <2>1. CASE k = 0
    <3>1. m = 1
      BY <2>1, PowerZero
    <3>2. a % 1 = 0
      OBVIOUS
    <3> QED
      BY <3>1, <3>2
  <2>2. CASE k # 0
    <3> DEFINE i == k - 1
    <3>1. i \in Nat /\ i + 1 = k /\ ~(k <= i)
      BY <1>4, <2>2
    <3>2. i \notin S
      BY <1>3, <3>1
    <3>3. a % 2^(i+1) = 0
      <4> HIDE DEF i
      <4> QED
        BY <3>1, <3>2
    <3> QED
      BY <3>1, <3>3
  <2> QED
    BY <2>1, <2>2
<1>7. (a \div m) % 2 = 1
  <2> DEFINE b == a \div m  c == b \div 2  w == b % 2
  <2>1. b \in Int /\ a = b * m
    <3>1. a = b * m + (a % m) /\ b \in Int
      BY <1>5, DivParts
    <3> HIDE DEF b
    <3>2. b * m \in Int
      BY <1>5, <3>1
    <3> QED
      BY <1>6, <3>1, <3>2
  <2>2. c \in Int /\ w \in {0, 1} /\ b = 2 * c + w
    <3>1. b \in Int
      BY <2>1
    <3> HIDE DEF b
    <3> QED
      BY <3>1
  <2>3. CASE w = 0
    <3>1. b = 2 * c
      BY <2>2, <2>3
    <3> HIDE DEF b, c
    <3> DEFINE m2 == 2 * m
    <3>2. a = c * m2 + 0
      BY <1>5, <2>1, <2>2, <3>1
    <3>3. m2 \in Nat /\ m2 > 0 /\ 0 \in 0..(m2-1)
      BY <1>5
    <3> DEFINE z == 0
    <3>4. a = c * m2 + z /\ z \in 0..(m2-1)
      BY <3>2, <3>3
    <3> HIDE DEF m2, z
    <3>5. a % m2 = z
      BY <2>2, <3>3, <3>4, DivIs
    <3>6. a % 2^(k+1) # 0
      BY <1>3
    <3> QED
      BY <1>5, <3>5, <3>6 DEF z, m2
  <2> QED
    BY <2>2, <2>3
<1> QED
  BY <1>4, <1>6, <1>7

LEMMA ReducedIs ==
  ASSUME NEW a \in Int, a # 0, NEW i \in Int
  PROVE  \E b \in Int, k \in Nat : b * 2^k = a /\ Reduced(<<a, i>>) = <<b, i + k>>
<1> DEFINE x == <<a, i>>  A == IF a < 0 THEN -a ELSE a
           k == CHOOSE k \in 0..A : a % 2^k = 0 /\ (a \div 2^k) % 2 = 1
<1>1. A \in Nat /\ Magnitude(x)[1] = A /\ x[1] = a /\ x[2] = i
  BY DEF Magnitude, Negative
<1>2. k \in 0..A /\ a % 2^k = 0
  <2> HIDE DEF A
  <2>1. \E m \in 0..A : a % 2^m = 0 /\ (a \div 2^m) % 2 = 1
    BY <1>1, TrailingZerosExist DEF A
  <2> QED
    BY <2>1
<1>3. Reduced(x) = <<a \div 2^k, i + k>>
  BY <1>1 DEF Reduced
<1> HIDE DEF k, A
<1>4. k \in Nat /\ 2^k \in Nat /\ 2^k > 0
  BY <1>1, <1>2, PowerPositive
<1> DEFINE m == 2^k  b == a \div m
<1>5. b \in Int /\ b * m = a
  <2>1. a = b * m + (a % m) /\ b \in Int
    BY <1>4, DivParts
  <2> HIDE DEF b
  <2>2. b * m \in Int
    BY <1>4, <2>1
  <2> QED
    BY <1>2, <2>1, <2>2
<1> QED
  BY <1>3, <1>4, <1>5

\* The sum as whole numbers of a unit that is small enough for both.
LEMMA PlusIs ==
  ASSUME NEW a \in Int, a # 0, NEW i \in Int, NEW b \in Int, b # 0, NEW j \in Int,
         NEW K \in Int, i + K \in Nat, j + K \in Nat
  PROVE  \E c \in Int, e \in Int :
           /\ Plus(<<a, i>>, <<b, j>>) = <<c, e>>
           /\ e + K \in Nat
           /\ c * 2^(e+K) = a * 2^(i+K) + b * 2^(j+K)
<1>1. PICK a1 \in Int, k \in Nat : a1 * 2^k = a /\ Reduced(<<a, i>>) = <<a1, i + k>>
  BY ReducedIs
<1>2. PICK b1 \in Int, l \in Nat : b1 * 2^l = b /\ Reduced(<<b, j>>) = <<b1, j + l>>
  BY ReducedIs
<1> DEFINE u == i + k  v == j + l  e == IF u < v THEN u ELSE v
           c == a1 * 2^(u-e) + b1 * 2^(v-e)
<1>3. Plus(<<a, i>>, <<b, j>>) = <<c, e>>
  <2> DEFINE x == <<a, i>>  y == <<b, j>>  s == <<a1, u>>  t == <<b1, v>>
  <2>1. x[1] # 0 /\ y[1] # 0 /\ Reduced(x) = s /\ Reduced(y) = t
    BY <1>1, <1>2
  <2>2. s[1] = a1 /\ s[2] = u /\ t[1] = b1 /\ t[2] = v
    OBVIOUS
  <2> HIDE DEF x, y, s, t, u, v
  <2>3. Plus(x, y) = <<a1 * 2^(u-e) + b1 * 2^(v-e), e>>
    BY <2>1, <2>2 DEF Plus
  <2> QED
    BY <2>3 DEF x, y
<1>4. u \in Int /\ v \in Int /\ e \in Int /\ u - e \in Nat /\ v - e \in Nat /\ e + K \in Nat
      /\ (u - e) + (e + K) = k + (i + K) /\ (v - e) + (e + K) = l + (j + K)
  BY <1>1, <1>2
<1> HIDE DEF u, v, e
<1> DEFINE U == 2^(u-e)  V == 2^(v-e)  E == 2^(e+K)  I == 2^(i+K)  J == 2^(j+K)  A == 2^k  B == 2^l
<1>5. /\ U \in Nat /\ V \in Nat /\ E \in Nat /\ I \in Nat /\ J \in Nat /\ A \in Nat /\ B \in Nat
      /\ U * E = A * I /\ V * E = B * J
  <2>1. U \in Nat /\ V \in Nat /\ E \in Nat /\ I \in Nat /\ J \in Nat /\ A \in Nat /\ B \in Nat
    BY <1>1, <1>2, <1>4, PowerPositive
  <2>2. 2^((u-e) + (e+K)) = U * E /\ 2^(k + (i+K)) = A * I
        /\ 2^((v-e) + (e+K)) = V * E /\ 2^(l + (j+K)) = B * J
    BY <1>1, <1>2, <1>4, PowerSum
  <2> QED
    BY <1>4, <2>1, <2>2
<1>6. a1 * A = a /\ b1 * B = b
  BY <1>1, <1>2
<1> HIDE DEF U, V, E, I, J, A, B
<1>7. (a1 * U + b1 * V) \in Int /\ (a1 * U + b1 * V) * E = a * I + b * J
  <2>1. (a1 * U + b1 * V) * E = a1 * (U * E) + b1 * (V * E)
    BY <1>1, <1>2, <1>5
  <2>2. a1 * (A * I) = a * I /\ b1 * (B * J) = b * J
    BY <1>1, <1>2, <1>5, <1>6
  <2>3. a1 * (U * E) = a1 * (A * I) /\ b1 * (V * E) = b1 * (B * J)
    BY <1>5
  <2>4. (a1 * U + b1 * V) \in Int
    BY <1>1, <1>2, <1>5
  <2> QED
    BY <2>1, <2>2, <2>3, <2>4
<1>8. c \in Int /\ c * 2^(e+K) = a * 2^(i+K) + b * 2^(j+K)
  BY <1>7 DEF U, V, E, I, J
<1> HIDE DEF c
<1> QED
  BY <1>3, <1>4, <1>8

-----------------------------------------------------------------------------
(* Widths and fields of products, exact sums and products as dyadic        *)
(* numbers, and what a sticky bit decides.                                 *)

\* The widths of a product: M for a fraction, K for what falls to the sticky bit.
LEMMA ProductWidths ==
  \E K \in Nat \ {0} :
    /\ 2^FracBits = 2 * K /\ 2^(HiddenBits-TrailingBits) = K
    /\ 2^HiddenBits = 4 * K /\ 2^(MulBits-1) = 8 * (K * K) /\ 2^TrailingBits = 4
<1> DEFINE j == FracBits - 1  K == 2^j
<1>1. /\ j \in Nat /\ j + 1 = FracBits /\ FracBits + 1 = HiddenBits /\ j = HiddenBits - TrailingBits
      /\ MulBits - 1 = (FracBits + FracBits) + 1 /\ TrailingBits = 2
      /\ FracBits \in Nat /\ FracBits + FracBits \in Nat
  BY FormatAssumption DEF FracBits, HiddenBits, TrailingBits, MulBits
<1>2. K \in Nat \ {0} /\ 2^(j+1) = 2 * K
  BY <1>1, PowerNext, PowerPositive
<1>3. 2^FracBits = 2 * K
  BY <1>1, <1>2
<1>4. 2^(FracBits+1) = 2 * 2^FracBits /\ 2^(FracBits+FracBits) = 2^FracBits * 2^FracBits
      /\ 2^((FracBits+FracBits)+1) = 2 * 2^(FracBits+FracBits)
  BY <1>1, PowerNext, PowerSum
<1>5. 2^2 = 4
  OBVIOUS
<1>6. 2^(HiddenBits-TrailingBits) = K
  BY <1>1
<1> HIDE DEF K
<1>7. 2^HiddenBits = 4 * K
  BY <1>1, <1>2, <1>3, <1>4
<1>8. 2^(MulBits-1) = 8 * (K * K)
  <2>1. 2 * ((2 * K) * (2 * K)) = 8 * (K * K)
    BY <1>2
  <2> QED
    BY <1>1, <1>3, <1>4, <2>1
<1>9. 2^TrailingBits = 4
  BY <1>1, <1>5
<1> QED
  BY <1>2, <1>3, <1>6, <1>7, <1>8, <1>9

\* Three fields of a number, from the left.
LEMMA ThreeFields ==
  ASSUME NEW m \in Nat, NEW K \in Nat, K > 0
  PROVE  /\ m = (4 * (m \div (4 * K)) + ((m \div K) % 4)) * K + (m % K)
         /\ m \div (4 * K) \in Nat /\ (m \div K) % 4 \in 0..3 /\ m % K \in 0..(K-1)
<1> DEFINE i == m \div K  c == m % K  a == i \div 4  b == i % 4
<1>1. i \in Nat /\ c \in 0..(K-1) /\ m = i * K + c
  <2>1. i \in Nat /\ c \in 0..(K-1) /\ m = K * i + c
    OBVIOUS
  <2> HIDE DEF i, c
  <2> QED
    BY <2>1
<1> HIDE DEF i, c
<1>2. a \in Nat /\ b \in 0..3 /\ i = 4 * a + b
  BY <1>1
<1> HIDE DEF a, b
<1> DEFINE s == b * K + c  n == 4 * K
<1>3. n \in Nat /\ n > 0 /\ s \in 0..(n-1)
  <2>1. b * K <= 3 * K /\ b * K \in Nat
    BY <1>2
  <2> QED
    BY <1>1, <2>1
<1>4. m = a * n + s
  <2>1. (4 * a + b) * K = a * (4 * K) + b * K /\ a * (4 * K) \in Int /\ b * K \in Int
    BY <1>2
  <2> QED
    BY <1>1, <1>2, <2>1
<1>5. m \div (4 * K) = a
  <2> HIDE DEF n, s
  <2>1. m \div n = a
    BY <1>2, <1>3, <1>4, DivIs
  <2> QED
    BY <2>1 DEF n
<1> QED
  BY <1>1, <1>2, <1>5 DEF i, b, c

LEMMA SumDigits ==
  ASSUME NEW u, Normalized(u), NEW trailing \in 0..3, NEW sticky \in BOOLEAN,
         NEW c \in Nat, c > 0, NEW rest \in 0..(c-1), sticky <=> rest # 0
  PROVE  DigitsOf(u, trailing, sticky, c * (4 * u.fraction + trailing) + rest,
                  c * (4 * 2^FracBits))
<1> DEFINE M4 == 4 * 2^FracBits  T == 4 * u.fraction + trailing  num == c * T + rest
           den == c * M4  more == rest * M4
<1>1. M4 \in Nat /\ M4 > 0 /\ T \in Nat
  <2>1. 2^FracBits \in Nat /\ 2^FracBits > 0
    BY FormatPowers
  <2>2. u.fraction \in Nat
    BY <2>1 DEF Normalized
  <2> QED
    BY <2>1, <2>2
<1> HIDE DEF M4, T
<1>2. num \in Nat /\ den \in Nat \ {0} /\ more \in Nat /\ c * T \in Nat
  BY <1>1
<1>3. more \in 0..(den-1)
  <2>1. (rest + 1) * M4 <= c * M4
    <3> DEFINE s == rest + 1
    <3>1. s \in Int /\ s <= c
      OBVIOUS
    <3> QED
      BY <1>1, <3>1, TimesOrder
  <2>2. (rest + 1) * M4 = rest * M4 + M4
    BY <1>1
  <2> HIDE DEF more, den
  <2>3. more + M4 <= den
    BY <2>1, <2>2 DEF more, den
  <2> QED
    BY <1>1, <1>2, <2>3
<1>4. num * M4 = T * den + more
  BY <1>1
<1>5. sticky <=> more # 0
  BY <1>1
<1> HIDE DEF num, den, more
<1>6. DigitsOf(u, trailing, sticky, num, den)
  BY <1>2, <1>3, <1>4, <1>5 DEF DigitsOf, T, M4
<1> QED
  BY <1>6 DEF num, den, T, M4

\* nn * 2^j is W units of the last place of the number with exponent se.
WholeIs(nn, j, se, W) ==
  j + FracBits - se \in Nat /\ nn * 2^(j + FracBits - se) = W

\* The dyadic number c * 2^e is the sum, with the sign of the larger addend.
ExactIs(c, e, ls, W, se) ==
  e + FracBits - se \in Nat /\ c * 2^(e + FracBits - se) = IF ls THEN -W ELSE W

\* What that says of the sign and of the magnitude of c * 2^e.
SignsOfSum(c, e, ls, W, se) ==
  /\ c = 0 <=> W = 0
  /\ \E nn \in Nat : /\ Magnitude(<<c, e>>) = <<nn, e>> /\ WholeIs(nn, e, se, W)
                     /\ W > 0 => nn > 0 /\ (c < 0 <=> ls)

LEMMA ExactSigns ==
  ASSUME NEW c \in Int, NEW e \in Int, NEW se \in Int, NEW ls \in BOOLEAN, NEW W \in Nat,
         ExactIs(c, e, ls, W, se)
  PROVE  SignsOfSum(c, e, ls, W, se)
<1> DEFINE v == e + FracBits - se  V == 2^v  nn == IF c < 0 THEN -c ELSE c
<1>1. v \in Nat /\ c * V = IF ls THEN -W ELSE W
  BY DEF ExactIs
<1>2. V \in Nat /\ V > 0
  <2> HIDE DEF v
  <2> QED
    BY <1>1, PowerPositive
<1> HIDE DEF V, v
<1>3. nn \in Nat /\ (c < 0 => nn > 0) /\ (c > 0 => nn > 0)
  OBVIOUS
<1>4. (c < 0 => c * V < 0) /\ (c > 0 => c * V > 0) /\ (c = 0 => c * V = 0)
  BY <1>2
<1>5. (c < 0 => (-c) * V = -(c * V)) /\ c * V \in Int
  BY <1>2
<1>6. nn * V = W
  <2>1. CASE c < 0
    BY <1>1, <1>4, <1>5, <2>1
  <2>2. CASE ~(c < 0)
    BY <1>1, <1>4, <1>5, <2>2
  <2> QED
    BY <2>1, <2>2
<1>7. (c = 0 <=> W = 0) /\ (W > 0 => nn > 0 /\ (c < 0 <=> ls))
  BY <1>1, <1>3, <1>4, <1>5
<1>8. Magnitude(<<c, e>>) = <<nn, e>>
  BY DEF Magnitude, Negative
<1>9. WholeIs(nn, e, se, W)
  BY <1>1, <1>6 DEF WholeIs, v, V
<1> HIDE DEF nn
<1> QED
  BY <1>3, <1>7, <1>8, <1>9 DEF SignsOfSum

\* A term of the sum, from its sign, its fraction and its exponent.
TermIs(v, sign, f, e) == v = <<IF sign THEN -f ELSE f, e - FracBits>>

LEMMA NegatedTerm ==
  ASSUME NEW v, NEW sign \in BOOLEAN, NEW f \in Int, NEW e \in Int, NEW sub \in BOOLEAN,
         TermIs(v, sign, f, e)
  PROVE  TermIs(IF sub THEN Negative(v) ELSE v, sign # sub, f, e)
<1> DEFINE a == IF sign THEN -f ELSE f  i == e - FracBits
           b == IF sign # sub THEN -f ELSE f
<1>1. v = <<a, i>>
  BY DEF TermIs
<1>2. a \in Int /\ (sub => -a = b) /\ (~sub => a = b)
  OBVIOUS
<1> HIDE DEF a, b, i
<1>3. v[1] = a /\ v[2] = i
  BY <1>1
<1>4. (IF sub THEN Negative(v) ELSE v) = <<b, i>>
  <2>1. CASE sub
    <3>1. Negative(v) = <<b, i>>
      BY <1>2, <1>3, <2>1 DEF Negative
    <3> QED
      BY <2>1, <3>1
  <2>2. CASE ~sub
    BY <1>1, <1>2, <2>2
  <2> QED
    BY <2>1, <2>2
<1> QED
  BY <1>4 DEF TermIs, b, i

\* z is the sum of u and v, in one order or the other.
IsSum(z, u, v) == z = Plus(u, v) \/ z = Plus(v, u)

\* A number has a magnitude above zero.
LEMMA TermSign ==
  ASSUME NEW v, NEW sign \in BOOLEAN, NEW f \in Nat, f > 0, NEW e, TermIs(v, sign, f, e)
  PROVE  v[1] # 0
<1> DEFINE w == IF sign THEN -f ELSE f
<1>1. w # 0
  OBVIOUS
<1>2. v[1] = w
  BY DEF TermIs
<1> QED
  BY <1>1, <1>2

\* A product of fractions, with 1.0 in this place, has MulBits-1 places before it carries.
ProductOne == 2^FracBits * 2^FracBits

LEMMA FusedWidths ==
  LET M == 2^FracBits
      H == ProductOne
  IN  /\ MulBits \in Nat /\ MulBits >= 2 /\ MulBits = FracBits + FracBits + 2
      /\ FracBits \in Nat /\ FracBits >= 1
      /\ M \in Nat /\ M >= 2 /\ H \in Nat /\ H >= M
      /\ 2^(FracBits+FracBits) = H /\ 2^(MulBits-1) = 2 * H /\ 2^MulBits = 4 * H
<1> DEFINE M == 2^FracBits  H == ProductOne  w == FracBits + FracBits  e == FracBits - 1
<1>1. /\ FracBits \in Nat /\ FracBits >= 1 /\ MulBits = w + 2 /\ MulBits - 1 = w + 1
      /\ MulBits = (w + 1) + 1 /\ w \in Nat /\ w + 1 \in Nat /\ MulBits \in Nat /\ MulBits >= 2
      /\ e \in Nat /\ e + 1 = FracBits
  BY FormatAssumption DEF FracBits, HiddenBits, MulBits
<1>2. M \in Nat /\ M >= 2
  <2>1. 2^(e+1) = 2 * 2^e /\ 2^e \in Nat /\ 2^e > 0
    BY <1>1, PowerNext, PowerPositive
  <2> HIDE DEF e
  <2> QED
    BY <1>1, <2>1
<1>3. 2^w = H /\ H = M * M
  BY <1>1, PowerSum DEF ProductOne
<1>4. 2^(w+1) = 2 * 2^w /\ 2^((w+1)+1) = 2 * 2^(w+1)
  BY <1>1, PowerNext
<1>5. H \in Nat /\ H >= M
  <2> HIDE DEF M
  <2>1. 1 * M <= M * M /\ M * M \in Nat
    BY <1>2
  <2> QED
    BY <1>2, <1>3, <2>1
<1> HIDE DEF H, M
<1>6. 2^(MulBits-1) = 2 * H /\ 2^MulBits = 4 * H
  BY <1>1, <1>3, <1>4, <1>5
<1> QED
  BY <1>1, <1>2, <1>3, <1>5, <1>6 DEF H, M, w

\* A sticky bit behind an even pair of trailing bits decides what a round bit decides.
LEMMA StickyIsRound ==
  ASSUME NEW u, Normalized(u), NEW t \in {0, 2}, NEW s \in BOOLEAN
  PROVE  Generate(u, t, TRUE) = Generate(u, t + 1, s)
<1> DEFINE r == RegimeOf(u)  y == PlaceOf(u)  H == 2^(NBits-1)  low == r < 0
           offset == GenOffset(u.exponent)
           word   == GenWord(u.exponent, u.fraction, t)
           word1  == GenWord(u.exponent, u.fraction, t + 1)
           T == 4 * y + t
<1>1. r \in Int /\ y \in 0..(2^ES * 2^FracBits - 1) /\ StandsAt(u, r, y)
  BY NormalizedStands
<1>2. t \in 0..3 /\ t + 1 \in 0..3 /\ low \in BOOLEAN /\ t \in Int
  OBVIOUS
<1> HIDE DEF r, y
<1>3. /\ offset = (IF r < 0 THEN IF r = -(NBits-1) THEN NBits-1 ELSE -r - 1 ELSE r)
      /\ word = (IF r < 0 THEN 1 ELSE 2) * H + (4 * y + t)
      /\ 4 * y + t \in 0..(H - 1)
  BY <1>1, <1>2, WordIs
<1>4. /\ word1 = (IF r < 0 THEN 1 ELSE 2) * H + (4 * y + (t + 1))
      /\ 4 * y + (t + 1) \in 0..(H - 1)
  BY <1>1, <1>2, WordIs
<1>5. T \in 0..(H-1) /\ T + 1 \in 0..(H-1) /\ 4 * y + (t + 1) = T + 1 /\ y \in Int
      /\ \E i \in Int : T = 2 * i
  <2>1. y \in Int
    BY <1>1
  <2>2. 4 * y + (t + 1) = T + 1 /\ \E i \in Int : T = 2 * i
    <3>1. CASE t = 0
      <4>1. T = 2 * (2 * y) /\ 2 * y \in Int
        BY <2>1, <3>1
      <4> QED
        BY <1>2, <2>1, <4>1
    <3>2. CASE t = 2
      <4>1. T = 2 * (2 * y + 1) /\ 2 * y + 1 \in Int
        BY <2>1, <3>2
      <4> QED
        BY <1>2, <2>1, <4>1
    <3> QED
      BY <3>1, <3>2
  <2> QED
    BY <1>3, <1>4, <2>1, <2>2
<1>6. offset \in Nat /\ NBits \in Nat /\ NBits >= 4 /\ NBits - 2 \in Nat /\ NBits + 1 \in Nat
  <2>1. NBits \in Nat /\ NBits >= 4
    BY FormatPowers
  <2> HIDE DEF offset
  <2> QED
    BY <1>1, <1>3, <2>1
<1> HIDE DEF offset, word, word1, T
<1>7. /\ Signed(word, NBits+1) = IF low THEN H + T ELSE T - 2 * H
      /\ Signed(word1, NBits+1) = IF low THEN H + (T + 1) ELSE (T + 1) - 2 * H
      /\ H \in Nat /\ H > 1 /\ 2^(NBits+1) = 4 * H
      /\ word = (IF low THEN H + T ELSE 2 * H + T) /\ word1 = word + 1
      /\ \E i \in Nat : H = 2 * i
  <2> DEFINE H2 == (IF low THEN 1 ELSE 2) * H
  <2>1. /\ Signed(H2 + T, NBits+1) = IF low THEN H + T ELSE T - 2 * H
        /\ H \in Nat /\ H > 1 /\ T \in Nat /\ T < H /\ 2^(NBits+1) = 4 * H
        /\ H2 + T = IF low THEN H + T ELSE 2 * H + T
    BY <1>2, <1>5, WordSigned
  <2>2. /\ Signed(H2 + (T + 1), NBits+1) = IF low THEN H + (T + 1) ELSE (T + 1) - 2 * H
    BY <1>2, <1>5, WordSigned
  <2>3. word = H2 + T /\ word1 = H2 + (T + 1)
    BY <1>3, <1>4, <1>5 DEF T
  <2>4. \E i \in Nat : H = 2 * i
    <3>1. NBits - 2 \in Nat /\ (NBits - 2) + 1 = NBits - 1
      BY <1>6
    <3>2. 2^(NBits-1) = 2 * 2^(NBits-2) /\ 2^(NBits-2) \in Nat
      BY <3>1, PowerNext, PowerPositive
    <3> QED
      BY <3>2
  <2>5. H2 \in Nat
    BY <2>1
  <2> HIDE DEF H2, H, low
  <2>6. word1 = word + 1
    BY <1>5, <2>1, <2>3, <2>5
  <2> QED
    BY <2>1, <2>2, <2>3, <2>4, <2>6
<1> DEFINE S == Signed(word, NBits+1)
<1>8. /\ S \in Int /\ Signed(word1, NBits+1) = S + 1 /\ word \in 0..(4 * H - 2)
      /\ (S = word \/ S = word - 4 * H)
      /\ (\E i \in Int : S = 2 * i) /\ (\E i \in Int : word = 2 * i)
  <2> HIDE DEF H, low
  <2>1. PICK i \in Int : T = 2 * i
    BY <1>5
  <2>2. PICK j \in Nat : H = 2 * j
    BY <1>7
  <2>3. CASE low
    <3>1. S = H + T /\ Signed(word1, NBits+1) = H + (T + 1) /\ word = H + T
      BY <1>7, <2>3
    <3>2. H + T = 2 * (j + i) /\ j + i \in Int
      BY <2>1, <2>2
    <3> HIDE DEF S
    <3>3. (\E h \in Int : S = 2 * h) /\ (\E h \in Int : word = 2 * h)
      BY <3>1, <3>2
    <3>4. /\ S \in Int /\ Signed(word1, NBits+1) = S + 1 /\ word \in 0..(4 * H - 2)
          /\ (S = word \/ S = word - 4 * H)
      BY <1>5, <1>7, <3>1
    <3> QED
      BY <3>3, <3>4
  <2>4. CASE ~low
    <3>1. S = T - 2 * H /\ Signed(word1, NBits+1) = (T + 1) - 2 * H /\ word = 2 * H + T
      BY <1>7, <2>4
    <3>2. T - 2 * H = 2 * (i - 2 * j) /\ i - 2 * j \in Int /\ 2 * H + T = 2 * (2 * j + i) /\ 2 * j + i \in Int
      BY <2>1, <2>2
    <3> HIDE DEF S
    <3>3. (\E h \in Int : S = 2 * h) /\ (\E h \in Int : word = 2 * h)
      BY <3>1, <3>2
    <3>4. /\ S \in Int /\ Signed(word1, NBits+1) = S + 1 /\ word \in 0..(4 * H - 2)
          /\ (S = word \/ S = word - 4 * H)
      BY <1>5, <1>7, <3>1
    <3> QED
      BY <3>3, <3>4
  <2> QED
    BY <2>3, <2>4
<1> HIDE DEF S, H, low
<1>9. u.fraction # 0 /\ ~u.isZero /\ ~u.isNaR
  <2>1. 2^FracBits \in Nat /\ 2^FracBits > 0
    BY FormatPowers
  <2> QED
    BY <2>1 DEF Normalized
<1> DEFINE a == GenMagnitude(GenShifted(word, offset), TRUE \/ GenDropped(word, offset))
           b == GenMagnitude(GenShifted(word1, offset), s \/ GenDropped(word1, offset))
<1>10. /\ Generate(u, t, TRUE) = (IF u.sign THEN Negated(a, NBits) ELSE a)
       /\ Generate(u, t + 1, s) = (IF u.sign THEN Negated(b, NBits) ELSE b)
  BY <1>9, GenerateIs DEF word, word1, offset
<1>11. a = b
  <2>1. CASE offset = 0
    <3>1. GenShifted(word, offset) = word /\ GenShifted(word1, offset) = word + 1
      <4>1. 2^offset = 1
        BY <2>1, PowerZero
      <4>2. S \div 1 = S /\ (S + 1) \div 1 = S + 1
        BY <1>8
      <4> DEFINE W == 4 * H
      <4>3. W \in Nat /\ W > 0 /\ word \in 0..(W-1) /\ word + 1 \in 0..(W-1) /\ 2^(NBits+1) = W
        BY <1>7, <1>8
      <4>4. S % W = word /\ (S + 1) % W = word + 1
        <5>1. PICK q \in {0, -1} : S = q * W + word /\ S + 1 = q * W + (word + 1) /\ q \in Int
          <6>1. CASE S = word
            <7>1. 0 * W = 0
              BY <4>3
            <7>2. S = 0 * W + word /\ S + 1 = 0 * W + (word + 1)
              BY <1>8, <6>1, <7>1
            <7> QED
              BY <7>2
          <6>2. CASE S = word - 4 * H
            <7>1. (-1) * W = -W
              BY <4>3
            <7>2. S = (-1) * W + word /\ S + 1 = (-1) * W + (word + 1)
              <8>1. S = word - W
                BY <6>2
              <8> HIDE DEF W
              <8> QED
                BY <4>3, <7>1, <8>1
            <7> QED
              BY <7>2
          <6> QED
            BY <1>8, <6>1, <6>2
        <5> HIDE DEF W
        <5>2. (q * W + word) % W = word /\ (q * W + (word + 1)) % W = word + 1
          BY <4>3, <5>1, DivIs
        <5> QED
          BY <5>1, <5>2
      <4>5. GenShifted(word, offset) = S % W /\ GenShifted(word1, offset) = (S + 1) % W
        BY <1>8, <4>1, <4>2, <4>3 DEF GenShifted, Low, S
      <4> QED
        BY <4>4, <4>5
    <3>2. PICK n \in Nat, g \in 0..1 : word = 4 * n + 2 * g + 0 /\ word + 1 = 4 * n + 2 * g + 1
      <4>1. PICK i \in Int : word = 2 * i
        BY <1>8
      <4>2. i \div 2 \in Int /\ i % 2 \in 0..1 /\ i = (i \div 2) * 2 + (i % 2)
        BY DivParts
      <4>3. i \div 2 \in Nat
        BY <1>8, <4>1, <4>2
      <4> DEFINE n == i \div 2  g == i % 2
      <4>4. word = 4 * n + 2 * g + 0 /\ word + 1 = 4 * n + 2 * g + 1
        <5> HIDE DEF n, g
        <5>1. i = n * 2 + g /\ n \in Nat /\ g \in Int
          BY <4>2, <4>3 DEF n, g
        <5> QED
          BY <4>1, <5>1
      <4> QED
        BY <4>2, <4>3, <4>4
    <3> DEFINE z == 0  i == 1
    <3>3. z \in 0..1 /\ i \in 0..1
      OBVIOUS
    <3> HIDE DEF z, i
    <3>4. LET m == 4 * n + 2 * g + z
          IN  /\ m \div 2^2 = n
              /\ Bit(m, 2) = n % 2 /\ Bit(m, 1) = g /\ Bit(m, 0) = z
      BY <3>3, LastBits
    <3>5. LET m == 4 * n + 2 * g + i
          IN  /\ m \div 2^2 = n
              /\ Bit(m, 2) = n % 2 /\ Bit(m, 1) = g /\ Bit(m, 0) = i
      BY <3>3, LastBits
    <3>6. /\ word \div 2^2 = n /\ Bit(word, 2) = n % 2 /\ Bit(word, 1) = g
          /\ (word + 1) \div 2^2 = n /\ Bit(word + 1, 2) = n % 2 /\ Bit(word + 1, 1) = g
          /\ Bit(word + 1, 0) = 1
      <4>1. word = 4 * n + 2 * g + z /\ word + 1 = 4 * n + 2 * g + i
        BY <3>2 DEF z, i
      <4> QED
        BY <3>4, <3>5, <4>1 DEF i
    <3>7. /\ RoundsUp(Bit(word, 2), Bit(word, 1), Bit(word, 0), TRUE \/ GenDropped(word, offset))
             = (g = 1)
          /\ RoundsUp(Bit(word+1, 2), Bit(word+1, 1), Bit(word+1, 0), s \/ GenDropped(word1, offset))
             = (g = 1)
      BY <3>6, Zenon DEF RoundsUp
    <3> DEFINE sa == TRUE \/ GenDropped(word, offset)  sb == s \/ GenDropped(word1, offset)
               ua == RoundsUp(Bit(word, 2), Bit(word, 1), Bit(word, 0), sa)
               ub == RoundsUp(Bit(word+1, 2), Bit(word+1, 1), Bit(word+1, 0), sb)
               G  == n + IF n # 2^(NBits-1) - 1 /\ g = 1 THEN 1 ELSE 0
    <3>8. a = GenMagnitude(word, sa) /\ b = GenMagnitude(word + 1, sb)
      BY <3>1, Zenon
    <3>9. (ua <=> g = 1) /\ (ub <=> g = 1)
      BY <3>7, Zenon
    <3>10. GenMagnitude(word, sa)
             = LET m == word \div 2^2
                   k == m + IF m # 2^(NBits-1) - 1 /\ ua THEN 1 ELSE 0
               IN  IF k = 0 THEN 1 ELSE k
      BY Zenon DEF GenMagnitude
    <3>11. GenMagnitude(word + 1, sb)
             = LET m == (word + 1) \div 2^2
                   k == m + IF m # 2^(NBits-1) - 1 /\ ub THEN 1 ELSE 0
               IN  IF k = 0 THEN 1 ELSE k
      BY Zenon DEF GenMagnitude
    <3> HIDE DEF a, b, sa, sb, ua, ub
    <3>12. GenMagnitude(word, sa) = IF G = 0 THEN 1 ELSE G
      BY <3>6, <3>9, <3>10
    <3>13. GenMagnitude(word + 1, sb) = IF G = 0 THEN 1 ELSE G
      BY <3>6, <3>9, <3>11
    <3> QED
      BY <3>8, <3>12, <3>13
  <2>2. CASE offset # 0
    <3>1. offset >= 1 /\ offset - 1 \in Nat /\ (offset - 1) + 1 = offset
      BY <1>6, <2>2
    <3>2. PICK B \in Nat : B > 0 /\ 2^offset = 2 * B
      <4>1. 2^((offset-1)+1) = 2 * 2^(offset-1) /\ 2^(offset-1) \in Nat /\ 2^(offset-1) > 0
        BY <3>1, PowerNext, PowerPositive
      <4> QED
        BY <3>1, <4>1
    <3>3. GenShifted(word1, offset) = GenShifted(word, offset)
      <4> DEFINE D == 2^offset
      <4>1. D \in Nat /\ D > 0 /\ D = 2 * B
        BY <3>2
      <4>2. PICK i \in Int : S = 2 * i
        BY <1>8
      <4> HIDE DEF D
      <4>3. S \div D \in Int /\ S % D \in 0..(D-1) /\ S = (S \div D) * D + (S % D)
        BY <1>8, <4>1, DivParts
      <4> DEFINE q == S \div D  m == S % D
      <4>4. q \in Int /\ m \in 0..(D-1) /\ S = q * D + m
        BY <4>3
      <4> HIDE DEF q, m
      <4>5. m + 1 \in 0..(D-1)
        <5> SUFFICES ASSUME m = D - 1 PROVE FALSE
          BY <4>1, <4>4
        <5>1. q * D = 2 * (q * B) /\ q * B \in Int
          BY <4>1, <4>4
        <5> DEFINE qB == q * B
        <5> HIDE DEF qB
        <5>2. 2 * i = 2 * qB + (2 * B - 1) /\ qB \in Int
          BY <4>1, <4>2, <4>4, <5>1 DEF qB
        <5> QED
          BY <3>2, <4>2, <5>2
      <4>6. (q * D + (m + 1)) \div D = q
        BY <4>1, <4>4, <4>5, DivIs
      <4>7. S + 1 = q * D + (m + 1)
        <5>1. q * D \in Int
          BY <4>1, <4>4
        <5> QED
          BY <4>4, <5>1
      <4>8. (S + 1) \div D = S \div D
        BY <4>6, <4>7 DEF q
      <4> QED
        BY <1>8, <4>8 DEF GenShifted, D, S
    <3>4. GenDropped(word1, offset)
      <4> DEFINE m == Min2(offset, NBits-2)  D == 2^m
      <4>1. m \in Nat /\ m - 1 \in Nat /\ (m - 1) + 1 = m
        BY <1>6, <3>1 DEF Min2
      <4> HIDE DEF m
      <4>2. PICK C \in Nat : D = 2 * C /\ C > 0
        <5>1. 2^((m-1)+1) = 2 * 2^(m-1) /\ 2^(m-1) \in Nat /\ 2^(m-1) > 0
          BY <4>1, PowerNext, PowerPositive
        <5> QED
          BY <4>1, <5>1
      <4>3. PICK i \in Int : word = 2 * i
        BY <1>8
      <4> HIDE DEF D
      <4>4. word1 % D # 0
        <5> SUFFICES ASSUME word1 % D = 0 PROVE FALSE
          OBVIOUS
        <5>1. word1 \in Int /\ D \in Nat /\ D > 0
          BY <1>7, <1>8, <4>2
        <5>2. word1 \div D \in Int /\ word1 = (word1 \div D) * D + (word1 % D)
          BY <5>1, DivParts
        <5> DEFINE q == word1 \div D
        <5> HIDE DEF q
        <5>3. word1 = q * D + 0 /\ q \in Int
          BY <5>2 DEF q
        <5>4. q * D = 2 * (q * C) /\ q * C \in Int
          BY <4>2, <5>3
        <5> DEFINE qC == q * C
        <5> HIDE DEF qC
        <5>5. 2 * i + 1 = 2 * qC /\ qC \in Int
          BY <1>7, <4>3, <5>3, <5>4 DEF qC
        <5> QED
          BY <5>5
      <4> QED
        BY <4>4 DEF GenDropped, Low, m, D
    <3> QED
      BY <3>3, <3>4, Zenon
  <2> QED
    BY <2>1, <2>2
<1> DEFINE ga == Generate(u, t, TRUE)  gb == Generate(u, t + 1, s)
           N(n) == IF u.sign THEN Negated(n, NBits) ELSE n
<1>12. ga = N(a) /\ gb = N(b)
  BY <1>10, Zenon
<1> HIDE DEF a, b, N, ga, gb
<1>13. ga = gb
  BY <1>11, <1>12
<1> QED
  BY <1>13, Zenon DEF ga, gb

\* The exact sum in units of half the last place of the lesser fraction, whose exponent is
\* d below the exponent e of the greater one.
FusedUnit(e, d) == e - d - (FracBits + 1)

\* A term of the exact result: m2 halves of a fraction's last place, at exponent e.
FusedTerm(v, sign, m2, e) ==
  \E m \in Nat \ {0}, i \in Int :
    LET p == i - (e - (2 * FracBits + 1))
    IN  v = <<IF sign THEN -m ELSE m, i>> /\ p \in Nat /\ m2 = m * 2^p

FusedHalves(gs, g2, ls, l2, d) == IF gs = ls THEN g2 * 2^d + l2 ELSE g2 * 2^d - l2

Apart(ge, le, d) == ge - le = d

FusedSumIs(z, s, W, unit) == \E c \in Int, j \in Int : z = <<c, j>> /\ ExactIs(c, j, s, W, unit)

\* The exact sum of the two terms.
LEMMA FusedIsExact ==
  ASSUME NEW u, NEW gs \in BOOLEAN, NEW g2, NEW ge \in Int, FusedTerm(u, gs, g2, ge),
         NEW v, NEW ls \in BOOLEAN, NEW l2, NEW le \in Int, FusedTerm(v, ls, l2, le),
         NEW d \in Nat, Apart(ge, le, d), NEW z, IsSum(z, u, v)
  PROVE  FusedSumIs(z, gs, FusedHalves(gs, g2, ls, l2, d), FusedUnit(ge, d))
<1> DEFINE F1 == 2 * FracBits + 1  D == 2^d  W == FusedHalves(gs, g2, ls, l2, d)
<1>1. FracBits \in Nat /\ F1 \in Nat /\ ge - d = le /\ ge - le = d /\ D \in Nat /\ D > 0
  BY FormatPowers, PowerPositive DEF Apart
<1>2. PICK m \in Nat \ {0}, i \in Int :
         LET p == i - (ge - F1) IN u = <<IF gs THEN -m ELSE m, i>> /\ p \in Nat /\ g2 = m * 2^p
  BY DEF FusedTerm
<1>3. PICK n \in Nat \ {0}, h \in Int :
         LET q == h - (le - F1) IN v = <<IF ls THEN -n ELSE n, h>> /\ q \in Nat /\ l2 = n * 2^q
  BY DEF FusedTerm
<1> DEFINE p == i - (ge - F1)  q == h - (le - F1)  K == F1 - le
           a == IF gs THEN -m ELSE m  b == IF ls THEN -n ELSE n  P == 2^p  Q == 2^q
<1>4. u = <<a, i>> /\ v = <<b, h>> /\ p \in Nat /\ q \in Nat /\ g2 = m * P /\ l2 = n * Q
  BY <1>2, <1>3
<1>5. /\ K \in Int /\ i + K = p + d /\ h + K = q /\ i + K \in Nat /\ h + K \in Nat
      /\ a \in Int /\ a # 0 /\ b \in Int /\ b # 0
  BY <1>1, <1>4
<1>6. 2^(i+K) = P * D /\ 2^(h+K) = Q /\ P \in Nat /\ Q \in Nat
  <2>1. 2^(p+d) = P * D
    BY <1>4, PowerSum
  <2> QED
    BY <1>4, <1>5, <2>1, PowerPositive
<1>7. a * (P * D) + b * Q = IF gs THEN -W ELSE W
  <2> HIDE DEF P, Q, D
  <2> DEFINE x == g2 * D
  <2>1. g2 \in Nat /\ l2 \in Nat /\ x \in Nat /\ (-m) * (P * D) = -x /\ m * (P * D) = x
        /\ (-n) * Q = -l2
    BY <1>1, <1>4, <1>6
  <2>2. W = IF gs = ls THEN x + l2 ELSE x - l2
    BY DEF FusedHalves, D
  <2>3. a * (P * D) = (IF gs THEN -x ELSE x) /\ b * Q = (IF ls THEN -l2 ELSE l2)
    BY <1>4, <2>1
  <2> DEFINE s == a * (P * D)  t == b * Q
  <2> HIDE DEF s, t, x, W, a, b
  <2>4. s = (IF gs THEN -x ELSE x) /\ t = (IF ls THEN -l2 ELSE l2)
    BY <2>3 DEF s, t
  <2>5. s + t = IF gs THEN -W ELSE W
    BY <2>1, <2>2, <2>4
  <2> QED
    BY <2>5 DEF s, t
<1> HIDE DEF a, b, P, Q, D, W
<1>8. \E c \in Int, j \in Int :
        z = <<c, j>> /\ j + K \in Nat /\ c * 2^(j+K) = a * (P * D) + b * Q
  <2> HIDE DEF K, p, q
  <2>1. CASE z = Plus(u, v)
    <3>1. PICK c \in Int, j \in Int :
             /\ Plus(<<a, i>>, <<b, h>>) = <<c, j>>
             /\ j + K \in Nat
             /\ c * 2^(j+K) = a * 2^(i+K) + b * 2^(h+K)
      BY <1>5, PlusIs
    <3> QED
      BY <1>4, <1>6, <2>1, <3>1
  <2>2. CASE z = Plus(v, u)
    <3>1. PICK c \in Int, j \in Int :
             /\ Plus(<<b, h>>, <<a, i>>) = <<c, j>>
             /\ j + K \in Nat
             /\ c * 2^(j+K) = b * 2^(h+K) + a * 2^(i+K)
      BY <1>5, PlusIs
    <3> DEFINE x == a * 2^(i+K)  y == b * 2^(h+K)
    <3>2. x \in Int /\ y \in Int
      BY <1>1, <1>5, <1>6
    <3> HIDE DEF x, y
    <3>3. y + x = x + y
      BY <3>2
    <3>4. x = a * (P * D) /\ y = b * Q
      BY <1>6 DEF x, y
    <3>5. c * 2^(j+K) = y + x
      BY <3>1 DEF x, y
    <3> QED
      BY <1>4, <2>2, <3>1, <3>3, <3>4, <3>5
  <2> QED
    BY <2>1, <2>2 DEF IsSum
<1>9. PICK c \in Int, j \in Int :
        z = <<c, j>> /\ j + K \in Nat /\ c * 2^(j+K) = a * (P * D) + b * Q
  BY <1>8
<1>10. j + FracBits - FusedUnit(ge, d) = j + K
  BY <1>1 DEF FusedUnit
<1>11. ExactIs(c, j, gs, W, FusedUnit(ge, d))
  BY <1>7, <1>9, <1>10 DEF ExactIs
<1>12. FusedSumIs(z, gs, W, FusedUnit(ge, d))
  BY <1>9, <1>11 DEF FusedSumIs
<1> QED
  BY <1>12 DEF W

\* The product as a term: the core keeps G of its halves and drops the last bit gl.
LEMMA FusedProductTerm ==
  ASSUME NEW u, NEW su \in BOOLEAN, NEW fu \in 2^FracBits .. (2 * 2^FracBits - 1), NEW eu \in Int,
         NEW v, NEW sv \in BOOLEAN, NEW fv \in 2^FracBits .. (2 * 2^FracBits - 1), NEW ev \in Int,
         TermIs(u, su, fu, eu), TermIs(v, sv, fv, ev)
  PROVE  LET p        == fu * fv
             overflow == p >= 2^(MulBits-1)
             G  == IF overflow THEN p \div 2 ELSE p
             gl == IF overflow /\ p % 2 = 1 THEN 1 ELSE 0
             ge == eu + ev + IF overflow THEN 1 ELSE 0
         IN  /\ G \in ProductOne .. (2 * ProductOne - 1) /\ gl \in 0..1 /\ ge \in Int
             /\ FusedTerm(Times(u, v), su # sv, 2 * G + gl, ge)
<1> DEFINE p == fu * fv  overflow == p >= 2^(MulBits-1)
           o  == IF overflow THEN 1 ELSE 0
           G  == IF overflow THEN p \div 2 ELSE p
           gl == IF overflow /\ p % 2 = 1 THEN 1 ELSE 0
           ge == eu + ev + IF overflow THEN 1 ELSE 0
           M  == 2^FracBits  H == ProductOne  z == Times(u, v)
           a == IF su THEN -fu ELSE fu  b == IF sv THEN -fv ELSE fv
           i == (eu - FracBits) + (ev - FracBits)
<1>1. /\ M \in Nat /\ M >= 2 /\ H \in Nat /\ H > 0 /\ 2^(MulBits-1) = 2 * H /\ FracBits \in Nat
      /\ H = M * M
  BY FusedWidths DEF ProductOne
<1>2. /\ fu \in M..(2*M-1) /\ fv \in M..(2*M-1) /\ fu \in Nat /\ fv \in Nat /\ fu > 0 /\ fv > 0
  <2>1. fu \in M..(2*M-1) /\ fv \in M..(2*M-1)
    OBVIOUS
  <2> HIDE DEF M
  <2> QED
    BY <1>1, <2>1
<1>3. p \in H..(4*H - 1) /\ p \in Nat
  <2> HIDE DEF M, H
  <2>1. M * M <= fu * M /\ fu * M <= fu * fv /\ fu * M \in Nat
    BY <1>1, <1>2
  <2>2. fu * fv <= (2*M-1) * fv /\ (2*M-1) * fv <= (2*M-1) * (2*M-1)
    BY <1>1, <1>2
  <2>3. (2*M-1) * (2*M-1) = 4 * (M * M) - 4 * M + 1
    BY <1>1
  <2>4. fu * fv \in Nat /\ (2*M-1) * fv \in Nat /\ M * M \in Nat
    BY <1>1, <1>2
  <2> DEFINE q == fu * fv  t == (2*M-1) * fv  r == fu * M
  <2>5. H <= r /\ r <= q /\ q <= t /\ t <= 4 * H - 4 * M + 1 /\ q \in Nat /\ t \in Nat /\ r \in Nat
    BY <1>1, <2>1, <2>2, <2>3, <2>4
  <2> HIDE DEF q, t, r
  <2>6. q \in H..(4*H - 1)
    BY <1>1, <2>5
  <2> QED
    BY <2>5, <2>6 DEF q
<1>4. z = <<a * b, i>>
  <2>1. u = <<a, eu - FracBits>> /\ v = <<b, ev - FracBits>>
    BY DEF TermIs
  <2> HIDE DEF a, b
  <2> QED
    BY <2>1 DEF Times
<1>5. a * b = IF su # sv THEN -p ELSE p
  <2>1. (-fu) * fv = -(fu * fv) /\ fu * (-fv) = -(fu * fv) /\ (-fu) * (-fv) = fu * fv
    BY <1>2
  <2> QED
    BY <2>1
<1> HIDE DEF a, b, p, H, M
<1>6. o \in 0..1 /\ ge = eu + ev + o /\ ge \in Int /\ i \in Int /\ i - (ge - (2 * FracBits + 1)) = 1 - o
  BY <1>1
<1>7. G \in H..(2*H-1) /\ gl \in 0..1 /\ 2 * G + gl = p * 2^(1-o)
  <2>1. CASE overflow
    <3>1. 2 * (p \div 2) + (p % 2) = p /\ p \div 2 \in Int /\ p % 2 \in 0..1
      BY <1>3
    <3>2. G = p \div 2 /\ gl = p % 2 /\ o = 1
      BY <2>1, <3>1
    <3>3. 2^(1-o) = 1
      <4>1. 2^0 = 1
        BY PowerZero
      <4> QED
        BY <3>2, <4>1
    <3>4. p >= 2 * H
      BY <1>1, <2>1
    <3> HIDE DEF G, gl, o, overflow
    <3>5. G \in H..(2*H-1)
      BY <1>1, <1>3, <3>1, <3>2, <3>4
    <3> QED
      BY <1>3, <3>1, <3>2, <3>3, <3>5
  <2>2. CASE ~overflow
    <3>1. G = p /\ gl = 0 /\ o = 0
      BY <2>2
    <3>2. 2^(1-o) = 2
      <4>1. 2^1 = 2
        OBVIOUS
      <4> QED
        BY <3>1, <4>1
    <3>3. p < 2 * H
      BY <1>1, <1>3, <2>2
    <3> HIDE DEF G, gl, o, overflow
    <3> QED
      BY <1>1, <1>3, <3>1, <3>2, <3>3
  <2> QED
    BY <2>1, <2>2
<1> HIDE DEF o, G, gl, i, ge, overflow
<1>8. FusedTerm(z, su # sv, 2 * G + gl, ge)
  <2> DEFINE q == i - (ge - (2 * FracBits + 1))
  <2>1. q = 1 - o /\ q \in Nat
    BY <1>6
  <2>2. p \in Nat \ {0}
    BY <1>1, <1>3
  <2>3. z = <<IF su # sv THEN -p ELSE p, i>> /\ 2 * G + gl = p * 2^q
    BY <1>4, <1>5, <1>7, <2>1
  <2> HIDE DEF z
  <2> QED
    BY <1>6, <2>1, <2>2, <2>3 DEF FusedTerm
<1> QED
  BY <1>6, <1>7, <1>8 DEF G, gl, ge, overflow, z, H, p

\* The addend as a term.
LEMMA FusedAddendTerm ==
  ASSUME NEW v, NEW s \in BOOLEAN, NEW f \in 2^FracBits .. (2 * 2^FracBits - 1), NEW e \in Int,
         TermIs(v, s, f, e)
  PROVE  /\ f * 2^FracBits \in ProductOne .. (2 * ProductOne - 1)
         /\ FusedTerm(v, s, 2 * (f * 2^FracBits) + 0, e)
<1> DEFINE M == 2^FracBits  H == ProductOne  i == e - FracBits
<1>1. /\ M \in Nat /\ M >= 2 /\ H \in Nat /\ FracBits \in Nat /\ H = M * M /\ f \in M..(2*M-1)
      /\ 2^(FracBits+1) = 2 * M
  BY FusedWidths, FormatPowers DEF ProductOne
<1>2. f * M \in H..(2*H-1)
  <2> HIDE DEF M, H
  <2>1. M * M <= f * M /\ f * M <= (2*M-1) * M /\ (2*M-1) * M = 2 * (M * M) - M /\ f * M \in Nat
    BY <1>1
  <2> QED
    BY <1>1, <2>1
<1>3. FusedTerm(v, s, 2 * (f * M) + 0, e)
  <2> DEFINE q == i - (e - (2 * FracBits + 1))  w == IF s THEN -f ELSE f
  <2>1. q = FracBits + 1 /\ q \in Nat /\ i \in Int
    BY <1>1
  <2>2. f \in Nat \ {0}
    <3> HIDE DEF M
    <3> QED
      BY <1>1
  <2>3. 2 * (f * M) + 0 = f * 2^q
    <3>1. 2^q = 2 * M
      BY <1>1, <2>1
    <3>2. f * (2 * M) = 2 * (f * M) + 0
      <4> HIDE DEF M
      <4> QED
        BY <1>1, <2>2
    <3> QED
      BY <3>1, <3>2
  <2>4. v = <<IF s THEN -f ELSE f, i>>
    BY DEF TermIs
  <2> HIDE DEF i, M
  <2> QED
    BY <2>1, <2>2, <2>3, <2>4 DEF FusedTerm
<1> QED
  BY <1>2, <1>3 DEF M, H

\* A term of its own.
LEMMA FusedAlone ==
  ASSUME NEW u, NEW gs \in BOOLEAN, NEW g2, NEW ge \in Int, FusedTerm(u, gs, g2, ge)
  PROVE  FusedSumIs(u, gs, g2, FusedUnit(ge, 0))
<1>1. FracBits \in Nat
  BY FormatPowers
<1>2. PICK m \in Nat \ {0}, i \in Int :
         LET p == i - (ge - (2 * FracBits + 1))
         IN  u = <<IF gs THEN -m ELSE m, i>> /\ p \in Nat /\ g2 = m * 2^p
  BY DEF FusedTerm
<1> DEFINE p == i - (ge - (2 * FracBits + 1))  P == 2^p  c == IF gs THEN -m ELSE m
<1>3. u = <<c, i>> /\ p \in Nat /\ g2 = m * P
  BY <1>2
<1>4. P \in Nat
  BY <1>3, PowerPositive
<1>5. i + FracBits - FusedUnit(ge, 0) = p
  BY <1>1 DEF FusedUnit
<1>6. c * P = IF gs THEN -g2 ELSE g2
  <2>1. (-m) * P = -(m * P)
    BY <1>4
  <2> QED
    BY <1>3, <2>1
<1>7. c \in Int
  OBVIOUS
<1> HIDE DEF c, p
<1>8. ExactIs(c, i, gs, g2, FusedUnit(ge, 0))
  BY <1>3, <1>5, <1>6 DEF ExactIs, P
<1> QED
  BY <1>3, <1>7, <1>8 DEF FusedSumIs

\* The negated operations negate the exact result.
LEMMA FusedNegated ==
  ASSUME NEW z, NEW s \in BOOLEAN, NEW W \in Int, NEW e \in Int, FusedSumIs(z, s, W, e),
         NEW negate \in BOOLEAN
  PROVE  FusedSumIs(IF negate THEN Negative(z) ELSE z, s # negate, W, e)
<1>0. PICK c \in Int, j \in Int : z = <<c, j>> /\ ExactIs(c, j, s, W, e)
  BY DEF FusedSumIs
<1> DEFINE v == j + FracBits - e  V == 2^v
<1>1. v \in Nat /\ c * V = IF s THEN -W ELSE W
  BY <1>0 DEF ExactIs
<1>2. V \in Nat
  <2> HIDE DEF v
  <2> QED
    BY <1>1, PowerPositive
<1> HIDE DEF v, V
<1>3. CASE negate
  <2>1. Negative(<<c, j>>) = <<-c, j>> /\ -c \in Int
    BY DEF Negative
  <2>2. (-c) * V = -(c * V) /\ c * V \in Int
    BY <1>2
  <2>3. (-c) * V = IF s # negate THEN -W ELSE W
    <3> DEFINE x == c * V  y == (-c) * V
    <3>1. x \in Int /\ y = -x /\ x = IF s THEN -W ELSE W
      BY <1>1, <2>2
    <3>2. (s # negate) <=> ~s
      BY <1>3
    <3> HIDE DEF x, y
    <3>3. CASE s
      <4>1. y = W
        BY <3>1, <3>3
      <4> QED
        BY <3>2, <3>3, <4>1 DEF y
    <3>4. CASE ~s
      <4>1. y = -W
        BY <3>1, <3>4
      <4> QED
        BY <3>2, <3>4, <4>1 DEF y
    <3> QED
      BY <3>3, <3>4
  <2>4. ExactIs(-c, j, s # negate, W, e)
    BY <1>1, <2>3 DEF ExactIs, v, V
  <2>5. (IF negate THEN Negative(z) ELSE z) = <<-c, j>>
    BY <1>0, <1>3, <2>1
  <2>6. FusedSumIs(<<-c, j>>, s # negate, W, e)
    BY <2>1, <2>4 DEF FusedSumIs
  <2> QED
    BY <2>5, <2>6
<1>4. CASE ~negate
  <2>1. (s # negate) = s
    BY <1>4
  <2> QED
    BY <1>4, <2>1
<1> QED
  BY <1>3, <1>4
=============================================================================

----------------------------- MODULE CurveProofs -----------------------------
(***************************************************************************)
(* Facts about the arithmetic of the curves and about sums over accounts,  *)
(* for all amounts.                                                        *)
(***************************************************************************)
EXTENDS SwapCurve, Functions, FiniteSets, FiniteSetTheorems, WellFoundedInduction, TLAPS

-----------------------------------------------------------------------------
(* Naturals.                                                               *)

\* A set of naturals has a smallest member.
LEMMA SmallestNat ==
  ASSUME NEW T \in SUBSET Nat, T # {}
  PROVE  \E m \in T : \A k \in T : m <= k
<1>1. PICK m \in T : \A k \in T : <<k, m>> \notin OpToRel(<, Nat)
  BY NatLessThanWellFounded, WFMin, Zenon
<1>2. \A k \in T : ~(k < m)
  BY <1>1 DEF OpToRel
<1> QED  BY <1>2

-----------------------------------------------------------------------------
(* Division.                                                               *)

\* Integer division rounds down.
LEMMA DivBounds ==
  ASSUME NEW n \in Nat, NEW d \in Nat \ {0}
  PROVE  /\ n \div d \in Nat
         /\ d * (n \div d) <= n
         /\ n < d * (n \div d) + d
  OBVIOUS

\* Dividing by a larger number does not give more; a multiple divides evenly.
LEMMA DivMultiple ==
  ASSUME NEW n \in Nat, NEW d \in Nat \ {0}
  PROVE  (d * n) \div d = n
<1> DEFINE q == (d * n) \div d
<1>1. /\ q \in Nat
      /\ d * q <= d * n
      /\ d * n < d * q + d
  BY DivBounds
<1>2. q <= n
  BY <1>1
<1>3. n < q + 1
  BY <1>1
<1> QED
  BY <1>1, <1>2, <1>3

\* The product of naturals is a natural, and grows with each factor.
LEMMA ProductMonotone ==
  ASSUME NEW a \in Nat, NEW b \in Nat, NEW c \in Nat, NEW d \in Nat,
         a <= b, c <= d
  PROVE  /\ a * c \in Nat
         /\ b * d \in Nat
         /\ a * c <= b * d
  OBVIOUS

\* CeilQuotient is the division rounded up.
LEMMA CeilQuotientBounds ==
  ASSUME NEW n \in Nat, NEW d \in Nat \ {0}
  PROVE  /\ CeilQuotient(n, d) \in Nat
         /\ n <= d * CeilQuotient(n, d)
         /\ d * CeilQuotient(n, d) < n + d
<1>1. n + d - 1 \in Nat
  OBVIOUS
<1> QED
  BY <1>1, DivBounds DEF CeilQuotient

(***************************************************************************)
(* checked_ceil_div never loses any of the dividend: the quotient times    *)
(* the divisor it returns is at least n, unless the quotient was below one *)
(* (then the divisor is 0).                                                *)
(***************************************************************************)
LEMMA CheckedCeilDivBounds ==
  ASSUME NEW n \in Nat, NEW d \in Nat, NEW c \in CheckedCeilDiv(n, d)
  PROVE  /\ c.quotient \in Nat
         /\ c.divisor \in Nat
         /\ d > 0
         /\ n >= d => /\ c.quotient > 0
                      /\ n <= c.divisor * c.quotient
                      /\ c.divisor <= d
         /\ n < d => c.divisor = 0 /\ c.quotient \in {0, 1}
<1>1. d # 0
  BY DEF CheckedCeilDiv, None
<1>2. CASE n < d
  BY <1>1, <1>2 DEF CheckedCeilDiv, When, None, Some
<1>3. CASE n >= d
  <2> DEFINE q == CeilQuotient(n, d)
             r == CeilQuotient(n, q)
  <2>1. c = [quotient |-> q, divisor |-> r]
    BY <1>1, <1>3 DEF CheckedCeilDiv, Some
  <2>2. q \in Nat /\ n <= d * q
    BY <1>1, CeilQuotientBounds
  <2>3. q > 0
    BY <1>1, <1>3, <2>2
  <2>4. r \in Nat /\ n <= q * r /\ q * r < n + q
    <3> HIDE DEF q
    <3> QED BY <2>2, <2>3, CeilQuotientBounds
  <2>5. r <= d
    <3> HIDE DEF q, r
    <3>1. q * r < q * d + q
      BY <2>2, <2>4
    <3>2. SUFFICES ASSUME r >= d + 1 PROVE FALSE
      BY <2>4
    <3>3. q * (d + 1) <= q * r
      BY <2>2, <2>4, <3>2, ProductMonotone
    <3> QED BY <2>2, <2>4, <3>1, <3>3
  <2>6. n <= r * q
    <3> HIDE DEF q, r
    <3> QED BY <2>2, <2>4
  <2> HIDE DEF q, r
  <2> QED BY <1>1, <1>3, <2>1, <2>2, <2>3, <2>4, <2>5, <2>6
<1> QED
  BY <1>2, <1>3

-----------------------------------------------------------------------------
(* Fees.                                                                   *)

\* A fee is a part of the amount it is taken from.
LEMMA FeeBounds ==
  ASSUME NEW amount \in Nat, NEW f \in Fraction, ValidFraction(f)
  PROVE  /\ CalculateFee(amount, f) \in Nat
         /\ CalculateFee(amount, f) <= amount
<1>1. CASE f.num = 0 \/ amount = 0
  BY <1>1 DEF CalculateFee
<1>2. CASE f.num # 0 /\ amount # 0
  <2> DEFINE n == f.num
             d == f.den
             q == (amount * n) \div d
  <2>1. n \in Nat \ {0} /\ d \in Nat \ {0} /\ n < d
    BY <1>2 DEF Fraction, ValidFraction
  <2>2. q \in Nat /\ d * q <= amount * n
    <3>1. amount * n \in Nat
      BY <2>1
    <3> QED BY <2>1, <3>1, DivBounds
  <2>3. q <= amount
    <3> HIDE DEF n, d, q
    <3>1. amount * n <= amount * d
      BY <2>1, ProductMonotone
    <3>2. SUFFICES ASSUME q >= amount + 1 PROVE FALSE
      BY <2>2
    <3>3. d * (amount + 1) <= d * q
      BY <2>1, <2>2, <3>2, ProductMonotone
    <3> QED BY <2>1, <2>2, <3>1, <3>3
  <2>4. CalculateFee(amount, f) = IF q = 0 THEN 1 ELSE q
    BY <1>2 DEF CalculateFee
  <2> QED BY <1>2, <2>2, <2>3, <2>4
<1> QED
  BY <1>1, <1>2

\* A fee on a larger amount is not smaller.
LEMMA FeeMonotone ==
  ASSUME NEW x \in Nat, NEW y \in Nat, x <= y, NEW f \in Fraction, ValidFraction(f)
  PROVE  CalculateFee(x, f) <= CalculateFee(y, f)
<1>1. CASE f.num = 0 \/ x = 0
  BY <1>1, FeeBounds DEF CalculateFee
<1>2. CASE f.num # 0 /\ x # 0
  <2> DEFINE n == f.num
             d == f.den
             p == (x * n) \div d
             q == (y * n) \div d
  <2>1. n \in Nat \ {0} /\ d \in Nat \ {0}
    BY <1>2 DEF Fraction, ValidFraction
  <2>2. x * n \in Nat /\ y * n \in Nat /\ x * n <= y * n
    BY <2>1
  <2>3. p \in Nat /\ d * p <= x * n
    BY <2>1, <2>2, DivBounds
  <2>4. q \in Nat /\ y * n < d * q + d
    BY <2>1, <2>2, DivBounds
  <2>5. p <= q
    <3> HIDE DEF n, d, p, q
    <3>1. SUFFICES ASSUME p >= q + 1 PROVE FALSE
      BY <2>3, <2>4
    <3>2. d * (q + 1) <= d * p
      BY <2>1, <2>3, <2>4, <3>1, ProductMonotone
    <3> QED BY <2>1, <2>2, <2>3, <2>4, <3>2
  <2>6. /\ CalculateFee(x, f) = IF p = 0 THEN 1 ELSE p
        /\ CalculateFee(y, f) = IF q = 0 THEN 1 ELSE q
    BY <1>2 DEF CalculateFee
  <2> QED BY <2>3, <2>4, <2>5, <2>6
<1> QED
  BY <1>1, <1>2

-----------------------------------------------------------------------------
(* The constant product curve.                                             *)

(***************************************************************************)
(* A swap before fees: the pool takes no more than it is offered, gives    *)
(* out something, keeps the product, and keeps some of both tokens if it   *)
(* had any of the token it buys.                                           *)
(***************************************************************************)
LEMMA ConstantProductSwapBounds ==
  ASSUME NEW x \in Nat, NEW S \in Nat, NEW D \in Nat,
         NEW r \in ConstantProductSwap(x, S, D)
  PROVE  /\ r.source \in Nat /\ r.source <= x
         /\ r.destination \in Nat \ {0} /\ r.destination <= D
         /\ S * D <= (S + r.source) * (D - r.destination)
         /\ S > 0 => r.destination < D
         /\ S > 0 \/ D > 0
<1>1. S * D \in Nat /\ S + x \in Nat
  OBVIOUS
<1>2. PICK c \in CheckedCeilDiv(S * D, S + x) :
        /\ S <= c.divisor
        /\ c.quotient < D
        /\ r = [source |-> c.divisor - S, destination |-> D - c.quotient]
  BY DEF ConstantProductSwap
<1>3. /\ c.quotient \in Nat
      /\ c.divisor \in Nat
      /\ S + x > 0
      /\ S * D >= S + x => /\ c.quotient > 0
                          /\ S * D <= c.divisor * c.quotient
                          /\ c.divisor <= S + x
      /\ S * D < S + x => c.divisor = 0 /\ c.quotient \in {0, 1}
  BY <1>1, CheckedCeilDivBounds
<1>4. /\ r.source = c.divisor - S
      /\ r.destination = D - c.quotient
      /\ S + r.source = c.divisor
      /\ D - r.destination = c.quotient
  BY <1>2, <1>3
<1>5. CASE S * D >= S + x
  BY <1>2, <1>3, <1>4, <1>5
<1>6. CASE S * D < S + x
  <2>1. S = 0 /\ c.divisor = 0
    BY <1>2, <1>3, <1>6
  <2>2. r.source = 0 /\ D > 0
    BY <1>2, <1>3, <1>4, <2>1
  <2>3. S * D = 0
    BY <2>1
  <2>4. (S + r.source) * (D - r.destination) = 0
    BY <1>3, <1>4, <2>1
  <2>5. r.destination \in Nat \ {0} /\ r.destination <= D
    BY <1>2, <1>3, <1>4
  <2>6. S * D <= (S + r.source) * (D - r.destination)
    BY <2>3, <2>4
  <2> QED BY <2>1, <2>2, <2>5, <2>6
<1> QED
  BY <1>1, <1>5, <1>6

(***************************************************************************)
(* A share of a reserve rounded down: never more than its part, all of it  *)
(* for all pool tokens, and less than all of it for fewer.                 *)
(***************************************************************************)
LEMMA FloorShare ==
  ASSUME NEW p \in Nat, NEW s \in Nat \ {0}, NEW r \in Nat
  PROVE  /\ ProRata(p, s, r, "Floor") \in Nat
         /\ s * ProRata(p, s, r, "Floor") <= p * r
         /\ p = s => ProRata(p, s, r, "Floor") = r
         /\ p < s /\ r > 0 => ProRata(p, s, r, "Floor") < r
<1> DEFINE f == (p * r) \div s
<1>1. p * r \in Nat
  OBVIOUS
<1>2. f \in Nat /\ s * f <= p * r
  BY <1>1, DivBounds
<1>3. ProRata(p, s, r, "Floor") = f
  BY DEF ProRata
<1>4. p = s => f = r
  BY DivMultiple
<1>5. ASSUME p < s, r > 0 PROVE f < r
  <2> HIDE DEF f
  <2>1. SUFFICES ASSUME f >= r PROVE FALSE
    BY <1>2
  <2>2. s * r <= s * f
    BY <1>2, <2>1, ProductMonotone
  <2>3. p * r < s * r
    BY <1>5
  <2> QED BY <1>1, <1>2, <2>2, <2>3
<1> QED
  BY <1>2, <1>3, <1>4, <1>5

(***************************************************************************)
(* A share rounded up: at least its part, unless it is refused as zero.    *)
(***************************************************************************)
LEMMA CeilingShare ==
  ASSUME NEW p \in Nat, NEW s \in Nat \ {0}, NEW r \in Nat
  PROVE  /\ ProRata(p, s, r, "Ceiling") \in Nat
         /\ ProRata(p, s, r, "Ceiling") > 0 => p * r <= s * ProRata(p, s, r, "Ceiling")
         /\ r = 0 \/ p = 0 => ProRata(p, s, r, "Ceiling") = 0
<1> DEFINE n == p * r
           f == n \div s
           m == n % s
<1>1. n \in Nat
  OBVIOUS
<1>2. f \in Nat /\ n < s * f + s /\ s * f <= n
  BY <1>1, DivBounds
<1>3. m \in Nat /\ n = s * f + m
  BY <1>1
<1>4. ProRata(p, s, r, "Ceiling") = IF m > 0 /\ f > 0 THEN f + 1 ELSE f
  BY DEF ProRata
<1>5. r = 0 \/ p = 0 => n = 0 /\ f = 0
  <2> SUFFICES ASSUME r = 0 \/ p = 0 PROVE n = 0 /\ f = 0
    OBVIOUS
  <2>1. n = 0
    OBVIOUS
  <2> HIDE DEF n, f
  <2>2. f = 0
    BY <1>2, <2>1
  <2> QED BY <2>1, <2>2
<1>6. CASE m > 0 /\ f > 0
  <2> HIDE DEF n, f, m
  <2>1. s * (f + 1) = s * f + s
    BY <1>2
  <2> QED BY <1>1, <1>2, <1>4, <1>5, <1>6, <2>1 DEF n
<1>7. CASE ~(m > 0 /\ f > 0)
  <2> HIDE DEF n, f, m
  <2> QED BY <1>1, <1>2, <1>3, <1>4, <1>5, <1>7 DEF n
<1> QED
  BY <1>6, <1>7

(***************************************************************************)
(* The pool tokens an exact amount is worth are rounded up by less than    *)
(* one (plus the error of the fixed point number): u fewer than q - 1 are  *)
(* worth less than the amount.                                             *)
(***************************************************************************)
LEMMA ExactOutBounds ==
  ASSUME NEW x \in Nat, NEW R \in Nat, NEW s \in Nat,
         NEW q \in ConstantProductWithdrawSingle(x, R, s),
         NEW u \in Nat, u > 0, u + 1 + PreciseError = q
  PROVE  /\ x <= R /\ R > 0
         /\ u < s
         /\ s * s * (R - x) < (s - u) * (s - u) * R
<1>1. R > 0 /\ x <= R /\ s # 0
  BY SplMathAssumption DEF ConstantProductWithdrawSingle, When, None, Some
<1>2. PICK p \in SharesForExactOut(x, R, s) : q \in Imprecise(p)
  BY <1>1 DEF ConstantProductWithdrawSingle, When, None
<1>3. p \in 0 .. s /\ (p > 0 => ~Covers(p - 1, x, R, s))
  BY <1>2 DEF SharesForExactOut
<1>4. q <= p + PreciseError
  BY <1>2 DEF Imprecise
<1>5. u + 1 <= p
  BY <1>3, <1>4, SplMathAssumption
<1>6. s * s * (R - x) < (s - (p - 1)) * (s - (p - 1)) * R
  BY <1>1, <1>3, <1>5 DEF Covers
<1>7. (s - (p - 1)) * (s - (p - 1)) <= (s - u) * (s - u)
  <2> DEFINE v == s - (p - 1)
             w == s - u
  <2>1. v \in Nat /\ w \in Nat /\ v <= w
    BY <1>3, <1>5
  <2> HIDE DEF v, w
  <2>2. v * v <= w * w
    BY <2>1, ProductMonotone
  <2> QED BY <2>2 DEF v, w
<1>8. (s - (p - 1)) * (s - (p - 1)) * R <= (s - u) * (s - u) * R
  <2> DEFINE v == (s - (p - 1)) * (s - (p - 1))
             w == (s - u) * (s - u)
  <2>1. v \in Nat /\ w \in Nat /\ v <= w
    BY <1>3, <1>5, <1>7
  <2> HIDE DEF v, w
  <2>2. v * R <= w * R
    BY <2>1, ProductMonotone
  <2> QED BY <2>2 DEF v, w
<1> QED
  BY <1>1, <1>3, <1>5, <1>6, <1>8

\* What the curve charges for amount is a share of the supply, and there is one.
LEMMA ExactOutCharge ==
  ASSUME NEW x \in Nat, NEW R \in Nat \ {0}, x <= R, NEW s \in Nat \ {0}
  PROVE  \E p \in 0 .. s : p \in ConstantProductWithdrawSingle(x, R, s)
<1> DEFINE T == {p \in 0 .. s : Covers(p, x, R, s)}
<1>1. T \in SUBSET Nat /\ s \in T
  <2>1. 0 <= s * s * (R - x)
    <3>1. s * s \in Nat /\ R - x \in Nat
      OBVIOUS
    <3> QED BY <3>1, ProductMonotone
  <2>2. (s - s) * (s - s) * R = 0
    OBVIOUS
  <2> QED BY <2>1, <2>2 DEF Covers
<1>2. PICK p \in T : \A k \in T : p <= k
  <2> HIDE DEF T
  <2> QED BY <1>1, SmallestNat
<1>3. p > 0 => ~Covers(p - 1, x, R, s)
  <2> SUFFICES ASSUME p > 0, p - 1 \in T PROVE FALSE
    OBVIOUS
  <2> QED BY <1>2
<1>4. p \in SharesForExactOut(x, R, s)
  BY <1>2, <1>3 DEF SharesForExactOut
<1>5. p \in Imprecise(p)
  BY SplMathAssumption DEF Imprecise
<1>6. p \in ConstantProductWithdrawSingle(x, R, s)
  BY <1>4, <1>5 DEF ConstantProductWithdrawSingle, When
<1> QED
  BY <1>6

(***************************************************************************)
(* Pool tokens worth x of reserve R, created when the pool has grown by x  *)
(* of R since the product of its reserves was k, are paid for: the square  *)
(* root of the product per pool token has not fallen.                      *)
(***************************************************************************)
LEMMA GrowthPaysForShares ==
  ASSUME NEW s \in Nat, NEW u \in Nat, NEW R \in Nat, NEW D \in Nat,
         NEW x \in Nat, NEW k \in Nat,
         R > 0, u < s, x <= R,
         k <= (R - x) * D,
         s * s * (R - x) < (s - u) * (s - u) * R
  PROVE  (s + u) * (s + u) * k <= s * s * (R * D)
<1> DEFINE t == s * s
           v == (s - u) * (s - u)
           w == (s + u) * (s + u)
           y == R - x
<1>1. t \in Nat \ {0} /\ v \in Nat /\ w \in Nat /\ y \in Nat
  OBVIOUS
<1>2. w * v <= t * t
  OBVIOUS
<1>3. t * y < v * R /\ k <= y * D
  OBVIOUS
<1> HIDE DEF t, v, w, y
<1>4. w * y <= t * R
  <2>1. w * (t * y) <= w * (v * R)
    BY <1>1, <1>3
  <2>2. w * (v * R) <= t * (t * R)
    BY <1>1, <1>2
  <2>3. t * (w * y) <= t * (t * R)
    BY <1>1, <2>1, <2>2
  <2> QED BY <1>1, <2>3
<1>5. w * k <= w * (y * D)
  BY <1>1, <1>3
<1>6. w * (y * D) <= t * (R * D)
  <2>1. (w * y) * D <= (t * R) * D
    BY <1>1, <1>4
  <2> QED BY <1>1, <2>1
<1>7. w * k <= t * (R * D)
  BY <1>1, <1>5, <1>6
<1> QED
  BY <1>7 DEF t, w

-----------------------------------------------------------------------------
(* The constant price curve.                                               *)

\* A swap takes no more than it is offered, and the pool's value is kept.
LEMMA ConstantPriceSwapBounds ==
  ASSUME NEW p \in Nat \ {0}, NEW x \in Nat, NEW d \in {"AtoB", "BtoA"},
         NEW r \in ConstantPriceSwap(p, x, d)
  PROVE  /\ r.source \in Nat /\ r.source <= x
         /\ r.destination \in Nat \ {0}
         /\ d = "AtoB" => r.source = p * r.destination
         /\ d = "BtoA" => r.destination = r.source * p
<1>1. CASE d = "BtoA"
  <2>1. r = [source |-> x, destination |-> x * p] /\ x * p > 0
    BY <1>1 DEF ConstantPriceSwap, When, Some, None
  <2>2. x * p \in Nat
    OBVIOUS
  <2> QED BY <1>1, <2>1, <2>2
<1>2. CASE d = "AtoB"
  <2> DEFINE q == x \div p
             m == x % p
  <2>1. q \in Nat /\ m \in Nat /\ x = p * q + m
    OBVIOUS
  <2>2. r = [source |-> x - m, destination |-> q] /\ q > 0
    BY <1>2 DEF ConstantPriceSwap, When, Some, None
  <2> HIDE DEF q, m
  <2>3. x - m = p * q /\ p * q \in Nat
    BY <2>1
  <2> QED BY <1>2, <2>1, <2>2, <2>3
<1> QED
  BY <1>1, <1>2

\* What checked_ceil_div yields for naturals are naturals.
LEMMA CeilDivQuotientsNat ==
  ASSUME NEW ns \in SUBSET Nat, NEW d \in Nat
  PROVE  CeilDivQuotients(ns, d) \subseteq Nat
<1> SUFFICES ASSUME NEW q \in CeilDivQuotients(ns, d) PROVE q \in Nat
  OBVIOUS
<1>1. PICK n \in ns : q \in {c.quotient : c \in CheckedCeilDiv(n, d)}
  BY DEF CeilDivQuotients
<1>2. PICK c \in CheckedCeilDiv(n, d) : q = c.quotient
  BY <1>1
<1>3. n \in Nat
  BY <1>1
<1> QED
  BY <1>2, <1>3, CheckedCeilDivBounds

\* The worth of pool tokens is a pair of natural amounts.
LEMMA ConstantPriceTradingTokensNat ==
  ASSUME NEW p \in Nat \ {0}, NEW n \in Nat, NEW s \in Nat, NEW a \in Nat, NEW b \in Nat,
         NEW round \in {"Floor", "Ceiling"},
         NEW w \in ConstantPriceTradingTokens(p, n, s, a, b, round)
  PROVE  w.A \in Nat /\ w.B \in Nat /\ s > 0
<1> DEFINE v == ConstantPriceValue(p, a, b)
           worth == CheckedMul(n, v)
<1>1. v \in Nat
  <2>1. a + b * p \in Nat
    OBVIOUS
  <2> QED BY <2>1, DivBounds DEF ConstantPriceValue
<1>2. worth \subseteq Nat
  <2> HIDE DEF v
  <2>1. n * v \in Nat
    BY <1>1
  <2> QED BY <2>1 DEF CheckedMul, When, Some, None
<1>3. s > 0
  BY DEF ConstantPriceTradingTokens, When, None
<1>4. CASE round = "Floor"
  <2>1. PICK m \in worth : w = [A |-> m \div s, B |-> (m \div p) \div s]
    BY <1>3, <1>4 DEF ConstantPriceTradingTokens, When
  <2>2. m \in Nat
    BY <1>2
  <2>3. m \div s \in Nat /\ m \div p \in Nat
    BY <1>3, <2>2, DivBounds
  <2>4. (m \div p) \div s \in Nat
    BY <1>3, <2>3, DivBounds
  <2> QED BY <1>3, <2>1, <2>3, <2>4
<1>5. CASE round = "Ceiling"
  <2> DEFINE qa == CeilDivQuotients(worth, s)
             qv == CeilDivQuotients(worth, p)
             qb == CeilDivQuotients(qv, s)
  <2>1. w \in [A : qa, B : qb]
    BY <1>3, <1>5 DEF ConstantPriceTradingTokens, When
  <2>2. qa \subseteq Nat /\ qv \subseteq Nat
    <3> HIDE DEF worth
    <3> QED BY <1>2, CeilDivQuotientsNat
  <2>3. qb \subseteq Nat
    <3> HIDE DEF qv
    <3> QED BY <2>2, CeilDivQuotientsNat
  <2> HIDE DEF qa, qb
  <2> QED BY <1>3, <2>1, <2>2, <2>3
<1> QED
  BY <1>4, <1>5

(***************************************************************************)
(* Half of a value grows by at least the smaller of two amounts added to   *)
(* it, and by more when what was lost to the rounding no longer is.        *)
(***************************************************************************)
Gained(v, w) == IF v % 2 = 1 /\ w % 2 = 0 THEN 1 ELSE 0

LEMMA HalfGrows ==
  ASSUME NEW v \in Nat, NEW x \in Nat, NEW y \in Nat, NEW m \in Nat, m <= x, m <= y
  PROVE  v \div 2 + m + Gained(v, v + x + y) <= (v + x + y) \div 2
  BY DEF Gained

\* It shrinks by at most the larger of two amounts taken from it, or less.
LEMMA HalfShrinks ==
  ASSUME NEW v \in Nat, NEW x \in Nat, NEW y \in Nat, NEW m \in Nat, x <= m, y <= m,
         x + y <= v
  PROVE  v \div 2 + Gained(v, v - x - y) <= (v - x - y) \div 2 + m
  BY DEF Gained

(***************************************************************************)
(* The quotient of checked_ceil_div alone: unless it is zero it covers the *)
(* dividend, and it exceeds the exact quotient by less than one, but when  *)
(* that is below one.                                                      *)
(***************************************************************************)
LEMMA CeilDivQuotientBounds ==
  ASSUME NEW n \in Nat, NEW d \in Nat, NEW q \in CeilDivQuotients({n}, d)
  PROVE  /\ d > 0 /\ q \in Nat
         /\ q > 0 => n <= d * q /\ d * (q - 1) <= n
<1>1. PICK c \in CheckedCeilDiv(n, d) : q = c.quotient
  BY DEF CeilDivQuotients
<1>2. /\ q \in Nat /\ c.divisor \in Nat /\ d > 0
      /\ n >= d => n <= c.divisor * q /\ c.divisor <= d
      /\ n < d => q \in {0, 1}
  BY <1>1, CheckedCeilDivBounds
<1>3. CASE n < d
  BY <1>2, <1>3
<1>4. CASE n >= d
  <2>1. q = CeilQuotient(n, d)
    BY <1>1, <1>2, <1>4 DEF CheckedCeilDiv, Some
  <2>2. n <= d * q /\ d * q < n + d
    BY <1>2, <2>1, CeilQuotientBounds
  <2>3. d * (q - 1) = d * q - d
    BY <1>2
  <2> QED
    BY <1>2, <2>2, <2>3
<1> QED
  BY <1>2, <1>3, <1>4

(***************************************************************************)
(* Pool tokens of a constant price pool cost at least their part of the    *)
(* halved value in each of the two tokens, unless one of them is free.     *)
(***************************************************************************)
LEMMA ConstantPriceCosts ==
  ASSUME NEW p \in Nat \ {0}, NEW n \in Nat, NEW s \in Nat \ {0},
         NEW a \in Nat, NEW b \in Nat,
         NEW w \in ConstantPriceTradingTokens(p, n, s, a, b, "Ceiling"),
         w.A > 0, w.B > 0
  PROVE  /\ n * ConstantPriceValue(p, a, b) <= s * w.A
         /\ n * ConstantPriceValue(p, a, b) <= s * (w.B * p)
<1> DEFINE v == n * ConstantPriceValue(p, a, b)
           worth == CheckedMul(n, ConstantPriceValue(p, a, b))
<1>1. v \in Nat
  <2>1. a + b * p \in Nat
    OBVIOUS
  <2>2. ConstantPriceValue(p, a, b) \in Nat
    BY <2>1, DivBounds DEF ConstantPriceValue
  <2> QED BY <2>2
<1>2. worth \subseteq {v}
  BY DEF CheckedMul, When, Some, None
<1>3. /\ w.A \in CeilDivQuotients(worth, s)
      /\ w.B \in CeilDivQuotients(CeilDivQuotients(worth, p), s)
  BY DEF ConstantPriceTradingTokens, When
<1> HIDE DEF worth, v
<1>4. w.A \in CeilDivQuotients({v}, s)
  BY <1>2, <1>3 DEF CeilDivQuotients
<1>5. PICK q \in CeilDivQuotients({v}, p) : w.B \in CeilDivQuotients({q}, s)
  BY <1>2, <1>3 DEF CeilDivQuotients
<1>6. v <= s * w.A
  BY <1>1, <1>4, CeilDivQuotientBounds
<1>7. q \in Nat /\ (q > 0 => v <= p * q)
  BY <1>1, <1>5, CeilDivQuotientBounds
<1>8. w.B \in Nat /\ q <= s * w.B
  BY <1>5, <1>7, CeilDivQuotientBounds
<1>9. q > 0
  <2>1. SUFFICES ASSUME q = 0 PROVE FALSE
    BY <1>7
  <2>2. s * (w.B - 1) <= 0 /\ w.B >= 1
    BY <1>5, <1>7, <1>8, <2>1, CeilDivQuotientBounds
  <2>3. w.B = 1
    BY <1>8, <2>2
  <2>4. PICK c \in CheckedCeilDiv(0, s) : c.quotient = 1
    BY <1>5, <2>1, <2>3 DEF CeilDivQuotients
  <2> QED
    BY <2>4 DEF CheckedCeilDiv, When, Some, None
<1>10. p * q <= s * (w.B * p)
  <2>1. p * q <= p * (s * w.B)
    BY <1>7, <1>8, ProductMonotone
  <2> QED BY <1>8, <2>1
<1>11. s * (w.B * p) \in Nat /\ p * q \in Nat
  BY <1>7, <1>8
<1> QED
  BY <1>1, <1>6, <1>7, <1>9, <1>10, <1>11 DEF v

\* They are redeemed for no more than their part of the halved value in each.
LEMMA ConstantPriceRedeems ==
  ASSUME NEW p \in Nat \ {0}, NEW n \in Nat, NEW s \in Nat \ {0},
         NEW a \in Nat, NEW b \in Nat,
         NEW w \in ConstantPriceTradingTokens(p, n, s, a, b, "Floor")
  PROVE  /\ w.A \in Nat /\ w.B \in Nat
         /\ s * w.A <= n * ConstantPriceValue(p, a, b)
         /\ s * (w.B * p) <= n * ConstantPriceValue(p, a, b)
<1> DEFINE v == n * ConstantPriceValue(p, a, b)
<1>1. v \in Nat
  <2>1. a + b * p \in Nat
    OBVIOUS
  <2>2. ConstantPriceValue(p, a, b) \in Nat
    BY <2>1, DivBounds DEF ConstantPriceValue
  <2> QED BY <2>2
<1>2. w = [A |-> v \div s, B |-> (v \div p) \div s]
  BY DEF ConstantPriceTradingTokens, CheckedMul, When, Some, None
<1> HIDE DEF v
<1>3. v \div s \in Nat /\ s * (v \div s) <= v
  BY <1>1, DivBounds
<1>4. v \div p \in Nat /\ p * (v \div p) <= v
  BY <1>1, DivBounds
<1> DEFINE q == v \div p
           b1 == q \div s
<1>5. b1 \in Nat /\ s * b1 <= q
  BY <1>4, DivBounds
<1>6. w.B = b1 /\ w.A = v \div s /\ q \in Nat /\ p * q <= v
  BY <1>2, <1>4
<1> HIDE DEF q, b1
<1>7. s * (b1 * p) <= p * q
  <2>1. s * b1 \in Nat
    BY <1>5
  <2>2. p * (s * b1) <= p * q
    BY <1>5, <1>6, <2>1, ProductMonotone
  <2>3. s * (b1 * p) = p * (s * b1)
    BY <1>5
  <2> QED BY <2>2, <2>3
<1>8. s * (b1 * p) \in Nat /\ p * q \in Nat
  BY <1>5, <1>6
<1> QED
  BY <1>1, <1>3, <1>5, <1>6, <1>7, <1>8 DEF v

(***************************************************************************)
(* After a deposit each pool token stands for at least as much of the      *)
(* halved value as before, and for more when the halving lost one before   *)
(* and does no longer.                                                     *)
(***************************************************************************)
LEMMA ConstantPriceDepositKeeps ==
  ASSUME NEW p \in Nat \ {0}, NEW n \in Nat, NEW s \in Nat \ {0},
         NEW a \in Nat, NEW b \in Nat,
         NEW w \in ConstantPriceTradingTokens(p, n, s, a, b, "Ceiling"),
         w.A > 0, w.B > 0
  PROVE  LET before == a + b * p
             after  == a + w.A + (b + w.B) * p
         IN  /\ ConstantPriceValue(p, a, b) * (s + n)
                  <= ConstantPriceValue(p, a + w.A, b + w.B) * s
             /\ ConstantPriceValue(p, a, b) * (s + n) + Gained(before, after) * s
                  <= ConstantPriceValue(p, a + w.A, b + w.B) * s
<1> DEFINE v == a + b * p
           x == w.A
           y == w.B * p
           h == ConstantPriceValue(p, a, b)
           g == ConstantPriceValue(p, a + w.A, b + w.B)
           m == IF x <= y THEN x ELSE y
           d == Gained(v, v + x + y)
<1>1. w.A \in Nat /\ w.B \in Nat
  BY ConstantPriceTradingTokensNat
<1>2. n * h <= s * x /\ n * h <= s * y
  BY ConstantPriceCosts
<1>3. v \in Nat /\ x \in Nat /\ y \in Nat /\ d \in Nat
  BY <1>1 DEF Gained
<1>4. /\ a + w.A + (b + w.B) * p = v + x + y
      /\ h = v \div 2 /\ g = (v + x + y) \div 2
  <2>1. a + w.A + (b + w.B) * p = v + x + y
    BY <1>1
  <2> QED BY <2>1 DEF ConstantPriceValue
<1>5. d = Gained(a + b * p, a + w.A + (b + w.B) * p)
  BY <1>4
<1> HIDE DEF v, x, y
<1>6. m \in Nat /\ m <= x /\ m <= y /\ n * h <= s * m
  BY <1>2, <1>3
<1> HIDE DEF m
<1>7. v \div 2 \in Nat /\ (v + x + y) \div 2 \in Nat
  BY <1>3, DivBounds
<1> HIDE DEF h, g
<1>8. h + m + d <= g /\ h \in Nat /\ g \in Nat
  BY <1>3, <1>4, <1>6, <1>7, HalfGrows
<1> HIDE DEF d
<1>9. (h + m + d) * s <= g * s
  BY <1>3, <1>6, <1>8, ProductMonotone
<1>10. /\ (h + m + d) * s = h * s + s * m + d * s
       /\ h * (s + n) = h * s + n * h
       /\ h * s \in Nat /\ n * h \in Nat /\ s * m \in Nat /\ g * s \in Nat /\ d * s \in Nat
  BY <1>3, <1>6, <1>8
<1>11. h * (s + n) <= g * s /\ h * (s + n) + d * s <= g * s
  BY <1>6, <1>9, <1>10
<1> QED
  BY <1>5, <1>11 DEF h, g

(***************************************************************************)
(* The same after a withdrawal of no more than what n pool tokens are      *)
(* worth.                                                                  *)
(***************************************************************************)
LEMMA ConstantPriceWithdrawKeeps ==
  ASSUME NEW p \in Nat \ {0}, NEW s \in Nat \ {0}, NEW n \in Nat, n <= s,
         NEW a \in Nat, NEW b \in Nat,
         NEW w \in ConstantPriceTradingTokens(p, n, s, a, b, "Floor"),
         NEW ra \in 0 .. a, NEW rb \in 0 .. b, ra <= w.A, rb <= w.B
  PROVE  LET before == a + b * p
             after  == a - ra + (b - rb) * p
         IN  /\ ConstantPriceValue(p, a, b) * (s - n)
                  <= ConstantPriceValue(p, a - ra, b - rb) * s
             /\ ConstantPriceValue(p, a, b) * (s - n) + Gained(before, after) * s
                  <= ConstantPriceValue(p, a - ra, b - rb) * s
<1> DEFINE v == a + b * p
           x == ra
           y == rb * p
           h == ConstantPriceValue(p, a, b)
           g == ConstantPriceValue(p, a - ra, b - rb)
           m == IF x <= y THEN y ELSE x
           d == Gained(v, v - x - y)
<1>1. /\ w.A \in Nat /\ w.B \in Nat
      /\ s * w.A <= n * h
      /\ s * (w.B * p) <= n * h
  BY ConstantPriceRedeems
<1>2. v \in Nat /\ x \in Nat /\ y \in Nat /\ x + y <= v
  <2>1. rb * p \in Nat /\ b * p \in Nat /\ rb * p <= b * p
    BY ProductMonotone
  <2> QED BY <2>1
<1>3. /\ a - ra + (b - rb) * p = v - x - y
      /\ h = v \div 2 /\ g = (v - x - y) \div 2
  <2>1. a - ra + (b - rb) * p = v - x - y
    BY <1>2
  <2> QED BY <2>1 DEF ConstantPriceValue
<1>4. v \div 2 \in Nat /\ (v - x - y) \div 2 \in Nat
  <2> HIDE DEF v, x, y
  <2>1. v - x - y \in Nat
    BY <1>2
  <2> QED BY <1>2, <2>1, DivBounds
<1>5. h \in Nat /\ g \in Nat /\ n * h \in Nat
  <2>1. h \in Nat /\ g \in Nat
    BY <1>3, <1>4, Zenon
  <2> HIDE DEF h, g
  <2> QED BY <2>1
<1>6. s * x <= n * h /\ s * y <= n * h
  <2>1. /\ s * x \in Nat /\ s * w.A \in Nat /\ s * x <= s * w.A
    BY <1>1, <1>2, ProductMonotone
  <2>2. y <= w.B * p /\ w.B * p \in Nat
    BY <1>1, ProductMonotone
  <2> HIDE DEF h, y, x
  <2>3. /\ s * y \in Nat /\ s * (w.B * p) \in Nat /\ s * y <= s * (w.B * p)
    BY <1>2, <2>2, ProductMonotone
  <2> QED BY <1>1, <1>5, <2>1, <2>3
<1>7. d \in Nat /\ d = Gained(a + b * p, a - ra + (b - rb) * p)
  BY <1>3 DEF Gained
<1> HIDE DEF v, x, y
<1>8. m \in Nat /\ x <= m /\ y <= m /\ s * m <= n * h
  BY <1>2, <1>6
<1> HIDE DEF m, h, g
<1>9. h + d <= g + m
  BY <1>2, <1>3, <1>8, HalfShrinks
<1> HIDE DEF d
<1>10. (h + d) * s <= (g + m) * s
  BY <1>5, <1>7, <1>8, <1>9, ProductMonotone
<1>11. /\ (g + m) * s = g * s + s * m
       /\ (h + d) * s = h * s + d * s
       /\ h * (s - n) = h * s - n * h
       /\ h * s \in Nat /\ n * h \in Nat /\ s * m \in Nat /\ g * s \in Nat /\ d * s \in Nat
  BY <1>5, <1>7, <1>8
<1>12. h * (s - n) <= g * s /\ h * (s - n) + d * s <= g * s
  BY <1>8, <1>10, <1>11
<1> QED
  BY <1>7, <1>12 DEF h, g

-----------------------------------------------------------------------------
(* The stable and the offset curve.                                        *)

\* A stable swap takes what it is offered and does not pay more than there is.
LEMMA StableSwapBounds ==
  ASSUME NEW amp \in Nat, NEW x \in Nat, NEW S \in Nat, NEW D \in Nat,
         NEW r \in StableSwap(amp, x, S, D)
  PROVE  /\ r.source = x
         /\ r.destination \in Nat /\ r.destination <= D
<1>1. PICK leverage \in Leverage(amp) :
        r \in { [source |-> x, destination |-> D - y] :
                  y \in { n \in UNION { ComputeNewDestinationAmount(leverage, S + x, d) :
                                          d \in ComputeD(leverage, S, D) } : n <= D } }
  BY DEF StableSwap
<1>2. PICK d \in ComputeD(leverage, S, D) :
        \E y \in ComputeNewDestinationAmount(leverage, S + x, d) :
          y <= D /\ r = [source |-> x, destination |-> D - y]
  BY <1>1
<1>3. ComputeNewDestinationAmount(leverage, S + x, d) \subseteq Nat
  BY DEF ComputeNewDestinationAmount, ToU128, When, Some, None
<1> QED
  BY <1>2, <1>3

\* An offset swap takes no more than it is offered.
LEMMA OffsetSwapBounds ==
  ASSUME NEW o \in Nat, NEW x \in Nat, NEW S \in Nat, NEW D \in Nat,
         NEW d \in {"AtoB", "BtoA"}, NEW r \in OffsetSwap(o, x, S, D, d)
  PROVE  /\ r.source \in Nat /\ r.source <= x
         /\ r.destination \in Nat \ {0}
<1>1. S + o \in Nat /\ D + o \in Nat
  OBVIOUS
<1> QED
  BY <1>1, ConstantProductSwapBounds DEF OffsetSwap, When, None

-----------------------------------------------------------------------------
(* Any curve.                                                              *)

(***************************************************************************)
(* A swap with fees never takes more than the user offers and never pays   *)
(* more than the pool has.                                                 *)
(***************************************************************************)
LEMMA SwapBounds ==
  ASSUME NEW curve \in SwapCurves, ValidCurve(curve), NEW fees, ValidFees(fees),
         NEW x \in Nat, NEW S \in Nat, NEW D \in Nat, NEW d \in {"AtoB", "BtoA"},
         NEW r \in SwapWithFees(curve, fees, x, S, D, d)
  PROVE  /\ r.source \in Nat /\ r.source <= x
         /\ r.destination \in Nat /\ r.destination <= D
         /\ curve.type # "Stable" => r.destination > 0
         /\ r.ownerFee \in Nat
<1> DEFINE of == OwnerTradingFee(fees, x)
           total == TradingFee(fees, x) + of
<1>1. of \in Nat /\ total \in Nat
  BY FeeBounds DEF ValidFees, OwnerTradingFee, TradingFee
<1>2. total <= x
  BY DEF SwapWithFees, When, None
<1>3. PICK s \in SwapWithoutFees(curve, x - total, S, D, d) :
        /\ s.destination <= D
        /\ r = [source |-> s.source + total, destination |-> s.destination,
                ownerFee |-> of]
  BY <1>2 DEF SwapWithFees, When
<1>4. /\ s.source \in Nat /\ s.source <= x - total /\ s.destination \in Nat
      /\ curve.type # "Stable" => s.destination > 0
  <2> HIDE DEF total
  <2>1. x - total \in Nat
    BY <1>1, <1>2
  <2>2. CASE curve.type = "ConstantProduct"
    BY <1>3, <2>1, <2>2, ConstantProductSwapBounds DEF SwapWithoutFees
  <2>3. CASE curve.type = "ConstantPrice"
    <3>1. curve.parameter \in Nat \ {0}
      BY <2>3 DEF SwapCurves, ValidCurve
    <3> QED BY <1>3, <2>1, <2>3, <3>1, ConstantPriceSwapBounds DEF SwapWithoutFees
  <2>4. CASE curve.type = "Stable"
    <3>1. curve.parameter \in Nat
      BY DEF SwapCurves
    <3>2. s \in StableSwap(curve.parameter, x - total, S, D)
      BY <1>3, <2>4 DEF SwapWithoutFees
    <3>3. /\ s.source = x - total
          /\ s.destination \in Nat
      BY <2>1, <3>1, <3>2, StableSwapBounds
    <3> QED BY <2>1, <2>4, <3>3
  <2>5. CASE curve.type = "Offset"
    <3>1. curve.parameter \in Nat
      BY DEF SwapCurves
    <3>2. s \in OffsetSwap(curve.parameter, x - total, S, D, d)
      BY <1>3, <2>5 DEF SwapWithoutFees
    <3> QED BY <2>1, <2>5, <3>1, <3>2, OffsetSwapBounds
  <2> QED BY <2>2, <2>3, <2>4, <2>5 DEF SwapCurves, CurveTypes
<1> HIDE DEF of, total
<1> QED
  BY <1>1, <1>2, <1>3, <1>4

(***************************************************************************)
(* A constant product swap keeps the product even without the fees it      *)
(* leaves in the source reserve.                                           *)
(***************************************************************************)
LEMMA ProductSwapBounds ==
  ASSUME NEW curve \in SwapCurves, curve.type = "ConstantProduct",
         NEW fees, ValidFees(fees),
         NEW x \in Nat, NEW S \in Nat, NEW D \in Nat, NEW d \in {"AtoB", "BtoA"},
         NEW r \in SwapWithFees(curve, fees, x, S, D, d)
  PROVE  LET total == TradingFee(fees, x) + OwnerTradingFee(fees, x)
         IN  /\ r.ownerFee = OwnerTradingFee(fees, x)
             /\ total \in Nat /\ total <= r.source
             /\ S * D <= (S + r.source - total) * (D - r.destination)
             /\ S > 0 => r.destination < D
             /\ S > 0 \/ D > 0
<1> DEFINE of == OwnerTradingFee(fees, x)
           total == TradingFee(fees, x) + of
<1>1. of \in Nat /\ total \in Nat
  BY FeeBounds DEF ValidFees, OwnerTradingFee, TradingFee
<1>2. total <= x
  BY DEF SwapWithFees, When, None
<1>3. PICK s \in ConstantProductSwap(x - total, S, D) :
        r = [source |-> s.source + total, destination |-> s.destination, ownerFee |-> of]
  BY <1>2 DEF SwapWithFees, SwapWithoutFees, When
<1> SUFFICES /\ r.ownerFee = of
             /\ total \in Nat /\ total <= r.source
             /\ S * D <= (S + r.source - total) * (D - r.destination)
             /\ S > 0 => r.destination < D
             /\ S > 0 \/ D > 0
  OBVIOUS
<1> HIDE DEF of, total
<1>4. x - total \in Nat
  BY <1>1, <1>2
<1>5. /\ s.source \in Nat
      /\ S * D <= (S + s.source) * (D - s.destination)
      /\ S > 0 => s.destination < D
      /\ S > 0 \/ D > 0
  BY <1>3, <1>4, ConstantProductSwapBounds
<1>6. S + r.source - total = S + s.source /\ r.destination = s.destination
  BY <1>1, <1>3, <1>5
<1> QED
  BY <1>1, <1>3, <1>5, <1>6

(***************************************************************************)
(* A constant price swap exchanges equal values and leaves both fees in    *)
(* the pool.                                                               *)
(***************************************************************************)
LEMMA PriceSwapBounds ==
  ASSUME NEW curve \in SwapCurves, ValidCurve(curve), curve.type = "ConstantPrice",
         NEW fees, ValidFees(fees),
         NEW x \in Nat, NEW S \in Nat, NEW D \in Nat, NEW d \in {"AtoB", "BtoA"},
         NEW r \in SwapWithFees(curve, fees, x, S, D, d)
  PROVE  LET total == TradingFee(fees, x) + OwnerTradingFee(fees, x)
         IN  /\ r.ownerFee = OwnerTradingFee(fees, x)
             /\ total \in Nat
             /\ r.source - total \in Nat \ {0}
             /\ r.destination \in Nat \ {0}
             /\ d = "AtoB" => r.source - total = curve.parameter * r.destination
             /\ d = "BtoA" => r.destination = (r.source - total) * curve.parameter
<1> DEFINE of == OwnerTradingFee(fees, x)
           total == TradingFee(fees, x) + of
           p == curve.parameter
<1>1. of \in Nat /\ total \in Nat
  BY FeeBounds DEF ValidFees, OwnerTradingFee, TradingFee
<1>2. total <= x
  BY DEF SwapWithFees, When, None
<1>3. PICK s \in ConstantPriceSwap(p, x - total, d) :
        r = [source |-> s.source + total, destination |-> s.destination, ownerFee |-> of]
  BY <1>2 DEF SwapWithFees, SwapWithoutFees, When
<1>4. p \in Nat \ {0}
  BY DEF SwapCurves, ValidCurve
<1> SUFFICES /\ r.ownerFee = of
             /\ total \in Nat
             /\ r.source - total \in Nat \ {0}
             /\ r.destination \in Nat \ {0}
             /\ d = "AtoB" => r.source - total = p * r.destination
             /\ d = "BtoA" => r.destination = (r.source - total) * p
  OBVIOUS
<1> HIDE DEF of, total, p
<1>5. /\ s.source \in Nat /\ s.destination \in Nat \ {0}
      /\ d = "AtoB" => s.source = p * s.destination
      /\ d = "BtoA" => s.destination = s.source * p
  <2>1. x - total \in Nat
    BY <1>1, <1>2
  <2> QED BY <1>3, <1>4, <2>1, ConstantPriceSwapBounds
<1>6. r.source - total = s.source /\ r.destination = s.destination
  BY <1>1, <1>3, <1>5
<1>7. s.source # 0
  BY <1>4, <1>5
<1> QED
  BY <1>1, <1>3, <1>5, <1>6, <1>7

\* The worth of pool tokens in trading tokens is a pair of naturals.
LEMMA TradingTokensNat ==
  ASSUME NEW curve \in SwapCurves, ValidCurve(curve),
         NEW n \in Nat, NEW s \in Nat, NEW a \in Nat, NEW b \in Nat,
         NEW round \in {"Floor", "Ceiling"},
         NEW w \in PoolTokensToTradingTokens(curve, n, s, a, b, round)
  PROVE  w.A \in Nat /\ w.B \in Nat /\ s > 0
<1>1. ASSUME curve.type # "ConstantPrice"
      PROVE  \E c \in Nat :
               s > 0 /\ w = [A |-> ProRata(n, s, a, round), B |-> ProRata(n, s, c, round)]
  <2>1. CASE curve.type = "Offset"
    <3>1. b + curve.parameter \in Nat
      BY DEF SwapCurves
    <3> QED BY <2>1, <3>1 DEF PoolTokensToTradingTokens, OffsetTradingTokens,
                             ConstantProductTradingTokens, When, None, Some
  <2>2. CASE curve.type # "Offset"
    BY <1>1, <2>2 DEF PoolTokensToTradingTokens, ConstantProductTradingTokens,
                      StableTradingTokens, When, None, Some, SwapCurves, CurveTypes
  <2> QED BY <2>1, <2>2
<1>2. CASE curve.type # "ConstantPrice"
  <2>1. PICK c \in Nat :
          s > 0 /\ w = [A |-> ProRata(n, s, a, round), B |-> ProRata(n, s, c, round)]
    BY <1>1, <1>2
  <2>2. s \in Nat \ {0}
    BY <2>1
  <2>3. ProRata(n, s, a, round) \in Nat /\ ProRata(n, s, c, round) \in Nat
    <3>1. CASE round = "Floor"
      BY <2>2, <3>1, FloorShare
    <3>2. CASE round = "Ceiling"
      BY <2>2, <3>2, CeilingShare
    <3> QED BY <3>1, <3>2
  <2> QED BY <2>1, <2>3
<1>3. CASE curve.type = "ConstantPrice"
  <2>1. curve.parameter \in Nat \ {0}
    BY <1>3 DEF SwapCurves, ValidCurve
  <2> QED BY <1>3, <2>1, ConstantPriceTradingTokensNat DEF PoolTokensToTradingTokens
<1> QED
  BY <1>2, <1>3

\* The amount a fee in trading tokens is converted at, trading fee included.
LEMMA ExactOutAmount ==
  ASSUME NEW fees, ValidFees(fees), NEW x \in Nat, NEW y \in Nat, y <= x
  PROVE  LET half == IF y \div 2 > 1 THEN y \div 2 ELSE 1
         IN  /\ half \in Nat
             /\ TradingFee(fees, half) \in Nat
             /\ y > 0 => TradingFee(fees, half) <= TradingFee(fees, x)
<1> DEFINE half == IF y \div 2 > 1 THEN y \div 2 ELSE 1
<1>1. half \in Nat /\ (y > 0 => half <= x)
  OBVIOUS
<1> HIDE DEF half
<1>2. TradingFee(fees, half) \in Nat
  BY <1>1, FeeBounds DEF ValidFees, TradingFee
<1>3. y > 0 => TradingFee(fees, half) <= TradingFee(fees, x)
  BY <1>1, FeeMonotone DEF ValidFees, TradingFee
<1> QED
  BY <1>1, <1>2, <1>3 DEF half

\* The pool tokens asked for an amount of a constant product reserve.
LEMMA ProductWithdrawNat ==
  ASSUME NEW y, NEW R, NEW s \in Nat, NEW q \in ConstantProductWithdrawSingle(y, R, s)
  PROVE  q \in Nat /\ (s = 0 => q = 0)
<1>1. CASE s = 0
  BY <1>1 DEF ConstantProductWithdrawSingle, When, None, Some
<1>2. CASE s # 0
  <2>1. PICK p \in SharesForExactOut(y, R, s) : q \in Imprecise(p)
    BY <1>2 DEF ConstantProductWithdrawSingle, When, None
  <2>2. p \in 0 .. s
    BY <2>1 DEF SharesForExactOut
  <2> QED BY <1>2, <2>1, <2>2, SplMathAssumption DEF Imprecise
<1> QED
  BY <1>1, <1>2

\* The pool tokens asked for an amount of a stable pool's reserve.
LEMMA StableWithdrawNat ==
  ASSUME NEW amp \in Nat, NEW y \in Nat, NEW a \in Nat, NEW b \in Nat, NEW s \in Nat,
         NEW d \in {"AtoB", "BtoA"}, NEW q \in StableWithdrawSingle(amp, y, a, b, s, d)
  PROVE  q \in Nat
<1>1. CASE y = 0
  BY <1>1 DEF StableWithdrawSingle, Some
<1>2. CASE y # 0
  <2> DEFINE a1 == IF d = "AtoB" THEN a - y ELSE a
             b1 == IF d = "AtoB" THEN b ELSE b - y
  <2>1. PICK leverage \in Leverage(amp) :
          \E p \in InvariantPairs(leverage, a, b, a1, b1) :
            q \in Imprecise(CeilQuotient((p[1] - p[2]) * s, p[1]))
    BY <1>2 DEF StableWithdrawSingle, When, None
  <2>2. PICK n : q \in 0 .. n
    BY <2>1 DEF Imprecise
  <2> QED BY <1>2, <2>2
<1> QED
  BY <1>1, <1>2

\* An owner fee in pool tokens is a natural, and none without pool tokens.
LEMMA ExactOutNat ==
  ASSUME NEW curve \in SwapCurves, ValidCurve(curve), NEW fees, ValidFees(fees),
         NEW y \in Nat, NEW a \in Nat, NEW b \in Nat, NEW s \in Nat,
         NEW d \in {"AtoB", "BtoA"},
         NEW q \in WithdrawSingleExactOut(curve, fees, y, a, b, s, d)
  PROVE  /\ q \in Nat
         /\ curve.type = "ConstantProduct" /\ s = 0 => q = 0
<1> DEFINE half == IF y \div 2 > 1 THEN y \div 2 ELSE 1
           total == y + TradingFee(fees, half)
           R == IF d = "AtoB" THEN a ELSE b
<1>1. total \in Nat
  BY ExactOutAmount
<1>2. CASE y = 0
  BY <1>2 DEF WithdrawSingleExactOut, Some
<1>3. CASE y # 0 /\ curve.type = "ConstantProduct"
  <2>1. q \in ConstantProductWithdrawSingle(total, R, s)
    BY <1>3 DEF WithdrawSingleExactOut, PoolTokensForExactOut
  <2> HIDE DEF total, R
  <2> QED BY <1>3, <2>1, ProductWithdrawNat
<1>4. CASE y # 0 /\ curve.type = "ConstantPrice"
  <2> DEFINE p == curve.parameter
             given == IF d = "AtoB" THEN total ELSE total * p
             value == b * p + a
  <2>1. p \in Nat
    BY DEF SwapCurves
  <2>2. q \in CeilDivQuotients({s * given}, value)
    BY <1>4 DEF WithdrawSingleExactOut, PoolTokensForExactOut, ConstantPriceWithdrawSingle
  <2> HIDE DEF p, total
  <2>3. s * given \in Nat /\ value \in Nat
    BY <1>1, <2>1
  <2> HIDE DEF given, value
  <2>4. {s * given} \in SUBSET Nat
    BY <2>3
  <2> QED BY <1>4, <2>2, <2>3, <2>4, CeilDivQuotientsNat
<1>5. CASE y # 0 /\ curve.type = "Stable"
  <2>1. q \in StableWithdrawSingle(curve.parameter, total, a, b, s, d)
    BY <1>5 DEF WithdrawSingleExactOut, PoolTokensForExactOut
  <2>2. curve.parameter \in Nat
    BY DEF SwapCurves
  <2> HIDE DEF total
  <2> QED BY <1>1, <1>5, <2>1, <2>2, StableWithdrawNat
<1>6. CASE y # 0 /\ curve.type = "Offset"
  <2>1. q \in ConstantProductWithdrawSingle(
                total, IF d = "AtoB" THEN a ELSE b + curve.parameter, s)
    BY <1>6 DEF WithdrawSingleExactOut, PoolTokensForExactOut, OffsetWithdrawSingle
  <2> QED BY <1>6, <2>1, ProductWithdrawNat
<1> QED
  BY <1>2, <1>3, <1>4, <1>5, <1>6 DEF SwapCurves, CurveTypes

\* The pool tokens an amount of an offset or a stable pool's token earns.
LEMMA ExactInNat ==
  ASSUME NEW curve, curve.type \in {"Stable", "Offset"}, NEW amount, NEW a, NEW b,
         NEW s, NEW d, NEW q \in PoolTokensForExactIn(curve, amount, a, b, s, d)
  PROVE  q \in Nat
<1>1. CASE curve.type = "Stable"
  <2>1. q \in StableDepositSingle(curve.parameter, amount, a, b, s, d)
    BY <1>1 DEF PoolTokensForExactIn
  <2>2. q = 0 \/ \E n : q \in Imprecise(n)
    BY <2>1 DEF StableDepositSingle, Some
  <2> QED BY <2>2 DEF Imprecise
<1>2. CASE curve.type = "Offset"
  <2>1. \E r : q \in ConstantProductDepositSingle(amount, r, s)
    BY <1>2 DEF PoolTokensForExactIn, OffsetDepositSingle
  <2>2. q = 0 \/ \E n : q \in Imprecise(n)
    BY <2>1 DEF ConstantProductDepositSingle, When, None, Some
  <2> QED BY <2>2 DEF Imprecise
<1> QED
  BY <1>1, <1>2

-----------------------------------------------------------------------------
(* Sums over accounts.                                                     *)

(***************************************************************************)
(* A non-empty family of subsets of a finite set has a smallest member:    *)
(* what induction on finite sets rests on here.                            *)
(***************************************************************************)
LEMMA SmallestSubset ==
  ASSUME NEW S, IsFiniteSet(S), NEW F \in SUBSET (SUBSET S), F # {}
  PROVE  \E T \in F : \A U \in F : U \subseteq T => U = T
<1>1. F \subseteq FiniteSubsetsOf(S)
  BY FS_Subset DEF FiniteSubsetsOf
<1>2. PICK T \in F : \A U \in F : <<U, T>> \notin StrictSubsetOrdering(S)
  BY <1>1, FS_StrictSubsetOrderingWellFounded, WFMin
<1>3. ASSUME NEW U \in F, U \subseteq T, U # T PROVE FALSE
  <2>1. <<U, T>> \in StrictSubsetOrdering(S)
    <3>1. U \in SUBSET S /\ T \in SUBSET S
      OBVIOUS
    <3> QED
      BY <3>1, <1>3 DEF StrictSubsetOrdering
  <2> QED
    BY <2>1, <1>2
<1> QED
  BY <1>3

(***************************************************************************)
(* The single tokens of the accounts in S when x holds f[x], numbered in   *)
(* each account: how many they are needs no recursion, and is the sum.     *)
(***************************************************************************)
Units(f, S) == {p \in S \X Nat : 1 <= p[2] /\ p[2] <= f[p[1]]}

\* One more account adds what it holds.
LEMMA UnitsOfOneMore ==
  ASSUME NEW S, NEW x, x \notin S, NEW f, f[x] \in Nat,
         IsFiniteSet(Units(f, S))
  PROVE  /\ IsFiniteSet(Units(f, S \cup {x}))
         /\ Cardinality(Units(f, S \cup {x})) = f[x] + Cardinality(Units(f, S))
<1> DEFINE range == 1 .. f[x]
           new == {x} \X range
<1>1. /\ IsFiniteSet(range)
      /\ Cardinality(range) = f[x]
  BY FS_Interval
<1>2. /\ IsFiniteSet({x})
      /\ Cardinality({x}) = 1
  BY FS_Singleton
<1>3. /\ IsFiniteSet(new)
      /\ Cardinality(new) = f[x]
  <2> HIDE DEF range
  <2> QED
    BY <1>1, <1>2, FS_Product
<1>4. Units(f, S \cup {x}) = Units(f, S) \cup new
  BY DEF Units
<1>5. Units(f, S) \cap new = {}
  BY DEF Units
<1>6. /\ Cardinality(Units(f, S)) \in Nat
      /\ Cardinality({}) = 0
  BY FS_CardinalityType, FS_EmptySet
<1>7. Cardinality(Units(f, S) \cup new)
         = Cardinality(Units(f, S)) + Cardinality(new) - Cardinality(Units(f, S) \cap new)
  <2> HIDE DEF new
  <2> QED
    BY <1>3, FS_Union
<1>8. IsFiniteSet(Units(f, S) \cup new)
  <2> HIDE DEF new
  <2> QED
    BY <1>3, FS_Union
<1>9. /\ Cardinality(Units(f, S) \cap new) = 0
      /\ Cardinality(Units(f, S \cup {x})) = Cardinality(Units(f, S) \cup new)
      /\ IsFiniteSet(Units(f, S \cup {x}))
  <2> HIDE DEF new
  <2> QED
    BY <1>4, <1>5, <1>6, <1>8, Zenon
<1> HIDE DEF new, range
<1> QED
  BY <1>3, <1>6, <1>7, <1>9

\* Finitely many accounts hold finitely many tokens.
LEMMA UnitsFinite ==
  ASSUME NEW S, IsFiniteSet(S), NEW f, \A x \in S : f[x] \in Nat
  PROVE  /\ IsFiniteSet(Units(f, S))
         /\ Cardinality(Units(f, S)) \in Nat
         /\ S = {} => Cardinality(Units(f, S)) = 0
<1>1. IsFiniteSet(Units(f, S))
  <2> DEFINE F == {T \in SUBSET S : ~IsFiniteSet(Units(f, T))}
  <2> SUFFICES ASSUME F # {} PROVE FALSE
    OBVIOUS
  <2>1. PICK T \in F : \A U \in F : U \subseteq T => U = T
    <3>1. F \in SUBSET (SUBSET S) /\ F # {}
      OBVIOUS
    <3> HIDE DEF F
    <3> QED
      BY <3>1, SmallestSubset
  <2>2. T # {}
    <3>1. Units(f, {}) = {}
      BY DEF Units
    <3> QED
      BY <3>1, FS_EmptySet
  <2>3. PICK x \in T : TRUE
    BY <2>2
  <2>4. /\ T \ {x} \in SUBSET S
        /\ T \ {x} # T
        /\ (T \ {x}) \cup {x} = T
        /\ x \in S
    OBVIOUS
  <2>5. IsFiniteSet(Units(f, T \ {x}))
    BY <2>1, <2>4
  <2> QED
    BY <2>4, <2>5, UnitsOfOneMore
<1>2. S = {} => Units(f, S) = {}
  BY DEF Units
<1> QED
  BY <1>1, <1>2, FS_CardinalityType, FS_EmptySet

(***************************************************************************)
(* SumFunction of the community modules, a fold that takes the accounts in *)
(* some order, counts the tokens: the count solves the fold's recursion,   *)
(* and any two solutions agree on the smallest set they could differ on.   *)
(***************************************************************************)
LEMMA SumIsUnits ==
  ASSUME NEW f, IsFiniteSet(DOMAIN f), \A x \in DOMAIN f : f[x] \in Nat
  PROVE  SumFunction(f) = Cardinality(Units(f, DOMAIN f))
<1> DEFINE S    == DOMAIN f
           c(s) == CHOOSE x \in s : TRUE
           IsSum(h) == h = [s \in SUBSET S |-> IF s = {} THEN 0 ELSE f[c(s)] + h[s \ {c(s)}]]
           g    == [s \in SUBSET S |-> Cardinality(Units(f, s))]
           sum  == CHOOSE h : IsSum(h)
<1>1. ASSUME NEW s \in SUBSET S
      PROVE  /\ IsFiniteSet(s)
             /\ IsFiniteSet(Units(f, s))
             /\ s = {} => g[s] = 0
             /\ s # {} => g[s] = f[c(s)] + g[s \ {c(s)}]
  <2>1. /\ IsFiniteSet(s)
        /\ IsFiniteSet(Units(f, s))
        /\ s = {} => g[s] = 0
    BY FS_Subset, UnitsFinite
  <2>2. ASSUME s # {} PROVE g[s] = f[c(s)] + g[s \ {c(s)}]
    <3> DEFINE x == c(s)
               r == s \ {x}
    <3>1. x \in s
      BY <2>2
    <3>2. r \in SUBSET S /\ x \notin r /\ r \cup {x} = s /\ f[x] \in Nat
      BY <3>1
    <3>3. IsFiniteSet(Units(f, r))
      BY <3>2, FS_Subset, UnitsFinite
    <3> HIDE DEF x, r
    <3>4. Cardinality(Units(f, r \cup {x})) = f[x] + Cardinality(Units(f, r))
      BY <3>2, <3>3, UnitsOfOneMore
    <3>5. g[s] = f[x] + g[r]
      BY <3>2, <3>4
    <3> QED
      BY <3>5 DEF r, x
  <2> QED
    BY <2>1, <2>2
<1>2. IsSum(g)
  <2>1. g = [s \in SUBSET S |-> g[s]]
    OBVIOUS
  <2>2. \A s \in SUBSET S : g[s] = IF s = {} THEN 0 ELSE f[c(s)] + g[s \ {c(s)}]
    BY <1>1
  <2> HIDE DEF g
  <2> QED
    BY <2>1, <2>2, Zenon
<1>3. IsSum(sum)
  <2> HIDE DEF IsSum, g
  <2> QED
    BY <1>2
<1>4. sum[S] = g[S]
  <2> DEFINE F == {s \in SUBSET S : sum[s] # g[s]}
  <2> SUFFICES ASSUME F # {} PROVE FALSE
    OBVIOUS
  <2>1. PICK T \in F : \A U \in F : U \subseteq T => U = T
    <3>1. F \in SUBSET (SUBSET S) /\ F # {}
      OBVIOUS
    <3> HIDE DEF F
    <3> QED
      BY <3>1, SmallestSubset
  <2> DEFINE x == c(T)
  <2>2. sum[T] = IF T = {} THEN 0 ELSE f[x] + sum[T \ {x}]
    <3> HIDE DEF sum
    <3> QED
      BY <1>3
  <2>3. T # {}
    BY <2>1, <2>2, <1>1
  <2>4. x \in T /\ T \ {x} \in SUBSET S /\ T \ {x} # T
    BY <2>3
  <2>5. sum[T \ {x}] = g[T \ {x}]
    <3> HIDE DEF sum, g, x
    <3> QED
      BY <2>1, <2>4
  <2>6. g[T] = f[x] + g[T \ {x}]
    BY <2>3, <1>1
  <2> HIDE DEF sum, g, x
  <2> QED
    BY <2>2, <2>3, <2>5, <2>6, <2>1
<1>5. SumFunction(f) = sum[S]
  BY DEF SumFunction, SumFunctionOnSet, FoldFunctionOnSet, MapThenFoldSet
<1> QED
  BY <1>4, <1>5

\* A sum of naturals is a natural.
LEMMA SumOfNat ==
  ASSUME NEW S, IsFiniteSet(S), NEW f \in [S -> Nat]
  PROVE  SumFunction(f) \in Nat
<1>1. DOMAIN f = S /\ \A x \in S : f[x] \in Nat
  OBVIOUS
<1> QED
  BY <1>1, SumIsUnits, UnitsFinite

\* One account can be taken out of the sum.
LEMMA SumWithout ==
  ASSUME NEW S, IsFiniteSet(S), NEW f \in [S -> Nat], NEW x \in S
  PROVE  /\ SumFunction(f) = f[x] + Cardinality(Units(f, S \ {x}))
         /\ Cardinality(Units(f, S \ {x})) \in Nat
<1> DEFINE r == S \ {x}
<1>1. DOMAIN f = S /\ (\A y \in S : f[y] \in Nat) /\ (\A y \in r : f[y] \in Nat)
  OBVIOUS
<1>2. x \notin r /\ r \cup {x} = S /\ r \subseteq S
  OBVIOUS
<1>3. IsFiniteSet(r)
  BY <1>2, FS_Subset
<1> HIDE DEF r
<1>4. IsFiniteSet(Units(f, r)) /\ Cardinality(Units(f, r)) \in Nat
  BY <1>1, <1>3, UnitsFinite
<1>5. Cardinality(Units(f, r \cup {x})) = f[x] + Cardinality(Units(f, r))
  BY <1>1, <1>2, <1>4, UnitsOfOneMore
<1>6. SumFunction(f) = Cardinality(Units(f, S))
  BY <1>1, SumIsUnits
<1> QED
  BY <1>2, <1>4, <1>5, <1>6 DEF r

\* A change of one account changes the sum by as much.
LEMMA SumOfChanged ==
  ASSUME NEW S, IsFiniteSet(S), NEW f \in [S -> Nat], NEW g \in [S -> Nat], NEW x \in S,
         \A y \in S \ {x} : g[y] = f[y]
  PROVE  SumFunction(g) = SumFunction(f) - f[x] + g[x]
<1>1. Units(g, S \ {x}) = Units(f, S \ {x})
  BY DEF Units
<1>2. /\ SumFunction(f) = f[x] + Cardinality(Units(f, S \ {x}))
      /\ SumFunction(g) = g[x] + Cardinality(Units(g, S \ {x}))
      /\ Cardinality(Units(f, S \ {x})) \in Nat
  BY SumWithout
<1>3. Cardinality(Units(g, S \ {x})) = Cardinality(Units(f, S \ {x}))
  BY <1>1, Zenon
<1>4. f[x] \in Nat /\ g[x] \in Nat
  OBVIOUS
<1> QED
  BY <1>2, <1>3, <1>4

\* Empty accounts hold nothing together.
LEMMA SumOfZeros ==
  ASSUME NEW S, IsFiniteSet(S), NEW f \in [S -> Nat], \A x \in S : f[x] = 0
  PROVE  SumFunction(f) = 0
<1>1. Units(f, S) = {}
  BY DEF Units
<1>2. DOMAIN f = S /\ \A x \in S : f[x] \in Nat
  OBVIOUS
<1>3. SumFunction(f) = Cardinality(Units(f, S))
  BY <1>2, SumIsUnits
<1> QED
  BY <1>1, <1>3, FS_EmptySet

(***************************************************************************)
(* Adding to two accounts, which may be the same one, or taking from them, *)
(* does so to the sum.                                                     *)
(***************************************************************************)
LEMMA SumOfMoved ==
  ASSUME NEW S, IsFiniteSet(S), NEW f \in [S -> Nat], NEW g \in [S -> Nat],
         NEW x \in S, NEW y \in S, NEW m \in Int, NEW n \in Int,
         \A z \in S : g[z] = f[z] + (IF z = x THEN m ELSE 0) + (IF z = y THEN n ELSE 0)
  PROVE  SumFunction(g) = SumFunction(f) + m + n
<1>1. SumFunction(f) \in Nat /\ f[x] \in Nat /\ f[y] \in Nat
  BY SumOfNat
<1>2. CASE x = y
  <2>1. g[x] = f[x] + m + n /\ \A z \in S \ {x} : g[z] = f[z]
    BY <1>2
  <2>2. SumFunction(g) = SumFunction(f) - f[x] + g[x]
    BY <2>1, SumOfChanged
  <2> QED
    BY <1>1, <2>1, <2>2
<1>3. CASE x # y
  <2> DEFINE h == [z \in S |-> IF z = x THEN g[x] ELSE f[z]]
  <2>1. /\ h \in [S -> Nat]
        /\ h[x] = f[x] + m /\ \A z \in S \ {x} : h[z] = f[z]
        /\ g[y] = h[y] + n /\ \A z \in S \ {y} : g[z] = h[z]
        /\ h[y] = f[y]
    BY <1>3
  <2> HIDE DEF h
  <2>2. /\ SumFunction(h) = SumFunction(f) - f[x] + h[x]
        /\ SumFunction(g) = SumFunction(h) - h[y] + g[y]
    BY <2>1, SumOfChanged
  <2> QED
    BY <1>1, <2>1, <2>2
<1> QED
  BY <1>2, <1>3

\* No account holds more than all together.
LEMMA SumAtLeast ==
  ASSUME NEW S, IsFiniteSet(S), NEW f \in [S -> Nat], NEW x \in S
  PROVE  f[x] <= SumFunction(f)
<1>1. /\ SumFunction(f) = f[x] + Cardinality(Units(f, S \ {x}))
      /\ Cardinality(Units(f, S \ {x})) \in Nat
  BY SumWithout
<1>2. f[x] \in Nat
  OBVIOUS
<1> QED
  BY <1>1, <1>2

\* Equal accounts.
LEMMA SumOfConstant ==
  ASSUME NEW S, IsFiniteSet(S), NEW f, NEW n \in Nat, f = [x \in S |-> n]
  PROVE  SumFunction(f) = Cardinality(S) * n
<1>1. DOMAIN f = S /\ \A x \in S : f[x] \in Nat
  OBVIOUS
<1>2. SumFunction(f) = Cardinality(Units(f, S))
  BY <1>1, SumIsUnits
<1> DEFINE range == 1 .. n
<1>3. IsFiniteSet(range) /\ Cardinality(range) = n
  BY FS_Interval
<1>4. Units(f, S) = S \X range
  BY DEF Units
<1> HIDE DEF range
<1>5. Cardinality(S \X range) = Cardinality(S) * Cardinality(range)
  BY <1>3, FS_Product
<1>6. Cardinality(Units(f, S)) = Cardinality(S \X range)
  BY <1>4, Zenon
<1> QED
  BY <1>2, <1>3, <1>5, <1>6

=============================================================================

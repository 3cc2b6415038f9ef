----------------------------- MODULE FuzzProofs -----------------------------
(***************************************************************************)
(* Proofs about the fuzzer: what its assertions demand holds after every   *)
(* list of instructions, of any length, with any number of accounts and    *)
(* any amounts, whatever the curve and the fees.                           *)
(***************************************************************************)
EXTENDS FuzzProperties, SingleSidedProofs

USE SplMathAssumption, SwapPoolAssumption, SingleSidedAssumption

-----------------------------------------------------------------------------
(* The books of the fuzzer.                                                *)

FuzzInv == SupplyInv /\ TotalsUnchanged

\* A step of the pool that the books survive.
Kept == SupplyInv' /\ \A t \in Tokens : Total(t)' = Total(t)

LEMMA FuzzAccounts ==
  /\ FuzzIds \subseteq Traders /\ Holder \in Traders
  /\ IsFiniteSet(FuzzIds)
  /\ FuzzIds \subseteq LpAccounts /\ Holder \in LpAccounts /\ Holder \in Hosts
  /\ FeeAccount \in LpAccounts
<1>1. FuzzIds \subseteq Traders /\ Holder \in Traders
  BY FuzzAssumption
<1>2. IsFiniteSet(FuzzIds)
  BY <1>1, TradersAssumption, FS_Subset
<1> QED
  BY <1>1, <1>2 DEF LpAccounts, Hosts

LEMMA SwapKept ==
  ASSUME SupplyInv, NEW u \in Traders, NEW v \in Traders, NEW t \in Tokens,
         NEW amount \in Amounts, NEW minimum, NEW host \in Hosts,
         Swap(u, v, t, amount, minimum, host)
  PROVE  Kept
<1>1. TypeInv /\ TypeInv'
  BY SwapTypeInv DEF SupplyInv
<1> QED
  BY <1>1, SwapHeld, SwapKeepsTotals DEF Kept, SupplyInv

LEMMA DepositKept ==
  ASSUME SupplyInv, NEW u \in Traders, NEW destination \in LpAccounts,
         NEW poolTokens \in Nat, NEW maximum,
         DepositAllTokenTypes(u, destination, poolTokens, maximum)
  PROVE  Kept
<1>1. TypeInv /\ TypeInv'
  BY DepositTypeInv DEF SupplyInv
<1> QED
  BY <1>1, DepositHeld, DepositKeepsTotals DEF Kept, SupplyInv

LEMMA WithdrawKept ==
  ASSUME SupplyInv, NEW source \in LpAccounts, NEW u \in Traders,
         NEW poolTokens \in Nat, NEW minimum,
         WithdrawAllTokenTypes(source, u, poolTokens, minimum)
  PROVE  Kept
<1>1. TypeInv /\ TypeInv'
  BY WithdrawTypeInv DEF SupplyInv
<1> QED
  BY <1>1, WithdrawHeld, WithdrawKeepsTotals DEF Kept, SupplyInv

\* The fuzzer redeems a natural number of pool tokens.
LEMMA RedeemedNat ==
  ASSUME TypeInv, NEW account \in LpAccounts, NEW poolTokens \in Nat
  PROVE  NotAllButOne(account, poolTokens) \in Nat
  BY StateNat DEF NotAllButOne

LEMMA InstructionKept ==
  ASSUME SupplyInv, RunInstruction PROVE Kept
<1>1. TypeInv
  BY DEF SupplyInv
<1>2. ASSUME NEW a \in FuzzIds, NEW b \in FuzzIds, NEW amount \in Amounts,
             NEW minimum \in Limits,
             SwapAToB(a, b, amount, minimum) \/ SwapBToA(b, a, amount, minimum)
      PROVE  Kept
  <2>1. "A" \in Tokens /\ "B" \in Tokens
    BY DEF Tokens
  <2> QED BY <1>2, <2>1, FuzzAccounts, SwapKept DEF SwapAToB, SwapBToA
<1>3. ASSUME NEW u \in FuzzIds, NEW account \in FuzzIds, NEW poolTokens \in PoolAmounts,
             NEW limit \in [Tokens -> Limits],
             \/ FuzzDepositAll(u, account, poolTokens, limit)
             \/ FuzzWithdrawAll(account, u, poolTokens, limit)
      PROVE  Kept
  <2>1. /\ u \in Traders /\ account \in LpAccounts
        /\ poolTokens \in Nat
        /\ (IF poolTokens = 1 THEN 2 ELSE poolTokens) \in Nat
    BY FuzzAccounts
  <2>2. NotAllButOne(account, poolTokens) \in Nat
    BY <1>1, <2>1, RedeemedNat
  <2> QED BY <1>3, <2>1, <2>2, DepositKept, WithdrawKept DEF FuzzDepositAll, FuzzWithdrawAll
<1>4. ASSUME NEW u \in FuzzIds, NEW account \in FuzzIds, NEW t \in Tokens,
             NEW amount \in Amounts, NEW limit \in Limits,
             \/ FuzzDepositSingle(u, account, t, amount, limit)
             \/ FuzzWithdrawSingle(account, u, t, amount, limit)
      PROVE  Kept
  <2>1. u \in Traders /\ account \in LpAccounts
    BY FuzzAccounts
  <2>2. CASE FuzzDepositSingle(u, account, t, amount, limit)
    BY <1>1, <2>1, <2>2, DepositSingleKept, DepositSingleTypeInv
       DEF FuzzDepositSingle, Kept, SupplyInv
  <2>3. CASE FuzzWithdrawSingle(account, u, t, amount, limit)
    BY <1>1, <2>1, <2>3, WithdrawSingleKept, WithdrawSingleTypeInv
       DEF FuzzWithdrawSingle, Kept, SupplyInv
  <2> QED BY <1>4, <2>2, <2>3
<1> QED
  BY <1>2, <1>3, <1>4 DEF RunInstruction

LEMMA NewKept ==
  ASSUME SupplyInv, New PROVE Kept
<1>1. PICK curveType \in CurveTypes : Initialize(GetSwapCurve(curveType), Holder)
  BY DEF New
<1>2. GetSwapCurve(curveType) \in Curves /\ Holder \in LpAccounts
  BY FuzzAssumption, FuzzAccounts
<1>3. Initialize(GetSwapCurve(curveType), Holder) => Create
  BY <1>2 DEF Create
<1>4. Next
  BY <1>1, <1>3 DEF Next
<1> QED
  BY <1>4, NextSupplyInv, NextTypeInv, NextKeepsTotals DEF Kept, SupplyInv

(***************************************************************************)
(* Gathering all pool tokens in the fee account leaves the supply held.    *)
(***************************************************************************)
LEMMA GatherKept ==
  ASSUME SupplyInv, Gather PROVE Kept
<1>1. /\ TypeInv /\ supply = SumFunction(lp) /\ supply \in 0 .. U64Max
      /\ IsFiniteSet(LpAccounts) /\ FeeAccount \in LpAccounts
  BY LpAccountsFinite, FuzzAccounts DEF SupplyInv, SupplyIsHeld, TypeInv, TypeOK
<1>2. /\ lp' = [l \in LpAccounts |-> IF l = FeeAccount THEN supply ELSE 0]
      /\ UNCHANGED <<curve, reserve, supply, wallet>>
  BY <1>1 DEF Gather
<1> DEFINE zeros == [l \in LpAccounts |-> 0]
<1>3. /\ zeros \in [LpAccounts -> Nat] /\ zeros[FeeAccount] = 0
      /\ \A l \in LpAccounts : zeros[l] = 0
  BY <1>1
<1> HIDE DEF zeros
<1>4. SumFunction(zeros) = 0
  BY <1>1, <1>3, SumOfZeros
<1>5. /\ lp' \in [LpAccounts -> Nat] /\ lp'[FeeAccount] = supply
      /\ lp' \in [LpAccounts -> 0 .. U64Max]
      /\ \A l \in LpAccounts \ {FeeAccount} : lp'[l] = zeros[l]
  BY <1>1, <1>2, <1>3
<1>6. SumFunction(lp') = SumFunction(zeros) - zeros[FeeAccount] + lp'[FeeAccount]
  BY <1>1, <1>3, <1>5, SumOfChanged
<1>7. SupplyIsHeld'
  BY <1>1, <1>2, <1>3, <1>4, <1>5, <1>6 DEF SupplyIsHeld
<1>8. TypeInv'
  BY <1>1, <1>2, <1>5 DEF TypeInv, TypeOK, CurveOK, Initialized
<1> QED
  BY <1>1, <1>2, <1>7, <1>8, TotalsStay DEF Kept, SupplyInv

LEMMA CloseOutKept ==
  ASSUME SupplyInv, CloseOut PROVE Kept
<1>1. TypeInv
  BY DEF SupplyInv
<1>2. lp[FeeAccount] \in Nat /\ FeeAccount \in LpAccounts /\ Holder \in Traders
  BY <1>1, StateNat, FuzzAccounts
<1>3. NotAllButOne(FeeAccount, lp[FeeAccount]) \in Nat
  BY <1>1, <1>2, RedeemedNat
<1> QED
  BY <1>2, <1>3, WithdrawKept DEF CloseOut, WithdrawEverything, FuzzWithdrawAll

\* The pool starts with SwapTokens, every user but Holder with StartWallet.
LEMMA FuzzInitInv == FuzzInit => FuzzInv
<1> SUFFICES ASSUME FuzzInit PROVE FuzzInv
  OBVIOUS
<1>1. /\ curve = NoCurve /\ supply = 0 /\ reserve = SwapTokens
      /\ wallet = [u \in Traders |-> IF u = Holder THEN Nothing ELSE StartWallet]
      /\ lp = [l \in LpAccounts |-> 0]
  BY DEF FuzzInit
<1>2. TypeInv
  <2>1. reserve \in [Tokens -> 0 .. U64Max]
    BY <1>1, FuzzAssumption
  <2>2. Nothing \in [Tokens -> 0 .. U64Max]
    BY DEF Nothing
  <2> QED BY <1>1, <2>1, <2>2 DEF TypeInv, TypeOK, CurveOK, Initialized
<1>3. SupplyIsHeld
  <2>1. lp \in [LpAccounts -> Nat] /\ \A l \in LpAccounts : lp[l] = 0
    BY <1>1
  <2>2. SumFunction(lp) = 0
    BY <2>1, SumOfZeros, LpAccountsFinite
  <2> QED BY <1>1, <2>2 DEF SupplyIsHeld
<1>4. ASSUME NEW t \in Tokens PROVE Total(t) = BeforeTotal(t)
  <2> DEFINE n == StartWallet[t]
             f == [u \in Traders |-> wallet[u][t]]
             g == [u \in Traders |-> n]
  <2>1. /\ f \in [Traders -> Nat] /\ g \in [Traders -> Nat]
        /\ \A u \in Traders \ {Holder} : f[u] = g[u]
        /\ f[Holder] = 0 /\ g[Holder] = n /\ n \in Nat
        /\ SwapTokens[t] \in Nat
    BY <1>1, FuzzAssumption, FuzzAccounts DEF Nothing
  <2>2. Total(t) = SwapTokens[t] + SumFunction(f)
    BY <1>1 DEF Total, Owned
  <2>3. g = [u \in Traders |-> n]
    OBVIOUS
  <2> HIDE DEF f, g, n
  <2>4. SumFunction(g) = Cardinality(Traders) * n
    BY <2>1, <2>3, SumOfConstant, TradersAssumption
  <2>5. SumFunction(f) = SumFunction(g) - g[Holder] + f[Holder]
    BY <2>1, SumOfChanged, TradersAssumption, FuzzAccounts
  <2>6. /\ Cardinality(Traders) = Cardinality(FuzzIds) + 1
        /\ Cardinality(FuzzIds) \in Nat
    BY FuzzAssumption, FuzzAccounts, FS_AddElement, FS_CardinalityType
  <2>7. SumFunction(f) = Cardinality(FuzzIds) * n
    BY <2>1, <2>4, <2>5, <2>6
  <2> QED BY <2>2, <2>7 DEF BeforeTotal, n
<1> QED
  BY <1>2, <1>3, <1>4 DEF FuzzInv, SupplyInv, TotalsUnchanged

LEMMA FuzzNextInv == FuzzInv /\ [FuzzNext]_fuzzVars => FuzzInv'
<1> SUFFICES ASSUME FuzzInv, [FuzzNext]_fuzzVars PROVE FuzzInv'
  OBVIOUS
<1>1. SupplyInv
  BY DEF FuzzInv
<1>2. Kept
  <2>1. CASE UNCHANGED fuzzVars
    <3>1. UNCHANGED vars
      BY <2>1 DEF fuzzVars, vars
    <3> QED
      BY <1>1, <3>1, NextSupplyInv, NextTypeInv, NextKeepsTotals DEF Kept, SupplyInv
  <2> QED
    BY <1>1, <2>1, NewKept, InstructionKept, GatherKept, CloseOutKept DEF FuzzNext, Fuzz
<1> QED
  BY <1>2 DEF Kept, FuzzInv, TotalsUnchanged, BeforeTotal

LEMMA FuzzInvariant == FuzzSpec => []FuzzInv
  BY FuzzInitInv, FuzzNextInv, PTL DEF FuzzSpec

(***************************************************************************)
(* What run_fuzz asserts at its end, of every run it could ever do: there  *)
(* are as many tokens A and B as at the start.                             *)
(***************************************************************************)
THEOREM FuzzerLosesNoToken == FuzzSpec => []TotalsUnchanged
<1>1. FuzzInv => TotalsUnchanged
  BY DEF FuzzInv
<1> QED
  BY <1>1, FuzzInvariant, PTL

\* After every list of instructions the supply is what the accounts hold.
THEOREM FuzzerHoldsTheSupply == FuzzSpec => []SupplyIsHeld
<1>1. FuzzInv => SupplyIsHeld
  BY DEF FuzzInv, SupplyInv
<1> QED
  BY <1>1, FuzzInvariant, PTL

-----------------------------------------------------------------------------
(* The property tests of the curves, for all amounts and reserves.         *)

\* The conclusion of check_curve_value_from_swap, on squared values.
ValueGrowsByOne(v, w) ==
  v <= w /\ (w <= v + 1 \/ (w - v - 1) * (w - v - 1) <= 4 * v)

\* It is enough that the growth of the square is below its root.
LEMMA SmallGrowth ==
  ASSUME NEW v \in Nat, NEW w \in Nat, v <= w, (w - v) * (w - v) <= v
  PROVE  ValueGrowsByOne(v, w)
<1> DEFINE e == w - v
           f == e - 1
<1>1. e \in Nat /\ e * e <= v
  OBVIOUS
<1>2. CASE w <= v + 1
  BY <1>2 DEF ValueGrowsByOne
<1>3. CASE w > v + 1
  <2>1. f \in Nat /\ f <= e /\ w - v - 1 = f
    BY <1>1, <1>3
  <2> HIDE DEF f, e
  <2>2. f * f <= e * e /\ f * f \in Nat
    BY <1>1, <2>1, ProductMonotone
  <2>3. f * f <= 4 * v
    BY <1>1, <2>2
  <2> QED BY <2>1, <2>3 DEF ValueGrowsByOne
<1> QED
  BY <1>2, <1>3

(***************************************************************************)
(* Rounding the quotient up and then the divisor, a constant product swap  *)
(* adds less to the product than either reserve that it leaves.            *)
(***************************************************************************)
LEMMA ConstantProductSwapValue ==
  ASSUME NEW x \in Nat, NEW S \in Nat, NEW D \in Nat,
         NEW r \in ConstantProductSwap(x, S, D)
  PROVE  ValueGrowsByOne(S * D, (S + r.source) * (D - r.destination))
<1> DEFINE n == S * D
           e == S + x
<1>1. n \in Nat /\ e \in Nat
  OBVIOUS
<1>2. PICK c \in CheckedCeilDiv(n, e) :
        /\ S <= c.divisor
        /\ c.quotient < D
        /\ r = [source |-> c.divisor - S, destination |-> D - c.quotient]
  BY DEF ConstantProductSwap
<1> DEFINE q == c.quotient
           d == c.divisor
<1>3. /\ q \in Nat /\ d \in Nat /\ e > 0
      /\ n >= e => /\ q > 0
                   /\ n <= d * q
                   /\ d <= e
      /\ n < e => d = 0 /\ q \in {0, 1}
  BY <1>1, <1>2, CheckedCeilDivBounds
<1>4. S + r.source = d /\ D - r.destination = q
  BY <1>2, <1>3
<1>5. CASE n < e
  <2>1. d = 0 /\ S = 0
    BY <1>2, <1>3, <1>5
  <2>2. n = 0
    BY <2>1
  <2>3. d * q = 0
    BY <1>3, <2>1
  <2> QED BY <1>4, <2>2, <2>3 DEF ValueGrowsByOne
<1>6. CASE n >= e
  <2>1. q = CeilQuotient(n, e) /\ d = CeilQuotient(n, q)
    BY <1>1, <1>2, <1>3, <1>6 DEF CheckedCeilDiv, Some
  <2> HIDE DEF n, e, q, d
  <2>2. e * q < n + e
    BY <1>1, <1>3, <2>1, CeilQuotientBounds
  <2>3. q * d < n + q
    BY <1>1, <1>3, <1>6, <2>1, CeilQuotientBounds
  <2>4. n <= d * q /\ d <= e /\ q > 0
    BY <1>3, <1>6
  <2> DEFINE q1 == q - 1
             g  == d * q - n
  <2>5. q1 \in Nat /\ q = q1 + 1 /\ d * q \in Nat /\ e * q \in Nat
    BY <1>1, <1>3, <2>4
  <2>6. g \in Nat /\ g <= q1
    BY <1>1, <1>3, <2>3, <2>4, <2>5
  <2>7. d * q1 < n
    <3>1. d * q1 <= e * q1 /\ d * q1 \in Nat /\ e * q1 \in Nat
      BY <1>1, <1>3, <2>4, <2>5, ProductMonotone
    <3>2. e * q = e * q1 + e
      BY <1>1, <2>5
    <3> QED BY <1>1, <2>2, <3>1, <3>2
  <2>8. d * q = d * q1 + d
    BY <1>3, <2>5
  <2>9. g < d /\ d * q1 \in Nat
    BY <1>1, <1>3, <2>5, <2>7, <2>8
  <2> HIDE DEF q1, g
  <2>10. g * g <= d * q1
    BY <1>3, <2>5, <2>6, <2>9, ProductMonotone
  <2>11. g * g <= n
    BY <1>1, <2>6, <2>7, <2>9, <2>10
  <2>12. ValueGrowsByOne(n, d * q)
    BY <1>1, <2>4, <2>5, <2>11, SmallGrowth DEF g
  <2> QED BY <1>4, <2>12 DEF n
<1> QED
  BY <1>5, <1>6

LEMMA ProductSwapTestHolds ==
  ASSUME NEW c \in SwapCurves, c.type = "ConstantProduct",
         NEW x \in Nat, NEW a \in Nat, NEW b \in Nat
  PROVE  ProductSwapTest(c, x, a, b)
<1> SUFFICES ASSUME NEW r \in SwapOf(c, x, a, b, "AtoB"),
                    NEW v \in ValueSquared(c, a, b),
                    NEW w \in ValueSquared(c, a + r.source, b - r.destination)
             PROVE  ValueGrowsByOne(v, w)
  BY DEF ProductSwapTest, SwapValueHolds, AfterSwap, ValueGrowsByOne
<1>1. r \in ConstantProductSwap(x, a, b)
  BY DEF SwapOf, SwapWithoutFees, Source, Destination
<1>2. v = a * b /\ w = (a + r.source) * (b - r.destination)
  BY DEF ValueSquared, ConstantProductValueSquared, Some
<1> QED
  BY <1>1, <1>2, ConstantProductSwapValue

LEMMA OffsetSwapTestHolds ==
  ASSUME NEW c \in SwapCurves, c.type = "Offset",
         NEW x \in Nat, NEW a \in Nat, NEW b \in Nat
  PROVE  OffsetSwapTest(c, x, a, b)
<1> DEFINE k == c.parameter
<1>1. k \in Nat
  BY DEF SwapCurves
<1> SUFFICES ASSUME NEW direction \in Directions,
                    NEW r \in SwapOf(c, x, a, b, direction)
             PROVE  LET after == AfterSwap(a, b, r, direction)
                    IN  ValueGrowsByOne(a * (b + k), after.A * (after.B + k))
  BY DEF OffsetSwapTest, SwapValueHolds, ValueGrowsByOne, ValueSquared,
         OffsetValueSquared, ConstantProductValueSquared, Some
<1>2. CASE direction = "AtoB"
  <2>1. r \in ConstantProductSwap(x, a, b + k)
    BY <1>2 DEF SwapOf, SwapWithoutFees, OffsetSwap, Source, Destination, When, None
  <2>2. r.destination \in Nat /\ r.source \in Nat
    BY <1>1, <2>1, ConstantProductSwapBounds
  <2>3. (b - r.destination) + k = (b + k) - r.destination
    BY <1>1, <2>2
  <2>4. ValueGrowsByOne(a * (b + k), (a + r.source) * ((b + k) - r.destination))
    BY <1>1, <2>1, ConstantProductSwapValue
  <2> QED BY <1>2, <2>3, <2>4 DEF AfterSwap
<1>3. CASE direction = "BtoA"
  <2>1. r \in ConstantProductSwap(x, b + k, a)
    BY <1>3 DEF SwapOf, SwapWithoutFees, OffsetSwap, Source, Destination, When, None
  <2>2. r.destination \in Nat /\ r.source \in Nat
    BY <1>1, <2>1, ConstantProductSwapBounds
  <2>3. /\ (b + k + r.source) * (a - r.destination)
             = (a - r.destination) * (b + r.source + k)
        /\ (b + k) * a = a * (b + k)
    BY <1>1, <2>2
  <2>4. ValueGrowsByOne((b + k) * a, (b + k + r.source) * (a - r.destination))
    BY <1>1, <2>1, ConstantProductSwapValue
  <2> QED BY <1>3, <2>3, <2>4 DEF AfterSwap
<1> QED
  BY <1>2, <1>3 DEF Directions

\* A constant price swap leaves the value as it is.
LEMMA PriceSwapTestHolds ==
  ASSUME NEW c \in SwapCurves, c.type = "ConstantPrice", ValidCurve(c),
         NEW x \in Nat, NEW a \in Nat, NEW b \in Nat
  PROVE  PriceSwapTest(c, x, a, b)
<1> DEFINE p == c.parameter
           h == ConstantPriceValue(p, a, b)
<1>1. p \in Nat \ {0}
  BY DEF SwapCurves, ValidCurve
<1> SUFFICES ASSUME NEW direction \in Directions,
                    NEW r \in SwapOf(c, x, a, b, direction)
             PROVE  LET after == AfterSwap(a, b, r, direction)
                        g     == ConstantPriceValue(p, after.A, after.B)
                    IN  ValueGrowsByOne(h * h, g * g)
  BY DEF PriceSwapTest, SwapValueHolds, ValueGrowsByOne, ValueSquared, Some
<1> DEFINE after == AfterSwap(a, b, r, direction)
           g     == ConstantPriceValue(p, after.A, after.B)
<1>2. r \in ConstantPriceSwap(p, x, direction)
  BY DEF SwapOf, SwapWithoutFees
<1>3. /\ r.source \in Nat /\ r.destination \in Nat
      /\ direction = "AtoB" => r.source = p * r.destination
      /\ direction = "BtoA" => r.destination = r.source * p
  BY <1>1, <1>2, ConstantPriceSwapBounds DEF Directions
<1>4. after.A + after.B * p = a + b * p
  <2>1. CASE direction = "AtoB"
    <3>1. after.A = a + p * r.destination /\ after.B = b - r.destination
      BY <1>3, <2>1 DEF AfterSwap
    <3> HIDE DEF after, p
    <3>2. (b - r.destination) * p = b * p - p * r.destination
      BY <1>1, <1>3
    <3>3. b * p \in Nat /\ p * r.destination \in Nat
      BY <1>1, <1>3
    <3> QED BY <3>1, <3>2, <3>3
  <2>2. CASE direction = "BtoA"
    <3>1. after.A = a - r.source * p /\ after.B = b + r.source
      BY <1>3, <2>2 DEF AfterSwap
    <3> HIDE DEF after, p
    <3>2. (b + r.source) * p = b * p + r.source * p
      BY <1>1, <1>3
    <3>3. b * p \in Nat /\ r.source * p \in Nat
      BY <1>1, <1>3
    <3> QED BY <3>1, <3>2, <3>3
  <2> QED BY <2>1, <2>2 DEF Directions
<1>5. g = h
  BY <1>4 DEF ConstantPriceValue
<1>6. h * h \in Nat
  <2>1. a + b * p \in Nat
    BY <1>1
  <2>2. h \in Nat
    BY <2>1, DivBounds DEF ConstantPriceValue
  <2> QED BY <2>2
<1> HIDE DEF h, g
<1> QED
  BY <1>5, <1>6 DEF ValueGrowsByOne, g, after

(***************************************************************************)
(* The curve of the pool, whatever the fuzzer did before.                  *)
(***************************************************************************)
LEMMA CurveInPool ==
  ASSUME FuzzInv, NEW curveType \in CurveTypes, curve.type = curveType
  PROVE  /\ curve \in SwapCurves /\ ValidCurve(curve)
         /\ reserve["A"] \in Nat /\ reserve["B"] \in Nat /\ supply \in Nat
<1>1. TypeInv
  BY DEF FuzzInv, SupplyInv
<1>2. Initialized
  BY <1>1 DEF TypeInv, TypeOK, Initialized, NoCurve, CurveTypes
<1> QED
  BY <1>1, <1>2, CurveKinds, StateNat

(***************************************************************************)
(* check_curve_value_from_swap asserts this for amounts it draws; it holds *)
(* for every swap of every pool: the value never falls, and the rounding   *)
(* never raises it by two.                                                 *)
(***************************************************************************)
THEOREM SwapsKeepTheCurveValue == FuzzSpec => []SwapsKeepCurveValue
<1>1. ASSUME FuzzInv PROVE SwapsKeepCurveValue
  <2> SUFFICES ASSUME NEW amount \in Amounts
               PROVE  /\ curve.type = "ConstantProduct" =>
                           ProductSwapTest(curve, amount, reserve["A"], reserve["B"])
                      /\ curve.type = "ConstantPrice" =>
                           PriceSwapTest(curve, amount, reserve["A"], reserve["B"])
                      /\ curve.type = "Offset" =>
                           OffsetSwapTest(curve, amount, reserve["A"], reserve["B"])
    BY DEF SwapsKeepCurveValue
  <2>1. amount \in Nat
    OBVIOUS
  <2>2. CASE curve.type = "ConstantProduct"
    BY <1>1, <2>1, <2>2, CurveInPool, ProductSwapTestHolds DEF CurveTypes
  <2>3. CASE curve.type = "ConstantPrice"
    BY <1>1, <2>1, <2>3, CurveInPool, PriceSwapTestHolds DEF CurveTypes
  <2>4. CASE curve.type = "Offset"
    BY <1>1, <2>1, <2>4, CurveInPool, OffsetSwapTestHolds DEF CurveTypes
  <2> QED BY <2>2, <2>3, <2>4
<1> QED
  BY <1>1, FuzzInvariant, PTL

-----------------------------------------------------------------------------
(* What the tests assert of deposits and withdrawals of both tokens.       *)

\* A share that counts is rounded up to at least its part.
LEMMA DepositRatio ==
  ASSUME NEW n \in Nat, NEW s \in Nat \ {0}, NEW r \in Nat, n * r >= s
  PROVE  /\ ProRata(n, s, r, "Ceiling") \in Nat
         /\ r * (s + n) <= (r + ProRata(n, s, r, "Ceiling")) * s
<1> DEFINE share == ProRata(n, s, r, "Ceiling")
           m == n * r
           q == m \div s
<1>1. m \in Nat
  OBVIOUS
<1>2. q \in Nat /\ m < s * q + s
  BY <1>1, DivBounds
<1>3. share = q \/ share = q + 1
  BY DEF ProRata
<1>4. q # 0
  BY <1>1, <1>2
<1>5. share \in Nat /\ share > 0
  BY <1>2, <1>3, <1>4
<1>6. m <= s * share
  BY <1>5, CeilingShare
<1> HIDE DEF share, m, q
<1>7. r * (s + n) = r * s + m /\ (r + share) * s = r * s + s * share
  BY <1>1, <1>5 DEF m
<1>8. r * s \in Nat /\ s * share \in Nat
  BY <1>5
<1> QED
  BY <1>1, <1>5, <1>6, <1>7, <1>8 DEF share

\* A share rounded down leaves at least the part of the others.
LEMMA WithdrawRatio ==
  ASSUME NEW n \in Nat, NEW s \in Nat \ {0}, n <= s, NEW r \in Nat
  PROVE  /\ r - ProRata(n, s, r, "Floor") \in Nat
         /\ r * (s - n) <= (r - ProRata(n, s, r, "Floor")) * s
<1> DEFINE share == ProRata(n, s, r, "Floor")
<1>1. share \in Nat /\ s * share <= n * r /\ (n = s => share = r)
      /\ (n < s /\ r > 0 => share < r)
  BY FloorShare
<1>2. r = 0 => share = 0
  BY <1>1
<1>3. share <= r
  BY <1>1, <1>2
<1> HIDE DEF share
<1>4. r * (s - n) = r * s - n * r /\ (r - share) * s = r * s - s * share
  BY <1>1
<1>5. r * s \in Nat /\ n * r \in Nat /\ s * share \in Nat
  BY <1>1
<1> QED
  BY <1>1, <1>3, <1>4, <1>5 DEF share

\* Both reserves keep their part, so the product keeps the square of it.
LEMMA RatiosMultiply ==
  ASSUME NEW a \in Nat, NEW b \in Nat, NEW c \in Nat, NEW d \in Nat,
         NEW s \in Nat, NEW k \in Nat, a * k <= c * s, b * k <= d * s
  PROVE  a * b * k * k <= c * d * s * s
<1>1. a * k \in Nat /\ b * k \in Nat /\ c * s \in Nat /\ d * s \in Nat
  OBVIOUS
<1>2. (a * k) * (b * k) <= (c * s) * (d * s)
  BY <1>1, ProductMonotone
<1>3. (a * k) * (b * k) = a * b * k * k /\ (c * s) * (d * s) = c * d * s * s
  OBVIOUS
<1> QED
  BY <1>2, <1>3

\* Deposits by share of the reserves: constant product, offset and stable.
LEMMA ShareDeposits ==
  ASSUME NEW n \in Nat, NEW s \in Nat \ {0}, NEW a \in Nat, NEW b \in Nat,
         SharesCount(n, a, b, s),
         NEW paid \in ConstantProductTradingTokens(n, s, a, b, "Ceiling")
  PROVE  /\ paid.A \in Nat /\ paid.B \in Nat
         /\ a * (s + n) <= (a + paid.A) * s
         /\ b * (s + n) <= (b + paid.B) * s
<1>1. /\ paid.A = ProRata(n, s, a, "Ceiling")
      /\ paid.B = ProRata(n, s, b, "Ceiling")
  BY DEF ConstantProductTradingTokens, When, Some
<1>2. n * a >= s /\ n * b >= s
  BY DEF SharesCount
<1> QED
  BY <1>1, <1>2, DepositRatio

\* Withdrawals by share of the reserves.
LEMMA ShareWithdrawals ==
  ASSUME NEW n \in Nat, NEW s \in Nat \ {0}, n <= s, NEW a \in Nat, NEW b \in Nat,
         NEW worth \in ConstantProductTradingTokens(n, s, a, b, "Floor")
  PROVE  /\ worth.A \in Nat /\ worth.B \in Nat
         /\ a * b * (s - n) * (s - n) <= (a - worth.A) * (b - worth.B) * s * s
<1>1. /\ worth.A = ProRata(n, s, a, "Floor")
      /\ worth.B = ProRata(n, s, b, "Floor")
  BY DEF ConstantProductTradingTokens, When, Some
<1>2. worth.A \in Nat /\ worth.B \in Nat
  BY <1>1, FloorShare
<1>3. /\ a - worth.A \in Nat /\ a * (s - n) <= (a - worth.A) * s
      /\ b - worth.B \in Nat /\ b * (s - n) <= (b - worth.B) * s
  BY <1>1, WithdrawRatio
<1>4. s - n \in Nat
  OBVIOUS
<1> QED
  BY <1>2, <1>3, <1>4, RatiosMultiply

LEMMA ProductShareTests ==
  ASSUME NEW c \in SwapCurves, c.type = "ConstantProduct",
         NEW n \in Nat, NEW s \in Nat \ {0}, NEW a \in Nat, NEW b \in Nat
  PROVE  /\ ProductDepositTest(c, n, a, b, s)
         /\ ProductWithdrawTest(c, n, a, b, s)
<1>1. \A round : PoolTokensToTradingTokens(c, n, s, a, b, round)
                   = ConstantProductTradingTokens(n, s, a, b, round)
  BY DEF PoolTokensToTradingTokens
<1>2. ProductDepositTest(c, n, a, b, s)
  BY <1>1, ShareDeposits DEF ProductDepositTest, DepositRatiosHold
<1>3. ASSUME n < s,
             NEW worth \in ConstantProductTradingTokens(n, s, a, b, "Floor")
      PROVE  a * b * (s - n) * (s - n) <= (a - worth.A) * (b - worth.B) * s * s
  BY <1>3, ShareWithdrawals
<1>4. ProductWithdrawTest(c, n, a, b, s)
  BY <1>1, <1>3 DEF ProductWithdrawTest, WithdrawValueHolds, ValuePerTokenKept,
                    ValueSquared, ConstantProductValueSquared, Some
<1> QED
  BY <1>2, <1>4

\* The tokens B that are not there are shared out too.
LEMMA OffsetShareTests ==
  ASSUME NEW c \in SwapCurves, c.type = "Offset",
         NEW n \in Nat, NEW s \in Nat \ {0}, NEW a \in Nat, NEW b \in Nat
  PROVE  /\ OffsetDepositTest(c, n, a, b, s)
         /\ OffsetWithdrawTest(c, n, a, b, s)
<1> DEFINE k == c.parameter
           v == b + k
<1>1. k \in Nat /\ v \in Nat
  BY DEF SwapCurves
<1>2. \A round : PoolTokensToTradingTokens(c, n, s, a, b, round)
                   \subseteq ConstantProductTradingTokens(n, s, a, v, round)
  BY DEF PoolTokensToTradingTokens, OffsetTradingTokens, When, None
<1>3. ASSUME SharesCount(n, a, v, s),
             NEW paid \in ConstantProductTradingTokens(n, s, a, v, "Ceiling")
      PROVE  /\ a * (s + n) <= (a + paid.A) * s
             /\ b * (s + n) <= (b + paid.B) * s
  <2> HIDE DEF v, k
  <2>1. /\ paid.B \in Nat
        /\ a * (s + n) <= (a + paid.A) * s
        /\ v * (s + n) <= (v + paid.B) * s
    BY <1>1, <1>3, ShareDeposits
  <2>2. /\ v * (s + n) = b * (s + n) + k * (s + n)
        /\ (v + paid.B) * s = (b + paid.B) * s + k * s
    BY <1>1, <2>1 DEF v
  <2>3. k * s <= k * (s + n) /\ k * s \in Nat /\ k * (s + n) \in Nat
    BY <1>1, ProductMonotone
  <2>4. b * (s + n) \in Nat /\ (b + paid.B) * s \in Nat
    BY <2>1
  <2> QED BY <2>1, <2>2, <2>3, <2>4
<1>4. OffsetDepositTest(c, n, a, b, s)
  BY <1>2, <1>3 DEF OffsetDepositTest, OffsetSharesCount, DepositRatiosHold
<1>5. ASSUME n < s,
             NEW worth \in ConstantProductTradingTokens(n, s, a, v, "Floor")
      PROVE  a * v * (s - n) * (s - n)
               <= (a - worth.A) * ((b - worth.B) + k) * s * s
  <2> HIDE DEF v
  <2>1. /\ worth.B \in Nat
        /\ a * v * (s - n) * (s - n) <= (a - worth.A) * (v - worth.B) * s * s
    BY <1>1, <1>5, ShareWithdrawals
  <2>2. (b - worth.B) + k = v - worth.B
    BY <1>1, <2>1 DEF v
  <2> QED BY <2>1, <2>2
<1>6. OffsetWithdrawTest(c, n, a, b, s)
  BY <1>2, <1>5 DEF OffsetWithdrawTest, WithdrawValueHolds, ValuePerTokenKept,
                    ValueSquared, OffsetValueSquared, ConstantProductValueSquared, Some
<1> QED
  BY <1>4, <1>6

LEMMA StableShareTest ==
  ASSUME NEW c \in SwapCurves, c.type = "Stable",
         NEW n \in Nat, NEW s \in Nat \ {0}, NEW a \in Nat, NEW b \in Nat
  PROVE  StableDepositTest(c, n, a, b, s)
<1>1. PoolTokensToTradingTokens(c, n, s, a, b, "Ceiling")
        = ConstantProductTradingTokens(n, s, a, b, "Ceiling")
  BY DEF PoolTokensToTradingTokens, StableTradingTokens, ConstantProductTradingTokens
<1> QED
  BY <1>1, ShareDeposits DEF StableDepositTest, DepositRatiosHold

LEMMA PriceShareTests ==
  ASSUME NEW c \in SwapCurves, c.type = "ConstantPrice", ValidCurve(c),
         NEW n \in Nat, NEW s \in Nat \ {0}, NEW a \in Nat, NEW b \in Nat
  PROVE  /\ PriceDepositTest(c, n, a, b, s)
         /\ PriceWithdrawTest(c, n, a, b, s)
<1> DEFINE p == c.parameter
           v == n * ConstantPriceValue(p, a, b)
<1>1. p \in Nat \ {0} /\ v \in Nat
  <2>1. p \in Nat \ {0}
    BY DEF SwapCurves, ValidCurve
  <2>2. a + b * p \in Nat
    BY <2>1
  <2>3. ConstantPriceValue(p, a, b) \in Nat
    BY <2>2, DivBounds DEF ConstantPriceValue
  <2> QED BY <2>1, <2>3
<1>2. \A round : PoolTokensToTradingTokens(c, n, s, a, b, round)
                   = ConstantPriceTradingTokens(p, n, s, a, b, round)
  BY DEF PoolTokensToTradingTokens
<1>3. ASSUME PriceSharesCount(c, n, a, b, s),
             NEW paid \in ConstantPriceTradingTokens(p, n, s, a, b, "Ceiling")
      PROVE  paid.A > 0 /\ paid.B > 0
  <2> DEFINE worth == CheckedMul(n, ConstantPriceValue(p, a, b))
  <2>1. /\ paid.A \in CeilDivQuotients(worth, s)
        /\ paid.B \in CeilDivQuotients(CeilDivQuotients(worth, p), s)
    BY DEF ConstantPriceTradingTokens, When
  <2>2. worth \subseteq {v}
    BY DEF CheckedMul, When, Some, None
  <2>3. v >= 2 * p * s
    BY <1>3 DEF PriceSharesCount
  <2> HIDE DEF worth, v, p
  <2>4. PICK q \in CeilDivQuotients({v}, p) : paid.B \in CeilDivQuotients({q}, s)
    BY <2>1, <2>2 DEF CeilDivQuotients
  <2>5. PICK c1 \in CheckedCeilDiv(v, s) : paid.A = c1.quotient
    BY <2>1, <2>2 DEF CeilDivQuotients
  <2>6. p * s \in Nat /\ p * s >= s /\ p * s >= p /\ 2 * p * s = p * (2 * s)
    <3>1. 1 * s <= p * s /\ p * 1 <= p * s /\ p * s \in Nat
      BY <1>1, ProductMonotone
    <3> QED BY <1>1, <3>1
  <2>7. v >= s /\ v >= p /\ v >= p * s /\ v > 0
    BY <1>1, <2>3, <2>6
  <2>8. paid.A > 0
    BY <1>1, <2>5, <2>7, CheckedCeilDivBounds
  <2>9. q \in Nat /\ q >= s
    <3>1. q \in Nat /\ (q > 0 => v <= p * q)
      BY <1>1, <2>4, CeilDivQuotientBounds
    <3>2. PICK c2 \in CheckedCeilDiv(v, p) : q = c2.quotient
      BY <2>4 DEF CeilDivQuotients
    <3>3. q > 0
      BY <1>1, <2>7, <3>2, CheckedCeilDivBounds
    <3>4. p * s <= p * q
      BY <1>1, <2>6, <2>7, <3>1, <3>3
    <3> QED BY <1>1, <3>1, <3>4
  <2>10. PICK c3 \in CheckedCeilDiv(q, s) : paid.B = c3.quotient
    BY <2>4 DEF CeilDivQuotients
  <2>11. paid.B > 0
    BY <2>9, <2>10, CheckedCeilDivBounds
  <2> QED BY <2>8, <2>11
<1>4. ASSUME PriceSharesCount(c, n, a, b, s),
             NEW paid \in ConstantPriceTradingTokens(p, n, s, a, b, "Ceiling")
      PROVE  ConstantPriceValue(p, a, b) * (s + n)
               <= ConstantPriceValue(p, a + paid.A, b + paid.B) * s
  BY <1>1, <1>3, <1>4, ConstantPriceDepositKeeps
<1>5. PriceDepositTest(c, n, a, b, s)
  BY <1>2, <1>4 DEF PriceDepositTest, DepositValueHolds, ValuePerTokenKept
<1>6. ASSUME n < s, NEW worth \in ConstantPriceTradingTokens(p, n, s, a, b, "Floor"),
             worth.A <= a, worth.B <= b
      PROVE  ConstantPriceValue(p, a, b) * (s - n)
               <= ConstantPriceValue(p, a - worth.A, b - worth.B) * s
  <2>1. worth.A \in Nat /\ worth.B \in Nat
    BY <1>1, ConstantPriceRedeems
  <2>2. worth.A \in 0 .. a /\ worth.B \in 0 .. b /\ n <= s
    BY <1>6, <2>1
  <2> HIDE DEF p
  <2>3. ASSUME NEW x \in 0 .. a, NEW y \in 0 .. b, x <= worth.A, y <= worth.B
        PROVE  ConstantPriceValue(p, a, b) * (s - n)
                 <= ConstantPriceValue(p, a - x, b - y) * s
    BY <1>1, <2>2, <2>3, ConstantPriceWithdrawKeeps
  <2> QED BY <2>1, <2>2, <2>3
<1>7. PriceWithdrawTest(c, n, a, b, s)
  BY <1>2, <1>6 DEF PriceWithdrawTest, Covered, WithdrawValueHolds, ValuePerTokenKept
<1> QED
  BY <1>5, <1>7

(***************************************************************************)
(* check_pool_value_from_deposit and check_pool_value_from_withdraw hold   *)
(* for all pool tokens in every pool: rounding never takes from those who  *)
(* stay, under any of the four curves.                                     *)
(***************************************************************************)
THEOREM SharesKeepTheCurveValue == FuzzSpec => []SharesKeepCurveValue
<1>1. ASSUME FuzzInv PROVE SharesKeepCurveValue
  <2> DEFINE a == reserve["A"]
             b == reserve["B"]
  <2> SUFFICES ASSUME InPool, NEW n \in PoolAmounts
               PROVE  /\ curve.type = "ConstantProduct" =>
                           /\ ProductDepositTest(curve, n, a, b, supply)
                           /\ ProductWithdrawTest(curve, n, a, b, supply)
                      /\ curve.type = "ConstantPrice" =>
                           /\ PriceDepositTest(curve, n, a, b, supply)
                           /\ PriceWithdrawTest(curve, n, a, b, supply)
                      /\ curve.type = "Offset" =>
                           /\ OffsetDepositTest(curve, n, a, b, supply)
                           /\ OffsetWithdrawTest(curve, n, a, b, supply)
                      /\ curve.type = "Stable" =>
                           StableDepositTest(curve, n, a, b, supply)
    BY DEF SharesKeepCurveValue
  <2>1. n \in Nat
    OBVIOUS
  <2>2. ASSUME curve.type \in CurveTypes
        PROVE  /\ curve \in SwapCurves /\ ValidCurve(curve)
               /\ a \in Nat /\ b \in Nat /\ supply \in Nat \ {0}
    BY <1>1, <2>2, CurveInPool DEF InPool
  <2> HIDE DEF a, b
  <2>3. CASE curve.type = "ConstantProduct"
    BY <2>1, <2>2, <2>3, ProductShareTests DEF CurveTypes
  <2>4. CASE curve.type = "ConstantPrice"
    BY <2>1, <2>2, <2>4, PriceShareTests DEF CurveTypes
  <2>5. CASE curve.type = "Offset"
    BY <2>1, <2>2, <2>5, OffsetShareTests DEF CurveTypes
  <2>6. CASE curve.type = "Stable"
    BY <2>1, <2>2, <2>6, StableShareTest DEF CurveTypes
  <2> QED BY <2>3, <2>4, <2>5, <2>6
<1> QED
  BY <1>1, FuzzInvariant, PTL

-----------------------------------------------------------------------------
(* Closing the pool.                                                       *)

(***************************************************************************)
(* The pool tokens no instruction of the list can take: those New gave to  *)
(* Holder, and the fees, of which Holder is the host.                      *)
(***************************************************************************)
Founders == lp[Holder] + lp[FeeAccount]

\* Half of what a constant price pool is worth to New.
FirstHalf == (SwapTokens["A"] + CurveParameter["ConstantPrice"] * SwapTokens["B"]) \div 2

(***************************************************************************)
(* The founders' part of a constant price pool is worth no less than all   *)
(* of it was at first.  So its value does not sink to where half of it     *)
(* rounds to nothing, or to less than the token B that is left, and the    *)
(* withdrawal of everything would be refused.                              *)
(***************************************************************************)
ClosingInv ==
  /\ FuzzInv
  /\ stage = "new" =>
       ~Initialized /\ reserve = SwapTokens /\ \A l \in LpAccounts : lp[l] = 0
  /\ stage \in {"fuzzing", "gathered"} =>
       Initialized /\ curve = GetSwapCurve(curve.type)
  /\ stage = "fuzzing" =>
       /\ InitialSupply <= lp[Holder]
       /\ ByPrice => FirstHalf * supply <= HalfValue * Founders
  /\ stage = "gathered" =>
       /\ lp[FeeAccount] = supply /\ supply > 0
       /\ ByPrice => FirstHalf <= HalfValue

\* A step that takes nothing from the founders.
FoundersKept ==
  /\ curve' = curve
  /\ lp[Holder] <= lp'[Holder]
  /\ ByPrice => HalfValue * supply' * Founders <= HalfValue' * supply * Founders'

\* Holder's pool tokens alone are as many as New minted.
LEMMA FoundersOf ==
  ASSUME NEW f \in [LpAccounts -> Nat], InitialSupply <= f[Holder]
  PROVE  /\ f[Holder] \in Nat /\ f[FeeAccount] \in Nat
         /\ f[Holder] + f[FeeAccount] \in Nat \ {0}
         /\ f[Holder] + f[FeeAccount] <= SumFunction(f)
         /\ SumFunction(f) \in Nat \ {0}
<1>1. /\ Holder \in LpAccounts /\ FeeAccount \in LpAccounts
      /\ Holder # FeeAccount /\ IsFiniteSet(LpAccounts)
      /\ InitialSupply \in Nat \ {0} /\ SumFunction(f) \in Nat
  BY FuzzAccounts, LpAccountsFinite, SumOfNat DEF LpAccounts
<1> DEFINE rest == [f EXCEPT ![Holder] = 0]
<1>2. /\ rest \in [LpAccounts -> Nat] /\ rest[Holder] = 0
      /\ rest[FeeAccount] = f[FeeAccount]
      /\ \A l \in LpAccounts \ {Holder} : rest[l] = f[l]
  BY <1>1
<1> HIDE DEF rest
<1>3. SumFunction(rest) = SumFunction(f) - f[Holder] + rest[Holder]
  BY <1>1, <1>2, SumOfChanged
<1>4. rest[FeeAccount] <= SumFunction(rest)
  BY <1>1, <1>2, SumAtLeast
<1>5. f[Holder] \in Nat /\ f[FeeAccount] \in Nat
  BY <1>1
<1>6. f[FeeAccount] <= SumFunction(f) - f[Holder] + 0
  BY <1>1, <1>2, <1>3, <1>4
<1> QED
  BY <1>1, <1>5, <1>6

LEMMA FoundersNat ==
  ASSUME SupplyInv, InitialSupply <= lp[Holder]
  PROVE  /\ lp[Holder] \in Nat /\ lp[FeeAccount] \in Nat
         /\ Founders \in Nat \ {0} /\ supply \in Nat \ {0} /\ Founders <= supply
<1>1. lp \in [LpAccounts -> Nat] /\ supply = SumFunction(lp)
  BY DEF SupplyInv, SupplyIsHeld, TypeInv, TypeOK
<1> QED
  BY <1>1, FoundersOf DEF Founders

LEMMA NextFoundersNat ==
  ASSUME SupplyInv', InitialSupply <= lp'[Holder]
  PROVE  /\ Founders' \in Nat \ {0} /\ supply' \in Nat \ {0}
<1>1. lp' \in [LpAccounts -> Nat] /\ supply' = SumFunction(lp')
  BY DEF SupplyInv, SupplyIsHeld, TypeInv, TypeOK
<1> QED
  BY <1>1, FoundersOf DEF Founders

\* What is behind each of the founders' pool tokens, before and after.
LEMMA FoundersPart ==
  ASSUME NEW h \in Nat, NEW g \in Nat, NEW s \in Nat, NEW z \in Nat, NEW f \in Nat,
         NEW y \in Nat,
         \/ h <= g /\ z * f <= s * y
         \/ h * z <= g * s /\ f <= y
  PROVE  h * z * f <= g * s * y
<1>1. CASE h <= g /\ z * f <= s * y
  <2> DEFINE l == z * f
             r == s * y
  <2>1. l \in Nat /\ r \in Nat /\ l <= r
    BY <1>1
  <2>2. h * z * f = h * l /\ g * s * y = g * r
    OBVIOUS
  <2> HIDE DEF l, r
  <2>3. h * l <= h * r /\ h * r <= g * r
    BY <1>1, <2>1, ProductMonotone
  <2>4. h * l \in Nat /\ h * r \in Nat /\ g * r \in Nat
    BY <2>1
  <2> QED BY <2>2, <2>3, <2>4
<1>2. CASE h * z <= g * s /\ f <= y
  <2> DEFINE l == h * z
             r == g * s
  <2>1. l \in Nat /\ r \in Nat /\ l <= r
    BY <1>2
  <2> HIDE DEF l, r
  <2>2. l * f <= r * f /\ r * f <= r * y
    BY <1>2, <2>1, ProductMonotone
  <2>3. l * f \in Nat /\ r * f \in Nat /\ r * y \in Nat
    BY <2>1
  <2>4. l * f <= r * y
    BY <2>2, <2>3
  <2> QED BY <2>4 DEF l, r
<1> QED
  BY <1>1, <1>2

\* A step that keeps up with the pool tokens and takes none from the founders.
LEMMA KeepsUp ==
  ASSUME SupplyInv, TypeInv', InitialSupply <= lp[Holder], curve' = curve,
         lp[Holder] <= lp'[Holder], lp[FeeAccount] <= lp'[FeeAccount],
         ByPrice => HalfValue * supply' <= HalfValue' * supply
  PROVE  FoundersKept
<1> SUFFICES ASSUME ByPrice
             PROVE  HalfValue * supply' * Founders <= HalfValue' * supply * Founders'
  BY DEF FoundersKept
<1>1. /\ TypeInv /\ lp[Holder] \in Nat /\ lp[FeeAccount] \in Nat
      /\ Founders \in Nat /\ supply \in Nat
  BY FoundersNat DEF SupplyInv
<1>2. HalfValue \in Nat /\ HalfValue' \in Nat
  <2>1. ByPrice'
    BY DEF ByPrice
  <2> QED BY <1>1, <2>1, ValueNat, NextValueNat
<1>3. /\ lp'[Holder] \in Nat /\ lp'[FeeAccount] \in Nat /\ supply' \in Nat
  BY FuzzAccounts DEF TypeInv, TypeOK
<1> DEFINE h == HalfValue
           g == HalfValue'
           s == supply
           z == supply'
           f == Founders
           y == lp'[Holder] + lp'[FeeAccount]
<1>4. y = Founders' /\ y \in Nat /\ f <= y
  BY <1>1, <1>3 DEF Founders
<1>5. h * z <= g * s
  OBVIOUS
<1> HIDE DEF h, g, s, z, f, y
<1>6. h * z * f <= g * s * y
  BY <1>1, <1>2, <1>3, <1>4, <1>5, FoundersPart DEF h, g, s, z, f
<1> QED
  BY <1>4, <1>6 DEF h, g, s, z, f

LEMMA SwapPaysFounders ==
  ASSUME SupplyInv, TypeInv', InitialSupply <= lp[Holder],
         NEW u \in Traders, NEW v \in Traders, NEW t \in Tokens, NEW amount \in Nat,
         NEW minimum, Swap(u, v, t, amount, minimum, Holder)
  PROVE  FoundersKept
<1>1. /\ TypeInv /\ lp[Holder] \in Nat /\ lp[FeeAccount] \in Nat
      /\ Founders \in Nat \ {0} /\ supply \in Nat \ {0} /\ Founders <= supply
  BY FoundersNat DEF SupplyInv
<1>2. curve' = curve
  BY DEF Swap
<1>3. PICK swapped, poolFee :
        /\ SwapOutcome(t, amount, swapped, poolFee)
        /\ lp[Holder] <= lp'[Holder]
        /\ lp'[Holder] + lp'[FeeAccount] = lp[Holder] + lp[FeeAccount] + poolFee
  BY <1>1, FuzzAccounts, SwapHasOutcome
<1>4. poolFee \in Nat /\ supply' = supply + poolFee
  BY <1>3 DEF SwapOutcome
<1>5. Founders' = Founders + poolFee
  BY <1>3 DEF Founders
<1>6. ASSUME ByPrice
      PROVE  HalfValue * supply' * Founders <= HalfValue' * supply * Founders'
  <2>1. ByPrice'
    BY <1>2, <1>6 DEF ByPrice
  <2>2. Value <= Value'
    BY <1>1, <1>2, <1>3, <1>6, SwapAddsValue
  <2>3. /\ HalfValue \in Nat /\ Value \in Nat /\ HalfValue = Value \div 2
        /\ HalfValue' \in Nat /\ Value' \in Nat /\ HalfValue' = Value' \div 2
    BY <1>1, <1>6, <2>1, ValueNat, NextValueNat
  <2>4. HalfValue <= HalfValue'
    <3>1. \A m, n \in Nat : m <= n => m \div 2 <= n \div 2
      OBVIOUS
    <3> QED BY <2>2, <2>3, <3>1
  <2>5. (supply + poolFee) * Founders <= supply * (Founders + poolFee)
    BY <1>1, <1>4, NotDiluted
  <2> DEFINE h == HalfValue
             g == HalfValue'
             s == supply
             z == supply + poolFee
             f == Founders
             y == Founders + poolFee
  <2>6. /\ h \in Nat /\ g \in Nat /\ s \in Nat /\ z \in Nat /\ f \in Nat /\ y \in Nat
        /\ h <= g /\ z * f <= s * y
    <3>1. h \in Nat /\ g \in Nat /\ h <= g
      BY <2>3, <2>4
    <3>2. s \in Nat /\ z \in Nat /\ f \in Nat /\ y \in Nat
      BY <1>1, <1>4
    <3>3. z * f <= s * y
      BY <2>5
    <3> QED BY <3>1, <3>2, <3>3
  <2> HIDE DEF h, g, s, z, f, y
  <2>7. h * z * f <= g * s * y
    BY <2>6, FoundersPart
  <2> QED BY <1>4, <1>5, <2>7 DEF h, g, s, z, f, y
<1> QED
  BY <1>2, <1>3, <1>6 DEF FoundersKept

LEMMA DepositPaysFounders ==
  ASSUME SupplyInv, TypeInv', InitialSupply <= lp[Holder],
         NEW u \in Traders, NEW account \in FuzzIds, NEW poolTokens \in Nat, NEW maximum,
         DepositAllTokenTypes(u, account, poolTokens, maximum)
  PROVE  FoundersKept
<1>1. TypeInv /\ supply > 0 /\ lp[Holder] \in Nat /\ lp[FeeAccount] \in Nat
  BY FoundersNat DEF SupplyInv
<1>2. account \in LpAccounts
  BY FuzzAccounts
<1>3. PICK paid, minted, shares :
        /\ DepositOutcome(paid, minted, shares)
        /\ lp' = [lp EXCEPT ![account] = @ + minted]
  BY <1>1, <1>2, DepositHasOutcome
<1>4. curve' = curve
  BY DEF DepositAllTokenTypes
<1>5. lp'[Holder] = lp[Holder] /\ lp'[FeeAccount] = lp[FeeAccount]
  BY <1>1, <1>3, FuzzAccounts, FuzzAssumption DEF TypeInv, TypeOK
<1>6. ByPrice => HalfValue * supply' <= HalfValue' * supply
  BY <1>1, <1>3, <1>4, DepositKeepsValue
<1> QED
  BY <1>1, <1>4, <1>5, <1>6, KeepsUp

LEMMA WithdrawPaysFounders ==
  ASSUME SupplyInv, TypeInv', InitialSupply <= lp[Holder],
         NEW u \in Traders, NEW account \in FuzzIds, NEW poolTokens \in Nat, NEW minimum,
         WithdrawAllTokenTypes(account, u, poolTokens, minimum)
  PROVE  FoundersKept
<1>1. TypeInv /\ lp[Holder] \in Nat /\ lp[FeeAccount] \in Nat
  BY FoundersNat DEF SupplyInv
<1>2. account \in LpAccounts
  BY FuzzAccounts
<1>3. PICK worth, burned, fee :
        /\ WithdrawOutcome(worth, burned) /\ fee \in Nat
        /\ lp' = [[lp EXCEPT ![account] = @ - poolTokens] EXCEPT ![FeeAccount] = @ + fee]
  BY <1>1, <1>2, WithdrawHasOutcome
<1>4. curve' = curve
  BY DEF WithdrawAllTokenTypes
<1>5. lp'[Holder] = lp[Holder] /\ lp'[FeeAccount] = lp[FeeAccount] + fee
  BY <1>1, <1>3, FuzzAccounts, FuzzAssumption DEF TypeInv, TypeOK
<1>6. ByPrice => HalfValue * supply' <= HalfValue' * supply
  BY <1>1, <1>3, <1>4, WithdrawKeepsValue
<1> QED
  BY <1>1, <1>3, <1>4, <1>5, <1>6, KeepsUp

LEMMA OneSidedPaysFounders ==
  ASSUME SupplyInv, TypeInv', InitialSupply <= lp[Holder], FEES.trade.num # 0,
         NEW u \in Traders, NEW account \in FuzzIds, NEW t \in Tokens,
         NEW amount \in Nat, NEW limit,
         \/ DepositSingle(u, account, t, amount, limit)
         \/ WithdrawSingle(account, u, t, amount, limit)
  PROVE  FoundersKept
<1>1. TypeInv /\ supply > 0 /\ lp[Holder] \in Nat /\ lp[FeeAccount] \in Nat
  BY FoundersNat DEF SupplyInv
<1>2. curve' = curve
  BY DEF DepositSingle, WithdrawSingle
<1>3. CASE DepositSingle(u, account, t, amount, limit)
  <2>1. DepositStep(t, amount)
    BY <1>3 DEF DepositSingle, DepositStep
  <2>2. \E minted : lp' = [lp EXCEPT ![account] = @ + minted]
    BY <1>3 DEF DepositSingle
  <2>3. lp'[Holder] = lp[Holder] /\ lp'[FeeAccount] = lp[FeeAccount]
    BY <1>1, <2>2, FuzzAccounts, FuzzAssumption DEF TypeInv, TypeOK
  <2>4. ByPrice => HalfValue * supply' <= HalfValue' * supply
    BY <1>1, <1>2, <2>1, OneSidedValue
  <2> QED BY <1>1, <1>2, <2>3, <2>4, KeepsUp
<1>4. CASE WithdrawSingle(account, u, t, amount, limit)
  <2>1. PICK burned \in WithdrawSingleExactOut(curve, FEES, amount, reserve["A"],
                                               reserve["B"], supply, Direction(t)) :
          /\ 0 < burned + WithdrawFee(account, burned)
          /\ burned <= supply /\ supply' = supply - burned
          /\ lp' = PoolTokensAfter(account, burned + WithdrawFee(account, burned),
                                   WithdrawFee(account, burned))
    BY <1>4 DEF WithdrawSingle
  <2> DEFINE fee == WithdrawFee(account, burned)
  <2>2. burned \in Nat
    BY <1>1, <1>4, ExactOutNat, StateNat, OtherToken, CurveKinds DEF WithdrawSingle
  <2>3. fee \in Nat /\ burned > 0
    <3>1. fee \in Nat /\ fee <= burned
      BY <2>2, FeeBounds DEF WithdrawFee, OwnerWithdrawFee, ValidFees
    <3> QED BY <2>1, <2>2, <3>1
  <2>4. WithdrawStep(t, amount)
    BY <1>4, <2>1, <2>3 DEF WithdrawSingle, WithdrawStep
  <2> HIDE DEF fee
  <2>5. lp'[Holder] = lp[Holder] /\ lp'[FeeAccount] = lp[FeeAccount] + fee
    BY <1>1, <2>1, FuzzAccounts, FuzzAssumption DEF PoolTokensAfter, TypeInv, TypeOK, fee
  <2>6. ByPrice => HalfValue * supply' <= HalfValue' * supply
    BY <1>1, <1>2, <2>4, OneSidedValue
  <2> QED BY <1>1, <1>2, <2>3, <2>5, <2>6, KeepsUp
<1> QED
  BY <1>3, <1>4

\* No instruction the fuzzer can run takes from the founders.
LEMMA InstructionKeepsFounders ==
  ASSUME SupplyInv, RunInstruction, InitialSupply <= lp[Holder], FEES.trade.num # 0
  PROVE  FoundersKept
<1>1. TypeInv /\ TypeInv'
  BY InstructionKept DEF Kept, SupplyInv
<1>2. ASSUME NEW a \in FuzzIds, NEW b \in FuzzIds, NEW amount \in Amounts,
             NEW minimum \in Limits,
             SwapAToB(a, b, amount, minimum) \/ SwapBToA(b, a, amount, minimum)
      PROVE  FoundersKept
  <2>1. /\ "A" \in Tokens /\ "B" \in Tokens /\ a \in Traders /\ b \in Traders
        /\ amount \in Nat
    BY FuzzAccounts DEF Tokens
  <2> QED BY <1>1, <1>2, <2>1, SwapPaysFounders DEF SwapAToB, SwapBToA
<1>3. ASSUME NEW u \in FuzzIds, NEW account \in FuzzIds, NEW poolTokens \in PoolAmounts,
             NEW limit \in [Tokens -> Limits],
             \/ FuzzDepositAll(u, account, poolTokens, limit)
             \/ FuzzWithdrawAll(account, u, poolTokens, limit)
      PROVE  FoundersKept
  <2>1. /\ u \in Traders /\ account \in LpAccounts
        /\ poolTokens \in Nat
        /\ (IF poolTokens = 1 THEN 2 ELSE poolTokens) \in Nat
    BY FuzzAccounts
  <2>2. NotAllButOne(account, poolTokens) \in Nat
    BY <1>1, <2>1, RedeemedNat
  <2> QED
    BY <1>1, <1>3, <2>1, <2>2, DepositPaysFounders, WithdrawPaysFounders
       DEF FuzzDepositAll, FuzzWithdrawAll
<1>4. ASSUME NEW u \in FuzzIds, NEW account \in FuzzIds, NEW t \in Tokens,
             NEW amount \in Amounts, NEW limit \in Limits,
             \/ FuzzDepositSingle(u, account, t, amount, limit)
             \/ FuzzWithdrawSingle(account, u, t, amount, limit)
      PROVE  FoundersKept
  <2>1. u \in Traders
    BY FuzzAccounts
  <2>2. amount \in Nat
    OBVIOUS
  <2> QED
    BY <1>1, <1>4, <2>1, <2>2, OneSidedPaysFounders DEF FuzzDepositSingle, FuzzWithdrawSingle
<1> QED
  BY <1>2, <1>3, <1>4 DEF RunInstruction

LEMMA FirstHalfNat == FirstHalf \in Nat
<1>1. /\ SwapTokens["A"] \in Nat /\ SwapTokens["B"] \in Nat
      /\ CurveParameter["ConstantPrice"] \in Nat
  BY FuzzAssumption DEF Tokens, CurveTypes
<1> DEFINE v == SwapTokens["A"] + CurveParameter["ConstantPrice"] * SwapTokens["B"]
<1>2. v \in Nat
  BY <1>1
<1> HIDE DEF v
<1>3. v \div 2 \in Nat
  BY <1>2
<1> QED
  BY <1>3 DEF FirstHalf, v

\* What backs the founders goes on backing them.
LEMMA FoundersStayBacked ==
  ASSUME ClosingInv, Fuzz, FEES.trade.num # 0
  PROVE  ClosingInv'
<1>1. /\ stage = "fuzzing" /\ stage' = "fuzzing" /\ RunInstruction
      /\ SupplyInv /\ InitialSupply <= lp[Holder]
      /\ Initialized /\ curve = GetSwapCurve(curve.type)
      /\ ByPrice => FirstHalf * supply <= HalfValue * Founders
  BY DEF ClosingInv, Fuzz, FuzzInv
<1>2. FuzzInv' /\ SupplyInv'
  BY FuzzNextInv DEF ClosingInv, FuzzNext, FuzzInv
<1>3. FoundersKept
  BY <1>1, InstructionKeepsFounders
<1>4. /\ lp[Holder] \in Nat /\ Founders \in Nat \ {0} /\ supply \in Nat \ {0}
  BY <1>1, FoundersNat
<1>5. lp'[Holder] \in Nat
  BY <1>2, FuzzAccounts DEF SupplyInv, TypeInv, TypeOK
<1>6. InitialSupply <= lp'[Holder]
  BY <1>1, <1>3, <1>4, <1>5 DEF FoundersKept
<1>7. ByPrice' => FirstHalf * supply' <= HalfValue' * Founders'
  <2> SUFFICES ASSUME ByPrice' PROVE FirstHalf * supply' <= HalfValue' * Founders'
    OBVIOUS
  <2>1. ByPrice
    BY <1>3 DEF FoundersKept, ByPrice
  <2>2. /\ HalfValue \in Nat /\ HalfValue' \in Nat
        /\ Founders' \in Nat \ {0} /\ supply' \in Nat \ {0}
    BY <1>1, <1>2, <1>6, <2>1, ValueNat, NextValueNat, NextFoundersNat DEF SupplyInv
  <2> DEFINE P == FirstHalf
             h == HalfValue
             g == HalfValue'
             s == supply
             z == supply'
             f == Founders
             y == Founders'
  <2>3. /\ P \in Nat /\ h \in Nat /\ g \in Nat /\ s \in Nat \ {0} /\ z \in Nat \ {0}
        /\ f \in Nat \ {0} /\ y \in Nat
    <3>1. P \in Nat /\ h \in Nat /\ g \in Nat
      BY <2>2, FirstHalfNat
    <3>2. s \in Nat \ {0} /\ z \in Nat \ {0} /\ f \in Nat \ {0} /\ y \in Nat
      BY <1>4, <2>2
    <3> QED BY <3>1, <3>2
  <2>4. P * s <= h * f
    BY <1>1, <2>1
  <2>5. h * z * f <= g * s * y
    BY <1>3, <2>1 DEF FoundersKept
  <2> HIDE DEF P, h, g, s, z, f, y
  <2>6. P * s + 0 <= h * f /\ h * z * f + 0 <= g * s * y
    <3>1. P * s \in Nat /\ h * z * f \in Nat
      BY <2>3
    <3> QED BY <2>4, <2>5, <3>1
  <2>7. P * z + 0 <= g * y
    BY <2>3, <2>6, StillBacked
  <2>8. P * z \in Nat
    BY <2>3
  <2>9. P * z <= g * y
    BY <2>7, <2>8
  <2> QED BY <2>9 DEF P, z, g, y
<1>8. FirstHalf' = FirstHalf
  BY DEF FirstHalf
<1>9. Initialized' /\ curve' = GetSwapCurve(curve'.type)
  BY <1>1, <1>3 DEF FoundersKept, Initialized
<1> QED
  BY <1>1, <1>2, <1>6, <1>7, <1>8, <1>9 DEF ClosingInv

\* New gives Holder all pool tokens, and all the pool is worth.
LEMMA NewClosingInv ==
  ASSUME ClosingInv, New PROVE ClosingInv'
<1>1. PICK curveType \in CurveTypes : Initialize(GetSwapCurve(curveType), Holder)
  BY DEF New
<1>2. /\ stage = "new" /\ stage' = "fuzzing" /\ TypeInv
      /\ reserve = SwapTokens /\ \A l \in LpAccounts : lp[l] = 0
  BY DEF ClosingInv, New, FuzzInv, SupplyInv
<1>3. FuzzInv' /\ TypeInv'
  BY FuzzNextInv DEF ClosingInv, FuzzNext, FuzzInv, SupplyInv
<1>4. /\ curve' = GetSwapCurve(curveType) /\ reserve' = SwapTokens
      /\ supply' = InitialSupply
      /\ lp' = [lp EXCEPT ![Holder] = @ + InitialSupply]
  BY <1>1, <1>2 DEF Initialize
<1>5. lp'[Holder] = InitialSupply /\ lp'[FeeAccount] = 0
  BY <1>2, <1>4, FuzzAccounts DEF TypeInv, TypeOK, LpAccounts
<1>6. Initialized' /\ curve' = GetSwapCurve(curve'.type)
  BY <1>4 DEF Initialized, GetSwapCurve, NoCurve, CurveTypes
<1>7. ByPrice' => FirstHalf * supply' <= HalfValue' * Founders'
  <2> SUFFICES ASSUME ByPrice' PROVE FirstHalf * supply' <= HalfValue' * Founders'
    OBVIOUS
  <2>1. curve'.parameter = CurveParameter["ConstantPrice"]
    BY <1>4 DEF GetSwapCurve, ByPrice
  <2>2. HalfValue' = FirstHalf
    <3>1. /\ SwapTokens["B"] \in Nat /\ CurveParameter["ConstantPrice"] \in Nat
      BY FuzzAssumption DEF Tokens, CurveTypes
    <3>2. SwapTokens["B"] * CurveParameter["ConstantPrice"]
            = CurveParameter["ConstantPrice"] * SwapTokens["B"]
      BY <3>1
    <3> QED BY <1>4, <2>1, <3>2 DEF HalfValue, FirstHalf, ConstantPriceValue
  <2>3. Founders' = supply' /\ supply' \in Nat
    BY <1>4, <1>5 DEF Founders
  <2>4. \A m, n \in Nat : m * n <= m * n
    OBVIOUS
  <2>5. FirstHalf * supply' <= FirstHalf * supply'
    BY <2>3, <2>4, FirstHalfNat
  <2> QED BY <2>2, <2>3, <2>5
<1>8. FirstHalf' = FirstHalf /\ InitialSupply <= lp'[Holder]
  BY <1>5 DEF FirstHalf
<1> QED
  BY <1>2, <1>3, <1>6, <1>7, <1>8 DEF ClosingInv

\* Gathered, the pool tokens are worth what backs the founders' part of them.
LEMMA GatherClosingInv ==
  ASSUME ClosingInv, Gather PROVE ClosingInv'
<1>1. /\ stage = "fuzzing" /\ stage' = "gathered"
      /\ SupplyInv /\ InitialSupply <= lp[Holder]
      /\ Initialized /\ curve = GetSwapCurve(curve.type)
      /\ ByPrice => FirstHalf * supply <= HalfValue * Founders
  BY DEF ClosingInv, Gather, FuzzInv
<1>2. FuzzInv'
  BY FuzzNextInv DEF ClosingInv, FuzzNext
<1>3. /\ curve' = curve /\ supply' = supply /\ reserve' = reserve
      /\ lp'[FeeAccount] = supply
  BY <1>1, FuzzAccounts DEF Gather, SupplyInv, SupplyIsHeld
<1>4. Founders \in Nat \ {0} /\ supply \in Nat \ {0} /\ Founders <= supply
  BY <1>1, FoundersNat
<1>5. ByPrice => FirstHalf <= HalfValue
  <2> SUFFICES ASSUME ByPrice PROVE FirstHalf <= HalfValue
    OBVIOUS
  <2> DEFINE P == FirstHalf
             h == HalfValue
             s == supply
             f == Founders
  <2>1. P \in Nat /\ h \in Nat /\ s \in Nat \ {0} /\ f \in Nat /\ f <= s /\ P * s <= h * f
    <3>1. P \in Nat /\ h \in Nat
      BY <1>1, FirstHalfNat, ValueNat DEF SupplyInv
    <3>2. s \in Nat \ {0} /\ f \in Nat /\ f <= s
      BY <1>4
    <3>3. P * s <= h * f
      BY <1>1
    <3> QED BY <3>1, <3>2, <3>3
  <2> HIDE DEF P, h, s, f
  <2>2. h * f <= h * s
    BY <2>1, ProductMonotone
  <2>3. SUFFICES ASSUME h + 1 <= P PROVE FALSE
    BY <2>1 DEF P, h
  <2>4. (h + 1) * s <= P * s
    BY <2>1, <2>3, ProductMonotone
  <2>5. (h + 1) * s = h * s + s
    BY <2>1
  <2>6. h * s \in Nat /\ h * f \in Nat /\ P * s \in Nat
    BY <2>1
  <2> QED BY <2>1, <2>2, <2>4, <2>5, <2>6
<1>6. ByPrice' => FirstHalf' <= HalfValue'
  BY <1>3, <1>5 DEF ByPrice, HalfValue, FirstHalf
<1> QED
  BY <1>1, <1>2, <1>3, <1>4, <1>6 DEF ClosingInv, Initialized

LEMMA NextClosingInv ==
  ASSUME ClosingInv, [FuzzNext]_fuzzVars, FEES.trade.num # 0
  PROVE  ClosingInv'
<1>1. FuzzInv'
  BY FuzzNextInv DEF ClosingInv
<1>2. CASE CloseOut
  BY <1>1, <1>2 DEF CloseOut, ClosingInv
<1>3. CASE UNCHANGED fuzzVars
  BY <1>1, <1>3 DEF fuzzVars, ClosingInv, Initialized, ByPrice, HalfValue, Founders, FirstHalf
<1> QED
  BY <1>2, <1>3, NewClosingInv, FoundersStayBacked, GatherClosingInv DEF FuzzNext

-----------------------------------------------------------------------------
(* The withdrawal of everything.                                           *)

\* Amounts of tokens and of pool value that the program can hold in a u64.
AmountsFit ==
  /\ \A t \in Tokens : BeforeTotal(t) <= U64Max
  /\ BeforeTotal("B") + CurveParameter["Offset"] <= U64Max
  /\ (BeforeTotal("A") + CurveParameter["ConstantPrice"] * BeforeTotal("B")) \div 2 <= U64Max

\* Any worth that fits is paid, up to what there is, unless it rounds to nothing.
LEMMA EverythingFor ==
  ASSUME FuzzInv, AmountsFit, Initialized, supply > 0, lp[FeeAccount] = supply,
         NEW worth,
         worth \in PoolTokensToTradingTokens(curve, supply, supply, reserve["A"],
                                             reserve["B"], "Floor"),
         \A t \in Tokens : /\ worth[t] \in 0 .. U64Max
                           /\ worth[t] = 0 => reserve[t] = 0
  PROVE  Redeemed(FeeAccount, Holder, NotAllButOne(FeeAccount, lp[FeeAccount]), Nothing) # {}
<1>1. /\ TypeInv /\ supply \in 0 .. U64Max /\ supply > 0
      /\ \A t \in Tokens : reserve[t] \in Nat
      /\ FeeAccount \in LpAccounts /\ Holder \in Traders
  BY FuzzAccounts DEF FuzzInv, SupplyInv, TypeInv, TypeOK
<1>2. NotAllButOne(FeeAccount, lp[FeeAccount]) = supply
  BY DEF NotAllButOne
<1>3. WithdrawFee(FeeAccount, supply) = 0 /\ supply - 0 = supply
  BY <1>1 DEF WithdrawFee
<1> DEFINE received == [t \in Tokens |-> Lesser(reserve[t], worth[t])]
<1>4. \A t \in Tokens : /\ received[t] \in 0 .. reserve[t]
                        /\ received[t] = 0 => reserve[t] = 0
  BY <1>1 DEF Lesser
<1>5. \A t \in Tokens : Total(t) <= U64Max
  BY DEF FuzzInv, TotalsUnchanged, AmountsFit
<1>6. \A t \in Tokens : /\ Nothing[t] <= received[t]
                        /\ received[t] = 0 => reserve[t] = 0
                        /\ CanPayOut(t, received[t])
                        /\ CanReceive(Holder, t, received[t])
  BY <1>1, <1>4, <1>5, RoomForPayments DEF CanPayOut, Nothing
<1>7. PoolTokensFit(PoolTokensAfter(FeeAccount, supply, 0))
  BY <1>1 DEF PoolTokensFit, PoolTokensAfter, IsU64, TypeInv, TypeOK
<1>8. \A t \in Tokens : worth[t] <= U64Max
  OBVIOUS
<1> HIDE DEF received
<1>9. received = [t \in Tokens |-> Lesser(reserve[t], worth[t])]
  BY DEF received
<1>10. received \in Redeemed(FeeAccount, Holder, supply, Nothing)
  BY <1>1, <1>3, <1>6, <1>7, <1>8, <1>9 DEF Redeemed, When
<1> QED
  BY <1>2, <1>10

\* A share of all of a pool in which a pool token is worth at least price is paid.
LEMMA WorthOfAll ==
  ASSUME NEW s \in Nat \ {0}, NEW h \in Nat, NEW p \in Nat \ {0}, p <= h
  PROVE  /\ (s * h) \div s = h
         /\ ((s * h) \div p) \div s \in 1 .. h
<1> DEFINE w == s * h
           q == w \div p
<1>1. w \in Nat /\ h * s = w
  OBVIOUS
<1>2. w \div s = h
  BY DivMultiple
<1>3. q \in Nat /\ s <= q /\ q <= w
  <2>1. s * p <= w /\ s * p \in Nat
    BY <1>1, ProductMonotone
  <2> HIDE DEF w
  <2>2. p * q <= w /\ w < p * (q + 1) /\ q \in Nat
    BY <1>1, DivBounds
  <2>3. s <= q
    <3>1. SUFFICES ASSUME q + 1 <= s PROVE FALSE
      BY <2>2
    <3>2. p * (q + 1) <= p * s
      BY <2>2, <3>1, ProductMonotone
    <3>3. p * s = s * p /\ p * (q + 1) \in Nat
      BY <2>2
    <3> QED BY <1>1, <2>1, <2>2, <3>2, <3>3
  <2>4. 1 * q <= p * q
    BY <2>2, ProductMonotone
  <2>5. q <= w
    BY <1>1, <2>2, <2>4
  <2> QED BY <2>2, <2>3, <2>5
<1>4. q \div s \in 1 .. h
  <2> DEFINE r == q \div s
  <2> HIDE DEF q
  <2>1. r \in Nat /\ s * r <= q /\ q < s * r + s
    BY <1>3, DivBounds
  <2> HIDE DEF r
  <2>2. r # 0
    BY <1>3, <2>1
  <2>3. r <= h
    <3>1. SUFFICES ASSUME h + 1 <= r PROVE FALSE
      BY <2>1
    <3>2. s * (h + 1) <= s * r
      BY <2>1, <3>1, ProductMonotone
    <3>3. s * (h + 1) = s * h + s
      OBVIOUS
    <3> QED BY <1>1, <1>3, <2>1, <3>2, <3>3
  <2> QED BY <2>1, <2>2, <2>3 DEF r
<1> QED
  BY <1>2, <1>4

\* The price of one token B at least, if New brought two.
LEMMA FirstHalfPaysForOne ==
  ASSUME SwapTokens["B"] >= 2
  PROVE  CurveParameter["ConstantPrice"] <= FirstHalf
<1> DEFINE p == CurveParameter["ConstantPrice"]
           b == SwapTokens["B"]
           a == SwapTokens["A"]
<1>1. p \in Nat /\ a \in Nat /\ b \in Nat /\ b >= 2
  BY FuzzAssumption DEF Tokens, CurveTypes
<1> HIDE DEF p, a, b
<1>2. p * 2 <= p * b /\ p * b \in Nat
  BY <1>1, ProductMonotone
<1>3. p <= (a + p * b) \div 2
  BY <1>1, <1>2
<1> QED
  BY <1>3 DEF FirstHalf, p, a, b

LEMMA CloseOutPaid ==
  ASSUME ClosingInv, AmountsFit, SwapTokens["B"] >= 2
  PROVE  CloseOutIsPaid
<1> SUFFICES ASSUME stage = "gathered"
             PROVE  Redeemed(FeeAccount, Holder,
                             NotAllButOne(FeeAccount, lp[FeeAccount]), Nothing) # {}
  BY DEF CloseOutIsPaid
<1> DEFINE a == reserve["A"]
           b == reserve["B"]
           p == curve.parameter
<1>1. /\ FuzzInv /\ SupplyInv /\ TypeInv /\ Initialized /\ curve = GetSwapCurve(curve.type)
      /\ lp[FeeAccount] = supply /\ supply > 0
      /\ ByPrice => FirstHalf <= HalfValue
  BY DEF ClosingInv, FuzzInv, SupplyInv
<1>2. /\ curve \in SwapCurves /\ ValidCurve(curve)
      /\ a \in Nat /\ b \in Nat /\ supply \in Nat \ {0} /\ supply <= U64Max
  BY <1>1, CurveKinds DEF TypeInv, TypeOK, Tokens
<1>3. a <= BeforeTotal("A") /\ b <= BeforeTotal("B")
      /\ BeforeTotal("A") \in Nat /\ BeforeTotal("B") \in Nat
  <2>1. ASSUME NEW t \in Tokens
        PROVE  reserve[t] <= BeforeTotal(t) /\ BeforeTotal(t) \in Nat
    <3> DEFINE f == [u \in Traders |-> wallet[u][t]]
    <3>1. f \in [Traders -> Nat] /\ reserve[t] \in Nat
      BY <1>1 DEF TypeInv, TypeOK
    <3>2. Total(t) = reserve[t] + SumFunction(f)
      BY DEF Total, Owned
    <3> HIDE DEF f
    <3>3. SumFunction(f) \in Nat
      BY <3>1, SumOfNat, TradersAssumption
    <3>4. Total(t) = BeforeTotal(t)
      BY <1>1 DEF FuzzInv, TotalsUnchanged
    <3> QED BY <3>1, <3>2, <3>3, <3>4
  <2> QED BY <2>1 DEF Tokens
<1>4. /\ BeforeTotal("A") <= U64Max /\ BeforeTotal("B") <= U64Max /\ U64Max \in Nat
  BY DEF AmountsFit, Tokens
<1>5. CASE curve.type \in {"ConstantProduct", "Stable"}
  <2> DEFINE worth == [A |-> ProRata(supply, supply, a, "Floor"),
                       B |-> ProRata(supply, supply, b, "Floor")]
  <2>1. worth \in PoolTokensToTradingTokens(curve, supply, supply, a, b, "Floor")
    BY <1>2, <1>5 DEF PoolTokensToTradingTokens, ConstantProductTradingTokens,
                      StableTradingTokens, When, Some
  <2>2. worth["A"] = a /\ worth["B"] = b
    BY <1>2, FloorShare
  <2> HIDE DEF worth
  <2>3. \A t \in Tokens : /\ worth[t] \in 0 .. U64Max
                          /\ worth[t] = 0 => reserve[t] = 0
    BY <1>2, <1>3, <1>4, <2>2 DEF Tokens
  <2> QED BY <1>1, <2>1, <2>3, EverythingFor
<1>6. CASE curve.type = "Offset"
  <2> DEFINE worth == [A |-> ProRata(supply, supply, a, "Floor"),
                       B |-> ProRata(supply, supply, b + p, "Floor")]
  <2>2. p = CurveParameter["Offset"] /\ p \in Nat
    BY <1>1, <1>6, FuzzAssumption DEF GetSwapCurve, CurveTypes
  <2>3. worth["A"] = a /\ worth["B"] = b + p
    <3>1. b + p \in Nat
      BY <1>2, <2>2
    <3> HIDE DEF p
    <3> QED BY <1>2, <3>1, FloorShare
  <2>4. b + p <= U64Max
    BY <1>2, <1>3, <2>2 DEF AmountsFit
  <2>6. supply * (b + p) <= U128Max
    <3>1. b + p \in Nat
      BY <1>2, <2>2
    <3> HIDE DEF p, b
    <3>2. /\ supply * (b + p) <= U64Max * U64Max
          /\ supply * (b + p) \in Nat /\ U64Max * U64Max \in Nat
      BY <1>2, <1>4, <2>4, <3>1, ProductMonotone
    <3>3. U128Max = U64Max * U64Max + 2 * U64Max
      BY <1>4 DEF U128Max
    <3> QED BY <1>4, <3>2, <3>3
  <2>1. worth \in PoolTokensToTradingTokens(curve, supply, supply, a, b, "Floor")
    BY <1>2, <1>6, <2>6 DEF PoolTokensToTradingTokens, OffsetTradingTokens,
                            ConstantProductTradingTokens, When, Some
  <2> HIDE DEF worth, p
  <2>5. \A t \in Tokens : /\ worth[t] \in 0 .. U64Max
                          /\ worth[t] = 0 => reserve[t] = 0
    BY <1>2, <1>3, <1>4, <2>2, <2>3, <2>4 DEF Tokens
  <2> QED BY <1>1, <2>1, <2>5, EverythingFor
<1>7. CASE curve.type = "ConstantPrice"
  <2> DEFINE h == ConstantPriceValue(p, a, b)
             w == supply * h
             worth == [A |-> w \div supply, B |-> (w \div p) \div supply]
  <2>1. p = CurveParameter["ConstantPrice"] /\ p \in Nat \ {0}
    <3>1. p = CurveParameter["ConstantPrice"] /\ p # 0
      BY <1>1, <1>2, <1>7 DEF GetSwapCurve, ValidCurve
    <3> QED BY <3>1, FuzzAssumption DEF CurveTypes
  <2>2. h \in Nat /\ p <= h
    <3>1. ByPrice
      BY <1>7 DEF ByPrice
    <3>2. h = HalfValue
      BY DEF HalfValue
    <3>3. HalfValue \in Nat /\ FirstHalf <= HalfValue
      BY <1>1, <3>1, ValueNat
    <3>4. p <= FirstHalf
      BY <2>1, FirstHalfPaysForOne
    <3> HIDE DEF h, p
    <3> QED BY <2>1, <3>2, <3>3, <3>4, FirstHalfNat
  <2>3. h <= U64Max
    <3> DEFINE A == BeforeTotal("A")
               B == BeforeTotal("B")
    <3>1. A \in Nat /\ B \in Nat /\ a <= A /\ b <= B
      BY <1>3
    <3>2. (A + p * B) \div 2 <= U64Max
      BY <2>1 DEF AmountsFit
    <3>3. h = (a + b * p) \div 2
      BY DEF ConstantPriceValue
    <3> HIDE DEF h, p, a, b, A, B
    <3>4. b * p <= B * p /\ B * p = p * B /\ b * p \in Nat /\ B * p \in Nat
      BY <1>2, <2>1, <3>1, ProductMonotone
    <3>5. \A m, n \in Nat : m <= n => m \div 2 <= n \div 2
      OBVIOUS
    <3>6. (a + b * p) \div 2 <= (A + B * p) \div 2
      BY <1>2, <3>1, <3>4, <3>5
    <3> QED BY <1>2, <1>4, <2>2, <3>1, <3>2, <3>3, <3>4, <3>6
  <2>4. CheckedMul(supply, h) = {w}
    <3> HIDE DEF h
    <3>1. w <= U64Max * U64Max /\ U64Max * U64Max \in Nat /\ w \in Nat
      BY <1>2, <1>4, <2>2, <2>3, ProductMonotone
    <3>2. U128Max = U64Max * U64Max + 2 * U64Max
      BY <1>4 DEF U128Max
    <3>3. w <= U128Max
      BY <1>4, <3>1, <3>2
    <3> QED BY <3>3 DEF CheckedMul, When, Some
  <2>5. worth \in PoolTokensToTradingTokens(curve, supply, supply, a, b, "Floor")
    BY <1>2, <1>7, <2>4 DEF PoolTokensToTradingTokens, ConstantPriceTradingTokens, When
  <2>6. worth["A"] = h /\ worth["B"] \in 1 .. h
    <3> HIDE DEF h, p
    <3> QED BY <1>2, <2>1, <2>2, WorthOfAll
  <2> HIDE DEF worth, h, p
  <2>7. \A t \in Tokens : /\ worth[t] \in 0 .. U64Max
                          /\ worth[t] = 0 => reserve[t] = 0
    BY <1>4, <2>1, <2>2, <2>3, <2>6 DEF Tokens
  <2> QED BY <1>1, <2>5, <2>7, EverythingFor
<1> QED
  BY <1>2, <1>5, <1>6, <1>7 DEF SwapCurves, CurveTypes

(***************************************************************************)
(* After any list of instructions of any length the fee account is paid    *)
(* for all pool tokens, whatever the curve.  The amounts and fees of the   *)
(* source are as the hypotheses ask: they fit, New brings more than one    *)
(* token B, and there is a trading fee.                                    *)
(***************************************************************************)
THEOREM EverythingIsPaidOut ==
  ASSUME AmountsFit, SwapTokens["B"] >= 2, FEES.trade.num # 0
  PROVE  FuzzSpec => []CloseOutIsPaid
<1>1. FuzzInit => ClosingInv
  <2> SUFFICES ASSUME FuzzInit PROVE ClosingInv
    OBVIOUS
  <2> QED BY FuzzInitInv DEF FuzzInit, ClosingInv, Initialized
<1>2. ClosingInv /\ [FuzzNext]_fuzzVars => ClosingInv'
  BY NextClosingInv
<1>3. ClosingInv => CloseOutIsPaid
  BY CloseOutPaid
<1> QED
  BY <1>1, <1>2, <1>3, PTL DEF FuzzSpec

=============================================================================

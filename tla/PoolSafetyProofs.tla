--------------------------- MODULE PoolSafetyProofs ---------------------------
(***************************************************************************)
(* What a constant product pool and a constant price pool guarantee, for   *)
(* every set of traders, all valid fees and all amounts, and that a        *)
(* constant product pool implements LiquidityPool.                         *)
(***************************************************************************)
EXTENDS SwapPoolProofs

USE SplMathAssumption, SwapPoolAssumption

-----------------------------------------------------------------------------
(* What each instruction does to the reserves and the supply.              *)

LEMMA ProductSwapStep ==
  ASSUME TypeInv, ByProduct, NEW t \in Tokens, NEW amount \in Nat,
         NEW swapped, NEW poolFee, SwapOutcome(t, amount, swapped, poolFee)
  PROVE  LET o     == Other(t)
             total == TradingFee(FEES, amount) + OwnerTradingFee(FEES, amount)
         IN  /\ reserve[t] > 0 \/ reserve[o] > 0
             /\ reserve[t] > 0 => reserve'[o] > 0
             /\ total \in Nat /\ total <= swapped.source
             /\ swapped.ownerFee = OwnerTradingFee(FEES, amount)
             /\ reserve[t] * reserve[o] <= (reserve'[t] - total) * reserve'[o]
             /\ reserve'[t] \in Nat /\ reserve'[o] \in Nat
             /\ supply = 0 => poolFee = 0
<1> DEFINE o     == Other(t)
           total == TradingFee(FEES, amount) + OwnerTradingFee(FEES, amount)
<1>1. curve \in SwapCurves /\ ValidCurve(curve) /\ curve.type = "ConstantProduct"
  BY CurveKinds DEF ByProduct
<1>2. /\ amount \in Nat /\ reserve[t] \in Nat /\ reserve[o] \in Nat /\ supply \in Nat
      /\ Direction(t) \in {"AtoB", "BtoA"} /\ ValidFees(FEES)
  BY OtherToken, StateNat
<1>3. /\ swapped \in SwapWithFees(curve, FEES, amount, reserve[t], reserve[o], Direction(t))
      /\ swapped.source \in Nat /\ swapped.destination \in Nat /\ swapped.ownerFee \in Nat
      /\ swapped.destination <= reserve[o]
      /\ reserve'[t] = reserve[t] + swapped.source
      /\ reserve'[o] = reserve[o] - swapped.destination
      /\ reserve' = ReserveAfter(t, swapped)
      /\ poolFee \in OwnerFeeInPoolTokens(t, swapped)
  BY DEF SwapOutcome
<1>4. /\ swapped.ownerFee = OwnerTradingFee(FEES, amount)
      /\ total \in Nat /\ total <= swapped.source
      /\ reserve[t] * reserve[o]
           <= (reserve[t] + swapped.source - total) * (reserve[o] - swapped.destination)
      /\ reserve[t] > 0 => swapped.destination < reserve[o]
      /\ reserve[t] > 0 \/ reserve[o] > 0
  BY <1>1, <1>2, <1>3, ProductSwapBounds
<1>5. supply = 0 => poolFee = 0
  <2> DEFINE after == ReserveAfter(t, swapped)
  <2>1. after["A"] \in Nat /\ after["B"] \in Nat
    BY <1>2, <1>3, OtherToken DEF Tokens, Other
  <2>2. poolFee \in WithdrawSingleExactOut(curve, FEES, swapped.ownerFee, after["A"],
                                           after["B"], supply, Direction(t))
    BY <1>3 DEF OwnerFeeInPoolTokens
  <2> HIDE DEF after, o, total
  <2>3. /\ poolFee \in Nat
        /\ curve.type = "ConstantProduct" /\ supply = 0 => poolFee = 0
    <3>1. /\ curve \in SwapCurves /\ ValidCurve(curve) /\ ValidFees(FEES)
          /\ swapped.ownerFee \in Nat /\ supply \in Nat
          /\ Direction(t) \in {"AtoB", "BtoA"}
      BY <1>1, <1>2, <1>3
    <3> QED BY ONLY <2>1, <2>2, <3>1, ExactOutNat
  <2> QED BY <1>1, <2>3
<1> HIDE DEF total, o
<1>6. /\ reserve'[t] - total = reserve[t] + swapped.source - total
      /\ reserve'[t] \in Nat /\ reserve'[o] \in Nat
  BY <1>2, <1>3, <1>4
<1>7. reserve[t] > 0 => reserve'[o] > 0
  BY <1>2, <1>3, <1>4
<1> QED
  BY <1>2, <1>3, <1>4, <1>5, <1>6, <1>7 DEF o, total

\* A deposit adds both tokens, at no less than the price of the shares.
LEMMA ProductDepositStep ==
  ASSUME TypeInv, ByProduct, NEW paid, NEW minted, NEW shares,
         DepositOutcome(paid, minted, shares)
  PROVE  /\ minted > 0
         /\ \A t \in Tokens : /\ 0 < reserve[t]
                              /\ reserve[t] < reserve'[t]
                              /\ reserve'[t] \in Nat
                              /\ minted * reserve[t] <= shares * paid[t]
<1>1. minted \in Nat /\ shares \in Nat \ {0}
  BY DEF DepositOutcome
<1>2. curve.type = "ConstantProduct"
  BY DEF ByProduct
<1>3. \A t \in Tokens : paid[t] = ProRata(minted, shares, reserve[t], "Ceiling")
  BY <1>1, <1>2 DEF DepositOutcome, PoolTokensToTradingTokens,
                    ConstantProductTradingTokens, When, None, Some, Tokens
<1> SUFFICES ASSUME NEW t \in Tokens
             PROVE  /\ minted > 0
                    /\ 0 < reserve[t]
                    /\ reserve[t] < reserve'[t]
                    /\ reserve'[t] \in Nat
                    /\ minted * reserve[t] <= shares * paid[t]
  BY DEF Tokens
<1>4. paid[t] \in Nat \ {0} /\ reserve[t] \in Nat /\ reserve'[t] = reserve[t] + paid[t]
  BY StateNat DEF DepositOutcome
<1>5. /\ minted * reserve[t] <= shares * paid[t]
      /\ reserve[t] = 0 \/ minted = 0 => paid[t] = 0
  <2> DEFINE c == ProRata(minted, shares, reserve[t], "Ceiling")
  <2>1. /\ c > 0 => minted * reserve[t] <= shares * c
        /\ reserve[t] = 0 \/ minted = 0 => c = 0
    BY <1>1, <1>4, CeilingShare
  <2>2. paid[t] = c
    BY <1>3
  <2> HIDE DEF c
  <2> QED BY <1>4, <2>1, <2>2
<1> QED
  BY <1>1, <1>4, <1>5

\* A withdrawal takes no more than its share, and both reserves at the end.
LEMMA ProductWithdrawStep ==
  ASSUME TypeInv, ByProduct, NEW worth, NEW burned, WithdrawOutcome(worth, burned),
         NEW t \in Tokens
  PROVE  /\ reserve'[t] \in Nat /\ reserve'[t] <= reserve[t]
         /\ reserve[t] * (supply - burned) <= reserve'[t] * supply
         /\ burned = supply => reserve'[t] = 0
         /\ burned < supply /\ reserve[t] > 0 => reserve'[t] > 0
         /\ reserve[t] > 0 => burned > 0
<1> DEFINE r == reserve[t]
           f == ProRata(burned, supply, r, "Floor")
<1>1. /\ burned \in Nat /\ burned <= supply /\ supply \in Nat \ {0} /\ r \in Nat
      /\ reserve'[t] = r - Lesser(r, worth[t])
      /\ Lesser(r, worth[t]) = 0 => r = 0
  BY StateNat DEF WithdrawOutcome
<1>2. worth[t] = f
  BY DEF WithdrawOutcome, ByProduct, PoolTokensToTradingTokens,
         ConstantProductTradingTokens, When, None, Some, Tokens
<1>3. /\ f \in Nat
      /\ supply * f <= burned * r
      /\ burned = supply => f = r
      /\ burned < supply /\ r > 0 => f < r
  BY <1>1, FloorShare
<1> HIDE DEF r, f
<1>4. f <= r /\ Lesser(r, f) = f
  <2>1. f <= r
    BY <1>1, <1>3
  <2> QED BY <1>1, <1>3, <2>1 DEF Lesser
<1>5. r * (supply - burned) <= (r - f) * supply
  BY <1>1, <1>3, <1>4
<1>6. burned = 0 => r = 0
  <2>1. burned = 0 => f = 0
    BY <1>1, <1>3
  <2> QED BY <1>1, <1>2, <1>4, <2>1
<1>7. reserve'[t] = r - f
  BY <1>1, <1>2, <1>4
<1>8. r - f \in Nat /\ r - f <= r
  BY <1>1, <1>3, <1>4
<1>9. r = reserve[t]
  BY DEF r
<1> QED
  BY <1>1, <1>3, <1>5, <1>6, <1>7, <1>8, <1>9

-----------------------------------------------------------------------------
(* Both reserves stay alive.                                               *)

SafetyInv == TypeInv /\ BothSidesLive

LEMMA SwapBothSidesLive ==
  ASSUME SafetyInv, Trade, TypeInv' PROVE BothSidesLive'
<1>1. PICK u \in Traders, v \in Traders, t \in Tokens, amount \in Amounts,
           minimum \in Limits, host \in Hosts : Swap(u, v, t, amount, minimum, host)
  BY DEF Trade
<1>2. PICK swapped, poolFee : SwapOutcome(t, amount, swapped, poolFee)
  BY <1>1, SwapHasOutcome DEF SafetyInv
<1> SUFFICES ASSUME ByProduct', supply' > 0 PROVE \A x \in Tokens : reserve'[x] > 0
  BY DEF BothSidesLive
<1>3. ByProduct
  BY <1>1 DEF ByProduct, Swap
<1>4. supply > 0
  <2>1. poolFee \in Nat /\ supply' = supply + poolFee
    BY <1>2 DEF SwapOutcome
  <2>2. supply = 0 => poolFee = 0
    BY <1>2, <1>3, ProductSwapStep DEF SafetyInv
  <2> QED BY <2>1, <2>2, StateNat DEF SafetyInv
<1>5. reserve[t] > 0
  BY <1>3, <1>4 DEF SafetyInv, BothSidesLive
<1>6. reserve'[Other(t)] > 0
  BY <1>2, <1>3, <1>5, ProductSwapStep DEF SafetyInv
<1>7. reserve'[t] > 0
  BY <1>2, <1>5, StateNat DEF SafetyInv, SwapOutcome
<1> QED
  BY <1>6, <1>7, OtherToken

LEMMA NextBothSidesLive == SafetyInv /\ [Next]_vars => SafetyInv'
<1> SUFFICES ASSUME SafetyInv, [Next]_vars, TypeInv' PROVE BothSidesLive'
  BY NextTypeInv DEF SafetyInv
<1>1. CASE Create
  BY <1>1 DEF Create, Initialize, ValidSupply, BothSidesLive, ByProduct, Tokens
<1>2. CASE Trade
  BY <1>2, SwapBothSidesLive
<1>3. CASE Join
  <2>1. PICK u \in Traders, destination \in LpAccounts, poolTokens \in PoolAmounts,
             maximum \in [Tokens -> Limits] :
               DepositAllTokenTypes(u, destination, poolTokens, maximum)
    BY <1>3 DEF Join
  <2>2. PICK paid, minted, shares : DepositOutcome(paid, minted, shares)
    BY <1>3, JoinHasOutcome DEF SafetyInv
  <2> SUFFICES ASSUME ByProduct' PROVE \A t \in Tokens : reserve'[t] > 0
    BY DEF BothSidesLive
  <2>3. ByProduct
    BY <2>1 DEF ByProduct, DepositAllTokenTypes
  <2> QED BY <2>2, <2>3, ProductDepositStep, StateNat DEF SafetyInv
<1>4. CASE Exit
  <2>1. PICK source \in LpAccounts, u \in Traders, poolTokens \in PoolAmounts,
             minimum \in [Tokens -> Limits] :
               WithdrawAllTokenTypes(source, u, poolTokens, minimum)
    BY <1>4 DEF Exit
  <2>2. PICK worth, burned : WithdrawOutcome(worth, burned)
    BY <1>4, ExitHasOutcome DEF SafetyInv
  <2> SUFFICES ASSUME ByProduct', supply' > 0, NEW t \in Tokens PROVE reserve'[t] > 0
    BY DEF BothSidesLive
  <2>3. ByProduct
    BY <2>1 DEF ByProduct, WithdrawAllTokenTypes
  <2>4. /\ burned < supply /\ supply > 0
    BY <2>2, StateNat DEF SafetyInv, WithdrawOutcome
  <2>5. reserve[t] > 0
    BY <2>3, <2>4 DEF SafetyInv, BothSidesLive
  <2> QED BY <2>2, <2>3, <2>4, <2>5, ProductWithdrawStep DEF SafetyInv
<1>5. CASE Send
  <2>1. PICK u \in Traders, t \in Tokens, n \in Amounts : SendToPool(u, t, n)
    BY <1>5 DEF Send
  <2> QED
    BY <2>1, StateNat DEF SendToPool, SafetyInv, TypeInv, TypeOK, BothSidesLive, ByProduct
<1>6. CASE Burn
  <2>1. PICK l \in LpAccounts, n \in PoolAmounts : BurnPoolTokens(l, n)
    BY <1>6 DEF Burn
  <2> QED
    BY <2>1, StateNat DEF BurnPoolTokens, SafetyInv, BothSidesLive, ByProduct
<1>7. CASE UNCHANGED vars
  BY <1>7 DEF vars, SafetyInv, BothSidesLive, ByProduct
<1> QED
  BY <1>1, <1>2, <1>3, <1>4, <1>5, <1>6, <1>7 DEF Next

(***************************************************************************)
(* However swaps and withdrawals round, whatever is given to the pool or   *)
(* burned behind its back, a constant product pool with pool tokens        *)
(* outstanding has some of both tokens.                                    *)
(***************************************************************************)
THEOREM BothSidesStayLive == Spec => []BothSidesLive
<1>1. Init => SafetyInv
  BY InitTypeInv DEF Init, SafetyInv, BothSidesLive, ByProduct, NoCurve
<1>2. SafetyInv => BothSidesLive
  BY DEF SafetyInv
<1> QED
  BY <1>1, <1>2, NextBothSidesLive, PTL DEF Spec

-----------------------------------------------------------------------------
(* Swaps keep the product.                                                 *)

LEMMA OnlySwapsTrade == TypeInv /\ TypeInv' /\ [Next]_vars /\ IsTrade => Trade
<1> SUFFICES ASSUME TypeInv, TypeInv', [Next]_vars, ~Trade,
                    NEW t \in Tokens, Sold(t)
             PROVE  FALSE
  BY DEF IsTrade
<1>1. Other(t) \in Tokens
  BY OtherToken
<1>2. CASE Create
  BY <1>2, StateNat DEF Create, Initialize, Sold
<1>3. CASE Join
  <2>1. PICK paid, minted, shares : DepositOutcome(paid, minted, shares)
    BY <1>3, JoinHasOutcome
  <2>2. /\ paid[Other(t)] \in Nat
        /\ reserve'[Other(t)] = reserve[Other(t)] + paid[Other(t)]
    BY <1>1, <2>1 DEF DepositOutcome
  <2> QED BY <1>1, <2>2, StateNat DEF Sold
<1>4. CASE Exit
  <2>1. PICK worth, burned : WithdrawOutcome(worth, burned)
    BY <1>4, ExitHasOutcome
  <2>2. reserve'[t] <= reserve[t]
    BY <2>1, StateNat DEF WithdrawOutcome, Lesser
  <2> QED BY <2>2, StateNat DEF Sold, TypeInv, TypeOK
<1>5. CASE Send
  BY <1>1, <1>5, StateNat DEF Send, SendToPool, Sold, TypeInv, TypeOK
<1>6. CASE Burn
  BY <1>6, StateNat DEF Burn, BurnPoolTokens, Sold
<1>7. CASE UNCHANGED vars
  BY <1>7, StateNat DEF vars, Sold
<1> QED
  BY <1>2, <1>3, <1>4, <1>5, <1>6, <1>7 DEF Next

\* The product of the reserves, whichever token is sold.
LEMMA ProductOfTokens ==
  ASSUME TypeInv, TypeInv', NEW t \in Tokens
  PROVE  /\ Product = reserve[t] * reserve[Other(t)]
         /\ Product' = reserve'[t] * reserve'[Other(t)]
  BY StateNat DEF Product, Tokens, Other, TypeInv, TypeOK

LEMMA OutcomeProduct ==
  ASSUME TypeInv, TypeInv', ByProduct, NEW t \in Tokens, NEW amount \in Nat,
         NEW swapped, NEW poolFee, SwapOutcome(t, amount, swapped, poolFee)
  PROVE  Product <= Product'
<1> DEFINE x == reserve'[t]
           y == reserve'[Other(t)]
           total == TradingFee(FEES, amount) + OwnerTradingFee(FEES, amount)
<1>1. /\ total \in Nat /\ total <= swapped.source
      /\ reserve[t] * reserve[Other(t)] <= (x - total) * y
      /\ x \in Nat /\ y \in Nat
  BY ProductSwapStep
<1>2. swapped.source <= x
  BY StateNat DEF SwapOutcome
<1>3. swapped.source \in Nat /\ reserve[t] * reserve[Other(t)] \in Nat
  BY OtherToken, StateNat DEF SwapOutcome
<1>4. Product = reserve[t] * reserve[Other(t)] /\ Product' = x * y
  BY ProductOfTokens
<1> HIDE DEF x, y, total
<1>5. (x - total) * y <= x * y
  <2>1. x - total \in Nat /\ x - total <= x
    BY <1>1, <1>2, <1>3
  <2> QED BY <1>1, <2>1, ProductMonotone
<1> QED
  BY <1>1, <1>2, <1>3, <1>4, <1>5

LEMMA SwapProduct ==
  ASSUME TypeInv, TypeInv', ByProduct, Trade PROVE Product <= Product'
<1>1. PICK u \in Traders, v \in Traders, t \in Tokens, amount \in Amounts,
           minimum \in Limits, host \in Hosts : Swap(u, v, t, amount, minimum, host)
  BY DEF Trade
<1>2. PICK swapped, poolFee : SwapOutcome(t, amount, swapped, poolFee)
  BY <1>1, SwapHasOutcome
<1> QED
  BY <1>2, OutcomeProduct

(***************************************************************************)
(* No swap of a constant product pool, whatever its rounding and its fees, *)
(* lowers the product of the reserves.                                     *)
(***************************************************************************)
THEOREM SwapsKeepProduct == Spec => SwapKeepsProduct
<1>1. TypeInv /\ TypeInv' /\ [Next]_vars =>
        [ByProduct /\ IsTrade => Product <= Product']_vars
  BY OnlySwapsTrade, SwapProduct
<1>2. Spec => []TypeInv
  BY InitTypeInv, NextTypeInv, PTL DEF Spec
<1> QED
  BY <1>1, <1>2, PTL DEF Spec, SwapKeepsProduct

-----------------------------------------------------------------------------
(* What a constant price pool guarantees.                                  *)

\* A swap adds both its fees to the value of the pool in token A.
LEMMA PriceSwapStep ==
  ASSUME TypeInv, TypeInv', ByPrice, NEW t \in Tokens, NEW amount \in Nat,
         NEW swapped, NEW poolFee, SwapOutcome(t, amount, swapped, poolFee)
  PROVE  LET total == TradingFee(FEES, amount) + OwnerTradingFee(FEES, amount)
         IN  /\ Sold(t)
             /\ total \in Nat
             /\ swapped.ownerFee = OwnerTradingFee(FEES, amount)
             /\ reserve'["A"] + curve.parameter * reserve'["B"]
                  = Value + (IF t = "A" THEN total ELSE total * curve.parameter)
<1> DEFINE o     == Other(t)
           p     == curve.parameter
           total == TradingFee(FEES, amount) + OwnerTradingFee(FEES, amount)
           given == swapped.source - total
<1>1. /\ curve \in SwapCurves /\ ValidCurve(curve) /\ curve.type = "ConstantPrice"
      /\ p \in Nat \ {0}
  BY CurveKinds DEF ByPrice, SwapCurves, ValidCurve
<1>2. /\ amount \in Nat /\ reserve[t] \in Nat /\ reserve[o] \in Nat
      /\ reserve["A"] \in Nat /\ reserve["B"] \in Nat
      /\ Direction(t) \in {"AtoB", "BtoA"} /\ ValidFees(FEES) /\ o \in Tokens
  BY OtherToken, StateNat
<1>3. /\ swapped \in SwapWithFees(curve, FEES, amount, reserve[t], reserve[o], Direction(t))
      /\ swapped.source \in Nat /\ swapped.destination \in Nat
      /\ swapped.destination <= reserve[o]
      /\ reserve'[t] = reserve[t] + swapped.source
      /\ reserve'[o] = reserve[o] - swapped.destination
  BY DEF SwapOutcome
<1>4. /\ swapped.ownerFee = OwnerTradingFee(FEES, amount)
      /\ total \in Nat
      /\ given \in Nat \ {0}
      /\ swapped.destination \in Nat \ {0}
      /\ Direction(t) = "AtoB" => given = p * swapped.destination
      /\ Direction(t) = "BtoA" => swapped.destination = given * p
  BY <1>1, <1>2, <1>3, PriceSwapBounds
<1>5. Sold(t)
  BY <1>2, <1>3, <1>4 DEF Sold
<1>6. CASE t = "A"
  <2> DEFINE y == swapped.destination
  <2>1. /\ reserve'["A"] = reserve["A"] + (p * y + total)
        /\ reserve'["B"] = reserve["B"] - y
    <3>1. o = "B" /\ given = p * y
      BY <1>4, <1>6 DEF Other, Direction
    <3>2. swapped.source = p * y + total
      <4> HIDE DEF total
      <4> QED BY <1>3, <1>4, <3>1
    <3> QED BY <1>3, <1>6, <3>1, <3>2
  <2> HIDE DEF total, p
  <2>2. p * (reserve["B"] - y) = p * reserve["B"] - p * y
    BY <1>1, <1>2, <1>4
  <2>3. p * y \in Nat /\ p * reserve["B"] \in Nat
    BY <1>1, <1>2, <1>4
  <2>4. reserve'["A"] + p * reserve'["B"] = reserve["A"] + p * reserve["B"] + total
    BY <1>2, <1>4, <2>1, <2>2, <2>3
  <2> QED BY <1>4, <1>5, <1>6, <2>4 DEF Value, p, total
<1>7. CASE t = "B"
  <2>1. /\ reserve'["B"] = reserve["B"] + (given + total)
        /\ reserve'["A"] = reserve["A"] - given * p
    <3>1. o = "A" /\ swapped.destination = given * p
      BY <1>4, <1>7 DEF Other, Direction
    <3>2. swapped.source = given + total
      <4> HIDE DEF total
      <4> QED BY <1>3, <1>4
    <3> QED BY <1>3, <1>7, <3>1, <3>2
  <2> HIDE DEF total, p, given
  <2>2. p * (reserve["B"] + (given + total)) = p * reserve["B"] + given * p + total * p
    BY <1>1, <1>2, <1>4
  <2>3. given * p \in Nat /\ p * reserve["B"] \in Nat /\ total * p \in Nat
    BY <1>1, <1>2, <1>4
  <2>4. reserve'["A"] + p * reserve'["B"] = reserve["A"] + p * reserve["B"] + total * p
    BY <1>2, <2>1, <2>2, <2>3
  <2> QED BY <1>4, <1>5, <1>7, <2>4 DEF Value, p, total
<1> QED
  BY <1>6, <1>7 DEF Tokens

\* A trade in terms of its outcome.
LEMMA TradeHasOutcome ==
  ASSUME TypeInv, Trade
  PROVE  \E t \in Tokens, amount \in Amounts :
           \E swapped, poolFee : SwapOutcome(t, amount, swapped, poolFee)
<1>1. PICK u \in Traders, v \in Traders, t \in Tokens, amount \in Amounts,
           minimum \in Limits, host \in Hosts : Swap(u, v, t, amount, minimum, host)
  BY DEF Trade
<1>2. PICK swapped, poolFee : SwapOutcome(t, amount, swapped, poolFee)
  BY <1>1, SwapHasOutcome
<1> QED
  BY <1>2

LEMMA SwapAddsValue ==
  ASSUME TypeInv, TypeInv', ByPrice, curve' = curve, NEW t \in Tokens, NEW amount \in Nat,
         NEW swapped, NEW poolFee, SwapOutcome(t, amount, swapped, poolFee)
  PROVE  Value <= Value'
<1> DEFINE total == TradingFee(FEES, amount) + OwnerTradingFee(FEES, amount)
           added == IF t = "A" THEN total ELSE total * curve.parameter
<1>1. total \in Nat /\ reserve'["A"] + curve.parameter * reserve'["B"] = Value + added
  BY PriceSwapStep
<1> HIDE DEF total
<1>2. curve.parameter \in Nat
  BY CurveKinds DEF ByPrice, SwapCurves
<1>3. added \in Nat /\ Value \in Nat
  BY <1>1, <1>2, StateNat DEF Value
<1>4. Value' = reserve'["A"] + curve.parameter * reserve'["B"]
  BY DEF Value
<1> QED
  BY <1>1, <1>3, <1>4

LEMMA SwapValue ==
  ASSUME TypeInv, TypeInv', ByPrice, Trade, curve' = curve PROVE Value <= Value'
<1>1. PICK t \in Tokens, amount \in Amounts :
        \E swapped, poolFee : SwapOutcome(t, amount, swapped, poolFee)
  BY TradeHasOutcome
<1>2. PICK swapped, poolFee : SwapOutcome(t, amount, swapped, poolFee)
  BY <1>1
<1>3. amount \in Nat
  OBVIOUS
<1> QED
  BY <1>2, <1>3, SwapAddsValue

(***************************************************************************)
(* No swap of a constant price pool lowers its value in token A.           *)
(***************************************************************************)
THEOREM SwapsKeepValue == Spec => SwapKeepsValue
<1>1. TypeInv /\ TypeInv' /\ [Next]_vars => [ByPrice /\ IsTrade => Value <= Value']_vars
  <2>1. Trade => curve' = curve
    BY DEF Trade, Swap
  <2> QED BY <2>1, OnlySwapsTrade, SwapValue
<1>2. Spec => []TypeInv
  BY InitTypeInv, NextTypeInv, PTL DEF Spec
<1> QED
  BY <1>1, <1>2, PTL DEF Spec, SwapKeepsValue

(***************************************************************************)
(* The fee a swap takes in tokens covers what its owner fee is charged at: *)
(* the owner fee and the trading fee on half of it.                        *)
(***************************************************************************)
LEMMA SwapFeePaidFor ==
  ASSUME TypeInv, TypeInv', ByPrice, Trade, curve' = curve,
         supply > 0, supply' > supply
  PROVE  (supply' - 1) * Value <= supply * Value'
<1>1. PICK t \in Tokens, amount \in Amounts :
        \E swapped, poolFee : SwapOutcome(t, amount, swapped, poolFee)
  BY TradeHasOutcome
<1>2. PICK swapped, poolFee : SwapOutcome(t, amount, swapped, poolFee)
  BY <1>1
<1> DEFINE p     == curve.parameter
           total == TradingFee(FEES, amount) + OwnerTradingFee(FEES, amount)
           added == IF t = "A" THEN total ELSE total * p
           y     == swapped.ownerFee
           half  == IF y \div 2 > 1 THEN y \div 2 ELSE 1
           x     == y + TradingFee(FEES, half)
           given == IF t = "A" THEN x ELSE x * p
           V     == Value
           W     == reserve'["A"] + p * reserve'["B"]
<1>3. total \in Nat /\ W = V + added /\ y = OwnerTradingFee(FEES, amount)
  BY <1>2, PriceSwapStep
<1>4. /\ p \in Nat \ {0} /\ amount \in Nat /\ ValidFees(FEES) /\ supply \in Nat
      /\ reserve["A"] \in Nat /\ reserve["B"] \in Nat
      /\ reserve'["A"] \in Nat /\ reserve'["B"] \in Nat
  BY CurveKinds, StateNat DEF ByPrice, SwapCurves, ValidCurve, TypeInv, TypeOK, Tokens
<1>5. /\ y \in Nat /\ y <= amount /\ poolFee \in Nat /\ supply' = supply + poolFee
      /\ poolFee > 0
      /\ poolFee \in WithdrawSingleExactOut(curve, FEES, y, reserve'["A"], reserve'["B"],
                                            supply, Direction(t))
  BY <1>2, <1>4 DEF SwapOutcome, OwnerFeeInPoolTokens
<1>6. y # 0
  BY <1>5 DEF WithdrawSingleExactOut, Some
<1>7. poolFee \in CeilDivQuotients({supply * given}, W)
  <2>1. poolFee \in PoolTokensForExactOut(curve, x, reserve'["A"], reserve'["B"], supply,
                                          Direction(t))
    BY <1>5, <1>6 DEF WithdrawSingleExactOut
  <2>2. poolFee \in ConstantPriceWithdrawSingle(p, x, reserve'["A"], reserve'["B"], supply,
                                                Direction(t))
    BY <2>1 DEF PoolTokensForExactOut, ByPrice
  <2>3. reserve'["B"] * p + reserve'["A"] = W
    BY <1>4
  <2>4. (Direction(t) = "AtoB") <=> (t = "A")
    BY DEF Direction
  <2> HIDE DEF W, x, p
  <2> QED BY <2>2, <2>3, <2>4 DEF ConstantPriceWithdrawSingle
<1>8. x \in Nat /\ x <= total
  <2>1. /\ half \in Nat /\ TradingFee(FEES, half) \in Nat
        /\ TradingFee(FEES, half) <= TradingFee(FEES, amount)
    BY <1>4, <1>5, <1>6, ExactOutAmount
  <2>2. TradingFee(FEES, amount) \in Nat
    BY <1>4, FeeBounds DEF TradingFee, ValidFees
  <2> HIDE DEF half
  <2> QED BY <1>3, <1>5, <2>1, <2>2
<1>9. V \in Nat /\ W \in Nat
  BY <1>4 DEF Value
<1> HIDE DEF x, y, total, V, W, p
<1>10. given \in Nat /\ added \in Nat /\ given <= added
  <2>1. x * p \in Nat /\ total * p \in Nat /\ x * p <= total * p
    BY <1>3, <1>4, <1>8, ProductMonotone
  <2> QED BY <1>3, <1>8, <2>1
<1> HIDE DEF given, added
<1>11. W * (poolFee - 1) <= supply * given
  <2>1. supply * given \in Nat
    BY <1>4, <1>10
  <2> QED BY <1>5, <1>7, <1>9, <2>1, CeilDivQuotientBounds
<1> DEFINE f == poolFee - 1
<1>12. f \in Nat /\ supply' - 1 = supply + f
  BY <1>4, <1>5
<1> HIDE DEF f
<1>13. /\ W * f \in Nat /\ f * V \in Nat /\ supply * V \in Nat
       /\ supply * given \in Nat /\ supply * added \in Nat
  BY <1>4, <1>9, <1>10, <1>12
<1>14. f * V <= W * f /\ supply * given <= supply * added
  BY <1>3, <1>4, <1>9, <1>10, <1>12, ProductMonotone
<1>15. f * V <= supply * added
  BY <1>11, <1>13, <1>14 DEF f
<1>16. (supply + f) * V = supply * V + f * V /\ supply * W = supply * V + supply * added
  BY <1>3, <1>4, <1>9, <1>10, <1>12
<1>17. (supply + f) * V <= supply * W
  BY <1>13, <1>15, <1>16
<1> QED
  BY <1>12, <1>17 DEF V, W, p, Value

(***************************************************************************)
(* The pool tokens minted for the owner of a constant price pool are paid  *)
(* for by the fees of the swap, up to one pool token.                      *)
(***************************************************************************)
THEOREM OwnerFeesArePaidFor == Spec => OwnerFeePaidFor
<1>1. TypeInv /\ TypeInv' /\ [Next]_vars =>
        [ByPrice /\ IsTrade /\ supply > 0 /\ supply' > supply =>
           (supply' - 1) * Value <= supply * Value']_vars
  <2>1. Trade => curve' = curve
    BY DEF Trade, Swap
  <2> QED BY <2>1, OnlySwapsTrade, SwapFeePaidFor
<1>2. Spec => []TypeInv
  BY InitTypeInv, NextTypeInv, PTL DEF Spec
<1> QED
  BY <1>1, <1>2, PTL DEF Spec, OwnerFeePaidFor

(***************************************************************************)
(* Joining and leaving lower nobody's share of the halved value, and raise *)
(* it when the value was odd and becomes even.                             *)
(***************************************************************************)
LEMMA DepositKeepsValue ==
  ASSUME TypeInv, TypeInv', ByPrice, curve' = curve, supply > 0,
         NEW paid, NEW minted, NEW shares, DepositOutcome(paid, minted, shares)
  PROVE  /\ HalfValue * supply' <= HalfValue' * supply
         /\ HalfValue * supply' + Gained(Value, Value') * supply <= HalfValue' * supply
<1>1. /\ minted \in Nat /\ shares = supply /\ supply \in Nat \ {0}
      /\ paid \in PoolTokensToTradingTokens(curve, minted, supply, reserve["A"],
                                            reserve["B"], "Ceiling")
      /\ paid.A > 0 /\ paid.B > 0
      /\ reserve'["A"] = reserve["A"] + paid.A /\ reserve'["B"] = reserve["B"] + paid.B
      /\ supply' = supply + minted
  BY StateNat DEF DepositOutcome, Tokens
<1>2. /\ curve.parameter \in Nat \ {0} /\ reserve["A"] \in Nat /\ reserve["B"] \in Nat
  BY CurveKinds, StateNat DEF ByPrice, SwapCurves, ValidCurve
<1>3. paid \in ConstantPriceTradingTokens(curve.parameter, minted, supply, reserve["A"],
                                          reserve["B"], "Ceiling")
  BY <1>1 DEF PoolTokensToTradingTokens, ByPrice
<1> DEFINE before == reserve["A"] + reserve["B"] * curve.parameter
           after  == reserve["A"] + paid.A + (reserve["B"] + paid.B) * curve.parameter
           half   == ConstantPriceValue(curve.parameter, reserve["A"], reserve["B"])
           grown  == ConstantPriceValue(curve.parameter, reserve["A"] + paid.A,
                                        reserve["B"] + paid.B)
<1>4. /\ half * (supply + minted) <= grown * supply
      /\ half * (supply + minted) + Gained(before, after) * supply <= grown * supply
  BY <1>1, <1>2, <1>3, ConstantPriceDepositKeeps
<1>5. before = Value /\ after = Value'
  <2>1. paid.A \in Nat /\ paid.B \in Nat
    BY <1>2, <1>3, <1>1, ConstantPriceTradingTokensNat
  <2> QED BY <1>1, <1>2, <2>1 DEF Value
<1> HIDE DEF before, after
<1> QED
  BY <1>1, <1>4, <1>5 DEF HalfValue

LEMMA WithdrawKeepsValue ==
  ASSUME TypeInv, TypeInv', ByPrice, curve' = curve,
         NEW worth, NEW burned, WithdrawOutcome(worth, burned)
  PROVE  /\ HalfValue * supply' <= HalfValue' * supply
         /\ HalfValue * supply' + Gained(Value, Value') * supply <= HalfValue' * supply
<1> DEFINE ra == Lesser(reserve["A"], worth["A"])
           rb == Lesser(reserve["B"], worth["B"])
<1>1. /\ burned \in Nat /\ burned <= supply /\ supply \in Nat \ {0}
      /\ worth \in PoolTokensToTradingTokens(curve, burned, supply, reserve["A"],
                                             reserve["B"], "Floor")
      /\ worth["A"] \in Nat /\ worth["B"] \in Nat
      /\ reserve'["A"] = reserve["A"] - ra /\ reserve'["B"] = reserve["B"] - rb
      /\ supply' = supply - burned
  BY StateNat DEF WithdrawOutcome, Tokens
<1>2. /\ curve.parameter \in Nat \ {0} /\ reserve["A"] \in Nat /\ reserve["B"] \in Nat
  BY CurveKinds, StateNat DEF ByPrice, SwapCurves, ValidCurve
<1>3. worth \in ConstantPriceTradingTokens(curve.parameter, burned, supply, reserve["A"],
                                           reserve["B"], "Floor")
  BY <1>1 DEF PoolTokensToTradingTokens, ByPrice
<1>4. /\ ra \in 0 .. reserve["A"] /\ rb \in 0 .. reserve["B"]
      /\ ra <= worth.A /\ rb <= worth.B
  BY <1>1, <1>2 DEF Lesser
<1> HIDE DEF ra, rb
<1> DEFINE before == reserve["A"] + reserve["B"] * curve.parameter
           after  == reserve["A"] - ra + (reserve["B"] - rb) * curve.parameter
           half   == ConstantPriceValue(curve.parameter, reserve["A"], reserve["B"])
           left   == ConstantPriceValue(curve.parameter, reserve["A"] - ra, reserve["B"] - rb)
<1>5. /\ half * (supply - burned) <= left * supply
      /\ half * (supply - burned) + Gained(before, after) * supply <= left * supply
  BY <1>1, <1>2, <1>3, <1>4, ConstantPriceWithdrawKeeps
<1>6. before = Value /\ after = Value'
  BY <1>1, <1>2, <1>4 DEF Value
<1> HIDE DEF before, after
<1> QED
  BY <1>1, <1>5, <1>6 DEF HalfValue

LEMMA JoinKeepsValue ==
  ASSUME TypeInv, TypeInv', ByPrice, Join, supply > 0
  PROVE  /\ HalfValue * supply' <= HalfValue' * supply
         /\ HalfValue * supply' + Gained(Value, Value') * supply <= HalfValue' * supply
<1>1. curve' = curve
  BY DEF Join, DepositAllTokenTypes
<1> QED
  BY <1>1, JoinHasOutcome, DepositKeepsValue

LEMMA ExitKeepsValue ==
  ASSUME TypeInv, TypeInv', ByPrice, Exit
  PROVE  /\ HalfValue * supply' <= HalfValue' * supply
         /\ HalfValue * supply' + Gained(Value, Value') * supply <= HalfValue' * supply
<1>1. curve' = curve
  BY DEF Exit, WithdrawAllTokenTypes
<1> QED
  BY <1>1, ExitHasOutcome, WithdrawKeepsValue

\* The value of the pool and half of it are naturals.
LEMMA ValueNat ==
  ASSUME TypeInv, ByPrice
  PROVE  Value \in Nat /\ HalfValue \in Nat /\ HalfValue = Value \div 2
<1>1. curve.parameter \in Nat /\ reserve["A"] \in Nat /\ reserve["B"] \in Nat
  BY CurveKinds, StateNat DEF ByPrice, SwapCurves
<1>2. Value \in Nat /\ Value = reserve["A"] + reserve["B"] * curve.parameter
  BY <1>1 DEF Value
<1>3. HalfValue = Value \div 2
  BY <1>2 DEF HalfValue, ConstantPriceValue
<1> QED
  BY <1>2, <1>3, DivBounds

(***************************************************************************)
(* Every step but a swap: a gift does not change the supply, and pool      *)
(* tokens burned for nothing leave more for the others.                    *)
(***************************************************************************)
LEMMA StepKeepsHalfValue ==
  ASSUME TypeInv, TypeInv', [Next]_vars, ByPrice, supply > 0, ~IsTrade, supply # supply'
  PROVE  HalfValue * supply' <= HalfValue' * supply
<1>1. Initialized
  BY CurveKinds
<1>2. ~Create /\ ~Send /\ ~UNCHANGED vars
  BY <1>1 DEF Create, Initialize, Send, SendToPool, vars
<1>3. ~Trade
  <2>1. SUFFICES ASSUME Trade PROVE FALSE
    OBVIOUS
  <2>2. PICK t \in Tokens, amount \in Amounts :
          \E swapped, poolFee : SwapOutcome(t, amount, swapped, poolFee)
    BY <2>1, TradeHasOutcome
  <2>3. Sold(t)
    BY <2>2, PriceSwapStep
  <2> QED BY <2>3 DEF IsTrade
<1>4. CASE Join
  BY <1>4, JoinKeepsValue
<1>5. CASE Exit
  BY <1>5, ExitKeepsValue
<1>6. CASE Burn
  <2>1. PICK l \in LpAccounts, n \in PoolAmounts : BurnPoolTokens(l, n)
    BY <1>6 DEF Burn
  <2>2. supply' \in Nat /\ supply \in Nat /\ supply' <= supply /\ HalfValue' = HalfValue
    BY <2>1, StateNat DEF BurnPoolTokens, HalfValue
  <2>3. HalfValue \in Nat
    BY ValueNat
  <2>4. HalfValue * supply' <= HalfValue * supply
    <3>1. \A h, x, y \in Nat : x <= y => h * x <= h * y
      BY ProductMonotone
    <3> QED BY <2>2, <2>3, <3>1
  <2> QED BY <2>2, <2>4
<1> QED
  BY <1>2, <1>3, <1>4, <1>5, <1>6 DEF Next

(***************************************************************************)
(* Those who stay in a constant price pool lose nothing of the value the   *)
(* curve reports when others join, leave or burn their pool tokens, after  *)
(* any gifts to the pool.                                                  *)
(***************************************************************************)
THEOREM StayersLoseNothing == Spec => StayersKeepValue
<1>1. TypeInv /\ TypeInv' /\ [Next]_vars =>
        [ByPrice /\ supply > 0 /\ ~IsTrade /\ supply # supply' =>
           HalfValue * supply' <= HalfValue' * supply]_vars
  BY StepKeepsHalfValue
<1>2. Spec => []TypeInv
  BY InitTypeInv, NextTypeInv, PTL DEF Spec
<1> QED
  BY <1>1, <1>2, PTL DEF Spec, StayersKeepValue

-----------------------------------------------------------------------------
(* Nothing is stranded in a pool nobody touches behind its back.           *)

ClosedInv == SafetyInv /\ NothingStranded

LEMMA ClosedIsNext == [ClosedNext]_vars => [Next]_vars
  BY DEF ClosedNext, Next

(***************************************************************************)
(* An empty constant product pool refuses every instruction: there is      *)
(* nothing to swap against, deposits are priced at nothing and refused,    *)
(* and no pool token is left to redeem.                                    *)
(***************************************************************************)
LEMMA EmptyIsStuck ==
  ASSUME ClosedInv, [ClosedNext]_vars, ByProduct, supply = 0
  PROVE  UNCHANGED vars
<1>1. /\ TypeInv
      /\ \A t \in Tokens : reserve[t] = 0
      /\ Initialized
  BY CurveKinds DEF ClosedInv, SafetyInv, NothingStranded
<1> SUFFICES ASSUME ClosedNext PROVE FALSE
  OBVIOUS
<1>2. CASE Trade
  <2>1. PICK u \in Traders, v \in Traders, t \in Tokens, amount \in Amounts,
             minimum \in Limits, host \in Hosts : Swap(u, v, t, amount, minimum, host)
    BY <1>2 DEF Trade
  <2>2. PICK swapped, poolFee : SwapOutcome(t, amount, swapped, poolFee)
    BY <1>1, <2>1, SwapHasOutcome
  <2>3. reserve[t] > 0 \/ reserve[Other(t)] > 0
    <3>1. amount \in Nat
      OBVIOUS
    <3> HIDE <1>2, <2>1
    <3> QED BY <1>1, <2>2, <3>1, ProductSwapStep
  <2> QED BY <1>1, <2>3, OtherToken
<1>3. CASE Join
  <2>1. PICK paid, minted, shares : DepositOutcome(paid, minted, shares)
    BY <1>1, <1>3, JoinHasOutcome
  <2> QED BY <1>1, <2>1, ProductDepositStep DEF Tokens
<1>4. CASE Exit
  <2>1. PICK worth, burned : WithdrawOutcome(worth, burned)
    BY <1>1, <1>4, ExitHasOutcome
  <2> QED BY <2>1 DEF WithdrawOutcome
<1> QED
  BY <1>1, <1>2, <1>3, <1>4 DEF ClosedNext, Create, Initialize

LEMMA ClosedNothingStranded == ClosedInv /\ [ClosedNext]_vars => ClosedInv'
<1> SUFFICES ASSUME ClosedInv, [ClosedNext]_vars, SafetyInv' PROVE NothingStranded'
  BY ClosedIsNext, NextBothSidesLive DEF ClosedInv
<1> SUFFICES ASSUME ByProduct', supply' = 0, NEW t \in Tokens PROVE reserve'[t] = 0
  BY DEF NothingStranded
<1>1. TypeInv
  BY DEF ClosedInv, SafetyInv
<1>2. CASE ~ByProduct
  BY <1>1, <1>2, StateNat DEF ClosedNext, Create, Initialize, Trade, Swap, Join,
     DepositAllTokenTypes, Exit, WithdrawAllTokenTypes, Send, SendToPool, vars, ByProduct
<1>3. CASE ByProduct /\ supply = 0
  BY <1>3, EmptyIsStuck DEF vars, ClosedInv, NothingStranded
<1>4. CASE ByProduct /\ supply # 0
  <2>1. Initialized
    BY <1>1, <1>4, CurveKinds
  <2>2. CASE Trade
    <3>1. PICK s \in Tokens, amount \in Amounts :
            \E swapped, poolFee : SwapOutcome(s, amount, swapped, poolFee)
      <4>1. PICK u \in Traders, v \in Traders, s \in Tokens, amount \in Amounts,
                 minimum \in Limits, host \in Hosts : Swap(u, v, s, amount, minimum, host)
        BY <2>2 DEF Trade
      <4>2. amount \in Nat
        OBVIOUS
      <4> QED BY <1>1, <4>1, <4>2, SwapHasOutcome
    <3> QED BY <1>1, <1>4, <3>1, StateNat DEF SwapOutcome
  <2>3. CASE Join
    <3>1. PICK paid, minted, shares : DepositOutcome(paid, minted, shares)
      BY <1>1, <2>3, JoinHasOutcome
    <3> QED BY <1>1, <1>4, <3>1, StateNat DEF DepositOutcome
  <2>4. CASE Exit
    <3>1. PICK worth, burned : WithdrawOutcome(worth, burned)
      BY <1>1, <2>4, ExitHasOutcome
    <3>2. burned = supply
      BY <1>1, <3>1, StateNat DEF WithdrawOutcome
    <3> QED BY <1>1, <1>4, <3>1, <3>2, ProductWithdrawStep
  <2> QED BY <1>4, <2>1, <2>2, <2>3, <2>4 DEF ClosedNext, Create, Initialize, vars
<1> QED
  BY <1>2, <1>3, <1>4

LEMMA ClosedInvariant == ClosedSpec => []ClosedInv
<1>1. Init => ClosedInv
  BY InitTypeInv DEF Init, ClosedInv, SafetyInv, BothSidesLive, NothingStranded,
     ByProduct, NoCurve
<1> QED
  BY <1>1, ClosedNothingStranded, PTL DEF ClosedSpec

(***************************************************************************)
(* The last holder of a constant product pool takes everything: a pool     *)
(* without pool tokens has nothing left in its accounts.                   *)
(***************************************************************************)
THEOREM LastHolderTakesAll == ClosedSpec => []NothingStranded
<1>1. ClosedInv => NothingStranded
  BY DEF ClosedInv
<1> QED
  BY <1>1, ClosedInvariant, PTL

(***************************************************************************)
(* A constant product pool whose pool tokens are all redeemed never        *)
(* changes again.                                                          *)
(***************************************************************************)
THEOREM DrainedStaysDrained == ClosedSpec => DrainedForGood
<1>1. ClosedInv /\ [ClosedNext]_vars =>
        [ByProduct /\ supply = 0 => UNCHANGED <<curve, reserve, supply>>]_vars
  BY EmptyIsStuck DEF vars
<1> QED
  BY <1>1, ClosedInvariant, PTL DEF ClosedSpec, DrainedForGood

-----------------------------------------------------------------------------
(* A constant product pool implements LiquidityPool.                       *)

(***************************************************************************)
(* The pool tokens a swap mints beyond 1 + PreciseError are paid for by    *)
(* the fees it leaves behind: the fee in tokens is the trading fee on half *)
(* the owner fee plus the owner fee, no more than the fees taken.          *)
(***************************************************************************)
LEMMA SwapPaysForFee ==
  ASSUME TypeInv, TypeInv', ByProduct, NEW t \in Tokens, NEW amount \in Nat,
         NEW swapped, NEW poolFee, SwapOutcome(t, amount, swapped, poolFee),
         NEW fair \in Nat, fair + 1 + PreciseError = supply + poolFee, fair > supply
  PROVE  Product * fair * fair <= Product' * supply * supply
<1> DEFINE o     == Other(t)
           total == TradingFee(FEES, amount) + OwnerTradingFee(FEES, amount)
           y     == swapped.ownerFee
           half  == IF y \div 2 > 1 THEN y \div 2 ELSE 1
           x     == y + TradingFee(FEES, half)
           R     == reserve'[t]
           D     == reserve'[o]
           k     == reserve[t] * reserve[o]
           u     == fair - supply
<1>1. curve.type = "ConstantProduct"
  BY DEF ByProduct
<1>2. /\ amount \in Nat /\ reserve[t] \in Nat /\ reserve[o] \in Nat /\ supply \in Nat
      /\ ValidFees(FEES) /\ o \in Tokens
  BY OtherToken, StateNat
<1>3. /\ y \in Nat /\ y <= amount /\ poolFee \in Nat
      /\ poolFee \in OwnerFeeInPoolTokens(t, swapped)
      /\ reserve' = ReserveAfter(t, swapped)
      /\ swapped.source \in Nat
      /\ R = reserve[t] + swapped.source
  BY DEF SwapOutcome
<1>4. /\ total \in Nat /\ total <= swapped.source
      /\ y = OwnerTradingFee(FEES, amount)
      /\ k <= (R - total) * D
      /\ R \in Nat /\ D \in Nat
  BY ProductSwapStep
<1>5. u \in Nat /\ u > 0 /\ u + 1 + PreciseError = poolFee
  BY <1>2, <1>3
<1>6. y > 0 /\ poolFee \in ConstantProductWithdrawSingle(x, R, supply)
  <2>1. poolFee \in WithdrawSingleExactOut(curve, FEES, y, reserve'["A"], reserve'["B"],
                                           supply, Direction(t))
    BY <1>3 DEF OwnerFeeInPoolTokens
  <2>2. y # 0
    BY <1>3, <1>5, <2>1 DEF WithdrawSingleExactOut, Some
  <2>3. (IF Direction(t) = "AtoB" THEN reserve'["A"] ELSE reserve'["B"]) = R
    BY DEF Direction, Tokens
  <2> QED BY <1>1, <1>3, <2>1, <2>2, <2>3 DEF WithdrawSingleExactOut,
                                                   PoolTokensForExactOut
<1>7. x \in Nat /\ x <= total
  <2>1. /\ half \in Nat /\ TradingFee(FEES, half) \in Nat
        /\ TradingFee(FEES, half) <= TradingFee(FEES, amount)
    BY <1>2, <1>3, <1>6, ExactOutAmount
  <2>2. TradingFee(FEES, amount) \in Nat
    BY <1>2, FeeBounds DEF TradingFee, ValidFees
  <2> HIDE DEF half
  <2> QED BY <1>3, <1>4, <2>1, <2>2
<1> HIDE DEF x, y, total, R, D, k, u, o
<1>8. /\ x <= R /\ R > 0 /\ u < supply
      /\ supply * supply * (R - x) < (supply - u) * (supply - u) * R
  BY <1>2, <1>4, <1>5, <1>6, <1>7, ExactOutBounds
<1>9. k \in Nat /\ k <= (R - x) * D
  <2>1. k \in Nat
    BY <1>2 DEF k
  <2>2. total <= R
    BY <1>2, <1>3, <1>4
  <2>3. (R - total) * D <= (R - x) * D
    <3>1. R - total \in Nat /\ R - x \in Nat /\ R - total <= R - x
      BY <1>4, <1>7, <1>8, <2>2
    <3> QED BY <1>4, <3>1, ProductMonotone
  <2>4. (R - total) * D \in Nat /\ (R - x) * D \in Nat
    BY <1>4, <1>7, <1>8, <2>2
  <2> QED BY <1>4, <2>1, <2>3, <2>4
<1>10. (supply + u) * (supply + u) * k <= supply * supply * (R * D)
  BY <1>2, <1>4, <1>5, <1>7, <1>8, <1>9, GrowthPaysForShares
<1>11. supply + u = fair
  BY <1>2 DEF u
<1>12. Product = k /\ Product' = R * D
  BY ProductOfTokens DEF k, R, D, o
<1>13. fair * fair * k <= supply * supply * (R * D)
  BY <1>10, <1>11
<1>14. R * D \in Nat
  BY <1>4
<1> DEFINE kk == R * D
<1> HIDE DEF kk
<1>15. k * fair * fair <= kk * supply * supply
  BY <1>2, <1>9, <1>13, <1>14 DEF kk
<1> QED
  BY <1>12, <1>15 DEF kk

-----------------------------------------------------------------------------
(* Each instruction of an open pool is an action of the promise.           *)

OpenStep ==
  /\ ClosedInv /\ ClosedInv'
  /\ ByProduct /\ ByProduct'

LEMMA OpenStepFacts ==
  ASSUME OpenStep
  PROVE  /\ TypeInv /\ TypeInv'
         /\ supply \in Nat /\ supply' \in Nat
         /\ reserve \in [Tokens -> Nat] /\ reserve' \in [Tokens -> Nat]
         /\ supply > 0 => \A t \in Tokens : reserve[t] > 0
         /\ ByProduct' /\ supply' > 0 => \A t \in Tokens : reserve'[t] > 0
  BY DEF OpenStep, ClosedInv, SafetyInv, TypeInv, TypeOK, BothSidesLive

LEMMA TradeIsPromised ==
  ASSUME OpenStep, Trade PROVE Promise!Trade
<1>1. PICK u \in Traders, v \in Traders, t \in Tokens, amount \in Amounts,
           minimum \in Limits, host \in Hosts : Swap(u, v, t, amount, minimum, host)
  BY DEF Trade
<1>2. PICK swapped, poolFee : SwapOutcome(t, amount, swapped, poolFee)
  <2>1. TypeInv /\ amount \in Nat
    BY OpenStepFacts
  <2> QED BY <1>1, <2>1, SwapHasOutcome
<1> DEFINE o == Other(t)
<1>3. /\ poolFee \in Nat /\ supply' = supply + poolFee
      /\ swapped.source \in Nat /\ swapped.destination \in Nat \ {0}
      /\ reserve'[t] = reserve[t] + swapped.source
      /\ reserve'[o] = reserve[o] - swapped.destination
  BY <1>2 DEF SwapOutcome, OpenStep, ByProduct
<1>4. curve' = curve /\ ByProduct'
  BY <1>1 DEF Swap, OpenStep, ByProduct
<1>5. supply > 0
  <2>1. reserve[t] > 0 \/ reserve[o] > 0
    BY <1>2, OpenStepFacts, ProductSwapStep DEF OpenStep
  <2> QED BY <2>1, OtherToken, OpenStepFacts DEF OpenStep, ClosedInv, NothingStranded
<1>6. \A x \in Tokens : reserve[x] > 0 /\ reserve'[x] > 0
  BY <1>3, <1>4, <1>5, OpenStepFacts
<1>7. Product <= Product'
  BY OpenStepFacts, SwapProduct DEF OpenStep
<1>8. swapped.source > 0
  <2> SUFFICES ASSUME swapped.source = 0 PROVE FALSE
    BY <1>3
  <2> DEFINE S == reserve[t]
             D == reserve[o]
             E == reserve'[o]
  <2>1. S \in Nat /\ D \in Nat /\ E \in Nat /\ S > 0 /\ E < D
    BY <1>3, <1>6, OtherToken, OpenStepFacts
  <2>2. S * D <= S * E
    BY <1>3, <1>7, <2>1, ProductOfTokens, OpenStepFacts
  <2> HIDE DEF S, D, E
  <2> QED BY <2>1, <2>2
<1>9. \E sold, bought \in Tokens :
        reserve'[sold] > reserve[sold] /\ reserve'[bought] < reserve[bought]
  <2>1. reserve'[t] > reserve[t]
    BY <1>3, <1>8, OpenStepFacts
  <2>2. reserve'[o] < reserve[o] /\ o \in Tokens
    BY <1>3, OtherToken, OpenStepFacts
  <2> QED BY <2>1, <2>2
<1>10. ASSUME supply' - (1 + PreciseError) > supply
       PROVE  LET fair == supply' - (1 + PreciseError)
              IN  Product * fair * fair <= Product' * supply * supply
  <2> DEFINE fair == supply' - (1 + PreciseError)
  <2>1. /\ fair \in Nat /\ fair + 1 + PreciseError = supply + poolFee
        /\ fair > supply
    BY <1>3, <1>10, OpenStepFacts
  <2> HIDE DEF fair
  <2>2. Product * fair * fair <= Product' * supply * supply
    BY <1>2, <2>1, OpenStepFacts, SwapPaysForFee DEF OpenStep
  <2> QED BY <2>2 DEF fair
<1>11. /\ reserve' \in [Tokens -> Nat \ {0}]
       /\ supply <= supply'
  BY <1>3, <1>6, OpenStepFacts
<1> QED
  BY <1>5, <1>7, <1>9, <1>10, <1>11, OpenStepFacts
     DEF Promise!Trade, Promise!BonusPaidFor, Promise!Product, Promise!Tokens, Tokens,
         Product, OpenStep

LEMMA JoinIsPromised ==
  ASSUME OpenStep, Join PROVE Promise!Join
<1>1. PICK paid, minted, shares : DepositOutcome(paid, minted, shares)
  BY OpenStepFacts, JoinHasOutcome
<1>2. /\ minted > 0
      /\ \A t \in Tokens : /\ 0 < reserve[t]
                           /\ reserve[t] < reserve'[t]
                           /\ minted * reserve[t] <= shares * paid[t]
  BY <1>1, OpenStepFacts, ProductDepositStep DEF OpenStep
<1>3. supply > 0
  BY <1>2, OpenStepFacts DEF OpenStep, ClosedInv, NothingStranded, Tokens
<1>4. /\ shares = supply /\ minted \in Nat /\ supply' = supply + minted
      /\ \A t \in Tokens : paid[t] \in Nat /\ reserve'[t] = reserve[t] + paid[t]
  BY <1>1, <1>3 DEF DepositOutcome
<1>5. ASSUME NEW t \in Tokens PROVE reserve[t] * supply' <= reserve'[t] * supply
  <2> DEFINE r == reserve[t]
             d == paid[t]
  <2>1. r \in Nat /\ d \in Nat /\ minted * r <= supply * d
    BY <1>2, <1>4, OpenStepFacts
  <2> HIDE DEF r, d
  <2>2. r * (supply + minted) <= (r + d) * supply
    BY <1>4, <2>1, OpenStepFacts
  <2> QED BY <1>4, <2>2 DEF r, d
<1>6. supply < supply'
  BY <1>2, <1>4, OpenStepFacts
<1> QED
  BY <1>2, <1>3, <1>5, <1>6, OpenStepFacts
     DEF Promise!Join, Promise!ShareKept, Promise!Tokens, Tokens, OpenStep

LEMMA ExitIsPromised ==
  ASSUME OpenStep, Exit PROVE Promise!Leave
<1>1. PICK worth, burned : WithdrawOutcome(worth, burned)
  BY OpenStepFacts, ExitHasOutcome
<1>2. /\ burned \in Nat /\ burned <= supply /\ supply > 0
      /\ supply' = supply - burned
  BY <1>1 DEF WithdrawOutcome
<1>3. \A t \in Tokens : reserve[t] > 0
  BY <1>2, OpenStepFacts
<1>4. \A t \in Tokens : /\ reserve'[t] <= reserve[t]
                        /\ reserve[t] * (supply - burned) <= reserve'[t] * supply
                        /\ burned = supply => reserve'[t] = 0
                        /\ burned < supply => reserve'[t] > 0
                        /\ burned > 0
  BY <1>1, <1>3, OpenStepFacts, ProductWithdrawStep DEF OpenStep
<1>5. supply' < supply /\ (burned = supply <=> supply' = 0)
  BY <1>2, <1>4, OpenStepFacts DEF Tokens
<1>6. \A t \in Tokens : /\ reserve'[t] <= reserve[t]
                        /\ reserve[t] * supply' <= reserve'[t] * supply
                        /\ reserve'[t] = 0 <=> supply' = 0
  BY <1>2, <1>4, <1>5, OpenStepFacts
<1> QED
  BY <1>5, <1>6, OpenStepFacts
     DEF Promise!Leave, Promise!ShareKept, Promise!Tokens, Tokens, OpenStep

-----------------------------------------------------------------------------

\* A pool that is not a constant product pool never leaves the empty promise.
LEMMA OtherCurvesStutter ==
  ASSUME ~ByProduct, ~ByProduct' PROVE UNCHANGED Promise!vars
<1>1. UNCHANGED ByProduct
  BY DEF ByProduct
<1>2. UNCHANGED (IF ByProduct THEN reserve ELSE NotYet)
  BY DEF NotYet
<1>3. UNCHANGED (IF ByProduct THEN supply ELSE 0)
  OBVIOUS
<1> QED BY <1>1, <1>2, <1>3 DEF Promise!vars

LEMMA StepIsPromised ==
  ASSUME ClosedInv, ClosedInv', [ClosedNext]_vars
  PROVE  [Promise!Next]_(Promise!vars)
<1>1. CASE UNCHANGED vars
  BY <1>1 DEF vars, Promise!vars, ByProduct
<1>2. CASE Create
  <2>1. PICK c \in Curves, destination \in LpAccounts : Initialize(c, destination)
    BY <1>2 DEF Create
  <2>2. ~ByProduct /\ curve' = c /\ reserve' = reserve /\ supply' = InitialSupply
    BY <2>1 DEF Initialize, Initialized, NoCurve, ByProduct
  <2>3. CASE c.type = "ConstantProduct"
    <3>1. ByProduct'
      BY <2>2, <2>3 DEF ByProduct
    <3>2. reserve' \in [Tokens -> Nat \ {0}]
      BY <2>1, <2>2, <2>3 DEF Initialize, ValidSupply, ClosedInv, SafetyInv,
                        TypeInv, TypeOK, Tokens
    <3> QED BY <2>2, <3>1, <3>2 DEF Promise!Next, Promise!Open, Promise!Tokens, Tokens
  <2>4. CASE c.type # "ConstantProduct"
    BY <2>2, <2>4, OtherCurvesStutter DEF ByProduct
  <2> QED BY <2>3, <2>4
<1>3. ASSUME Trade \/ Join \/ Exit \/ Send PROVE curve' = curve
  BY <1>3 DEF Trade, Swap, Join, DepositAllTokenTypes, Exit, WithdrawAllTokenTypes,
              Send, SendToPool
<1>4. CASE ~ByProduct /\ (Trade \/ Join \/ Exit \/ Send)
  BY <1>3, <1>4, OtherCurvesStutter DEF ByProduct
<1>5. CASE ByProduct /\ (Trade \/ Join \/ Exit)
  <2>1. OpenStep
    BY <1>3, <1>5 DEF OpenStep, ByProduct
  <2> QED BY <1>5, <2>1, TradeIsPromised, JoinIsPromised, ExitIsPromised
          DEF Promise!Next
<1>6. CASE ByProduct /\ ~Initialized
  BY <1>6 DEF ByProduct, Initialized, NoCurve
<1> QED
  BY <1>1, <1>2, <1>4, <1>5, <1>6 DEF ClosedNext

(***************************************************************************)
(* A constant product pool implements LiquidityPool, whichever curves the  *)
(* build offers: nobody joins or leaves at the expense of those who stay,  *)
(* and the pool tokens minted as owner and host fees are paid for by the   *)
(* fees swaps leave in the pool, but for rounding.                         *)
(***************************************************************************)
THEOREM ProductPoolKeepsPromise == ClosedSpec => KeepsPromise
<1>1. Init => Promise!Init
  BY DEF Init, Promise!Init, Promise!Empty, Promise!Tokens, Tokens, ByProduct, NoCurve,
         NotYet
<1>2. ClosedInv /\ ClosedInv' /\ [ClosedNext]_vars => [Promise!Next]_(Promise!vars)
  BY StepIsPromised
<1> QED
  BY <1>1, <1>2, ClosedInvariant, PTL DEF ClosedSpec, KeepsPromise, Promise!Spec

-----------------------------------------------------------------------------
(* The last holder of pool tokens.                                         *)

\* All the tokens there are, in any state, are those the traders started with.
RoomInv == SafetyInv /\ \A t \in Tokens : Total(t) = Started(t)

LEMMA LastHolderIsPaid ==
  ASSUME RoomInv, \A t \in Tokens : Started(t) <= U64Max
  PROVE  LastHolderCanLeave
<1> SUFFICES ASSUME NEW l \in LpAccounts, NEW u \in Traders, ByProduct, supply > 0,
                    lp[l] = supply, FEES.withdraw.num = 0
             PROVE  reserve \in Redeemed(l, u, supply, reserve)
  BY DEF LastHolderCanLeave
<1>1. /\ TypeInv /\ Initialized
      /\ reserve \in [Tokens -> 1 .. U64Max] /\ supply \in 1 .. U64Max
  BY CurveKinds DEF RoomInv, SafetyInv, BothSidesLive, TypeInv, TypeOK
<1>2. WithdrawFee(l, supply) = 0 /\ supply - 0 = supply
  BY <1>1 DEF WithdrawFee, OwnerWithdrawFee, CalculateFee
<1> DEFINE worth == [A |-> ProRata(supply, supply, reserve["A"], "Floor"),
                     B |-> ProRata(supply, supply, reserve["B"], "Floor")]
<1>3. worth \in PoolTokensToTradingTokens(curve, supply, supply, reserve["A"],
                                          reserve["B"], "Floor")
  BY <1>1 DEF ByProduct, PoolTokensToTradingTokens, ConstantProductTradingTokens, When, Some
<1>4. \A t \in Tokens : worth[t] = reserve[t]
  BY <1>1, FloorShare DEF Tokens
<1> HIDE DEF worth
<1>5. reserve = [t \in Tokens |-> Lesser(reserve[t], worth[t])]
  BY <1>1, <1>4 DEF Lesser
<1>6. PoolTokensFit(PoolTokensAfter(l, supply, 0))
  BY <1>1 DEF PoolTokensFit, PoolTokensAfter, IsU64, TypeInv, TypeOK
<1>7. \A t \in Tokens : /\ worth[t] <= U64Max
                        /\ CanPayOut(t, reserve[t])
                        /\ CanReceive(u, t, reserve[t])
  BY <1>1, <1>4, RoomForPayments DEF RoomInv, CanPayOut
<1>8. \A t \in Tokens : reserve[t] # 0
  BY <1>1
<1> QED
  BY <1>1, <1>2, <1>3, <1>5, <1>6, <1>7, <1>8 DEF Redeemed, When

(***************************************************************************)
(* Whoever holds the last pool tokens of a constant product pool is paid   *)
(* all it holds, after gifts and burns too, for any number of traders.     *)
(* The hypothesis is the token program's: the supply of a mint is a u64.   *)
(***************************************************************************)
THEOREM LastHolderLeaves ==
  ASSUME \A t \in Tokens : Started(t) <= U64Max
  PROVE  Spec => []LastHolderCanLeave
<1>1. Init => RoomInv
  BY InitTypeInv, InitTotal DEF Init, RoomInv, SafetyInv, BothSidesLive, ByProduct, NoCurve
<1>2. RoomInv /\ [Next]_vars => RoomInv'
  <2> SUFFICES ASSUME RoomInv, [Next]_vars PROVE RoomInv'
    OBVIOUS
  <2>1. SafetyInv /\ SafetyInv'
    BY NextBothSidesLive DEF RoomInv
  <2>2. \A t \in Tokens : Total(t)' = Total(t)
    BY <2>1, NextKeepsTotals DEF SafetyInv
  <2> QED BY <2>1, <2>2 DEF RoomInv, Started
<1>3. RoomInv => LastHolderCanLeave
  BY LastHolderIsPaid
<1> QED
  BY <1>1, <1>2, <1>3, PTL DEF Spec

=============================================================================

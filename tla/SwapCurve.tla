------------------------------ MODULE SwapCurve ------------------------------
(***************************************************************************)
(* curve/base.rs and the CurveCalculator trait of curve/calculator.rs: a   *)
(* curve is a record [type, parameter] whose operations are those of its   *)
(* calculator.                                                             *)
(***************************************************************************)
EXTENDS ConstantProduct, ConstantPrice, StableCurve, OffsetCurve, Fees

CurveTypes == {"ConstantProduct", "ConstantPrice", "Stable", "Offset"}

\* The parameter is the price of a token B, the amplifier or the offset.
SwapCurves == [type : CurveTypes, parameter : Nat]

\* CurveCalculator::validate: a price or an offset of zero is refused.
ValidCurve(curve) ==
  curve.type \in {"ConstantPrice", "Offset"} => curve.parameter # 0

\* CurveCalculator::validate_supply
ValidSupply(curve, a, b) ==
  a > 0 /\ (curve.type \in {"ConstantProduct", "Stable"} => b > 0)

\* CurveCalculator::allows_deposits
AllowsDeposits(curve) == curve.type # "Offset"

SwapWithoutFees(curve, source, swapSource, swapDestination, direction) ==
  CASE curve.type = "ConstantProduct" ->
         ConstantProductSwap(source, swapSource, swapDestination)
    [] curve.type = "ConstantPrice" ->
         ConstantPriceSwap(curve.parameter, source, direction)
    [] curve.type = "Stable" ->
         StableSwap(curve.parameter, source, swapSource, swapDestination)
    [] curve.type = "Offset" ->
         OffsetSwap(curve.parameter, source, swapSource, swapDestination, direction)

PoolTokensToTradingTokens(curve, poolTokens, supply, a, b, round) ==
  CASE curve.type = "ConstantProduct" ->
         ConstantProductTradingTokens(poolTokens, supply, a, b, round)
    [] curve.type = "ConstantPrice" ->
         ConstantPriceTradingTokens(curve.parameter, poolTokens, supply, a, b, round)
    [] curve.type = "Stable" ->
         StableTradingTokens(poolTokens, supply, a, b, round)
    [] curve.type = "Offset" ->
         OffsetTradingTokens(curve.parameter, poolTokens, supply, a, b, round)

\* CurveCalculator::withdraw_single_token_type_exact_out
PoolTokensForExactOut(curve, amount, a, b, supply, direction) ==
  CASE curve.type = "ConstantProduct" ->
         ConstantProductWithdrawSingle(amount, IF direction = "AtoB" THEN a ELSE b, supply)
    [] curve.type = "ConstantPrice" ->
         ConstantPriceWithdrawSingle(curve.parameter, amount, a, b, supply, direction)
    [] curve.type = "Stable" ->
         StableWithdrawSingle(curve.parameter, amount, a, b, supply, direction)
    [] curve.type = "Offset" ->
         OffsetWithdrawSingle(curve.parameter, amount, a, b, supply, direction)

\* CurveCalculator::deposit_single_token_type
PoolTokensForExactIn(curve, amount, a, b, supply, direction) ==
  CASE curve.type = "ConstantProduct" ->
         ConstantProductDepositSingle(amount, IF direction = "AtoB" THEN a ELSE b, supply)
    [] curve.type = "ConstantPrice" ->
         ConstantPriceDepositSingle(curve.parameter, amount, a, b, supply, direction)
    [] curve.type = "Stable" ->
         StableDepositSingle(curve.parameter, amount, a, b, supply, direction)
    [] curve.type = "Offset" ->
         OffsetDepositSingle(curve.parameter, amount, a, b, supply, direction)

(***************************************************************************)
(* SwapCurve::swap: both fees are taken from the amount the user offers,   *)
(* the rest is swapped, and the fees are added to what the pool takes.     *)
(***************************************************************************)
SwapWithFees(curve, fees, source, swapSource, swapDestination, direction) ==
  LET ownerFee  == OwnerTradingFee(fees, source)
      totalFees == TradingFee(fees, source) + ownerFee
  IN  When(totalFees <= source,
           { [source      |-> r.source + totalFees,
              destination |-> r.destination,
              ownerFee    |-> ownerFee] :
               r \in { s \in SwapWithoutFees(curve, source - totalFees, swapSource,
                                             swapDestination, direction) :
                         s.destination <= swapDestination } })

\* Mutant of WithdrawSingleExactOut: the fee is subtracted, as for a deposit.
WithdrawSingleExactOutLessFee(curve, fees, amount, a, b, supply, direction) ==
  LET half  == IF amount \div 2 > 1 THEN amount \div 2 ELSE 1
      total == amount - TradingFee(fees, half)
  IN  IF amount = 0 THEN Some(0)
      ELSE PoolTokensForExactOut(curve, total, a, b, supply, direction)

(***************************************************************************)
(* SwapCurve::withdraw_single_token_type_exact_out: the pool tokens that   *)
(* amount of one token is worth, after the trading fee on half of it.      *)
(***************************************************************************)
WithdrawSingleExactOut(curve, fees, amount, a, b, supply, direction) ==
  LET half  == IF amount \div 2 > 1 THEN amount \div 2 ELSE 1
      total == amount + TradingFee(fees, half)
  IN  IF amount = 0 THEN Some(0)
      ELSE PoolTokensForExactOut(curve, total, a, b, supply, direction)

(***************************************************************************)
(* SwapCurve::deposit_single_token_type: the pool tokens that amount of    *)
(* one token earns, less the trading fee on half of it.                    *)
(***************************************************************************)
DepositSingleExactIn(curve, fees, amount, a, b, supply, direction) ==
  LET half  == IF amount \div 2 > 1 THEN amount \div 2 ELSE 1
      total == amount - TradingFee(fees, half)
  IN  IF amount = 0 THEN Some(0)
      ELSE When(total >= 0, PoolTokensForExactIn(curve, total, a, b, supply, direction))

\* CurveCalculator::normalized_value, squared so that it is an integer.
ValueSquared(curve, a, b) ==
  CASE curve.type = "ConstantProduct" -> ConstantProductValueSquared(a, b)
    [] curve.type = "ConstantPrice" ->
         {v * v : v \in Some(ConstantPriceValue(curve.parameter, a, b))}
    [] curve.type = "Stable" -> StableValueSquared(curve.parameter, a, b)
    [] curve.type = "Offset" -> OffsetValueSquared(curve.parameter, a, b)

=============================================================================

----------------------------- MODULE CurveTests -----------------------------
(***************************************************************************)
(* The property tests in the test modules of the four curves: the checks   *)
(* of CurveOracles, each under what the test assumes of its inputs.        *)
(***************************************************************************)
EXTENDS CurveOracles, StableSimulation

Directions == {"AtoB", "BtoA"}

\* Each reserve gives at least one token for poolTokens.
SharesCount(poolTokens, a, b, supply) ==
  poolTokens * a >= supply /\ poolTokens * b >= supply

\* The reserves cover what poolTokens are worth.
Covered(curve, poolTokens, a, b, supply) ==
  \A worth \in PoolTokensToTradingTokens(curve, poolTokens, supply, a, b, "Floor") :
    worth.A <= a /\ worth.B <= b

-----------------------------------------------------------------------------
(* constant_product.rs                                                     *)

ProductSwapTest(curve, amount, a, b) == SwapValueHolds(curve, amount, a, b, "AtoB")

ProductDepositTest(curve, poolTokens, a, b, supply) ==
  SharesCount(poolTokens, a, b, supply) =>
    DepositRatiosHold(curve, poolTokens, a, b, supply)

ProductWithdrawTest(curve, poolTokens, a, b, supply) ==
  poolTokens < supply /\ SharesCount(poolTokens, a, b, supply) =>
    WithdrawValueHolds(curve, poolTokens, a, b, supply)

-----------------------------------------------------------------------------
(* constant_price.rs                                                       *)

\* The swap buys at least one token and no more than there are.
PriceSwapPossible(curve, amount, a, b, direction) ==
  IF direction = "AtoB" THEN amount \div curve.parameter \in 1 .. b
  ELSE curve.parameter * amount <= a

\* At least one token B's worth of each token is traded for poolTokens.
PriceSharesCount(curve, poolTokens, a, b, supply) ==
  poolTokens * ConstantPriceValue(curve.parameter, a, b) >= 2 * curve.parameter * supply

PriceSwapTest(curve, amount, a, b) ==
  \A direction \in Directions :
    PriceSwapPossible(curve, amount, a, b, direction) =>
      SwapValueHolds(curve, amount, a, b, direction)

PriceDepositTest(curve, poolTokens, a, b, supply) ==
  poolTokens >= 2 /\ PriceSharesCount(curve, poolTokens, a, b, supply) =>
    DepositValueHolds(curve, poolTokens, a, b, supply)

PriceWithdrawTest(curve, poolTokens, a, b, supply) ==
  /\ poolTokens < supply
  /\ PriceSharesCount(curve, poolTokens, a, b, supply)
  /\ Covered(curve, poolTokens, a, b, supply)
  => WithdrawValueHolds(curve, poolTokens, a, b, supply)

-----------------------------------------------------------------------------
(* offset.rs                                                               *)

\* The swap does not overdraw token B: A_in * offset <= A * B.
OffsetSwapPossible(curve, amount, a, b, direction) ==
  direction = "AtoB" => amount * curve.parameter <= a * b

OffsetSharesCount(curve, poolTokens, a, b, supply) ==
  SharesCount(poolTokens, a, b + curve.parameter, supply)

OffsetSwapTest(curve, amount, a, b) ==
  \A direction \in Directions :
    OffsetSwapPossible(curve, amount, a, b, direction) =>
      SwapValueHolds(curve, amount, a, b, direction)

OffsetDepositTest(curve, poolTokens, a, b, supply) ==
  OffsetSharesCount(curve, poolTokens, a, b, supply) =>
    DepositRatiosHold(curve, poolTokens, a, b, supply)

OffsetWithdrawTest(curve, poolTokens, a, b, supply) ==
  /\ poolTokens < supply
  /\ OffsetSharesCount(curve, poolTokens, a, b, supply)
  /\ Covered(curve, poolTokens, a, b, supply)
  => WithdrawValueHolds(curve, poolTokens, a, b, supply)

-----------------------------------------------------------------------------
(* stable.rs.  Its two tests of the value are left out: in a test build    *)
(* normalized_value picks the negative root of a cubic equation, which     *)
(* becomes zero as a u128, so they compare zero with zero.                 *)

StableDepositTest(curve, poolTokens, a, b, supply) ==
  SharesCount(poolTokens, a, b, supply) =>
    DepositRatiosHold(curve, poolTokens, a, b, supply)

\* constant_product_swap_no_fee: what the Python model pays, give or take one.
StableSimulationTest(curve, amount, a, b) ==
  amount >= 100 /\ amount < a /\ b >= 100 =>
    \A swapped \in StableSwap(curve.parameter, amount, a, b) :
      Distance(SimExchange(curve.parameter, a, b, amount), swapped.destination) <= 1

=============================================================================

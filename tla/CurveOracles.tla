---------------------------- MODULE CurveOracles ----------------------------
(***************************************************************************)
(* The test module of curve/calculator.rs: what the property tests of the  *)
(* curves assert of a calculator, for pools with reserves a and b, and the *)
(* conditions (prop_assume!) under which each curve's tests assert it.     *)
(*                                                                         *)
(* A test unwraps what the curve returns.  The amounts it draws are large; *)
(* on the small ones of a model a curve may refuse, and then there is      *)
(* nothing to assert.                                                      *)
(***************************************************************************)
EXTENDS SwapCurve

Source(a, b, direction)      == IF direction = "AtoB" THEN a ELSE b
Destination(a, b, direction) == IF direction = "AtoB" THEN b ELSE a

SwapOf(curve, amount, a, b, direction) ==
  SwapWithoutFees(curve, amount, Source(a, b, direction), Destination(a, b, direction),
                  direction)

\* The reserves after a swap, as the tests add and subtract them.
AfterSwap(a, b, swapped, direction) ==
  IF direction = "AtoB"
  THEN [A |-> a + swapped.source, B |-> b - swapped.destination]
  ELSE [A |-> a - swapped.destination, B |-> b + swapped.source]

(***************************************************************************)
(* check_curve_value_from_swap: a swap without fees never lowers the value *)
(* of the pool and raises it by one at most: sqrt(w) <= sqrt(v) + 1.       *)
(***************************************************************************)
SwapValueHolds(curve, amount, a, b, direction) ==
  \A swapped \in SwapOf(curve, amount, a, b, direction) :
    LET after == AfterSwap(a, b, swapped, direction)
    IN  \A v \in ValueSquared(curve, a, b), w \in ValueSquared(curve, after.A, after.B) :
          /\ v <= w
          /\ w <= v + 1 \/ (w - v - 1) * (w - v - 1) <= 4 * v

\* check_pool_value_from_deposit: neither reserve per pool token falls.
DepositRatiosHold(curve, poolTokens, a, b, supply) ==
  \A paid \in PoolTokensToTradingTokens(curve, poolTokens, supply, a, b, "Ceiling") :
    /\ a * (supply + poolTokens) <= (a + paid.A) * supply
    /\ b * (supply + poolTokens) <= (b + paid.B) * supply

\* The value per pool token does not fall.  That of a constant price is linear.
ValuePerTokenKept(curve, a, b, supply, after, supplyAfter) ==
  IF curve.type = "ConstantPrice"
  THEN ConstantPriceValue(curve.parameter, a, b) * supplyAfter
         <= ConstantPriceValue(curve.parameter, after.A, after.B) * supply
  ELSE \A v \in ValueSquared(curve, a, b), w \in ValueSquared(curve, after.A, after.B) :
         v * supplyAfter * supplyAfter <= w * supply * supply

\* The constant price curve's own test of a deposit.
DepositValueHolds(curve, poolTokens, a, b, supply) ==
  \A paid \in PoolTokensToTradingTokens(curve, poolTokens, supply, a, b, "Ceiling") :
    ValuePerTokenKept(curve, a, b, supply, [A |-> a + paid.A, B |-> b + paid.B],
                      supply + poolTokens)

\* check_pool_value_from_withdraw: the value per pool token does not fall.
WithdrawValueHolds(curve, poolTokens, a, b, supply) ==
  \A worth \in PoolTokensToTradingTokens(curve, poolTokens, supply, a, b, "Floor") :
    ValuePerTokenKept(curve, a, b, supply, [A |-> a - worth.A, B |-> b - worth.B],
                      supply - poolTokens)

=============================================================================

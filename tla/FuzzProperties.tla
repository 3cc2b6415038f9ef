--------------------------- MODULE FuzzProperties ---------------------------
(***************************************************************************)
(* What the fuzzer asserts after its instructions, and what the property   *)
(* tests of the curves assert, here of every pool the fuzzer can reach.    *)
(***************************************************************************)
EXTENDS FuzzHarness, CurveTests

UserPoolTokens == SumFunction([u \in FuzzIds |-> lp[u]])

(***************************************************************************)
(* No list of instructions lowers the value of the pool per pool token     *)
(* (run_fuzz, on initial_pool_value).  The pool tokens minted as fees are  *)
(* left out, as in the source.  For the stable curve the assertion of the  *)
(* source compares zeros.                                                  *)
(***************************************************************************)
FuzzKeepsValue ==
  stage = "fuzzing" /\ curve.type # "Stable" =>
    ValuePerTokenKept(curve, SwapTokens["A"], SwapTokens["B"], InitialSupply,
                      [A |-> reserve["A"], B |-> reserve["B"]],
                      InitialSupply + UserPoolTokens)

(***************************************************************************)
(* After any list of instructions the fee account, once it has all pool    *)
(* tokens, can redeem them in one withdrawal, whatever the curve: a claim  *)
(* that exceeds a reserve (half the value in each token for a constant     *)
(* price, a share of tokens that are not there for an offset) is cut to    *)
(* what the reserve holds.                                                 *)
(***************************************************************************)
CloseOutIsPaid ==
  stage = "gathered" =>
    Redeemed(FeeAccount, Holder, NotAllButOne(FeeAccount, lp[FeeAccount]), Nothing) # {}

BeforeTotal(t) == SwapTokens[t] + Cardinality(FuzzIds) * StartWallet[t]

(***************************************************************************)
(* Under all four curves, with instructions on one token too, and after    *)
(* the pool was closed, there are as many tokens as before (run_fuzz, on   *)
(* before_total_token_a and before_total_token_b).                         *)
(***************************************************************************)
TotalsUnchanged == \A t \in Tokens : Total(t) = BeforeTotal(t)

-----------------------------------------------------------------------------

InPool == stage = "fuzzing" /\ supply > 0

(***************************************************************************)
(* In no pool that can be reached does a swap without fees lower the value *)
(* of the pool, nor raise it by more than one token of each kind           *)
(* (check_curve_value_from_swap).                                          *)
(***************************************************************************)
SwapsKeepCurveValue ==
  InPool => \A amount \in Amounts :
    /\ curve.type = "ConstantProduct" =>
         ProductSwapTest(curve, amount, reserve["A"], reserve["B"])
    /\ curve.type = "ConstantPrice" =>
         PriceSwapTest(curve, amount, reserve["A"], reserve["B"])
    /\ curve.type = "Offset" =>
         OffsetSwapTest(curve, amount, reserve["A"], reserve["B"])

(***************************************************************************)
(* In no pool that can be reached does a deposit or a withdrawal of both   *)
(* tokens take from those who stay (check_pool_value_from_deposit and      *)
(* check_pool_value_from_withdraw).                                        *)
(***************************************************************************)
SharesKeepCurveValue ==
  LET a == reserve["A"]
      b == reserve["B"]
  IN  InPool => \A poolTokens \in PoolAmounts :
    /\ curve.type = "ConstantProduct" =>
         /\ ProductDepositTest(curve, poolTokens, a, b, supply)
         /\ ProductWithdrawTest(curve, poolTokens, a, b, supply)
    /\ curve.type = "ConstantPrice" =>
         /\ PriceDepositTest(curve, poolTokens, a, b, supply)
         /\ PriceWithdrawTest(curve, poolTokens, a, b, supply)
    /\ curve.type = "Offset" =>
         /\ OffsetDepositTest(curve, poolTokens, a, b, supply)
         /\ OffsetWithdrawTest(curve, poolTokens, a, b, supply)
    /\ curve.type = "Stable" => StableDepositTest(curve, poolTokens, a, b, supply)

(***************************************************************************)
(* In every stable pool that can be reached a swap pays what Curve's own   *)
(* simulation pays, give or take one, although the program iterates to a   *)
(* different end and rounds in other places (constant_product_swap_no_fee).*)
(***************************************************************************)
StableFollowsSimulation ==
  InPool /\ curve.type = "Stable" => \A amount \in Amounts :
    StableSimulationTest(curve, amount, reserve["A"], reserve["B"])

=============================================================================

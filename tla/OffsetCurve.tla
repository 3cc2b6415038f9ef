----------------------------- MODULE OffsetCurve -----------------------------
(***************************************************************************)
(* curve/offset.rs: a constant product curve that pretends to have offset  *)
(* more tokens B than it holds.  The sum of two u64 fits a u128; its       *)
(* product with a third may not, and is refused.                           *)
(***************************************************************************)
EXTENDS ConstantProduct

\* Mutant of OffsetSwap: the offset is added to the reserve bought, not to B.
OffsetSwapWrongSide(offset, source, swapSource, swapDestination, direction) ==
  ConstantProductSwap(source, swapSource, swapDestination + offset)

\* swap_without_fees: a * (b + offset) is kept.  What is bought can be more
\* than the pool holds: the caller has to look.
OffsetSwap(offset, source, swapSource, swapDestination, direction) ==
  LET sold   == IF direction = "AtoB" THEN swapSource ELSE swapSource + offset
      bought == IF direction = "AtoB" THEN swapDestination + offset ELSE swapDestination
  IN  When(sold * bought <= U128Max, ConstantProductSwap(source, sold, bought))

\* pool_tokens_to_trading_tokens: also a share of the tokens B that are not there.
OffsetTradingTokens(offset, poolTokens, supply, a, b, round) ==
  When(poolTokens * (b + offset) <= U128Max,
       ConstantProductTradingTokens(poolTokens, supply, a, b + offset, round))

\* deposit_single_token_type
OffsetDepositSingle(offset, amount, a, b, supply, direction) ==
  ConstantProductDepositSingle(amount, IF direction = "AtoB" THEN a ELSE b + offset,
                               supply)

\* withdraw_single_token_type_exact_out
OffsetWithdrawSingle(offset, amount, a, b, supply, direction) ==
  ConstantProductWithdrawSingle(amount, IF direction = "AtoB" THEN a ELSE b + offset,
                                supply)

\* normalized_value, the square root of this.
OffsetValueSquared(offset, a, b) == ConstantProductValueSquared(a, b + offset)

=============================================================================

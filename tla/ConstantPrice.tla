---------------------------- MODULE ConstantPrice ----------------------------
(***************************************************************************)
(* curve/constant_price.rs.  One token B always costs price tokens A.      *)
(***************************************************************************)
EXTENDS SplMath

\* Mutant of ConstantPriceSwap: a part of a token B is paid as a whole one.
ConstantPriceSwapRoundsUp(price, source, direction) ==
  LET swapped ==
        IF direction = "BtoA"
        THEN [source |-> source, destination |-> source * price]
        ELSE [source |-> source, destination |-> CeilQuotient(source, price)]
  IN  When(swapped.source > 0 /\ swapped.destination > 0, Some(swapped))

(***************************************************************************)
(* swap_without_fees.  Selling A, the part that does not pay for a whole   *)
(* token B is left with the user.  A zero amount on either side is None.   *)
(***************************************************************************)
ConstantPriceSwap(price, source, direction) ==
  LET swapped ==
        IF direction = "BtoA"
        THEN [source |-> source, destination |-> source * price]
        ELSE [source      |-> source - (source % price),
              destination |-> source \div price]
  IN  When(swapped.source > 0 /\ swapped.destination > 0, Some(swapped))

\* normalized_value: half the value of the pool in token A, rounded down.
ConstantPriceValue(price, a, b) == (a + b * price) \div 2

\* The quotients of checked_ceil_div without the divisors.
CeilDivQuotients(ns, d) ==
  UNION {{c.quotient : c \in CheckedCeilDiv(n, d)} : n \in ns}

\* Mutant of ConstantPriceTradingTokens: deposits are rounded down too.
ConstantPriceTradingTokensFloor(price, poolTokens, supply, a, b, round) ==
  LET worth == CheckedMul(poolTokens, ConstantPriceValue(price, a, b))
  IN  When(supply > 0, {[A |-> w \div supply, B |-> (w \div price) \div supply] :
                          w \in worth})

(***************************************************************************)
(* pool_tokens_to_trading_tokens: poolTokens out of supply are worth the   *)
(* same amount of A and of B by value, whatever the reserves hold.         *)
(***************************************************************************)
ConstantPriceTradingTokens(price, poolTokens, supply, a, b, round) ==
  LET worth == CheckedMul(poolTokens, ConstantPriceValue(price, a, b))
      floor == {[A |-> w \div supply, B |-> (w \div price) \div supply] :
                  w \in worth}
      ceil  == [A : CeilDivQuotients(worth, supply),
                B : CeilDivQuotients(CeilDivQuotients(worth, price), supply)]
  IN  When(supply > 0, IF round = "Floor" THEN floor ELSE ceil)

\* Mutant of ConstantPriceWithdrawSingle: the pool is priced by its token A alone.
ConstantPriceWithdrawSingleByA(price, amount, a, b, supply, direction) ==
  LET given == IF direction = "AtoB" THEN amount ELSE amount * price
  IN  CeilDivQuotients({supply * given}, a)

\* withdraw_single_token_type_exact_out: trading_tokens_to_pool_tokens, Ceiling
ConstantPriceWithdrawSingle(price, amount, a, b, supply, direction) ==
  LET given == IF direction = "AtoB" THEN amount ELSE amount * price
  IN  CeilDivQuotients({supply * given}, b * price + a)

\* Mutant of ConstantPriceDepositSingle: the token given is not valued at the price.
ConstantPriceDepositSingleByCount(price, amount, a, b, supply, direction) ==
  When(b + a > 0, Some((supply * amount) \div (b + a)))

\* deposit_single_token_type: trading_tokens_to_pool_tokens, Floor
ConstantPriceDepositSingle(price, amount, a, b, supply, direction) ==
  LET given == IF direction = "AtoB" THEN amount ELSE amount * price
  IN  When(b * price + a > 0, Some((supply * given) \div (b * price + a)))

=============================================================================

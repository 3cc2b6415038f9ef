-------------------------- MODULE ClientCalculator --------------------------
(***************************************************************************)
(* services/saros_swap_calculator.ts: what the TypeScript client expects   *)
(* of a pool whose supply and reserves it has read into seen.  The client  *)
(* passes a slippage of zero everywhere, so a quote is sent as it is.      *)
(*                                                                         *)
(* A quote is a set: {} when the division of BN throws, by zero.           *)
(***************************************************************************)
EXTENDS Integers

\* excludeFee: at least one token is charged for a fee that is not zero.
ExcludeFee(amount, num, den) ==
  LET fee == (amount * num) \div den
  IN  IF num = 0 THEN amount
      ELSE IF fee = 0 THEN amount - 1 ELSE amount - fee

\* Mutant of SwapQuote: the reserve left behind is not rounded up.
SwapQuoteRoundsDown(fees, amount, in, out) ==
  LET after == in + ExcludeFee(amount, fees.trade.num * fees.owner.den
                                       + fees.owner.num * fees.trade.den,
                               fees.trade.den * fees.owner.den)
  IN  IF after = 0 THEN {} ELSE {out - (in * out) \div after}

(***************************************************************************)
(* calcTokenOutAmountForSwapTokenX: both fees are charged as one fraction, *)
(* and every pool is taken for a constant product.                         *)
(***************************************************************************)
SwapQuote(fees, amount, in, out) ==
  LET after == in + ExcludeFee(amount, fees.trade.num * fees.owner.den
                                       + fees.owner.num * fees.trade.den,
                               fees.trade.den * fees.owner.den)
      kept  == (in * out) \div after + IF (in * out) % after = 0 THEN 0 ELSE 1
  IN  IF after = 0 THEN {} ELSE {out - kept}

\* Mutant of DepositQuote: the share of one token only.
DepositQuoteOfA(seen, amount) ==
  IF seen.A = 0 THEN {} ELSE {(amount.A * seen.supply) \div seen.A}

\* calcLpTokenAmountForDepositAllTypes: the lesser share of the two amounts.
DepositQuote(seen, amount) ==
  IF seen.A = 0 \/ seen.B = 0 THEN {}
  ELSE LET a == (amount.A * seen.supply) \div seen.A
           b == (amount.B * seen.supply) \div seen.B
       IN  {IF a <= b THEN a ELSE b}

\* Mutant of WithdrawQuote: the amounts are rounded up.
WithdrawQuoteRoundsUp(seen, poolTokens) ==
  IF seen.supply = 0 THEN {}
  ELSE {[A |-> (poolTokens * seen.A + seen.supply - 1) \div seen.supply,
         B |-> (poolTokens * seen.B + seen.supply - 1) \div seen.supply]}

\* calcTokenAmountsForWithdrawAllTypes
WithdrawQuote(seen, poolTokens) ==
  IF seen.supply = 0 THEN {}
  ELSE {[A |-> (poolTokens * seen.A) \div seen.supply,
         B |-> (poolTokens * seen.B) \div seen.supply]}

=============================================================================

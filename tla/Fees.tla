-------------------------------- MODULE Fees --------------------------------
(***************************************************************************)
(* curve/fees.rs.  A fee is a fraction of an amount, rounded down but at   *)
(* least one token when the fraction and the amount are not zero.          *)
(***************************************************************************)
EXTENDS Integers

Fraction == [num : Nat, den : Nat]

\* validate_fraction: a fee below 100%, or 0/0 for no fee at all.
ValidFraction(f) == (f.den = 0 /\ f.num = 0) \/ f.num < f.den

\* Fees::validate
ValidFees(fees) ==
  /\ fees \in [trade : Fraction, owner : Fraction,
               withdraw : Fraction, host : Fraction]
  /\ ValidFraction(fees.trade)
  /\ ValidFraction(fees.owner)
  /\ ValidFraction(fees.withdraw)
  /\ ValidFraction(fees.host)

\* calculate_fee, for a valid fraction (so f.den > 0 when f.num > 0).
CalculateFee(amount, f) ==
  IF f.num = 0 \/ amount = 0 THEN 0
  ELSE LET fee == (amount * f.num) \div f.den
       IN  IF fee = 0 THEN 1 ELSE fee

TradingFee(fees, amount)       == CalculateFee(amount, fees.trade)
OwnerTradingFee(fees, amount)  == CalculateFee(amount, fees.owner)
OwnerWithdrawFee(fees, amount) == CalculateFee(amount, fees.withdraw)
HostFee(fees, amount)          == CalculateFee(amount, fees.host)

=============================================================================

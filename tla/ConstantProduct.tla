--------------------------- MODULE ConstantProduct ---------------------------
(***************************************************************************)
(* curve/constant_product.rs.  Every operator returns a set of outcomes,   *)
(* empty when the source returns None.                                     *)
(***************************************************************************)
EXTENDS SplMath

\* Mutant of ConstantProductSwap: checked_div for checked_ceil_div, so that the
\* reserve left behind is rounded down.
ConstantProductSwapRoundsDown(source, swapSource, swapDestination) ==
  LET kept == (swapSource * swapDestination) \div (swapSource + source)
  IN  When(swapSource + source > 0 /\ kept < swapDestination,
           Some([source |-> source, destination |-> swapDestination - kept]))

(***************************************************************************)
(* swap: with source more tokens in the source reserve, the least          *)
(* destination reserve that keeps the product, and the least source amount *)
(* that this destination reserve requires.  Nothing bought is None.        *)
(***************************************************************************)
ConstantProductSwap(source, swapSource, swapDestination) ==
  { [source      |-> c.divisor - swapSource,
     destination |-> swapDestination - c.quotient] :
      c \in { d \in CheckedCeilDiv(swapSource * swapDestination,
                                   swapSource + source) :
                /\ swapSource <= d.divisor
                /\ d.quotient < swapDestination } }

\* Mutants of ProRata: rounded up whatever is asked for; with the price of one
\* pool token rounded first; one short of a share that needs no rounding.
ProRataAlwaysUp(poolTokens, supply, reserve, round) ==
  IF (poolTokens * reserve) % supply > 0
  THEN (poolTokens * reserve) \div supply + 1
  ELSE (poolTokens * reserve) \div supply

ProRataOfRoundedPrice(poolTokens, supply, reserve, round) ==
  poolTokens * (reserve \div supply)

ProRataShort(poolTokens, supply, reserve, round) ==
  (poolTokens * reserve - 1) \div supply

(***************************************************************************)
(* The share of one reserve that poolTokens out of supply stand for.       *)
(* Rounding up is withheld from a share below one token, so that it stays  *)
(* zero and the processor refuses it.                                      *)
(***************************************************************************)
ProRata(poolTokens, supply, reserve, round) ==
  LET floor     == (poolTokens * reserve) \div supply
      remainder == (poolTokens * reserve) % supply
  IN  IF round = "Ceiling" /\ remainder > 0 /\ floor > 0
      THEN floor + 1
      ELSE floor

\* pool_tokens_to_trading_tokens
ConstantProductTradingTokens(poolTokens, supply, a, b, round) ==
  When(supply > 0,
       Some([A |-> ProRata(poolTokens, supply, a, round),
             B |-> ProRata(poolTokens, supply, b, round)]))

(***************************************************************************)
(* supply * (1 - sqrt(1 - amount / reserve)), rounded up: the least p with *)
(* supply - p <= supply * sqrt(1 - amount / reserve), both sides squared.  *)
(* The set has one member.                                                 *)
(***************************************************************************)
Covers(p, amount, reserve, supply) ==
  (supply - p) * (supply - p) * reserve <= supply * supply * (reserve - amount)

SharesForExactOut(amount, reserve, supply) ==
  { p \in 0 .. supply : /\ Covers(p, amount, reserve, supply)
                        /\ p > 0 => ~Covers(p - 1, amount, reserve, supply) }

\* withdraw_single_token_type_exact_out, RoundDirection::Ceiling
ConstantProductWithdrawSingle(amount, reserve, supply) ==
  When(reserve > 0 /\ amount <= reserve,
       IF supply = 0 THEN Some(0)
       ELSE UNION {Imprecise(p) : p \in SharesForExactOut(amount, reserve, supply)})

(***************************************************************************)
(* supply * (sqrt(1 + amount / reserve) - 1), rounded down: the largest p  *)
(* with supply + p <= supply * sqrt(1 + amount / reserve), both sides      *)
(* squared.  The set has one member.                                       *)
(***************************************************************************)
Earns(p, amount, reserve, supply) ==
  (supply + p) * (supply + p) * reserve <= supply * supply * (reserve + amount)

\* Mutant of SharesForExactIn: the whole share of one token, without the root.
SharesWithoutRoot(amount, reserve, supply) == {(supply * amount) \div reserve}

SharesForExactIn(amount, reserve, supply) ==
  { p \in 0 .. (supply * amount) \div (2 * reserve) :
      Earns(p, amount, reserve, supply) /\ ~Earns(p + 1, amount, reserve, supply) }

\* deposit_single_token_type, RoundDirection::Floor
ConstantProductDepositSingle(amount, reserve, supply) ==
  When(reserve > 0,
       UNION {Imprecise(p) : p \in SharesForExactIn(amount, reserve, supply)})

\* normalized_value, the square root of this.
ConstantProductValueSquared(a, b) == Some(a * b)

=============================================================================

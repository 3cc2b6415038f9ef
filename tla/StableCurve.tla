----------------------------- MODULE StableCurve -----------------------------
(***************************************************************************)
(* curve/stable.rs: Curve's invariant D for two tokens, found by Newton's  *)
(* method in integers, with at most ITERATIONS steps.                      *)
(*                                                                         *)
(* The source stops as soon as a step changes nothing.  A step is a        *)
(* function of the value it starts from, so doing all of them is the same. *)
(* The intermediate values fit a U256 and only the result is converted.    *)
(***************************************************************************)
EXTENDS ConstantProduct

N_COINS    == 2
ITERATIONS == 32

\* u128::try_from
ToU128(n) == When(n \in 0 .. U128Max, Some(n))

\* amp, doubled: a u64 too.
Leverage(amp) == When(amp * N_COINS <= U64Max, Some(amp * N_COINS))

\* D^3 / (4ab), each factor off by one so that an empty side divides by one.
InvariantProduct(d, a, b) ==
  (((d * d) \div (N_COINS * a + 1)) * d) \div (N_COINS * b + 1)

\* calculate_step: one step of Newton's method from d.
CalculateStep(d, leverage, a, b) ==
  LET product == InvariantProduct(d, a, b)
      divisor == (leverage - 1) * d + (N_COINS + 1) * product
  IN  When(leverage > 0 /\ divisor > 0,
           Some(((leverage * (a + b) + N_COINS * product) * d) \div divisor))

\* compute_d: the invariant of the reserves a and b, from their sum downwards.
ComputeD(leverage, a, b) ==
  LET newton[i \in 0 .. ITERATIONS] ==
        IF i = 0 THEN Some(a + b)
        ELSE UNION {CalculateStep(d, leverage, a, b) : d \in newton[i - 1]}
  IN  IF a + b = 0 THEN Some(0)
      ELSE UNION {ToU128(d) : d \in newton[ITERATIONS]}

\* Mutant of SwapConstant: divided by N_COINS, not by its square.
SwapConstantHalfDivided(leverage, source, d) ==
  (d * d * d) \div (N_COINS * source * leverage)

\* c = D ** (n + 1) / (n ** (2 * n) * prod' * A)
SwapConstant(leverage, source, d) ==
  (d * d * d) \div (N_COINS * N_COINS * source * leverage)

(***************************************************************************)
(* compute_new_destination_amount: the other reserve that keeps d when one *)
(* is source, the positive root of y^2 + (b - d) y = c.                    *)
(***************************************************************************)
ComputeNewDestinationAmount(leverage, source, d) ==
  LET c == SwapConstant(leverage, source, d)
      b == source + d \div leverage
      newton[i \in 0 .. ITERATIONS] ==
        IF i = 0 THEN Some(d)
        ELSE UNION {When(2 * y + b > d, Some((y * y + c) \div (2 * y + b - d))) :
                      y \in newton[i - 1]}
  IN  When(source > 0 /\ leverage > 0,
           UNION {ToU128(y) : y \in newton[ITERATIONS]})

\* swap_without_fees.  Unlike on the other curves nothing bought is not None.
StableSwap(amp, source, swapSource, swapDestination) ==
  UNION { { [source |-> source, destination |-> swapDestination - y] :
              y \in { n \in UNION { ComputeNewDestinationAmount(leverage,
                                                                swapSource + source, d) :
                                      d \in ComputeD(leverage, swapSource, swapDestination) } :
                        n <= swapDestination } } :
          leverage \in Leverage(amp) }

\* pool_tokens_to_trading_tokens
StableTradingTokens(poolTokens, supply, a, b, round) ==
  When(supply > 0,
       Some([A |-> ProRata(poolTokens, supply, a, round),
             B |-> ProRata(poolTokens, supply, b, round)]))

\* The invariant before and after amount is added to the reserve traded.
InvariantPairs(leverage, a, b, a1, b1) ==
  ComputeD(leverage, a, b) \X ComputeD(leverage, a1, b1)

\* deposit_single_token_type: the growth of D as a share of D, rounded down.
StableDepositSingle(amp, amount, a, b, supply, direction) ==
  LET a1 == IF direction = "AtoB" THEN a + amount ELSE a
      b1 == IF direction = "AtoB" THEN b ELSE b + amount
  IN  IF amount = 0 THEN Some(0)
      ELSE UNION { UNION { Imprecise(((p[2] - p[1]) * supply) \div p[1]) :
                             p \in { q \in InvariantPairs(leverage, a, b, a1, b1) :
                                       0 < q[1] /\ q[1] <= q[2] } } :
                   leverage \in Leverage(amp) }

\* withdraw_single_token_type_exact_out: the loss of D as a share, rounded up.
StableWithdrawSingle(amp, amount, a, b, supply, direction) ==
  LET a1 == IF direction = "AtoB" THEN a - amount ELSE a
      b1 == IF direction = "AtoB" THEN b ELSE b - amount
  IN  IF amount = 0 THEN Some(0)
      ELSE When(a1 >= 0 /\ b1 >= 0,
             UNION { UNION { Imprecise(CeilQuotient((p[1] - p[2]) * supply, p[1])) :
                               p \in { q \in InvariantPairs(leverage, a, b, a1, b1) :
                                         0 < q[1] /\ q[2] <= q[1] } } :
                     leverage \in Leverage(amp) })

\* normalized_value outside of the tests, squared like that of the other curves.
StableValueSquared(amp, a, b) ==
  {d * d : d \in UNION {ComputeD(leverage, a, b) : leverage \in Leverage(amp)}}

=============================================================================

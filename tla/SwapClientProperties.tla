------------------------ MODULE SwapClientProperties ------------------------
(***************************************************************************)
(* What the users of the service may rely on.                              *)
(***************************************************************************)
EXTENDS SwapClient

\* A request of kind op is about to be executed on the pool it was quoted for,
\* and everything is far enough from the largest u64.
Fresh(u, op) ==
  /\ Ready(u, op)
  /\ session[u].seen = [supply |-> supply, A |-> reserve["A"], B |-> reserve["B"]]
  /\ supply > 0 /\ 2 * supply <= U64Max
  /\ \A t \in Tokens : Total(t) <= U64Max

\* The program would swap: there is an exchange it makes and a fee it can mint.
CanSwap(u, t, amount, minimum, host) ==
  \E swapped \in Exchanges(u, u, t, amount, minimum) : MintedFees(t, swapped, host) # {}

\* The transaction that u has sent, or is about to send, would be executed.
Accepted(u) ==
  LET r == session[u].request
  IN  \/ /\ Ready(u, "swap")
         /\ \E quote \in QuoteOfSwap(u) : CanSwap(u, r.token, r.amount, quote, r.host)
      \/ /\ Ready(u, "deposit")
         /\ \E quote \in QuoteOfDeposit(u) : Charges(u, u, quote, r.most) # {}
      \/ /\ Ready(u, "withdraw")
         /\ \E quote \in QuoteOfWithdrawal(u) : Redeemed(u, u, r.poolTokens, quote) # {}

\* A fee of at least one token before the minimum of one is applied.
FeeIsWhole(f, n) == n * f.num >= f.den

\* The trader has the tokens, both fees are whole, and the pool, which refuses a
\* sale that leaves it less than one token at the new price, can pay.
SwapIsSound(u) ==
  LET r == session[u].request
  IN  /\ CanPay(u, r.token, r.amount)
      /\ FeeIsWhole(FEES.trade, r.amount) /\ FeeIsWhole(FEES.owner, r.amount)
      /\ reserve["A"] * reserve["B"] >= reserve[r.token] + r.amount
      /\ \E quote \in QuoteOfSwap(u) : quote > 0

\* The trader has the tokens and asks for at least one token's worth of each.
DepositIsSound(u) ==
  /\ \A t \in Tokens : CanPay(u, t, session[u].request.most[t])
  /\ \E quote \in QuoteOfDeposit(u) :
       quote <= supply /\ \A t \in Tokens : quote * reserve[t] >= supply

\* The trader has the pool tokens, the fee is whole, and each token is paid.
WithdrawalIsSound(u) ==
  LET n == session[u].request.poolTokens
  IN  /\ n <= lp[u]
      /\ FEES.withdraw.num = 0 \/ FeeIsWhole(FEES.withdraw, n)
      /\ \E quote \in QuoteOfWithdrawal(u) : \A t \in Tokens : quote[t] > 0

(***************************************************************************)
(* The quote of a swap is never more than the program pays if the pool has *)
(* not changed since it was read: with no slippage allowed, the swap still *)
(* goes through.                                                           *)
(***************************************************************************)
FreshSwapLands ==
  \A u \in Clients :
    ByProduct /\ Fresh(u, "swap") /\ SwapIsSound(u) => Accepted(u)

(***************************************************************************)
(* The pool tokens asked for a deposit never cost more than the amounts    *)
(* offered if the pool has not changed since it was read.                  *)
(***************************************************************************)
FreshDepositLands ==
  \A u \in Clients :
    ByProduct /\ Fresh(u, "deposit") /\ DepositIsSound(u) => Accepted(u)

(***************************************************************************)
(* The amounts expected from a withdrawal are those the program pays if    *)
(* the pool has not changed since it was read.                             *)
(***************************************************************************)
FreshWithdrawalLands ==
  \A u \in Clients :
    ByProduct /\ Fresh(u, "withdraw") /\ WithdrawalIsSound(u) => Accepted(u)

-----------------------------------------------------------------------------

\* Everybody goes on, but nobody leaves the pool.
NobodyLeaves == ClientNext /\ supply <= supply'

StayingSpec == ClientInit /\ [][NobodyLeaves]_clientVars

(***************************************************************************)
(* The reserves are read one after the other, A first, so a quote can be   *)
(* made from a pool that never was.  As long as nobody leaves the pool     *)
(* meanwhile, a sale of A still pays no less than an honest quote of the   *)
(* pool at one of the two moments it was read: what a swap or a deposit in *)
(* between adds to A is not in the quote, what it adds to B is.  (A sale   *)
(* of B has no such protection: the quote misses what is added to A.)      *)
(***************************************************************************)
SaleOfAPaysAnOffer ==
  [][\A u \in Clients :
       LET r == session[u].request
       IN  r.op = "swap" /\ r.token = "A" /\ ByProduct /\ session'[u] = Idle
           /\ wallet'[u]["B"] > wallet[u]["B"] =>
             \E offer \in session[u].offers :
               \A quote \in SwapQuote(FEES, r.amount, offer["A"], offer["B"]) :
                 quote <= wallet'[u]["B"] - wallet[u]["B"]]_clientVars

(***************************************************************************)
(* CurveType of saros_swap.instruction.ts says of the constant price curve *)
(* "always X amount of A token for 1 B token".  The quote for such a pool  *)
(* would then be met when the pool has not changed.                        *)
(***************************************************************************)
FreshPriceSwapLands ==
  \A u \in Clients :
    LET r == session[u].request
    IN  ByPrice /\ Fresh(u, "swap") /\ CanSwap(u, r.token, r.amount, 1, r.host)
          => Accepted(u)

=============================================================================

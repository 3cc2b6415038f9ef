-------------------------- MODULE SwapPoolProperties --------------------------
(***************************************************************************)
(* What the swap pool is required to do.                                   *)
(***************************************************************************)
EXTENDS SwapPool

\* Every amount is a u64, whatever instructions are executed.
TypeOK ==
  /\ curve \in Curves \cup {NoCurve}
  /\ reserve \in [Tokens -> 0 .. U64Max]
  /\ supply \in 0 .. U64Max
  /\ wallet \in [Traders -> [Tokens -> 0 .. U64Max]]
  /\ lp \in [LpAccounts -> 0 .. U64Max]

ByProduct == curve.type = "ConstantProduct"
ByPrice   == curve.type = "ConstantPrice"

\* What the traders have of token t, and what there is of it.
Owned(t) == SumFunction([u \in Traders |-> wallet[u][t]])
Total(t) == reserve[t] + Owned(t)

(***************************************************************************)
(* Swaps, deposits, withdrawals and their fees move tokens between         *)
(* accounts and never create or lose any.                                  *)
(***************************************************************************)
TokensConserved == [][\A t \in Tokens : Total(t)' = Total(t)]_vars

(***************************************************************************)
(* The supply of the pool mint, which prices every deposit and withdrawal, *)
(* is what the pool token accounts hold: owner, host and withdraw fees     *)
(* included.                                                               *)
(***************************************************************************)
SupplyIsHeld == supply = SumFunction(lp)

(***************************************************************************)
(* A constant product pool has both reserves as long as there are pool     *)
(* tokens ("the standard constant product curve must have a non-zero       *)
(* supply on both sides", calculator.rs, validate_supply): no swap and no  *)
(* withdrawal, however rounded, empties one side.                          *)
(***************************************************************************)
BothSidesLive ==
  ByProduct /\ supply > 0 => \A t \in Tokens : reserve[t] > 0

(***************************************************************************)
(* Whoever redeems the last pool tokens of a constant product pool takes   *)
(* all that is left: nothing is stranded in the pool's accounts.           *)
(***************************************************************************)
NothingStranded ==
  ByProduct /\ supply = 0 => \A t \in Tokens : reserve[t] = 0

(***************************************************************************)
(* Once every pool token has been redeemed the pool is gone for good.  The *)
(* deposit handler has a branch for an empty supply, but it prices the     *)
(* deposit by reserves that are empty too and refuses it.                  *)
(***************************************************************************)
DrainedForGood ==
  [][ByProduct /\ supply = 0 => UNCHANGED <<curve, reserve, supply>>]_vars

(***************************************************************************)
(* The holder of all pool tokens can redeem them at any time, and receives *)
(* both reserves whole, also after gifts to the pool and after other       *)
(* holders have burned theirs.  (With a withdraw fee part stays behind.)   *)
(***************************************************************************)
LastHolderCanLeave ==
  \A l \in LpAccounts, u \in Traders :
    ByProduct /\ supply > 0 /\ lp[l] = supply /\ FEES.withdraw.num = 0 =>
      reserve \in Redeemed(l, u, supply, reserve)

-----------------------------------------------------------------------------
(* The reserves a step trades: one grows, the other shrinks.               *)

Sold(t)  == reserve'[t] > reserve[t] /\ reserve'[Other(t)] < reserve[Other(t)]
IsTrade  == \E t \in Tokens : Sold(t)
Product  == reserve["A"] * reserve["B"]

(***************************************************************************)
(* Rounding always favours the pool: no swap lowers the product of the     *)
(* reserves.                                                               *)
(***************************************************************************)
SwapKeepsProduct == [][ByProduct /\ IsTrade => Product <= Product']_vars

(***************************************************************************)
(* The value of a constant price pool in token A is never lowered by a     *)
(* swap, though a sale of A returns what does not pay for a whole B.       *)
(***************************************************************************)
Value == reserve["A"] + curve.parameter * reserve["B"]

SwapKeepsValue == [][ByPrice /\ IsTrade => Value <= Value']_vars

(***************************************************************************)
(* The pool tokens minted as the owner fee of a constant price swap are    *)
(* paid for by the fees the swap left in the pool, up to one pool token.   *)
(***************************************************************************)
OwnerFeePaidFor ==
  [][ByPrice /\ IsTrade /\ supply > 0 /\ supply' > supply =>
       (supply' - 1) * Value <= supply * Value']_vars

(***************************************************************************)
(* Nobody joins or leaves a constant price pool at the expense of those    *)
(* who stay, in the value the curve itself reports (normalized_value).     *)
(***************************************************************************)
HalfValue == ConstantPriceValue(curve.parameter, reserve["A"], reserve["B"])

StayersKeepValue ==
  [][ByPrice /\ supply > 0 /\ ~IsTrade /\ supply # supply' =>
       HalfValue * supply' <= HalfValue' * supply]_vars

(***************************************************************************)
(* No sequence of swaps, deposits and withdrawals, with the rounding and   *)
(* the fees of each, makes the traders richer at the pool's expense: with  *)
(* no pool tokens left in hand they never have, together, as much as at    *)
(* the start of both tokens and more of one.                               *)
(***************************************************************************)
Started(t) == Cardinality(Traders) * StartWallet[t]

NoFreeLunch ==
  (\A u \in Traders : lp[u] = 0) /\ (\A t \in Tokens : Owned(t) >= Started(t))
    => \A t \in Tokens : Owned(t) = Started(t)

-----------------------------------------------------------------------------
(* A constant product pool implements the promise of LiquidityPool, seen   *)
(* from the moment it is initialized; a pool of the other curve never      *)
(* opens as far as the promise is concerned.                               *)

NotYet == [t \in Tokens |-> 0]

Promise == INSTANCE LiquidityPool WITH
  Slack   <- 1 + PreciseError,
  open    <- ByProduct,
  reserve <- IF ByProduct THEN reserve ELSE NotYet,
  supply  <- IF ByProduct THEN supply ELSE 0

(***************************************************************************)
(* A constant product pool keeps the promise at every step of its life.    *)
(***************************************************************************)
KeepsPromise == Promise!Spec

=============================================================================

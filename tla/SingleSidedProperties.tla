------------------------- MODULE SingleSidedProperties -------------------------
(***************************************************************************)
(* What trading one token for pool tokens must not do to the others.       *)
(***************************************************************************)
EXTENDS SingleSided

IsOneSided == receipt' # NoReceipt

(***************************************************************************)
(* A single-sided step changes the price, but the product of the reserves  *)
(* per pool token squared, which is what a pool token is worth in a        *)
(* constant product pool, never falls: those who stay lose nothing, up to  *)
(* the error of the square root.                                           *)
(***************************************************************************)
OneSidedKeepsRoot ==
  [][LET fair == supply' - PreciseError
     IN  ByProduct /\ supply > 0 /\ IsOneSided /\ fair > 0 =>
           Product * fair * fair <= Product' * supply * supply]_singleVars

(***************************************************************************)
(* In a constant price pool the value per pool token never falls in a      *)
(* single-sided step: what is charged is rounded up, what is earned down.  *)
(***************************************************************************)
OneSidedKeepsValue ==
  [][ByPrice /\ supply > 0 /\ IsOneSided =>
       Value * supply' <= Value' * supply]_singleVars

-----------------------------------------------------------------------------
(* A pool whose founder stays in.                                          *)

\* As Initialize leaves it, with the pool tokens in the fee account.
FoundedInit ==
  /\ curve \in Curves /\ curve.type \in ValidCurveTypes /\ ValidCurve(curve)
  /\ reserve \in [Tokens -> 0 .. U64Max]
  /\ ValidSupply(curve, reserve["A"], reserve["B"])
  /\ supply = InitialSupply
  /\ wallet = [u \in Traders |-> StartWallet]
  /\ lp = [l \in LpAccounts |-> IF l = FeeAccount THEN InitialSupply ELSE 0]
  /\ receipt = NoReceipt

\* A swap whose owner fee goes to nobody else.
UnhostedTrade ==
  \E u, v \in Traders, t \in Tokens, amount \in Amounts, minimum \in Limits :
    Swap(u, v, t, amount, minimum, NoHost)

\* The traders do what they like; the founder takes out nothing.
FounderStays ==
  /\ OneSided \/ ((UnhostedTrade \/ Join \/ Exit) /\ receipt' = NoReceipt)
  /\ lp[FeeAccount] <= lp'[FeeAccount]

FoundedSpec == FoundedInit /\ [][FounderStays]_singleVars

=============================================================================

----------------------------- MODULE SingleSided -----------------------------
(***************************************************************************)
(* processor.rs: the two instructions that trade one token for pool        *)
(* tokens.  Their handlers are compiled under the cargo feature localhost; *)
(* without it both return Ok and do nothing.                               *)
(***************************************************************************)
EXTENDS SwapPoolProperties

CONSTANT LocalhostBuild   \* the cargo feature localhost

ASSUME SingleSidedAssumption == LocalhostBuild \in BOOLEAN

VARIABLE receipt   \* the single-sided instruction that was just confirmed

singleVars == <<curve, reserve, supply, wallet, lp, receipt>>

NoReceipt == [op |-> "none"]

\* What the sender of a confirmed instruction asked for.
Receipt(op, account, t, amount, limit) ==
  [op |-> op, account |-> account, token |-> t, amount |-> amount, limit |-> limit]

SingleInit == Init /\ receipt = NoReceipt

-----------------------------------------------------------------------------

\* The pool tokens for amount, or those of a new pool if there are none.
SharesEarned(t, amount) ==
  IF supply > 0
  THEN DepositSingleExactIn(curve, FEES, amount, reserve["A"], reserve["B"], supply,
                            Direction(t))
  ELSE Some(InitialSupply)

(***************************************************************************)
(* process_deposit_single_token_type_exact_amount_in: u pays amount of     *)
(* token t, all of it, for pool tokens minted to destination.              *)
(***************************************************************************)
DepositSingle(u, destination, t, amount, minimum) ==
  /\ Initialized
  /\ AllowsDeposits(curve)
  /\ CanPay(u, t, amount) /\ CanTakeIn(t, amount)
  /\ \E minted \in SharesEarned(t, amount) :
       /\ minimum <= minted
       /\ 0 < minted
       /\ Mintable(minted)
       /\ supply' = supply + minted
       /\ lp' = [lp EXCEPT ![destination] = @ + minted]
       /\ PoolTokensFit(lp')
  /\ wallet' = [wallet EXCEPT ![u][t] = @ - amount]
  /\ reserve' = [reserve EXCEPT ![t] = @ + amount]
  /\ UNCHANGED curve

(***************************************************************************)
(* process_withdraw_single_token_type_exact_amount_out: u receives amount  *)
(* of token t; its price in pool tokens is burned from source, which also  *)
(* pays the withdraw fee on them unless it is the fee account.             *)
(***************************************************************************)
WithdrawSingle(source, u, t, amount, maximum) ==
  /\ Initialized
  /\ \E burned \in WithdrawSingleExactOut(curve, FEES, amount, reserve["A"], reserve["B"],
                                          supply, Direction(t)) :
       LET fee == WithdrawFee(source, burned)
       IN  /\ 0 < burned + fee
           /\ burned + fee <= maximum
           /\ burned + fee <= lp[source]
           /\ burned <= supply
           /\ supply' = supply - burned
           /\ lp' = PoolTokensAfter(source, burned + fee, fee)
           /\ PoolTokensFit(lp')
  /\ amount <= reserve[t] /\ CanReceive(u, t, amount)
  /\ reserve' = [reserve EXCEPT ![t] = @ - amount]
  /\ wallet' = [wallet EXCEPT ![u][t] = @ + amount]
  /\ UNCHANGED curve

-----------------------------------------------------------------------------

\* What the build at hand executes for either instruction.
Executes(handler) == IF LocalhostBuild THEN handler ELSE UNCHANGED vars

JoinOnOneSide ==
  \E u \in Traders, destination \in LpAccounts, t \in Tokens, amount \in Amounts,
     minimum \in Limits :
       /\ Executes(DepositSingle(u, destination, t, amount, minimum))
       /\ receipt' = Receipt("deposit", destination, t, amount, minimum)

LeaveOnOneSide ==
  \E source \in LpAccounts, u \in Traders, t \in Tokens, amount \in Amounts,
     maximum \in Limits :
       /\ Executes(WithdrawSingle(source, u, t, amount, maximum))
       /\ receipt' = Receipt("withdraw", source, t, amount, maximum)

OneSided == JoinOnOneSide \/ LeaveOnOneSide

SingleNext == OneSided \/ (Next /\ receipt' = NoReceipt)

\* As SingleNext, but nobody touches the accounts of the open pool behind its back.
SingleClosedNext == OneSided \/ (ClosedNext /\ receipt' = NoReceipt)

SingleSpec       == SingleInit /\ [][SingleNext]_singleVars
SingleClosedSpec == SingleInit /\ [][SingleClosedNext]_singleVars

=============================================================================

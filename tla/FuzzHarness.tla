---------------------------- MODULE FuzzHarness ----------------------------
(***************************************************************************)
(* program/fuzz: the fuzzer creates one pool of some curve, runs a list of *)
(* instructions of a user who has several accounts against it, and closes  *)
(* it: all pool tokens go to the fee account, which redeems them.          *)
(*                                                                         *)
(* An instruction that is refused changes nothing (do_process_instruction) *)
(* and the fuzzer goes on, so it is no step here.  All accounts the list   *)
(* mentions exist from the start.                                          *)
(***************************************************************************)
EXTENDS SingleSided

CONSTANTS
  FuzzIds,          \* AccountId: one token A, one token B, one pool token account
  Holder,           \* pool_token_account; its tokens are withdrawn_token_a/b_account
  SwapTokens,       \* INITIAL_SWAP_TOKEN_A_AMOUNT and INITIAL_SWAP_TOKEN_B_AMOUNT
  CurveParameter,   \* the price, the amplifier and the offset of get_swap_curve
  MaxInstructions   \* bounds the list of instructions

GetSwapCurve(curveType) == [type |-> curveType, parameter |-> CurveParameter[curveType]]

ASSUME FuzzAssumption ==
  /\ Traders = FuzzIds \cup {Holder} /\ Holder \notin FuzzIds
  /\ SwapTokens \in [Tokens -> 1 .. U64Max]
  /\ CurveParameter \in [CurveTypes -> Nat]
  /\ Curves = {GetSwapCurve(curveType) : curveType \in CurveTypes}
  /\ MaxInstructions \in Nat

VARIABLES stage,     \* "new", "fuzzing", "gathered", "closed"
          executed   \* the instructions that were not refused

fuzzVars == <<curve, reserve, supply, wallet, lp, receipt, stage, executed>>

Nothing == [t \in Tokens |-> 0]

FuzzInit ==
  /\ curve = NoCurve /\ supply = 0
  /\ reserve = SwapTokens
  /\ wallet = [u \in Traders |-> IF u = Holder THEN Nothing ELSE StartWallet]
  /\ lp = [l \in LpAccounts |-> 0]
  /\ receipt = NoReceipt
  /\ stage = "new" /\ executed = 0

\* NativeTokenSwap::new; the fees it asks for are not those that are charged.
New ==
  /\ stage = "new"
  /\ \E curveType \in CurveTypes : Initialize(GetSwapCurve(curveType), Holder)
  /\ stage' = "fuzzing"
  /\ UNCHANGED <<receipt, executed>>

-----------------------------------------------------------------------------
(* The methods of NativeTokenSwap, with what they change in their argument *)
(* to keep clear of accounts with a single pool token.                     *)

SwapAToB(a, b, amount, minimum) == Swap(a, b, "A", amount, minimum, Holder)

SwapBToA(b, a, amount, minimum) == Swap(b, a, "B", amount, minimum, Holder)

FuzzDepositAll(u, account, poolTokens, maximum) ==
  DepositAllTokenTypes(u, account, IF poolTokens = 1 THEN 2 ELSE poolTokens, maximum)

\* All that the account holds, if otherwise one pool token would be left.
NotAllButOne(account, poolTokens) ==
  IF lp[account] - poolTokens = 1 THEN lp[account] ELSE poolTokens

FuzzWithdrawAll(account, u, poolTokens, minimum) ==
  WithdrawAllTokenTypes(account, u, NotAllButOne(account, poolTokens), minimum)

FuzzDepositSingle(u, account, t, amount, minimum) ==
  DepositSingle(u, account, t, amount, IF minimum < 2 THEN 2 ELSE minimum)

FuzzWithdrawSingle(account, u, t, amount, maximum) ==
  WithdrawSingle(account, u, t, amount, NotAllButOne(account, maximum))

\* run_fuzz_instruction
RunInstruction ==
  \/ \E a, b \in FuzzIds, amount \in Amounts, minimum \in Limits :
       SwapAToB(a, b, amount, minimum) \/ SwapBToA(b, a, amount, minimum)
  \/ \E u, account \in FuzzIds, poolTokens \in PoolAmounts, limit \in [Tokens -> Limits] :
       \/ FuzzDepositAll(u, account, poolTokens, limit)
       \/ FuzzWithdrawAll(account, u, poolTokens, limit)
  \/ \E u, account \in FuzzIds, t \in Tokens, amount \in Amounts, limit \in Limits :
       \/ FuzzDepositSingle(u, account, t, amount, limit)
       \/ FuzzWithdrawSingle(account, u, t, amount, limit)

Fuzz ==
  /\ stage = "fuzzing" /\ executed < MaxInstructions
  /\ RunInstruction
  /\ executed' = executed + 1
  /\ UNCHANGED <<receipt, stage>>

-----------------------------------------------------------------------------
(* The end of run_fuzz.                                                    *)

\* transfer of every pool token account to the fee account.
Gather ==
  /\ stage = "fuzzing"
  /\ lp' = [l \in LpAccounts |-> IF l = FeeAccount THEN SumFunction(lp) ELSE 0]
  /\ stage' = "gathered"
  /\ UNCHANGED <<curve, reserve, supply, wallet, receipt, executed>>

\* withdraw_all.  There is something to withdraw: what Holder got from New.
WithdrawEverything == FuzzWithdrawAll(FeeAccount, Holder, lp[FeeAccount], Nothing)

CloseOut ==
  /\ stage = "gathered"
  /\ WithdrawEverything
  /\ stage' = "closed"
  /\ UNCHANGED <<receipt, executed>>

FuzzNext == New \/ Fuzz \/ Gather \/ CloseOut

FuzzSpec == FuzzInit /\ [][FuzzNext]_fuzzVars

=============================================================================

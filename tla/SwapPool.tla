------------------------------ MODULE SwapPool ------------------------------
(***************************************************************************)
(* processor.rs: one swap pool and the SPL token accounts it trades with.  *)
(*                                                                         *)
(* A Solana transaction runs alone and an instruction that returns an      *)
(* error leaves no trace, so an instruction is one action: its guard is    *)
(* the conjunction of every check on the way, the calls to the token       *)
(* program included, and its effect is the whole handler.                  *)
(***************************************************************************)
EXTENDS SwapCurve, Functions, FiniteSets

CONSTANTS
  Traders,        \* people with a token A, a token B and a pool token account
  FeeAccount,     \* the owner's pool token account, fixed at initialization
  NoHost,         \* a swap without a host fee account
  Curves,         \* the curves a creator may ask for
  ValidCurveTypes,\* SwapConstraints::valid_curve_types
  FEES,           \* constraints::FEES, the fees of every pool
  InitialSupply,  \* INITIAL_SWAP_POOL_AMOUNT
  Amounts,        \* token amounts that appear in instructions
  PoolAmounts,    \* pool token amounts that appear in instructions
  Limits,         \* slippage limits that appear in instructions
  StartWallet     \* what each trader owns of each token

Tokens     == {"A", "B"}
LpAccounts == Traders \cup {FeeAccount}
Hosts      == LpAccounts \cup {NoHost}

ASSUME TradersAssumption == IsFiniteSet(Traders)

ASSUME SwapPoolAssumption ==
  /\ FeeAccount \notin Traders
  /\ NoHost \notin LpAccounts
  /\ Curves \subseteq SwapCurves
  /\ ValidCurveTypes \subseteq CurveTypes
  /\ ValidFees(FEES)
  /\ InitialSupply \in 1 .. U64Max
  /\ Amounts \subseteq 0 .. U64Max
  /\ PoolAmounts \subseteq 0 .. U64Max
  /\ Limits \subseteq 0 .. U64Max
  /\ StartWallet \in [Tokens -> 0 .. U64Max]

VARIABLES
  curve,    \* SwapV1.swap_curve; NoCurve while is_initialized is false
  reserve,  \* the pool's token A and token B accounts
  supply,   \* the supply of the pool mint
  wallet,   \* the traders' token A and token B accounts
  lp        \* pool token accounts

vars == <<curve, reserve, supply, wallet, lp>>

NoCurve     == [type |-> "None", parameter |-> 0]
Initialized == curve # NoCurve

Other(t)     == IF t = "A" THEN "B" ELSE "A"
Direction(t) == IF t = "A" THEN "AtoB" ELSE "BtoA"
Uncapped(x, y) == y   \* mutant of Lesser: the claim whatever the reserve holds
Lesser(x, y) == IF x <= y THEN x ELSE y

Init ==
  /\ curve = NoCurve
  /\ reserve = [t \in Tokens |-> 0]
  /\ supply = 0
  /\ wallet = [u \in Traders |-> StartWallet]
  /\ lp = [l \in LpAccounts |-> 0]

-----------------------------------------------------------------------------
(* The token program.                                                      *)

\* Supply and balances are added to and subtracted from with checks.
IsU64(n)    == n \in 0 .. U64Max
MintableUnchecked(n) == n \in Nat   \* mutant of Mintable: no overflow check
Mintable(n) == IsU64(supply + n)
PoolTokensFit(balance) == \A l \in LpAccounts : IsU64(balance[l])

\* A transfer needs the balance, and room in the destination.
CanPay(u, t, n)     == n <= wallet[u][t]
CanReceive(u, t, n) == wallet[u][t] + n <= U64Max
CanTakeIn(t, n)     == reserve[t] + n <= U64Max
CanPayOut(t, n)     == n <= reserve[t]

(***************************************************************************)
(* Somebody sends tokens to the pool's token account without the program.  *)
(* Before Initialize this is how the creator funds the pool.               *)
(***************************************************************************)
SendToPool(u, t, n) ==
  /\ n > 0 /\ CanPay(u, t, n) /\ CanTakeIn(t, n)
  /\ wallet' = [wallet EXCEPT ![u][t] = @ - n]
  /\ reserve' = [reserve EXCEPT ![t] = @ + n]
  /\ UNCHANGED <<curve, supply, lp>>

\* The holder of pool tokens burns them without the program.
BurnPoolTokens(l, n) ==
  /\ n > 0 /\ n <= lp[l] /\ n <= supply
  /\ lp' = [lp EXCEPT ![l] = @ - n]
  /\ supply' = supply - n
  /\ UNCHANGED <<curve, reserve, wallet>>

-----------------------------------------------------------------------------
(* The program.                                                            *)

(***************************************************************************)
(* process_initialize.  The token accounts belong to the pool's authority  *)
(* and hold what the creator sent; the mint is new.                        *)
(***************************************************************************)
Initialize(c, destination) ==
  /\ ~Initialized
  /\ ValidSupply(c, reserve["A"], reserve["B"])
  /\ supply = 0
  /\ c.type \in ValidCurveTypes
  /\ ValidCurve(c)
  /\ curve' = c
  /\ supply' = InitialSupply
  /\ lp' = [lp EXCEPT ![destination] = @ + InitialSupply]
  /\ PoolTokensFit(lp')
  /\ UNCHANGED <<reserve, wallet>>

\* Mutant of ReserveAfter: the pool does not take in the owner fee.
ReserveAfterLosesFee(t, swapped) ==
  [reserve EXCEPT ![t] = @ + swapped.source - swapped.ownerFee,
                  ![Other(t)] = @ - swapped.destination]

\* The reserves once the pool has taken in and paid out a swap.
ReserveAfter(t, swapped) ==
  [reserve EXCEPT ![t] = @ + swapped.source,
                  ![Other(t)] = @ - swapped.destination]

\* The owner fee of a swap as pool tokens, at the reserves after the swap.
OwnerFeeInPoolTokens(t, swapped) ==
  LET after == ReserveAfter(t, swapped)
  IN  WithdrawSingleExactOut(curve, FEES, swapped.ownerFee, after["A"], after["B"],
                             supply, Direction(t))

\* Mutant of SplitFee: the host's part is not taken from the owner's.
SplitFeeTwice(poolFee, host) ==
  [host |-> IF host = NoHost THEN 0 ELSE HostFee(FEES, poolFee), owner |-> poolFee]

\* What the pool's fee account and the host, if there is one, get of poolFee.
SplitFee(poolFee, host) ==
  LET hostFee == IF host = NoHost THEN 0 ELSE HostFee(FEES, poolFee)
  IN  [host |-> hostFee, owner |-> poolFee - hostFee]

\* The pool token accounts once poolFee is minted: the host gets its part first.
PoolTokensWithFee(poolFee, host) ==
  LET part   == SplitFee(poolFee, host)
      hosted == IF host = NoHost THEN FeeAccount ELSE host
  IN  [[lp EXCEPT ![hosted] = @ + part.host]
          EXCEPT ![FeeAccount] = @ + part.owner]

(***************************************************************************)
(* process_swap: u sells amount of token t and v receives the other token. *)
(* The owner fee is minted as pool tokens, the host's part of it to host.  *)
(* Seller and receiver, or host and fee account, may be one account: its   *)
(* two transfers happen one after the other.                               *)
(*                                                                         *)
(* What the handler refuses is left out of the two sets: the exchanges it  *)
(* makes, and the owner fees it can mint for one of them.                  *)
(***************************************************************************)
Exchanges(u, v, t, amount, minimum) ==
  When(Initialized,
       { swapped \in SwapWithFees(curve, FEES, amount, reserve[t], reserve[Other(t)],
                                  Direction(t)) :
           /\ minimum <= swapped.destination
           /\ CanPay(u, t, swapped.source)
           /\ CanTakeIn(t, swapped.source)
           /\ CanReceive(v, Other(t), swapped.destination) })

MintedFees(t, swapped, host) ==
  { poolFee \in OwnerFeeInPoolTokens(t, swapped) :
      Mintable(poolFee) /\ PoolTokensFit(PoolTokensWithFee(poolFee, host)) }

Swap(u, v, t, amount, minimum, host) ==
  /\ \E swapped \in Exchanges(u, v, t, amount, minimum) :
       /\ reserve' = ReserveAfter(t, swapped)
       /\ wallet' = [[wallet EXCEPT ![u][t] = @ - swapped.source]
                        EXCEPT ![v][Other(t)] = @ + swapped.destination]
       /\ \E poolFee \in MintedFees(t, swapped, host) :
            /\ supply' = supply + poolFee
            /\ lp' = PoolTokensWithFee(poolFee, host)
  /\ UNCHANGED curve

\* Mutant of Acceptable: a deposit may be free.
AcceptableFree(u, paid, maximum) ==
  \A t \in Tokens : /\ paid[t] <= maximum[t]
                    /\ CanPay(u, t, paid[t])
                    /\ CanTakeIn(t, paid[t])

\* A deposit is refused when it is free, above its limit, or not covered.
Acceptable(u, paid, maximum) ==
  \A t \in Tokens : /\ 0 < paid[t]
                    /\ paid[t] <= maximum[t]
                    /\ CanPay(u, t, paid[t])
                    /\ CanTakeIn(t, paid[t])

(***************************************************************************)
(* process_deposit_all_token_types: u pays both tokens, rounded up, for    *)
(* pool tokens minted to destination.  With no pool tokens outstanding the *)
(* requested amount is replaced by the supply of a new pool.  A price that *)
(* is not among Charges is refused.                                        *)
(***************************************************************************)
Minted(poolTokens) == IF supply > 0 THEN poolTokens ELSE InitialSupply

Charges(u, destination, poolTokens, maximum) ==
  LET minted == Minted(poolTokens)
      shares == IF supply > 0 THEN supply ELSE InitialSupply
  IN  When(/\ Initialized
           /\ AllowsDeposits(curve)
           /\ Mintable(minted)
           /\ PoolTokensFit([lp EXCEPT ![destination] = @ + minted]),
           { paid \in PoolTokensToTradingTokens(curve, minted, shares, reserve["A"],
                                                reserve["B"], "Ceiling") :
               Acceptable(u, paid, maximum) })

DepositAllTokenTypes(u, destination, poolTokens, maximum) ==
  /\ \E paid \in Charges(u, destination, poolTokens, maximum) :
       /\ wallet' = [wallet EXCEPT ![u] = [t \in Tokens |-> @[t] - paid[t]]]
       /\ reserve' = [t \in Tokens |-> reserve[t] + paid[t]]
  /\ supply' = supply + Minted(poolTokens)
  /\ lp' = [lp EXCEPT ![destination] = @ + Minted(poolTokens)]
  /\ UNCHANGED curve

\* The withdraw fee in pool tokens; the fee account pays none.
WithdrawFee(source, poolTokens) ==
  IF source = FeeAccount THEN 0 ELSE OwnerWithdrawFee(FEES, poolTokens)

\* The pool token accounts once source has given up poolTokens, the fee included.
PoolTokensAfter(source, poolTokens, fee) ==
  [[lp EXCEPT ![source] = @ - poolTokens]
     EXCEPT ![FeeAccount] = @ + fee]

(***************************************************************************)
(* process_withdraw_all_token_types: the owner of the pool token account   *)
(* source gives up poolTokens, the withdraw fee goes to the fee account    *)
(* (unless it is source), the rest is burned, and u receives its worth of  *)
(* both tokens, rounded down and never more than the reserves hold.        *)
(* Redeemed is what u can receive, nothing when the handler refuses.       *)
(***************************************************************************)
Redeemed(source, u, poolTokens, minimum) ==
  LET fee    == WithdrawFee(source, poolTokens)
      burned == poolTokens - fee
      worths == { worth \in PoolTokensToTradingTokens(curve, burned, supply, reserve["A"],
                                                      reserve["B"], "Floor") :
                    \A t \in Tokens : worth[t] <= U64Max }
  IN  When(/\ Initialized
           /\ fee <= poolTokens
           /\ poolTokens <= lp[source]
           /\ burned <= supply
           /\ PoolTokensFit(PoolTokensAfter(source, poolTokens, fee)),
           { received \in { [t \in Tokens |-> Lesser(reserve[t], worth[t])] :
                              worth \in worths } :
               \A t \in Tokens : /\ minimum[t] <= received[t]
                                 /\ received[t] = 0 => reserve[t] = 0
                                 /\ CanPayOut(t, received[t])
                                 /\ CanReceive(u, t, received[t]) })

WithdrawAllTokenTypes(source, u, poolTokens, minimum) ==
  LET fee == WithdrawFee(source, poolTokens)
  IN  /\ \E received \in Redeemed(source, u, poolTokens, minimum) :
           /\ reserve' = [t \in Tokens |-> reserve[t] - received[t]]
           /\ wallet' = [wallet EXCEPT ![u] = [t \in Tokens |-> @[t] + received[t]]]
      /\ supply' = supply - (poolTokens - fee)
      /\ lp' = PoolTokensAfter(source, poolTokens, fee)
      /\ UNCHANGED curve

-----------------------------------------------------------------------------

Trade ==
  \E u, v \in Traders, t \in Tokens, amount \in Amounts, minimum \in Limits,
     host \in Hosts : Swap(u, v, t, amount, minimum, host)

Join ==
  \E u \in Traders, destination \in LpAccounts, poolTokens \in PoolAmounts,
     maximum \in [Tokens -> Limits] :
       DepositAllTokenTypes(u, destination, poolTokens, maximum)

Exit ==
  \E source \in LpAccounts, u \in Traders, poolTokens \in PoolAmounts,
     minimum \in [Tokens -> Limits] :
       WithdrawAllTokenTypes(source, u, poolTokens, minimum)

Create == \E c \in Curves, destination \in LpAccounts : Initialize(c, destination)
Send   == \E u \in Traders, t \in Tokens, n \in Amounts : SendToPool(u, t, n)
Burn   == \E l \in LpAccounts, n \in PoolAmounts : BurnPoolTokens(l, n)

\* The program, and whatever holders do with the token program meanwhile.
Next == Create \/ Trade \/ Join \/ Exit \/ Send \/ Burn

\* Nobody touches the pool's accounts behind its back once it is open.
ClosedNext ==
  \/ Create
  \/ Trade
  \/ Join
  \/ Exit
  \/ ~Initialized /\ Send

Spec       == Init /\ [][Next]_vars
ClosedSpec == Init /\ [][ClosedNext]_vars

=============================================================================

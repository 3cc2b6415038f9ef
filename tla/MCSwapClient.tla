---------------------------- MODULE MCSwapClient ----------------------------
(***************************************************************************)
(* One trader who uses the service and, elsewhere, the program itself, in  *)
(* a pool that its founder, the fee account, has just initialized.         *)
(***************************************************************************)
EXTENDS SwapClientProperties

CONSTANTS alice, owner, nohost

\* Fees that are a token or more on small amounts.
WholeFees ==
  [trade |-> [num |-> 1, den |-> 4], owner |-> [num |-> 1, den |-> 4],
   withdraw |-> [num |-> 1, den |-> 3], host |-> [num |-> 1, den |-> 2]]

ProductCurves == {[type |-> "ConstantProduct", parameter |-> 0]}
PriceCurves   == {[type |-> "ConstantPrice", parameter |-> 3]}

ClientWallet == [A |-> 6, B |-> 5]
LargeWallet  == [A |-> 12, B |-> 12]
Founding     == [A |-> 6, B |-> 5]

SaleRequests   == {SwapRequest("A", n, NoHost) : n \in {5, 8}}
SwapRequests   == {SwapRequest(t, n, NoHost) : t \in Tokens, n \in {4, 5}}
ClientRequests == SwapRequests \cup {DepositRequest(3, 2), DepositRequest(3, 3), WithdrawRequest(3)}

\* The instructions executed on the pool, at most MaxInstructions.
VARIABLE instructions
CONSTANT MaxInstructions

boundedVars == <<clientVars, instructions>>

FoundedInit ==
  /\ curve \in Curves
  /\ reserve = Founding
  /\ supply = InitialSupply
  /\ wallet = [u \in Traders |-> StartWallet]
  /\ lp = [l \in LpAccounts |-> IF l = FeeAccount THEN InitialSupply ELSE 0]
  /\ session = [u \in Clients |-> Idle]
  /\ instructions = 0

Bounded ==
  IF UNCHANGED vars THEN UNCHANGED instructions
  ELSE instructions < MaxInstructions /\ instructions' = instructions + 1

FoundedNext == ClientNext /\ Bounded
StayingNext == NobodyLeaves /\ Bounded

FoundedSpec        == FoundedInit /\ [][FoundedNext]_boundedVars
FoundedStayingSpec == FoundedInit /\ [][StayingNext]_boundedVars

=============================================================================

---------------------------- MODULE MCSingleSided ----------------------------
(***************************************************************************)
(* The localhost build with one trader: in a pool whose founder, the fee   *)
(* account, stays in, and in one from its creation to its last withdrawal. *)
(***************************************************************************)
EXTENDS SingleSidedProperties

CONSTANTS alice, owner, nohost

SourceFees ==
  [trade |-> [num |-> 25, den |-> 10000], owner |-> [num |-> 5, den |-> 10000],
   withdraw |-> [num |-> 0, den |-> 0], host |-> [num |-> 20, den |-> 100]]

BothCurves ==
  {[type |-> "ConstantProduct", parameter |-> 0],
   [type |-> "ConstantPrice", parameter |-> 2]}
ProductCurves == {[type |-> "ConstantProduct", parameter |-> 0]}

TraderWallet == [A |-> 7, B |-> 5]
SmallWallet  == [A |-> 4, B |-> 4]
Reserve      == [A |-> 9, B |-> 7]

SmallFoundedInit == reserve = Reserve /\ FoundedInit

\* Traders may give up all they have.  Swaps may have hosts: pool tokens are cheap.
Pooled ==
  \/ Trade
  \/ Join
  \/ \E u \in Traders, minimum \in [Tokens -> Limits] :
       \E poolTokens \in PoolAmounts \cup {lp[u]} :
         WithdrawAllTokenTypes(u, u, poolTokens, minimum)

SmallFounderStays ==
  \/ JoinOnOneSide
  \/ LeaveOnOneSide /\ receipt'.account # FeeAccount
  \/ Pooled /\ receipt' = NoReceipt

SmallFoundedSpec == SmallFoundedInit /\ [][SmallFounderStays]_singleVars

=============================================================================

------------------------------- MODULE MCFuzz -------------------------------
(***************************************************************************)
(* The pool of the fuzzer, scaled down: 150 pool tokens for 100 tokens A   *)
(* and 130 tokens B, so that a pool token is worth less than one of each,  *)
(* and a user who can own a third of it.                                   *)
(*                                                                         *)
(* For the fuzzer's claim on the value: 10 pool tokens for 300 tokens A    *)
(* and 900 tokens B, so that a pool token is dear, as the fuzzer's is with *)
(* 100 A and 300 B, and a user as rich as the pool, who stands for a       *)
(* hundred of the fuzzer's accounts.                                       *)
(***************************************************************************)
EXTENDS FuzzProperties

CONSTANTS alice, holder, owner, nohost

SourceFees ==
  [trade |-> [num |-> 25, den |-> 10000], owner |-> [num |-> 5, den |-> 10000],
   withdraw |-> [num |-> 0, den |-> 0], host |-> [num |-> 20, den |-> 100]]

FuzzParameter ==
  [ConstantProduct |-> 0, ConstantPrice |-> 3, Stable |-> 10, Offset |-> 100]

FuzzCurves == {GetSwapCurve(curveType) : curveType \in CurveTypes}

PoolTokensAB == [A |-> 100, B |-> 130]
UserWallet   == [A |-> 60, B |-> 80]

DearTokensAB == [A |-> 300, B |-> 900]
ManyAccounts == [A |-> 300, B |-> 900]

=============================================================================

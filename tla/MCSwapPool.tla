----------------------------- MODULE MCSwapPool -----------------------------
(* Small pools for TLC.                                                    *)
EXTENDS SwapPoolProperties

CONSTANTS alice, owner, nohost

\* constraints::FEES
SourceFees ==
  [trade |-> [num |-> 25, den |-> 10000], owner |-> [num |-> 5, den |-> 10000],
   withdraw |-> [num |-> 0, den |-> 0], host |-> [num |-> 20, den |-> 100]]

ProductCurves == {[type |-> "ConstantProduct", parameter |-> 0]}
PriceCurves   == {[type |-> "ConstantPrice", parameter |-> p] : p \in {0, 1, 4}}
AllCurves     == ProductCurves \cup PriceCurves

Wallet  == [A |-> 9, B |-> 8]

=============================================================================

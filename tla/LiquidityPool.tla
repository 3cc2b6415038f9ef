---------------------------- MODULE LiquidityPool ----------------------------
(***************************************************************************)
(* What a constant product pool promises the people whose tokens are in    *)
(* it, without fees, rounding, curves or token accounts:                   *)
(*   - a trade never lowers the product of the reserves, and the pool      *)
(*     tokens it creates are paid for by the growth of the product, up to  *)
(*     Slack pool tokens of rounding;                                      *)
(*   - joining and leaving never take from the share of those who stay;    *)
(*   - only the last one to leave empties the pool.                        *)
(***************************************************************************)
EXTENDS Integers

CONSTANT Slack   \* pool tokens (a natural) a trade may create beyond their worth

Tokens == {"A", "B"}

VARIABLES open, reserve, supply

vars == <<open, reserve, supply>>

Empty   == [t \in Tokens |-> 0]
Product(r) == r["A"] * r["B"]

Init == open = FALSE /\ reserve = Empty /\ supply = 0

Open ==
  /\ ~open /\ open'
  /\ supply' \in Nat \ {0}
  /\ reserve' \in [Tokens -> Nat \ {0}]

\* Each pool token stands for at least as much of token t as before.
ShareKept(t) == reserve[t] * supply' <= reserve'[t] * supply

\* sqrt(product) per pool token is kept by all but Slack of the new tokens.
BonusPaidFor ==
  LET fair == supply' - Slack
  IN  fair > supply =>
        Product(reserve) * fair * fair <= Product(reserve') * supply * supply

Trade ==
  /\ open /\ UNCHANGED open
  /\ supply > 0
  /\ \E sold, bought \in Tokens :
       /\ reserve'[sold] > reserve[sold]
       /\ reserve'[bought] < reserve[bought]
  /\ reserve' \in [Tokens -> Nat \ {0}]
  /\ Product(reserve) <= Product(reserve')
  /\ supply' \in Nat /\ supply <= supply'
  /\ BonusPaidFor

Join ==
  /\ open /\ UNCHANGED open
  /\ supply > 0
  /\ supply' \in Nat /\ supply < supply'
  /\ reserve' \in [Tokens -> Nat]
  /\ \A t \in Tokens : reserve[t] < reserve'[t] /\ ShareKept(t)

Leave ==
  /\ open /\ UNCHANGED open
  /\ supply' \in Nat /\ supply' < supply
  /\ reserve' \in [Tokens -> Nat]
  /\ \A t \in Tokens : /\ reserve'[t] <= reserve[t]
                       /\ ShareKept(t)
                       /\ reserve'[t] = 0 <=> supply' = 0

Next == Open \/ Trade \/ Join \/ Leave

Spec == Init /\ [][Next]_vars

=============================================================================

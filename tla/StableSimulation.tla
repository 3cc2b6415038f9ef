-------------------------- MODULE StableSimulation --------------------------
(***************************************************************************)
(* sim/simulation.py, the Python model of Curve's pools, as sim/src/lib.rs *)
(* runs it: two coins, no fee and target prices of one, so that the        *)
(* balances need no conversion.  The model stops iterating as soon as a    *)
(* step moves by at most one, where the program goes on until nothing      *)
(* moves, and it divides c in three steps where the program divides once.  *)
(***************************************************************************)
EXTENDS Integers

NCoins     == 2
Iterations == 1000

Distance(x, y) == IF x >= y THEN x - y ELSE y - x

\* The last value of a loop that starts from start and does step as long as
\* the value moves by more than one.
Converged(step, start) ==
  LET loop[i \in 0 .. Iterations] ==
        IF i = 0 THEN [previous |-> 0, value |-> start]
        ELSE LET last == loop[i - 1].value
             IN  [previous |-> last, value |-> step[last]]
      Done(i) == Distance(loop[i].value, loop[i].previous) <= 1 \/ i = Iterations
  IN  loop[CHOOSE i \in 0 .. Iterations : Done(i) /\ \A j \in 0 .. i - 1 : ~Done(j)].value

\* D
SimD(amp, a, b) ==
  LET ann     == amp * NCoins
      step[d \in Nat] ==
        LET product == (((d * d) \div (NCoins * a + 1)) * d) \div (NCoins * b + 1)
        IN  ((ann * (a + b) + product * NCoins) * d)
              \div ((ann - 1) * d + (NCoins + 1) * product)
  IN  Converged(step, a + b)

\* y: the other balance if one balance becomes x.
SimY(amp, a, b, x) ==
  LET ann == amp * NCoins
      d   == SimD(amp, a, b)
      c   == (((d * d) \div (x * NCoins)) * d) \div (NCoins * ann)
      sum == x + d \div ann - d
      step[y \in Nat] == (y * y + c) \div (2 * y + sum)
  IN  Converged(step, d)

\* sim_exchange of dx of the first coin: what is received of the second.
SimExchange(amp, a, b, dx) == b - SimY(amp, a, b, a + dx)

=============================================================================

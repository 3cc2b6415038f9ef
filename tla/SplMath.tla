------------------------------- MODULE SplMath -------------------------------
(***************************************************************************)
(* The arithmetic the curves are built from: the checked u64 / u128        *)
(* operations of Rust and the two helpers the program takes from the       *)
(* spl-math crate, CheckedCeilDiv and PreciseNumber.                       *)
(*                                                                         *)
(* An operation that returns an Option in the source returns a set here:   *)
(* {} is None, {x} is Some(x).  A set with several members is a result the *)
(* source does not determine.                                              *)
(***************************************************************************)
EXTENDS Integers

CONSTANTS
  U64Max,               \* the largest u64
  RoundsSmallQuotients, \* see CheckedCeilDiv
  PreciseError          \* see Imprecise

ASSUME SplMathAssumption ==
  /\ U64Max \in Nat
  /\ RoundsSmallQuotients \in BOOLEAN
  /\ PreciseError \in Nat

\* The largest u128: 2^128 - 1 when U64Max is 2^64 - 1.
U128Max == (U64Max + 1) * (U64Max + 1) - 1

None == {}
Some(x) == {x}

\* Option::ok_or and `?` chains: x if cond, None otherwise.
When(cond, options) == IF cond THEN options ELSE None

\* Rust's checked_mul on u128.
CheckedMul(x, y) == When(x * y <= U128Max, Some(x * y))

\* The smallest q with q * d >= n, for d > 0.
CeilQuotient(n, d) == (n + d - 1) \div d

(***************************************************************************)
(* spl-math's checked_ceil_div.  It returns the quotient rounded up and    *)
(* the smallest divisor that gives this quotient.  A quotient below one is *)
(* never rounded up to one as a matter of course: the crate either returns *)
(* None, or rounds to the nearest of 0 and 1 with divisor 0.  The manifest *)
(* (~0.1) does not say which, so RoundsSmallQuotients stands for both.     *)
(***************************************************************************)
CheckedCeilDiv(n, d) ==
  IF d = 0 THEN None
  ELSE IF n < d
       THEN When(RoundsSmallQuotients,
                 Some([quotient |-> IF 2 * n >= d THEN 1 ELSE 0,
                       divisor  |-> 0]))
       ELSE LET quotient == CeilQuotient(n, d)
            IN  Some([quotient |-> quotient,
                      divisor  |-> CeilQuotient(n, quotient)])

(***************************************************************************)
(* PreciseNumber is a fixed point number of twelve decimals whose division *)
(* and square root round: an integer obtained from it can differ from the  *)
(* exact one.  PreciseError bounds the difference.                         *)
(***************************************************************************)
Imprecise(exact) ==
  {p \in 0 .. exact + PreciseError : exact - PreciseError <= p}

=============================================================================

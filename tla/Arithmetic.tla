----------------------------- MODULE Arithmetic -----------------------------
(***************************************************************************)
(* The integer arithmetic the reward-float program computes with.  The     *)
(* release profile keeps overflow checks on and the handlers use checked_* *)
(* operations, so a result outside its Rust type aborts the transaction    *)
(* and leaves every account as it was.  Models express that by the guard   *)
(* Fits on each stored result, never by wrapping around.                   *)
(***************************************************************************)
EXTENDS Integers

CONSTANTS
  U64_MAX,    \* the largest u64, scaled down for model checking
  BPS         \* basis points in a whole, 10 000 in the code

ASSUME ArithmeticAssumption ==
  /\ U64_MAX \in Nat
  /\ BPS \in Nat \ {0}

U64 == 0..U64_MAX

\* checked_add, checked_sub and try_from succeed exactly on these results.
Fits(x) == x \in U64

Least(a, b) == IF a <= b THEN a ELSE b

\* u128::div_ceil
DivCeil(a, b) == (a + b - 1) \div b

\* u64::saturating_sub
SaturatingSub(a, b) == IF a >= b THEN a - b ELSE 0
=============================================================================

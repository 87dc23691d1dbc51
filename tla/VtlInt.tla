------------------------------- MODULE VtlInt -------------------------------
(***************************************************************************)
(* Integers with their width: int and int64 are -Half .. Half - 1, uint64  *)
(* is 0 .. 2 * Half - 1, where the program has Half = 2^63.                *)
(***************************************************************************)
EXTENDS Integers

CONSTANT Half    \* 2^63

ASSUME HalfAssumption == Half \in Nat /\ Half > 1

Int64  == -Half .. Half - 1
Uint64 == 0 .. 2 * Half - 1
MaxInt == Half - 1
MinInt == -Half

(* What a sum or difference of int, or of uint64, leaves of its result.    *)
Wrap(x)  == IF x > MaxInt THEN x - 2 * Half ELSE IF x < MinInt THEN x + 2 * Half ELSE x
WrapU(x) == IF x >= 2 * Half THEN x - 2 * Half ELSE IF x < 0 THEN x + 2 * Half ELSE x
ToUint(x)  == WrapU(x)
FromUint(x) == Wrap(x)
=============================================================================

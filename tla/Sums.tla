-------------------------------- MODULE Sums --------------------------------
(* The sum of a function to the natural numbers, as the number of its      *)
(* units: a closed form of the loops that add up windows, charges and      *)
(* sizes.                                                                  *)
EXTENDS Integers, FiniteSets

Units(f) == UNION {{x} \X (1..f[x]) : x \in DOMAIN f}
SumOf(f) == Cardinality(Units(f))
=============================================================================

----------------------------- MODULE MCOrdering -----------------------------
(* Two correlations: two numbers, and, claimed after them, the numbers 0   *)
(* and 1 of the other.                                                     *)
EXTENDS Ordering

MCCompletions == {<<1, 1>>, <<1, 2>>, <<2, 0>>, <<2, 1>>}
=============================================================================

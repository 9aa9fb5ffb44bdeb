------------------------------- MODULE MCSpending -------------------------------
(* Two operations of the daemon and one command beside it, around one midnight. *)
EXTENDS Spending, TLC

CONSTANTS op1, op2, lint, shared

Interchangeable == Permutations({op1, op2})
=============================================================================

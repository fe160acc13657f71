---------------------------- MODULE MCReconcile ----------------------------
(* Reconcile for TLC: copies of the commodity are interchangeable.         *)
EXTENDS Reconcile, TLC

Symmetry == Permutations(Assets)
=============================================================================

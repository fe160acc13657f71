---------------------------- MODULE MCFactorFold ----------------------------
(* FactorFold for TLC: two listings one asset has had, orders that match one *)
(* or both of them.                                                          *)
EXTENDS FactorFold, TLC

CONSTANTS l1, l2

TwoListings == {l1, l2}
OneOrBoth   == {{l1}, {l1, l2}}
Symmetry    == Permutations(Folders)
=============================================================================

-------------------------- MODULE MCShelfListings --------------------------
(* ShelfListings for TLC: goods and syncers are interchangeable.           *)
EXTENDS ShelfListings, TLC

Symmetry == Permutations(Goods) \cup Permutations(Syncers)
=============================================================================

-------------------------- MODULE MCCollectionSync --------------------------
(* CollectionSync for TLC: the records are interchangeable. *)
EXTENDS CollectionSync, TLC

RecordSymmetry == Permutations(Records)
=============================================================================

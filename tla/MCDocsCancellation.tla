------------------------- MODULE MCDocsCancellation -------------------------
(* Instances of DocsCancellation for TLC.                                  *)
EXTENDS DocsCancellation, TLC

\* Cancel calls are interchangeable, and so are start requests.
ActorSymmetry == Permutations(Callers) \cup Permutations(Requesters)
=============================================================================

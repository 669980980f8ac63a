---------------------------- MODULE MCWriterLane ----------------------------
(* Small instances of WriterLane: two syncs of one work key each, one RAG  *)
(* worker and one documentation worker.                                    *)
EXTENDS WriterLane, TLC

CONSTANTS s1, s2, r1, d1

\* Two syncs of different repositories or collections have different keys.
MCWorkKey == [j \in Jobs |-> j]

\* Two sync requests with the same work key.
MCSameSyncKey == [j \in Jobs |-> IF j \in Syncs THEN "sync" ELSE "index"]

SyncSymmetry == Permutations(Syncs)
=============================================================================

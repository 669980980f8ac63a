---------------------------- MODULE MCDurableSync ----------------------------
(* A small instance of DurableSync: the collections are 1..Last.            *)
EXTENDS DurableSync
CONSTANT Last
MCCollections == 1..Last
=============================================================================

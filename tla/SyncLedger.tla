------------------------------ MODULE SyncLedger ------------------------------
(***************************************************************************)
(* What a sync job promises to the readers of its cache and of its status, *)
(* whatever retries, crashes and failed writes happen on the way: batches  *)
(* are installed in the cache only while the job is open; the verdict is   *)
(* published once; and nothing moves after it.  DurableSync implements it. *)
(***************************************************************************)
VARIABLES
  installed,       \* the batches that reached the cache
  verdict          \* the status a reader of the job history sees

Verdicts == {"succeeded", "failed", "cancelled"}

Init == installed = {} /\ verdict = "open"

\* Recovery installs a batch again when it cannot tell that it did: the batch
\* carries its idempotency key, so installing it twice changes nothing.
Install ==
  /\ verdict = "open"
  /\ \E b \in installed' : installed' = installed \cup {b}
  /\ UNCHANGED verdict

Publish(v) ==
  /\ verdict = "open"
  /\ verdict' = v
  /\ UNCHANGED installed

Next == Install \/ (\E v \in Verdicts : Publish(v))

Spec == Init /\ [][Next]_<<installed, verdict>>
=============================================================================

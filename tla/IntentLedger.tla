---------------------------- MODULE IntentLedger ----------------------------
(***************************************************************************)
(* What the admin job actions promise about a retry intent, whatever       *)
(* crashes in between: an intent is claimed durably before any work is     *)
(* admitted for it, work is admitted for it at most once, and the claim is *)
(* forgotten only after it has been settled.                               *)
(***************************************************************************)
EXTENDS Naturals

CONSTANT Keys

VARIABLES claim,    \* "none", "pending" or "settled": the receipt on disk
          worked    \* how many jobs were admitted for the claim

ledger == <<claim, worked>>

LedgerInit ==
    /\ claim = [k \in Keys |-> "none"]
    /\ worked = [k \in Keys |-> 0]

\* Several settled claims may be evicted by the write that makes a new one.
Claim(k, gone) ==
    /\ claim[k] = "none"
    /\ \A g \in gone : claim[g] = "settled"
    /\ claim' = [c \in Keys |-> IF c = k THEN "pending"
                                ELSE IF c \in gone THEN "none" ELSE claim[c]]
    /\ worked' = [c \in Keys |-> IF c \in gone THEN 0 ELSE worked[c]]

Admit(k) ==
    /\ claim[k] = "pending" /\ worked[k] = 0
    /\ worked' = [worked EXCEPT ![k] = 1]
    /\ UNCHANGED claim

\* One write can settle several claims: the recovery of a start saves once.
SettleAll(done) ==
    /\ \A k \in done : claim[k] = "pending"
    /\ claim' = [c \in Keys |-> IF c \in done THEN "settled" ELSE claim[c]]
    /\ UNCHANGED worked

LedgerNext ==
    \/ \E k \in Keys, gone \in SUBSET Keys : Claim(k, gone)
    \/ \E k \in Keys : Admit(k)
    \/ \E done \in SUBSET Keys : SettleAll(done)

LedgerSpec == LedgerInit /\ [][LedgerNext]_ledger
=============================================================================

------------------------------ MODULE MCLedger ------------------------------
(* Small instances of Ledger for TLC. *)
EXTENDS Ledger, TLC

CONSTANTS KindsAsked, MeteredAsked, c1, c2, u1, k1

MCAsks ==
    [kind : KindsAsked, metered : MeteredAsked, hangs : {FALSE}, estimate : {2}, key : Keys]

\* Beside a metered chat of u1, a second request that shares its user or its
\* idempotency key, not both: a generate that pays or brings a provider's key, or
\* a chat that brings one or is a local model's.
Second ==
    \/ /\ ask[c2].kind = "generate" /\ ask[c2].metered
       /\ (who[c2] = u1) # (ask[c2].key = k1)
    \/ /\ ask[c2].kind = "generate" /\ ~ask[c2].metered
       /\ who[c2] = u1 /\ ask[c2].key # k1
    \/ /\ ask[c2].kind = "buffered" /\ ~ask[c2].metered /\ c2 \in byok
       /\ who[c2] # u1 /\ ask[c2].key = k1
    \/ /\ ask[c2].kind = "buffered" /\ ~ask[c2].metered /\ c2 \notin byok
       /\ who[c2] = u1 /\ ask[c2].key # k1

MCInit ==
    /\ BookInit
    /\ ask[c1] = [kind |-> "buffered", metered |-> TRUE, hangs |-> FALSE,
               estimate |-> 2, key |-> k1]
    /\ who[c1] = u1 /\ \A p \in Purchases : who[p] # u1
    /\ Second

\* A purchase has nothing but the table in common with the requests, so its steps
\* are not interleaved with theirs: it comes after the first one, in runs where the
\* second is refused or, having no hold, done.
Bought == \E p \in Purchases : buying[p] # "call"

MCNext ==
    /\ BookNext
    /\ purchaseVars' # purchaseVars =>
        pc[c1] \in Ended /\ pc[c2] \in {"idle", "done"} /\ stage[c2] = "none"
    /\ Bought => pc'[c2] \in {"idle", "done"}

MCSpec == MCInit /\ [][MCNext]_bookVars

=============================================================================

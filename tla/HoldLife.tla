------------------------------ MODULE HoldLife ------------------------------
(***************************************************************************)
(* What the usage service promises of a hold, seen from its callers: it is *)
(* taken once, then billed, returned or lost to its TTL, and what its user *)
(* pays for it changes at no other time.  UsageHolds.tla shows that the    *)
(* Redis handlers keep this promise; Gateway.tla relies on it.             *)
(***************************************************************************)

CONSTANTS
    Holds,
    Credits  \* the amounts that callers hold and commit, non-negative integers

VARIABLES
    stage,  \* where the hold is in its life
    bill    \* what its user has paid for it

Stages == {"none", "open", "billed", "returned", "gone"}

Init ==
    /\ stage = [h \in Holds |-> "none"]
    /\ bill = [h \in Holds |-> 0]

\* handleCreateReservation: the amount leaves the balance.
Take(h, amount) ==
    /\ stage[h] = "none"
    /\ stage' = [stage EXCEPT ![h] = "open"]
    /\ bill' = [bill EXCEPT ![h] = amount]

\* handleCommit: the bill becomes the actual cost, above or below the hold.
Bill(h, actual) ==
    /\ stage[h] = "open"
    /\ stage' = [stage EXCEPT ![h] = "billed"]
    /\ bill' = [bill EXCEPT ![h] = actual]

\* handleRelease: everything goes back.
Return(h) ==
    /\ stage[h] = "open"
    /\ stage' = [stage EXCEPT ![h] = "returned"]
    /\ bill' = [bill EXCEPT ![h] = 0]

\* The TTL removes the record and leaves the bill as it is: credits held by an
\* open hold are not given back.
Expire(h) ==
    /\ stage[h] \in {"open", "billed", "returned"}
    /\ stage' = [stage EXCEPT ![h] = "gone"]
    /\ UNCHANGED bill

Next ==
    \E h \in Holds :
        \/ \E n \in Credits : Take(h, n) \/ Bill(h, n)
        \/ Return(h)
        \/ Expire(h)

Spec == Init /\ [][Next]_<<stage, bill>>

=============================================================================

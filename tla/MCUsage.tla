------------------------------ MODULE MCUsage ------------------------------
(* Small instances of Usage and UsageHolds for TLC. *)
EXTENDS UsageHolds, TLC

\* Sound in the runs without liveness: Usage treats users and the calls of each
\* kind alike.
Symmetry ==
    Permutations(Users) \cup Permutations(Reservations) \cup Permutations(Settlements)
        \cup Permutations(Purchases)

=============================================================================

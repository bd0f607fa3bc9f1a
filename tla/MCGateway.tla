------------------------------ MODULE MCGateway ------------------------------
(* Small instances of Gateway for TLC. *)
EXTENDS Gateway, TLC

CONSTANTS KindsAsked, MeteredAsked

\* One estimate above, and for the overage one below, what a provider reports.
MCAsks ==
    {a \in [kind : KindsAsked, metered : MeteredAsked, hangs : BOOLEAN, estimate : {2},
            key : Keys] : a.hangs => a.kind = "stream"}

Symmetry == Permutations(Requests) \cup Permutations(Keys)

=============================================================================

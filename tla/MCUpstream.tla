----------------------------- MODULE MCUpstream -----------------------------
(* Small instances of Upstream for TLC. *)
EXTENDS Upstream

CONSTANTS ServersAsked, SourcesAsked, KindsAsked

MCAsks ==
    {a \in [server : ServersAsked, source : SourcesAsked, kind : KindsAsked, tool : BOOLEAN] :
        /\ a.source \in SourcesOf(a.server)
        /\ a.kind = "generate" => a.source # "hang"}

=============================================================================

----------------------------- MODULE UsageHolds -----------------------------
(***************************************************************************)
(* The Redis handlers of Usage.tla implement HoldLife.tla, for every       *)
(* reservation none of whose replies is lost: each script takes the hold   *)
(* one step through its life, or leaves it alone.                          *)
(***************************************************************************)
EXTENDS Usage

\* The hash of a hold, and what its absence means before and after its call.
StageOf(r) ==
    CASE hold[r].status = "reserved"  -> "open"
      [] hold[r].status = "committed" -> "billed"
      [] hold[r].status = "released"  -> "returned"
      [] OTHER -> IF pc[r] = "ok" THEN "gone" ELSE "none"

Life == INSTANCE HoldLife WITH
    Holds   <- Reservations,
    Credits <- Amounts \cup Actuals,
    stage   <- [r \in Reservations |-> StageOf(r)],
    bill    <- debit

\* Whatever handlers, retries by callers and expiries interleave, a hold lives
\* the life its callers rely on and its user's debit follows it.
HoldsKeepTheirPromise == Life!Spec

=============================================================================

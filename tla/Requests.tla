------------------------------ MODULE Requests ------------------------------
(* What the parts of the gateway's front door have in common. *)

CONSTANT Calls  \* the requests that it handles, each in a goroutine of its own

=============================================================================

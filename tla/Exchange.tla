------------------------------ MODULE Exchange ------------------------------
(***************************************************************************)
(* What the gateway relies on in one call to an upstream, whichever serves *)
(* it: a refusal or an answer arrives whole, or a stream opens, carries    *)
(* output, then perhaps one count of tokens, then says how it ended, and   *)
(* only then is over.  At any point the exchange may break off.            *)
(*                                                                         *)
(* Gateway.tla is written against this; Upstream.tla keeps it.             *)
(***************************************************************************)

VARIABLES
    phase,   \* what the gateway has heard so far
    output   \* the stream carried some of the model's output

Phases == {"waiting", "refused", "answered", "open", "counted", "finished",
           "failed", "over", "broken"}
Final == {"refused", "answered", "over", "broken"}

Init == phase = "waiting" /\ output = FALSE

\* A non-2xx status: nothing was produced, nothing will be.
Refused == phase = "waiting" /\ phase' = "refused" /\ UNCHANGED output

Answered == phase = "waiting" /\ phase' = "answered" /\ UNCHANGED output

Opens == phase = "waiting" /\ phase' = "open" /\ UNCHANGED output

\* A text_delta or a tool_call_delta.
Delta == phase = "open" /\ UNCHANGED phase /\ output' = TRUE

Counts == phase = "open" /\ phase' = "counted" /\ UNCHANGED output

Finishes == phase \in {"open", "counted"} /\ phase' = "finished" /\ UNCHANGED output

\* An error frame never follows the count.
Fails == phase = "open" /\ phase' = "failed" /\ UNCHANGED output

\* The body ends only after the stream has said how.
Ends == phase \in {"finished", "failed"} /\ phase' = "over" /\ UNCHANGED output

Breaks == phase \notin Final /\ phase' = "broken" /\ UNCHANGED output

Next ==
    \/ Refused \/ Answered \/ Opens
    \/ Delta \/ Counts \/ Finishes \/ Fails
    \/ Ends \/ Breaks

Spec == Init /\ [][Next]_<<phase, output>>

=============================================================================

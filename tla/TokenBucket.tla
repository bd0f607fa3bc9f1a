---------------------------- MODULE TokenBucket ----------------------------
(***************************************************************************)
(* What the gateway's rate limiters promise: every key has a bucket of its *)
(* own, which holds at most a minute's worth, fills with time, is never    *)
(* forgotten, and pays a fixed price for every call that is let through.   *)
(*                                                                         *)
(* A level is measured in the time it takes to fill up to it, so that a    *)
(* full bucket holds Minute and a call costs Period[key].                  *)
(***************************************************************************)
EXTENDS Naturals

CONSTANTS Keys, Calls, Minute, Period

VARIABLES
    now,
    level,   \* of each bucket
    verdict  \* what each call was told

Init ==
    /\ now = 0
    /\ level = [k \in Keys |-> Minute]
    /\ verdict = [c \in Calls |-> "none"]

Filled(n, time) == IF n + time < Minute THEN n + time ELSE Minute

Tick ==
    /\ now' = now + 1
    /\ level' = [k \in Keys |-> Filled(level[k], 1)]
    /\ UNCHANGED verdict

Take(c, k) ==
    /\ verdict[c] = "none" /\ level[k] >= Period[k]
    /\ level' = [level EXCEPT ![k] = @ - Period[k]]
    /\ verdict' = [verdict EXCEPT ![c] = "allowed"]
    /\ UNCHANGED now

Refuse(c, k) ==
    /\ verdict[c] = "none" /\ level[k] < Period[k]
    /\ verdict' = [verdict EXCEPT ![c] = "limited"]
    /\ UNCHANGED <<now, level>>

Next == Tick \/ \E c \in Calls, k \in Keys : Take(c, k) \/ Refuse(c, k)

Spec == Init /\ [][Next]_<<now, level, verdict>>

=============================================================================

---------------------------- MODULE MCAdmission ----------------------------
(* A small instance of Admission for TLC. *)
EXTENDS Admission, TLC

CONSTANTS u1, u2, r1, r2, r3

MCKeys == [user : Users, kind : {"chat", "generate", "validation"}]
MCLimiter == [k \in MCKeys |-> IF k.kind = "chat" THEN "chat" ELSE "other"]

\* Two chats a minute of two ticks, and one of everything else.
MCPeriod == [k \in MCKeys |-> IF k.kind = "chat" THEN 1 ELSE 2]

Plain(kind) == [kind |-> kind, valid |-> TRUE, bytes |-> 1, maxOutput |-> 4,
                byok |-> FALSE, mock |-> FALSE, alias |-> TRUE]

\* What is out of the ordinary about a request, one thing at a time.
Odd ==
    {[Plain(kind) EXCEPT !.byok = TRUE] : kind \in {"chat", "generate"}}
    \cup {[Plain(kind) EXCEPT !.mock = TRUE] : kind \in {"chat", "generate"}}
    \cup {[Plain(kind) EXCEPT !.maxOutput = 0] : kind \in {"chat", "generate"}}
    \cup {[Plain("chat") EXCEPT !.bytes = 9], [Plain("generate") EXCEPT !.valid = FALSE],
          [Plain("generate") EXCEPT !.alias = FALSE]}
    \cup {Plain(kind) : kind \in {"chat", "generate", "validation", "account"}}

MCAsks ==
    {Plain(kind) : kind \in Kinds} \cup Odd
    \cup {[Plain(kind) EXCEPT !.valid = FALSE] : kind \in Kinds}

By(user, named) == [caller |-> TRUE, token |-> user, body |-> named, admin |-> FALSE]

AsAdmin(user) == [caller |-> TRUE, token |-> user, body |-> NoUser, admin |-> TRUE]

Strange ==
    {<<a, By(u2, u2)>> : a \in Odd}
    \cup {<<Plain("generate"), who>> : who \in
            {By(u1, u2), By(u2, NoUser), By("missing", u2), By("invalid", u2),
             [By(u2, u2) EXCEPT !.caller = FALSE]}}
    \cup {<<Plain("admin"), AsAdmin(user)>> : user \in {u1, u2, "missing"}}

Requested(c, pair) == ask[c] = pair[1] /\ credential[c] = pair[2]

\* The first is of the kind that the third gets in the way of.
First(s) ==
    IF s[1].kind = "chat" THEN <<Plain("chat"), By(u1, u1)>>
    ELSE <<Plain("generate"), By(u1, NoUser)>>

\* The second is another one like it where the limiters are what matters.
Second(s) ==
    IF s \in {<<Plain(kind), By(u2, u2)>> : kind \in {"chat", "generate", "validation"}}
    THEN First(s) ELSE <<[First(s)[1] EXCEPT !.valid = FALSE], First(s)[2]>>

\* The configurations that make a difference to the third one.
Configured(s) ==
    /\ (platformInferenceEnabled /\ ~localUnmetered) \/ s[1].byok \/ s[1].mock
    /\ mode \in IF s[1].kind = "validation" THEN {"dev_strict"}
                ELSE IF s[1].kind = "account" THEN {"dev"}
                ELSE IF s[2].token = "missing" THEN {"dev", "production"}
                ELSE {"production"}

MCInit ==
    \E s \in Strange :
        /\ ask = (r1 :> First(s)[1] @@ r2 :> Second(s)[1] @@ r3 :> s[1])
        /\ credential = (r1 :> First(s)[2] @@ r2 :> Second(s)[2] @@ r3 :> s[2])
        /\ Init
        /\ Configured(s)

MCSpec == MCInit /\ [][Next]_vars /\ Fairness

=============================================================================

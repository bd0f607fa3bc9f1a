---------------------------- MODULE RateLimiter ----------------------------
(***************************************************************************)
(* The gateway's rate limiters (userRateLimiter in src/cmd/gateway): two   *)
(* maps of token buckets, one for /v1/chat and one for everything else,    *)
(* each under a lock.  A call reads the clock before it waits for the lock *)
(* and stamps its entry with that, evicts what has been idle, and only     *)
(* then asks its bucket, which reads the clock again.                      *)
(*                                                                         *)
(* Time is counted in ticks; levels are counted in ticks too, as in        *)
(* TokenBucket.tla.  golang.org/x/time/rate is modelled by what it does:   *)
(* a bucket fills up to its burst, and a refusal leaves it as it is.       *)
(***************************************************************************)
EXTENDS Requests, Naturals, Sequences

CONSTANTS
    Keys,     \* what buckets are kept for: a user, or a user's validations
    Limiter,  \* the limiter of each key
    Minute,   \* how long an empty bucket takes to fill
    Period,   \* Minute / requestsPerMinute, for each key
    Idle,     \* ten minutes: an entry not seen for longer is evicted
    MaxWait,  \* bound on the time a call waits for the lock
    Horizon   \* bound on the clock

ASSUME TimesAssumption ==
    /\ Minute \in Nat /\ Idle \in Nat /\ MaxWait \in Nat /\ Horizon \in Nat
    /\ Period \in [Keys -> 1 .. Minute]

\* The lock is held for one scan of a map, so nobody waits for it for nine minutes.
ASSUME IdleAssumption == Minute + MaxWait <= Idle

VARIABLES
    now,      \* the clock, monotonic in Go
    buckets,  \* the entries of both maps
    waiting,  \* the calls that have read the clock and not yet got the lock
    stamp,    \* what the clock said
    verdict,  \* what each call was told
    granted   \* history: when calls were let through, for each key

limiterVars == <<now, buckets, waiting, stamp, verdict, granted>>

Entries == [level : 0 .. Minute, last : 0 .. Horizon, lastSeen : 0 .. Horizon]

LimiterInit ==
    /\ now = 0
    /\ buckets = [k \in {} |-> 0]
    /\ waiting = {}
    /\ stamp = [c \in Calls |-> 0]
    /\ verdict = [c \in Calls |-> "none"]
    /\ granted = [k \in Keys |-> <<>>]

\* Time passes, but nobody is kept waiting for longer than MaxWait.
Tick ==
    /\ now < Horizon
    /\ \A c \in waiting : now < stamp[c] + MaxWait
    /\ now' = now + 1
    /\ UNCHANGED <<buckets, waiting, stamp, verdict, granted>>

\* now := time.Now(), before the lock.
Ask(c) ==
    /\ c \notin waiting /\ verdict[c] = "none"
    /\ waiting' = waiting \cup {c}
    /\ stamp' = [stamp EXCEPT ![c] = now]
    /\ UNCHANGED <<now, buckets, verdict, granted>>

\* Mutant of Entry: lastSeen is set when the entry is made and never again.
EntrySeenOnce(k, at) ==
    IF k \in DOMAIN buckets THEN buckets[k]
    ELSE [level |-> Minute, last |-> now, lastSeen |-> at]

\* The entry of the key, or a new one, whose bucket starts full.
Entry(k, at) ==
    IF k \in DOMAIN buckets THEN [buckets[k] EXCEPT !.lastSeen = at]
    ELSE [level |-> Minute, last |-> now, lastSeen |-> at]

\* Mutant of Level: a bucket fills without bounds.
LevelUncapped(bucket) == bucket.level + (now - bucket.last)

\* What a bucket has filled to by now.
Level(bucket) ==
    LET filled == bucket.level + (now - bucket.last)
    IN  IF filled < Minute THEN filled ELSE Minute

\* The other entries of the same map that nobody has asked for in ten minutes.
Evicted(k, at) ==
    {id \in DOMAIN buckets \ {k} :
        Limiter[id] = Limiter[k] /\ buckets[id].lastSeen + Idle < at}

\* userRateLimiter.Allow from the lock on.
Allow(c, k) ==
    LET mine  == Entry(k, stamp[c])
        level == Level(mine)
        ok    == level >= Period[k]
    IN  /\ c \in waiting
        /\ waiting' = waiting \ {c}
        /\ buckets' = [id \in (DOMAIN buckets \ Evicted(k, stamp[c])) \cup {k} |->
                IF id # k THEN buckets[id]
                ELSE IF ok THEN [mine EXCEPT !.level = level - Period[k], !.last = now]
                ELSE mine]
        /\ verdict' = [verdict EXCEPT ![c] = IF ok THEN "allowed" ELSE "limited"]
        /\ granted' = IF ok THEN [granted EXCEPT ![k] = Append(@, now)] ELSE granted
        /\ UNCHANGED <<now, stamp>>

LimiterNext == Tick \/ \E c \in Calls : Ask(c) \/ \E k \in Keys : Allow(c, k)

LimiterSpec == LimiterInit /\ [][LimiterNext]_limiterVars

-----------------------------------------------------------------------------
(* Properties *)

LimiterTypeOK ==
    /\ now \in 0 .. Horizon
    /\ DOMAIN buckets \subseteq Keys
    /\ \A k \in DOMAIN buckets : buckets[k] \in Entries /\ buckets[k].last <= now
    /\ waiting \subseteq Calls
    /\ stamp \in [Calls -> 0 .. Horizon]
    /\ verdict \in [Calls -> {"none", "allowed", "limited"}]
    /\ granted \in [Keys -> Seq(0 .. Horizon)]

\* An absent entry stands for a full bucket.
LevelOf(k) == IF k \in DOMAIN buckets THEN Level(buckets[k]) ELSE Minute

Promise == INSTANCE TokenBucket WITH level <- [k \in Keys |-> LevelOf(k)]

\* Whatever is evicted, by whom and when, every call is told what it would be told
\* if no bucket were ever thrown away (main.go:495).
BucketsAreKept == Promise!Spec

\* A user is let through at most as often as the burst and the time allow: between
\* any two grants of a key, the first included, no more than a minute's worth and
\* what the time between them adds.
WindowOf(times, period) ==
    \A i, j \in DOMAIN times :
        i <= j => (j - i + 1) * period <= Minute + (times[j] - times[i])

GrantsAreSpaced == \A k \in Keys : WindowOf(granted[k], Period[k])

=============================================================================

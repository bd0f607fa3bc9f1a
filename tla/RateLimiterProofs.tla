------------------------- MODULE RateLimiterProofs -------------------------
(***************************************************************************)
(* The gateway's rate limiters keep the promise of TokenBucket.tla, though *)
(* they throw buckets away, for any keys, rates and times.                 *)
(***************************************************************************)
EXTENDS RateLimiter, TLAPS

\* An entry was last paid from no later than MaxWait after it was last stamped, which
\* is why it has filled up by the time it is thrown away.
EntriesInv ==
    \A k \in DOMAIN buckets : buckets[k].last <= buckets[k].lastSeen + MaxWait

\* Who waits was not told anything, and has not waited for long.
WaitingInv ==
    \A c \in waiting : /\ verdict[c] = "none"
                       /\ stamp[c] <= now /\ now <= stamp[c] + MaxWait

LimiterInv == LimiterTypeOK /\ EntriesInv /\ WaitingInv

USE TimesAssumption

-----------------------------------------------------------------------------
(* The inductive invariant *)

\* A bucket never holds less than nothing or more than a minute's worth.
LEMMA LevelType ==
    ASSUME LimiterTypeOK, NEW bucket \in Entries, bucket.last <= now
    PROVE  Level(bucket) \in 0 .. Minute
BY DEF LimiterTypeOK, Level, Entries

\* The bucket that a call asks is the one that is kept for its key.
LEMMA EntryType ==
    ASSUME LimiterInv, NEW c \in waiting, NEW k \in Keys
    PROVE  /\ Entry(k, stamp[c]) \in Entries
           /\ Entry(k, stamp[c]).last <= now
           /\ Entry(k, stamp[c]).lastSeen = stamp[c]
           /\ Level(Entry(k, stamp[c])) = LevelOf(k)
           /\ stamp[c] \in 0 .. Horizon /\ c \in Calls
<1> USE DEF LimiterInv, LimiterTypeOK
<1>1. c \in Calls /\ stamp[c] \in 0 .. Horizon /\ now \in 0 .. Horizon
  OBVIOUS
<1>2. CASE k \in DOMAIN buckets
  <2>1. /\ buckets[k] \in Entries /\ buckets[k].last <= now
        /\ Entry(k, stamp[c]) = [buckets[k] EXCEPT !.lastSeen = stamp[c]]
    BY <1>2 DEF Entry
  <2> QED BY <1>1, <1>2, <2>1 DEF Entries, Level, LevelOf
<1>3. CASE k \notin DOMAIN buckets
  <2>1. Entry(k, stamp[c]) = [level |-> Minute, last |-> now, lastSeen |-> stamp[c]]
    BY <1>3 DEF Entry
  <2> QED BY <1>1, <1>3, <2>1 DEF Entries, Level, LevelOf
<1> QED BY <1>2, <1>3

\* What a call leaves in the maps.
LEMMA AllowBuckets ==
    ASSUME LimiterInv, NEW c \in Calls, NEW k \in Keys, Allow(c, k)
    PROVE  /\ DOMAIN buckets' = (DOMAIN buckets \ Evicted(k, stamp[c])) \cup {k}
           /\ \A id \in DOMAIN buckets' \ {k} : id \in DOMAIN buckets /\ buckets'[id] = buckets[id]
           /\ buckets'[k] \in Entries
           /\ buckets'[k].last <= now /\ buckets'[k].lastSeen = stamp[c]
           /\ Level(buckets'[k]) =
                IF LevelOf(k) >= Period[k] THEN LevelOf(k) - Period[k] ELSE LevelOf(k)
<1> DEFINE mine == Entry(k, stamp[c])
           ok   == LevelOf(k) >= Period[k]
           new  == IF ok THEN [mine EXCEPT !.level = LevelOf(k) - Period[k], !.last = now]
                   ELSE mine
<1>1. c \in waiting
  BY DEF Allow
<1>2. /\ mine \in Entries /\ mine.last <= now /\ mine.lastSeen = stamp[c]
      /\ Level(mine) = LevelOf(k)
  BY <1>1, EntryType
<1>3. buckets' = [id \in (DOMAIN buckets \ Evicted(k, stamp[c])) \cup {k} |->
                    IF id # k THEN buckets[id] ELSE new]
  BY <1>2 DEF Allow
<1>4. LevelOf(k) \in 0 .. Minute /\ Period[k] \in 1 .. Minute /\ now \in 0 .. Horizon
  BY <1>2, LevelType DEF LimiterInv, LimiterTypeOK
<1>5. new \in Entries /\ new.last <= now /\ new.lastSeen = stamp[c]
  <2>1. CASE ok
    <3>1. LevelOf(k) - Period[k] \in 0 .. Minute
      BY <1>4, <2>1
    <3>2. new = [level |-> LevelOf(k) - Period[k], last |-> now, lastSeen |-> mine.lastSeen]
      BY <1>2, <2>1 DEF Entries
    <3> QED BY <1>2, <1>4, <3>1, <3>2 DEF Entries
  <2>2. CASE ~ok
    BY <1>2, <2>2
  <2> QED BY <2>1, <2>2
<1>6. Level(new) = IF ok THEN LevelOf(k) - Period[k] ELSE LevelOf(k)
  <2>1. CASE ok
    BY <1>2, <1>4, <2>1 DEF Level, Entries
  <2>2. CASE ~ok
    BY <1>2, <2>2
  <2> QED BY <2>1, <2>2
<1>7. buckets'[k] = new
  BY <1>3
<1> HIDE DEF new
<1>8. \A id \in DOMAIN buckets' \ {k} : id \in DOMAIN buckets /\ buckets'[id] = buckets[id]
  BY <1>3
<1> QED BY <1>3, <1>5, <1>6, <1>7, <1>8

\* The inductive invariant survives a tick, a question and an answer.
LEMMA LimiterInvStep ==
    ASSUME LimiterInv, [LimiterNext]_limiterVars
    PROVE  LimiterInv'
<1> USE DEF LimiterInv
<1>1. ASSUME Tick PROVE LimiterInv'
  <2> USE <1>1 DEF Tick, LimiterTypeOK
  <2>1. LimiterTypeOK'
    BY DEF Entries
  <2>2. EntriesInv'
    BY DEF EntriesInv
  <2>3. WaitingInv'
    BY DEF WaitingInv
  <2> QED BY <2>1, <2>2, <2>3
<1>2. ASSUME NEW c \in Calls, Ask(c) PROVE LimiterInv'
  <2> USE <1>2 DEF Ask, LimiterTypeOK
  <2>1. LimiterTypeOK'
    OBVIOUS
  <2>2. EntriesInv'
    BY DEF EntriesInv
  <2>3. WaitingInv'
    BY DEF WaitingInv
  <2> QED BY <2>1, <2>2, <2>3
<1>3. ASSUME NEW c \in Calls, NEW k \in Keys, Allow(c, k) PROVE LimiterInv'
  <2>1. /\ DOMAIN buckets' \subseteq DOMAIN buckets \cup {k}
        /\ \A id \in DOMAIN buckets' \ {k} :
              id \in DOMAIN buckets /\ buckets'[id] = buckets[id]
        /\ buckets'[k] \in Entries
        /\ buckets'[k].last <= now /\ buckets'[k].lastSeen = stamp[c]
    BY <1>3, AllowBuckets
  <2>2. /\ c \in waiting /\ waiting' = waiting \ {c} /\ UNCHANGED <<now, stamp>>
        /\ verdict' \in [Calls -> {"none", "allowed", "limited"}]
        /\ \A d \in Calls \ {c} : verdict'[d] = verdict[d]
        /\ granted' \in [Keys -> Seq(0 .. Horizon)]
    BY <1>3 DEF Allow, LimiterTypeOK
  <2>3. LimiterTypeOK'
    BY <2>1, <2>2 DEF LimiterTypeOK
  <2>4. EntriesInv'
    <3>1. \A id \in DOMAIN buckets' \ {k} :
             buckets'[id].last <= buckets'[id].lastSeen + MaxWait
      BY <2>1 DEF EntriesInv
    <3>2. buckets'[k].last <= buckets'[k].lastSeen + MaxWait
      <4>1. buckets'[k].last \in Nat /\ now \in Nat /\ stamp[c] \in Nat
            /\ now <= stamp[c] + MaxWait
        BY <2>1, <2>2 DEF WaitingInv, LimiterTypeOK, Entries
      <4> QED BY <2>1, <4>1
    <3> QED BY <3>1, <3>2 DEF EntriesInv
  <2>5. WaitingInv'
    BY <2>2 DEF WaitingInv, LimiterTypeOK
  <2> QED BY <2>3, <2>4, <2>5
<1>4. CASE UNCHANGED limiterVars
  BY <1>4 DEF limiterVars, LimiterTypeOK, EntriesInv, WaitingInv
<1> QED BY <1>1, <1>2, <1>3, <1>4 DEF LimiterNext

\* The inductive invariant holds of empty maps.
LEMMA LimiterInvInit ==
    ASSUME LimiterInit PROVE LimiterInv
BY DEF LimiterInit, LimiterInv, LimiterTypeOK, EntriesInv, WaitingInv

-----------------------------------------------------------------------------
(* What calls see *)

\* That is so for every key, also one that has no bucket.
LEMMA LevelsType ==
    ASSUME LimiterInv, NEW k \in Keys
    PROVE  LevelOf(k) \in 0 .. Minute
BY LevelType DEF LimiterInv, LimiterTypeOK, LevelOf

\* What is thrown away is full: it was last paid from more than a minute ago.
LEMMA EvictedIsFull ==
    ASSUME LimiterInv, NEW c \in waiting, NEW k \in Keys, NEW id \in Evicted(k, stamp[c])
    PROVE  LevelOf(id) = Minute
<1>1. /\ id \in DOMAIN buckets /\ buckets[id] \in Entries
      /\ buckets[id].lastSeen + Idle < stamp[c]
      /\ stamp[c] \in Nat /\ now \in Nat /\ stamp[c] <= now
      /\ buckets[id].last <= buckets[id].lastSeen + MaxWait
  BY DEF Evicted, LimiterInv, LimiterTypeOK, EntriesInv, WaitingInv
<1>2. buckets[id].level + (now - buckets[id].last) >= Minute
  BY <1>1, IdleAssumption DEF Entries
<1> QED BY <1>1, <1>2 DEF LevelOf, Level, Entries

\* An answer takes from the bucket it asks, if that suffices, and from no other.
LEMMA AllowLevels ==
    ASSUME LimiterInv, NEW c \in Calls, NEW k \in Keys, Allow(c, k)
    PROVE  /\ \A id \in Keys \ {k} : LevelOf(id)' = LevelOf(id)
           /\ LevelOf(k)' = IF LevelOf(k) >= Period[k] THEN LevelOf(k) - Period[k]
                            ELSE LevelOf(k)
           /\ c \in waiting
<1>1. c \in waiting /\ now' = now
  BY DEF Allow
<1>2. /\ DOMAIN buckets' = (DOMAIN buckets \ Evicted(k, stamp[c])) \cup {k}
      /\ \A id \in DOMAIN buckets' \ {k} : id \in DOMAIN buckets /\ buckets'[id] = buckets[id]
      /\ Level(buckets'[k]) =
           IF LevelOf(k) >= Period[k] THEN LevelOf(k) - Period[k] ELSE LevelOf(k)
  BY AllowBuckets
<1>3. ASSUME NEW id \in Keys \ {k} PROVE LevelOf(id)' = LevelOf(id)
  <2>1. CASE id \in Evicted(k, stamp[c])
    <3>1. LevelOf(id) = Minute
      BY <1>1, <2>1, EvictedIsFull
    <3>2. id \notin DOMAIN buckets'
      BY <1>2, <2>1
    <3> QED BY <3>1, <3>2 DEF LevelOf
  <2>2. CASE id \in DOMAIN buckets /\ id \notin Evicted(k, stamp[c])
    <3>1. id \in DOMAIN buckets' /\ buckets'[id] = buckets[id]
      BY <1>2, <2>2
    <3> QED BY <1>1, <2>2, <3>1 DEF LevelOf, Level
  <2>3. CASE id \notin DOMAIN buckets
    <3>1. id \notin DOMAIN buckets'
      BY <1>2, <2>3
    <3> QED BY <2>3, <3>1 DEF LevelOf
  <2> QED BY <2>1, <2>2, <2>3
<1>4. LevelOf(k)' = Level(buckets'[k])
  BY <1>1, <1>2 DEF LevelOf, Level
<1> QED BY <1>1, <1>2, <1>3, <1>4

\* A tick fills every bucket that is not full, kept or not.
LEMMA TickLevels ==
    ASSUME LimiterInv, Tick, NEW k \in Keys
    PROVE  LevelOf(k)' = IF LevelOf(k) + 1 < Minute THEN LevelOf(k) + 1 ELSE Minute
<1>1. now' = now + 1 /\ buckets' = buckets /\ now \in Nat
  BY DEF Tick, LimiterInv, LimiterTypeOK
<1>2. CASE k \in DOMAIN buckets
  <2>1. buckets[k] \in Entries /\ buckets[k].last <= now
    BY <1>2 DEF LimiterInv, LimiterTypeOK
  <2> QED BY <1>1, <1>2, <2>1 DEF LevelOf, Level, Entries
<1>3. CASE k \notin DOMAIN buckets
  BY <1>1, <1>3 DEF LevelOf
<1> QED BY <1>2, <1>3

\* Nothing else than the time and the map decides a level.
LEMMA SameLevels ==
    ASSUME UNCHANGED <<now, buckets>>, NEW k \in Keys
    PROVE  LevelOf(k)' = LevelOf(k)
BY DEF LevelOf, Level

-----------------------------------------------------------------------------
(* The promise *)

\* Each step of the limiter is one of the buckets that are never forgotten, or a stutter.
LEMMA PromiseStep ==
    ASSUME LimiterInv, [LimiterNext]_limiterVars
    PROVE  [Promise!Next]_<<now, [k \in Keys |-> LevelOf(k)], verdict>>
<1> DEFINE levels == [k \in Keys |-> LevelOf(k)]
<1>1. ASSUME Tick PROVE Promise!Tick
  BY <1>1, TickLevels DEF Promise!Tick, Promise!Filled, Tick
<1>2. ASSUME UNCHANGED <<now, buckets, verdict>> PROVE UNCHANGED <<now, levels, verdict>>
  BY <1>2, SameLevels
<1>3. ASSUME NEW c \in Calls, NEW k \in Keys, Allow(c, k)
      PROVE  Promise!Take(c, k) \/ Promise!Refuse(c, k)
  <2>1. /\ \A id \in Keys \ {k} : LevelOf(id)' = LevelOf(id)
        /\ LevelOf(k)' = IF LevelOf(k) >= Period[k] THEN LevelOf(k) - Period[k]
                         ELSE LevelOf(k)
        /\ c \in waiting
    BY <1>3, AllowLevels
  <2>2. verdict[c] = "none" /\ now' = now
    BY <1>3, <2>1 DEF LimiterInv, WaitingInv, Allow
  <2>3. Level(Entry(k, stamp[c])) = LevelOf(k)
    BY <2>1, EntryType
  <2>4. verdict' = [verdict EXCEPT ![c] =
                     IF LevelOf(k) >= Period[k] THEN "allowed" ELSE "limited"]
    BY <1>3, <2>3 DEF Allow
  <2>5. LevelOf(k) \in 0 .. Minute /\ Period[k] \in 1 .. Minute
    BY LevelsType
  <2>6. levels[k] = LevelOf(k)
    OBVIOUS
  <2>7. levels' = [levels EXCEPT ![k] = LevelOf(k)']
    BY <2>1
  <2>8. CASE LevelOf(k) >= Period[k]
    BY <2>1, <2>2, <2>4, <2>6, <2>7, <2>8 DEF Promise!Take
  <2>9. CASE ~(LevelOf(k) >= Period[k])
    <3>1. levels' = levels
      BY <2>1, <2>9
    <3> QED BY <2>2, <2>4, <2>5, <2>6, <2>9, <3>1 DEF Promise!Refuse
  <2> QED BY <2>8, <2>9
<1>4. ASSUME NEW c \in Calls, Ask(c) PROVE UNCHANGED <<now, buckets, verdict>>
  BY <1>4 DEF Ask
<1>5. CASE UNCHANGED limiterVars
  BY <1>2, <1>5 DEF limiterVars
<1> QED BY <1>1, <1>2, <1>3, <1>4, <1>5 DEF LimiterNext, Promise!Next

\* Both begin with full buckets.
LEMMA PromiseInit ==
    ASSUME LimiterInit PROVE Promise!Init
BY DEF LimiterInit, Promise!Init, LevelOf

\* A limiter that throws idle buckets away behaves like one that never does.
THEOREM LimiterKeepsBuckets == LimiterSpec => BucketsAreKept
<1>1. LimiterInit => LimiterInv /\ Promise!Init
  BY LimiterInvInit, PromiseInit
<1>2. LimiterInv /\ [LimiterNext]_limiterVars => LimiterInv'
  BY LimiterInvStep
<1>3. LimiterInv /\ [LimiterNext]_limiterVars
        => [Promise!Next]_<<now, [k \in Keys |-> LevelOf(k)], verdict>>
  BY PromiseStep
<1> QED BY <1>1, <1>2, <1>3, PTL DEF LimiterSpec, BucketsAreKept, Promise!Spec

-----------------------------------------------------------------------------
(* The spacing of grants *)

\* What was granted since any grant and what is left came from the burst and the time.
Covered(times, period, left, at) ==
    \A i \in 1 .. Len(times) :
        /\ times[i] <= at
        /\ (Len(times) - i + 1) * period + left <= Minute + (at - times[i])

SpentInv == \A k \in Keys : Covered(granted[k], Period[k], LevelOf(k), now)

SpacingInv == LimiterInv /\ SpentInv /\ GrantsAreSpaced

\* One call more takes one period more.
LEMMA OneMore ==
    ASSUME NEW m \in Nat, NEW p \in Nat
    PROVE  m * p \in Nat /\ (m + 1) * p = m * p + p
BY SMT

\* A tick adds no more to a bucket than it does to the time.
LEMMA CoveredLater ==
    ASSUME NEW times \in Seq(0 .. Horizon), NEW period \in Nat, NEW at \in Nat,
           NEW left \in Nat, NEW filled \in Nat, filled <= left + 1,
           Covered(times, period, left, at)
    PROVE  Covered(times, period, filled, at + 1)
<1>1. ASSUME NEW i \in 1 .. Len(times)
      PROVE  /\ times[i] <= at + 1
             /\ (Len(times) - i + 1) * period + filled <= Minute + ((at + 1) - times[i])
  <2> DEFINE spent == (Len(times) - i + 1) * period
  <2>1. times[i] \in Nat /\ Len(times) - i + 1 \in Nat
    OBVIOUS
  <2>2. spent \in Nat
    BY <2>1, OneMore
  <2>3. times[i] <= at /\ spent + left <= Minute + (at - times[i])
    BY DEF Covered
  <2> DEFINE then == times[i]
  <2>4. then \in Nat /\ then <= at /\ spent + left <= Minute + (at - then)
    BY <2>1, <2>3
  <2> HIDE DEF spent, then
  <2>5. then <= at + 1 /\ spent + filled <= Minute + ((at + 1) - then)
    BY <2>2, <2>4
  <2> QED BY <2>5 DEF spent, then
<1> QED BY <1>1 DEF Covered

\* One more grant, at the present time.
LEMMA GrantStep ==
    ASSUME SpacingInv, NEW c \in Calls, NEW k \in Keys, Allow(c, k), LevelOf(k) >= Period[k]
    PROVE  /\ Covered(granted'[k], Period[k], LevelOf(k)', now)
           /\ WindowOf(granted'[k], Period[k])
<1> DEFINE old == granted[k]
           new == granted'[k]
<1>1. /\ c \in waiting /\ now \in Nat /\ Period[k] \in Nat /\ Minute \in Nat
      /\ Period[k] <= Minute /\ LevelOf(k) \in Nat /\ LevelOf(k) <= Minute
      /\ LevelOf(k)' = LevelOf(k) - Period[k]
      /\ old \in Seq(0 .. Horizon)
  BY AllowLevels, LevelsType DEF SpacingInv, LimiterInv, LimiterTypeOK
<1>2. new = Append(old, now)
  BY <1>1, EntryType DEF Allow, SpacingInv, LimiterInv, LimiterTypeOK
<1>3. /\ Len(old) \in Nat /\ Len(new) = Len(old) + 1 /\ DOMAIN new = 1 .. Len(new)
      /\ DOMAIN old = 1 .. Len(old)
      /\ new[Len(new)] = now
      /\ \A i \in 1 .. Len(old) : new[i] = old[i] /\ old[i] \in Nat
  BY <1>1, <1>2
<1> HIDE DEF old, new
<1>4. ASSUME NEW i \in 1 .. Len(old)
      PROVE  /\ old[i] <= now
             /\ (Len(new) - i + 1) * Period[k] <= Minute + (now - old[i])
             /\ (Len(new) - i + 1) * Period[k] + LevelOf(k)' <= Minute + (now - old[i])
  <2>1. old[i] <= now /\ (Len(old) - i + 1) * Period[k] + LevelOf(k) <= Minute + (now - old[i])
    BY DEF SpacingInv, SpentInv, Covered, old
  <2>2. Len(old) - i + 1 \in Nat /\ Len(new) - i + 1 = (Len(old) - i + 1) + 1
    BY <1>3
  <2>3. (Len(old) - i + 1) * Period[k] \in Nat
        /\ (Len(new) - i + 1) * Period[k] = (Len(old) - i + 1) * Period[k] + Period[k]
    BY <1>1, <2>2, OneMore
  <2> DEFINE spent == (Len(old) - i + 1) * Period[k]
             more  == (Len(new) - i + 1) * Period[k]
  <2>4. spent \in Nat /\ more = spent + Period[k]
        /\ spent + LevelOf(k) <= Minute + (now - old[i])
    BY <2>1, <2>3
  <2> HIDE DEF spent, more
  <2>5. old[i] \in Nat
    BY <1>3
  <2>6. more <= Minute + (now - old[i]) /\ more + LevelOf(k)' <= Minute + (now - old[i])
    <3> DEFINE before == LevelOf(k)
               after  == LevelOf(k)'
               price  == Period[k]
               at     == old[i]
    <3>1. /\ before \in Nat /\ price \in Nat /\ price <= before /\ after = before - price
          /\ now \in Nat /\ Minute \in Nat /\ at \in Nat /\ spent \in Nat
          /\ more = spent + price /\ spent + before <= Minute + (now - at)
      BY <1>1, <2>4, <2>5
    <3> HIDE DEF before, after, price, at
    <3>2. more <= Minute + (now - at) /\ more + after <= Minute + (now - at)
      BY <3>1
    <3> QED BY <3>2 DEF after, at
  <2> QED BY <2>1, <2>6 DEF more
<1>5. (Len(new) - Len(new) + 1) * Period[k] = Period[k]
  BY <1>1, <1>3
<1>6. ASSUME NEW i \in 1 .. Len(new)
      PROVE  /\ new[i] <= now
             /\ (Len(new) - i + 1) * Period[k] + LevelOf(k)' <= Minute + (now - new[i])
             /\ (Len(new) - i + 1) * Period[k] <= Minute + (now - new[i])
  <2>1. CASE i \in 1 .. Len(old)
    BY <1>3, <1>4, <2>1
  <2>2. CASE i = Len(new)
    BY <1>1, <1>3, <1>5, <2>2
  <2> QED BY <1>3, <2>1, <2>2
<1>7. ASSUME NEW i \in DOMAIN new, NEW j \in DOMAIN new, i <= j
      PROVE  (j - i + 1) * Period[k] <= Minute + (new[j] - new[i])
  <2>1. CASE j = Len(new)
    BY <1>3, <1>6, <2>1
  <2>2. CASE j \in 1 .. Len(old)
    <3>1. i \in DOMAIN old /\ j \in DOMAIN old /\ new[i] = old[i] /\ new[j] = old[j]
      BY <1>3, <1>7, <2>2
    <3> QED BY <1>7, <3>1 DEF SpacingInv, GrantsAreSpaced, WindowOf, old
  <2> QED BY <1>3, <2>1, <2>2
<1> QED BY <1>6, <1>7 DEF Covered, WindowOf, new

\* The bound on what was granted in any window survives every step.
LEMMA SpacingStep ==
    ASSUME SpacingInv, [LimiterNext]_limiterVars
    PROVE  SpacingInv'
<1>1. LimiterInv'
  BY LimiterInvStep DEF SpacingInv
<1>2. ASSUME Tick PROVE SpentInv' /\ GrantsAreSpaced'
  <2>1. ASSUME NEW k \in Keys PROVE Covered(granted[k], Period[k], LevelOf(k)', now + 1)
    <3>1. /\ now \in Nat /\ granted[k] \in Seq(0 .. Horizon) /\ Period[k] \in Nat
          /\ Covered(granted[k], Period[k], LevelOf(k), now)
      BY DEF SpacingInv, SpentInv, LimiterInv, LimiterTypeOK
    <3>2. LevelOf(k) \in Nat /\ LevelOf(k)' \in Nat /\ LevelOf(k)' <= LevelOf(k) + 1
      BY <1>2, TickLevels, LevelsType DEF SpacingInv
    <3> QED BY <3>1, <3>2, CoveredLater
  <2>2. granted' = granted /\ now' = now + 1
    BY <1>2 DEF Tick
  <2> QED BY <2>1, <2>2 DEF SpentInv, SpacingInv, GrantsAreSpaced
<1>3. ASSUME UNCHANGED <<now, buckets, granted>> PROVE SpentInv' /\ GrantsAreSpaced'
  BY <1>3, SameLevels DEF SpacingInv, SpentInv, GrantsAreSpaced
<1>4. ASSUME NEW c \in Calls, NEW k \in Keys, Allow(c, k)
      PROVE  SpentInv' /\ GrantsAreSpaced'
  <2>1. /\ \A id \in Keys \ {k} : LevelOf(id)' = LevelOf(id)
        /\ LevelOf(k)' = IF LevelOf(k) >= Period[k] THEN LevelOf(k) - Period[k]
                         ELSE LevelOf(k)
        /\ c \in waiting /\ now' = now
    BY <1>4, AllowLevels DEF SpacingInv, Allow
  <2>2. granted' = IF LevelOf(k) >= Period[k] THEN [granted EXCEPT ![k] = Append(@, now)]
                   ELSE granted
    BY <1>4, <2>1, EntryType DEF Allow, SpacingInv
  <2>3. \A id \in Keys \ {k} : granted'[id] = granted[id]
    BY <2>2 DEF SpacingInv, LimiterInv, LimiterTypeOK
  <2>4. CASE LevelOf(k) >= Period[k]
    <3>1. /\ Covered(granted'[k], Period[k], LevelOf(k)', now)
          /\ WindowOf(granted'[k], Period[k])
      BY <1>4, <2>4, GrantStep
    <3> QED BY <2>1, <2>3, <3>1 DEF SpentInv, GrantsAreSpaced, SpacingInv
  <2>5. CASE ~(LevelOf(k) >= Period[k])
    <3>1. granted' = granted /\ \A id \in Keys : LevelOf(id)' = LevelOf(id)
      BY <2>1, <2>2, <2>5
    <3> QED BY <2>1, <3>1 DEF SpentInv, GrantsAreSpaced, SpacingInv
  <2> QED BY <2>4, <2>5
<1>5. ASSUME NEW c \in Calls, Ask(c) PROVE UNCHANGED <<now, buckets, granted>>
  BY <1>5 DEF Ask
<1>6. CASE UNCHANGED limiterVars
  BY <1>1, <1>3, <1>6 DEF limiterVars, SpacingInv
<1> QED BY <1>1, <1>2, <1>3, <1>4, <1>5, <1>6 DEF LimiterNext, SpacingInv

\* A limiter stays within its types, and spaces what it grants.
THEOREM LimiterSafe == LimiterSpec => []SpacingInv
<1>1. LimiterInit => SpacingInv
  BY LimiterInvInit DEF LimiterInit, SpacingInv, SpentInv, Covered, GrantsAreSpaced, WindowOf
<1>2. SpacingInv /\ [LimiterNext]_limiterVars => SpacingInv'
  BY SpacingStep
<1> QED BY <1>1, <1>2, PTL DEF LimiterSpec

=============================================================================

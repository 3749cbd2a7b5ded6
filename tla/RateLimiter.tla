----------------------------- MODULE RateLimiter -----------------------------
(***************************************************************************)
(* ScopedRateLimiter over Redis: one scope (one API key, or one login      *)
(* identity), the calls several workers make to it, and the clock that     *)
(* expires its counter.  INCR and TTL travel together in a MULTI/EXEC, but *)
(* the EXPIRE that gives a fresh counter its window is a call of its own:  *)
(* other calls, a lost reply or the death of the worker come between.      *)
(***************************************************************************)
EXTENDS Integers, FiniteSets

CONSTANTS
  Calls,      \* calls of hit, each made once
  Limit,      \* policy.limit
  Window,     \* policy.window_seconds
  Required,   \* settings.redis_required
  MaxTime,    \* bound: ticks of the clock
  MaxResets   \* bound: successful logins that clear the counter

ASSUME LimiterAssumption ==
  /\ IsFiniteSet(Calls)
  /\ Limit \in Nat \ {0}
  /\ Window \in Nat \ {0}
  /\ Required \in BOOLEAN
  /\ MaxTime \in Nat
  /\ MaxResets \in Nat

VARIABLES
  now,       \* the clock of the Redis server
  count,     \* the counter, 0 while the key does not exist
  expiry,    \* when the key expires, Never while it has no TTL
  step,      \* step[h]: where call h stands, at the end its verdict
  current,   \* current[h]: the count its INCR returned, while h arms the key
  resets,    \* history: how often the counter was cleared
  life,      \* history: how many counters have existed
  born,      \* history: when the last of them was created
  counted,   \* history: counted[h]: the counter that counted h ...
  at         \* ... and when

vars == <<now, count, expiry, step, current, resets, life, born, counted, at>>

Never == -1

Verdicts == {"allowed", "refused", "bypassed", "unavailable"}

Init ==
  /\ now = 0
  /\ count = 0 /\ expiry = Never
  /\ step = [h \in Calls |-> "idle"]
  /\ current = [h \in Calls |-> 0]
  /\ resets = 0
  /\ life = 0 /\ born = 0
  /\ counted = [h \in Calls |-> 0]
  /\ at = [h \in Calls |-> 0]

\* INCR: counts a call, on a key of its own making if there is none.
Incr ==
  /\ count' = count + 1
  /\ life' = IF count = 0 THEN life + 1 ELSE life
  /\ born' = IF count = 0 THEN now ELSE born

\* allowed = current <= effective_limit
Verdict(n) == IF n <= Limit THEN "allowed" ELSE "refused"

\* Mutant: only the call that created the key arms it.
Hit_CreatorArms(h) ==
  /\ step[h] = "idle"
  /\ Incr
  /\ counted' = [counted EXCEPT ![h] = life']
  /\ at' = [at EXCEPT ![h] = now]
  /\ IF count = 0
     THEN /\ step' = [step EXCEPT ![h] = "arming"]
          /\ current' = [current EXCEPT ![h] = 1]
     ELSE step' = [step EXCEPT ![h] = Verdict(count + 1)] /\ UNCHANGED current
  /\ UNCHANGED <<now, expiry, resets>>

\* Mutant: the two replies of the pipeline are taken in the wrong order.
Hit_SwappedReplies(h) ==
  /\ step[h] = "idle"
  /\ Incr
  /\ counted' = [counted EXCEPT ![h] = life']
  /\ at' = [at EXCEPT ![h] = now]
  /\ step' = [step EXCEPT ![h] = "arming"]
  /\ current' = [current EXCEPT ![h] = expiry]
  /\ UNCHANGED <<now, expiry, resets>>

\* The pipeline of INCR and TTL: the call is judged at once when the key has a
\* TTL, and has to arm the key first when it has none.
Hit(h) ==
  /\ step[h] = "idle"
  /\ Incr
  /\ counted' = [counted EXCEPT ![h] = life']
  /\ at' = [at EXCEPT ![h] = now]
  /\ \/ /\ expiry = Never
        /\ step' = [step EXCEPT ![h] = "arming"]
        /\ current' = [current EXCEPT ![h] = count + 1]
     \/ /\ expiry # Never
        /\ step' = [step EXCEPT ![h] = Verdict(count + 1)]
        /\ UNCHANGED current
  /\ UNCHANGED <<now, expiry, resets>>

\* Mutant: the window is one tick short.
Arm_Short(h) ==
  /\ step[h] = "arming"
  /\ expiry' = IF count = 0 THEN Never ELSE now + Window - 1
  /\ step' = [step EXCEPT ![h] = Verdict(current[h])]
  /\ current' = [current EXCEPT ![h] = 0]
  /\ UNCHANGED <<now, count, resets, life, born, counted, at>>

\* EXPIRE does nothing to a key that does not exist.
Arm(h) ==
  /\ step[h] = "arming"
  /\ expiry' = IF count = 0 THEN Never ELSE now + Window
  /\ step' = [step EXCEPT ![h] = Verdict(current[h])]
  /\ current' = [current EXCEPT ![h] = 0]
  /\ UNCHANGED <<now, count, resets, life, born, counted, at>>

\* A RedisError or OSError lets the call through, or fails it when Redis is required.
FailMode == IF Required THEN "unavailable" ELSE "bypassed"

Fails(h, verdict) ==
  /\ step' = [step EXCEPT ![h] = verdict]
  /\ current' = [current EXCEPT ![h] = 0]
  /\ counted' = [counted EXCEPT ![h] = 0]
  /\ at' = [at EXCEPT ![h] = 0]

\* Redis is not reached.
Unreachable(h) ==
  /\ step[h] \in {"idle", "arming"}
  /\ Fails(h, FailMode)
  /\ UNCHANGED <<now, count, expiry, resets, life, born>>

\* Redis counted the call but the reply did not arrive in time.
ReplyLost(h) ==
  /\ step[h] = "idle"
  /\ Incr
  /\ Fails(h, FailMode)
  /\ UNCHANGED <<now, expiry, resets>>

\* The worker dies, or the request is cancelled, before the EXPIRE is sent.
WorkerDies(h) ==
  /\ step[h] = "arming"
  /\ Fails(h, "dead")
  /\ UNCHANGED <<now, count, expiry, resets, life, born>>

\* Mutant: a login that fails clears the counter too.
Reset_AnyLogin ==
  /\ resets < MaxResets
  /\ count' = 0 /\ expiry' = Never
  /\ UNCHANGED <<now, step, current, resets, life, born, counted, at>>

\* reset: a successful login deletes the key.
Reset ==
  /\ resets < MaxResets
  /\ resets' = resets + 1
  /\ count' = 0 /\ expiry' = Never
  /\ UNCHANGED <<now, step, current, life, born, counted, at>>

\* Time passes and Redis drops the key when its TTL is over.
Tick ==
  /\ now < MaxTime
  /\ now' = now + 1
  /\ LET over == expiry # Never /\ expiry <= now + 1
     IN /\ count' = IF over THEN 0 ELSE count
        /\ expiry' = IF over THEN Never ELSE expiry
  /\ UNCHANGED <<step, current, resets, life, born, counted, at>>

Next ==
  \/ \E h \in Calls : Hit(h) \/ Arm(h) \/ Unreachable(h) \/ ReplyLost(h) \/ WorkerDies(h)
  \/ Reset
  \/ Tick

Spec == Init /\ [][Next]_vars

-----------------------------------------------------------------------------
(* Properties. *)

TypeOK ==
  /\ now \in Nat /\ count \in Nat /\ expiry \in Nat \cup {Never}
  /\ step \in [Calls -> {"idle", "arming", "dead"} \cup Verdicts]
  /\ current \in [Calls -> Nat]
  /\ resets \in Nat /\ life \in Nat /\ born \in Nat
  /\ counted \in [Calls -> Nat]
  /\ at \in [Calls -> Nat]

\* The counter that refused a call has a TTL for as long as it exists: no caller
\* is refused for ever because the one who created the counter never armed it.
RefusedNotForEver ==
  \A h \in Calls :
    step[h] = "refused" /\ count > 0 /\ counted[h] = life => expiry # Never

\* Over any Window ticks a fixed window grants at most twice its limit, and once
\* more the limit for each time it was cleared.
AllowedWithin(t) ==
  {h \in Calls : step[h] = "allowed" /\ t <= at[h] /\ at[h] < t + Window}

AtMostTwiceTheLimit ==
  \A t \in 0..now : Cardinality(AllowedWithin(t)) <= (2 + resets) * Limit

\* The limiter keeps the promise of a fixed window: the counter is the window,
\* however calls, losses, deaths and clearings interleave.
used == IF count <= Limit THEN count ELSE Limit

Promise == INSTANCE WindowLimiter WITH time <- now, opened <- born, used <- used

FixedWindow == Promise!WSpec
=============================================================================

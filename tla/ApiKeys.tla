------------------------------- MODULE ApiKeys -------------------------------
(***************************************************************************)
(* The life of API keys: administrators create, change, revoke and delete  *)
(* them while gateway requests authenticate with them, spend their quota   *)
(* and hold their rows locked.  Every session reads a row once, at its     *)
(* start, and goes on with what it read; what it writes are the columns it *)
(* changed (SQLAlchemy), under the row lock, at READ COMMITTED.            *)
(*                                                                         *)
(* services/api_keys.py and api/gateway/deps.py; the rate limiter that     *)
(* stands between authentication and the quota is RateLimiter, and what a  *)
(* request does while it is served is Gateway.                             *)
(***************************************************************************)
EXTENDS Integers, FiniteSets

CONSTANTS
  Requests,   \* gateway requests, each made once
  Admins,     \* administrator sessions, each one call of the panel's API
  Keys,       \* rows that may come to exist
  Quotas,     \* values of quota_tokens a run explores (a key without one is not limited)
  MaxTokens,  \* bound: total_tokens one request may be billed
  MaxKeys,    \* MAX_API_KEYS
  PoolSize    \* pool_size + max_overflow of the database engine, summed over
              \* the worker processes

ASSUME KeysAssumption ==
  /\ IsFiniteSet(Requests) /\ IsFiniteSet(Admins) /\ IsFiniteSet(Keys)
  /\ Requests \cap Admins = {}
  /\ Quotas \subseteq Nat \ {0}
  /\ MaxTokens \in Nat \ {0}
  /\ MaxKeys \in Nat \ {0}
  /\ PoolSize \in Nat \ {0}

Sessions == Requests \cup Admins

VARIABLES
  live,      \* the keys that exist
  fresh,     \* the keys that never existed
  enabled,   \* the keys whose enabled column is TRUE
  revoked,   \* the keys that have a revoked_at
  lapsed,    \* the keys whose expires_at has passed
  quota,     \* quota[k]: its quota_tokens
  consumed,  \* consumed[k]: the committed total_tokens of its usage rows
  pc,        \* pc[s]: where session s stands
  on,        \* on[s]: the key it works on
  seen,      \* seen[s]: the row as s loaded it
  op,        \* op[a]: what administrator a is doing
  want,      \* want[a]: the quota the payload of a asks for
  ceiling    \* history: ceiling[k]: the largest quota k was ever given

rows == <<live, fresh, enabled, revoked, lapsed, quota, ceiling>>

vars == <<live, fresh, enabled, revoked, lapsed, quota, consumed, pc, on, seen, op, want, ceiling>>

Row == [enabled: BOOLEAN, revoked: BOOLEAN, quota: Quotas]

\* The columns of key k as they are committed.
RowOf(k) == [enabled |-> k \in enabled, revoked |-> k \in revoked, quota |-> quota[k]]

Ops == {"enable", "disable", "renew", "revoke", "delete", "create", "quota"}

Phases == {"idle", "admitted", "checked", "serving", "loaded", "flushed", "counted", "done"}

Connected(s) == pc[s] \notin {"idle", "done"}

InUse == {s \in Sessions : Connected(s)}

\* Sessions that hold the lock of the row they work on.
Locked(k) == \E s \in Sessions : pc[s] \in {"serving", "flushed"} /\ on[s] = k

Goto(s, phase) == pc' = [pc EXCEPT ![s] = phase]

Init ==
  /\ live \in {S \in SUBSET Keys : Cardinality(S) <= MaxKeys}
  /\ fresh = Keys \ live
  /\ enabled = Keys /\ revoked = {} /\ lapsed = {}
  /\ quota \in [Keys -> Quotas]
  /\ consumed = [k \in Keys |-> 0]
  /\ pc = [s \in Sessions |-> "idle"]
  /\ on \in {[s \in Sessions |-> k] : k \in Keys}
  /\ seen = [s \in Sessions |-> RowOf(on[s])]
  /\ op = [a \in Admins |-> "disable"]
  /\ want \in {[a \in Admins |-> q] : q \in Quotas}
  /\ ceiling = quota

-----------------------------------------------------------------------------
(* Requests. *)

\* ApiKeyService.authenticate on the row as it is committed.
Usable(k) == k \in (live \cap enabled) \ (revoked \cup lapsed)

Load(s, k) ==
  /\ pc[s] = "idle"
  /\ Cardinality(InUse) < PoolSize
  /\ on' = [on EXCEPT ![s] = k]
  /\ seen' = [seen EXCEPT ![s] = RowOf(k)]

Authenticate(r, k) ==
  /\ Usable(k)
  /\ Load(r, k)
  /\ Goto(r, "admitted")
  /\ UNCHANGED <<rows, consumed, op, want>>

\* The limiter refuses, or the client is gone, or the worker dies: rolled back.
Abandon(r) ==
  /\ pc[r] \in {"admitted", "checked", "serving"}
  /\ Goto(r, "done")
  /\ UNCHANGED <<rows, consumed, on, seen, op, want>>

\* Mutant: a key may use up its quota and go on.
CheckQuota_UsedUp(r) ==
  /\ pc[r] = "admitted"
  /\ Goto(r, IF consumed[on[r]] > seen[r].quota THEN "done" ELSE "checked")
  /\ UNCHANGED <<rows, consumed, on, seen, op, want>>

\* quota_exceeded: the quota is the one that was loaded, the sum is fresh.
CheckQuota(r) ==
  /\ pc[r] = "admitted"
  /\ Goto(r, IF consumed[on[r]] >= seen[r].quota THEN "done" ELSE "checked")
  /\ UNCHANGED <<rows, consumed, on, seen, op, want>>

\* Mutant: the key's last use is not written, so nobody waits.
Touch_NoLock(r) ==
  /\ pc[r] = "checked"
  /\ Goto(r, IF on[r] \in live THEN "serving" ELSE "done")
  /\ UNCHANGED <<rows, consumed, on, seen, op, want>>

\* touch: waits for the row; an UPDATE of a deleted row fails.
Touch(r) ==
  /\ pc[r] = "checked"
  /\ ~Locked(on[r])
  /\ Goto(r, IF on[r] \in live THEN "serving" ELSE "done")
  /\ UNCHANGED <<rows, consumed, on, seen, op, want>>

\* The request commits with the tokens it was billed.
Serve(r) ==
  /\ pc[r] = "serving"
  /\ \E t \in 0..MaxTokens :
       consumed' = [consumed EXCEPT ![on[r]] = @ + t]
  /\ Goto(r, "done")
  /\ UNCHANGED <<rows, on, seen, op, want>>

-----------------------------------------------------------------------------
(* Administrators. *)

\* Every operation but create begins by loading the row.
Open(a, o, k) ==
  /\ o # "create" /\ k \in live
  /\ Load(a, k)
  /\ op' = [op EXCEPT ![a] = o]
  /\ \E q \in Quotas : want' = [want EXCEPT ![a] = IF o = "quota" THEN q ELSE @]
  /\ Goto(a, "loaded")
  /\ UNCHANGED <<rows, consumed>>

\* What update and revoke would change, against the row as it was loaded.
Changes(a) ==
  CASE op[a] = "enable"  -> ~seen[a].enabled
    [] op[a] = "disable" -> seen[a].enabled
    [] op[a] = "revoke"  -> ~seen[a].revoked
    [] op[a] = "quota"   -> want[a] # seen[a].quota
    [] OTHER             -> TRUE

\* Nothing to write: no UPDATE is sent, no lock is taken.
NothingToDo(a) ==
  /\ pc[a] = "loaded"
  /\ ~Changes(a)
  /\ Goto(a, "done")
  /\ UNCHANGED <<rows, consumed, on, seen, op, want>>

\* The flush waits for the row; an UPDATE of a deleted row fails, and a DELETE of
\* one only warns.
Flush(a) ==
  /\ pc[a] = "loaded"
  /\ Changes(a)
  /\ ~Locked(on[a])
  /\ Goto(a, IF on[a] \in live THEN "flushed" ELSE "done")
  /\ UNCHANGED <<rows, consumed, on, seen, op, want>>

\* Mutant: the whole row is written as it was loaded, but for the change.
CommitUpdate_WholeRow(a) ==
  /\ pc[a] = "flushed" /\ op[a] \in {"enable", "disable", "renew"}
  /\ enabled' = IF op[a] = "enable" \/ (op[a] = "renew" /\ seen[a].enabled)
                THEN enabled \cup {on[a]} ELSE enabled \ {on[a]}
  /\ revoked' = IF seen[a].revoked THEN revoked ELSE revoked \ {on[a]}
  /\ lapsed' = IF op[a] = "renew" THEN lapsed \ {on[a]} ELSE lapsed
  /\ Goto(a, "done")
  /\ UNCHANGED <<live, fresh, quota, ceiling, consumed, on, seen, op, want>>

\* The columns an operation writes; the others keep what others committed.
CommitUpdate(a) ==
  /\ pc[a] = "flushed"
  /\ \/ /\ op[a] = "enable"
        /\ enabled' = enabled \cup {on[a]}
        /\ UNCHANGED <<lapsed, quota, ceiling>>
     \/ /\ op[a] = "disable"
        /\ enabled' = enabled \ {on[a]}
        /\ UNCHANGED <<lapsed, quota, ceiling>>
     \/ /\ op[a] = "renew"
        /\ lapsed' = lapsed \ {on[a]}
        /\ UNCHANGED <<enabled, quota, ceiling>>
     \/ /\ op[a] = "quota"
        /\ quota' = [quota EXCEPT ![on[a]] = want[a]]
        /\ ceiling' = [ceiling EXCEPT ![on[a]] = IF want[a] > @ THEN want[a] ELSE @]
        /\ UNCHANGED <<enabled, lapsed>>
  /\ Goto(a, "done")
  /\ UNCHANGED <<live, fresh, revoked, consumed, on, seen, op, want>>

\* revoke disables the key too, unless it was loaded disabled.
CommitRevoke(a) ==
  /\ pc[a] = "flushed" /\ op[a] = "revoke"
  /\ revoked' = revoked \cup {on[a]}
  /\ enabled' = IF seen[a].enabled THEN enabled \ {on[a]} ELSE enabled
  /\ Goto(a, "done")
  /\ UNCHANGED <<live, fresh, lapsed, quota, ceiling, consumed, on, seen, op, want>>

\* The usage rows of a deleted key lose their key, so its sum is gone.
CommitDelete(a) ==
  /\ pc[a] = "flushed" /\ op[a] = "delete"
  /\ live' = live \ {on[a]}
  /\ consumed' = [consumed EXCEPT ![on[a]] = 0]
  /\ Goto(a, "done")
  /\ UNCHANGED <<fresh, enabled, revoked, lapsed, quota, ceiling, on, seen, op, want>>

\* Mutant: the limit itself is let through.
CountKeys_OffByOne(a) ==
  /\ pc[a] = "idle"
  /\ Cardinality(InUse) < PoolSize
  /\ op' = [op EXCEPT ![a] = "create"]
  /\ Goto(a, IF Cardinality(live) > MaxKeys THEN "done" ELSE "counted")
  /\ UNCHANGED <<rows, consumed, on, seen, want>>

\* create counts the rows it can see ...
CountKeys(a) ==
  /\ pc[a] = "idle"
  /\ Cardinality(InUse) < PoolSize
  /\ op' = [op EXCEPT ![a] = "create"]
  /\ Goto(a, IF Cardinality(live) >= MaxKeys THEN "done" ELSE "counted")
  /\ UNCHANGED <<rows, consumed, on, seen, want>>

\* Mutant: identifiers are handed out twice.
CommitCreate_ReusesIds(a) ==
  /\ pc[a] = "counted"
  /\ \E k \in fresh : live' = live \cup {k}
  /\ Goto(a, "done")
  /\ UNCHANGED <<fresh, enabled, revoked, lapsed, quota, ceiling, consumed, on, seen, op, want>>

\* ... and inserts one more, enabled and with the quota Init gave it.
CommitCreate(a) ==
  /\ pc[a] = "counted"
  /\ \E k \in fresh :
       /\ live' = live \cup {k}
       /\ fresh' = fresh \ {k}
  /\ Goto(a, "done")
  /\ UNCHANGED <<enabled, revoked, lapsed, quota, ceiling, consumed, on, seen, op, want>>

\* An error, a crash or a lost connection before the commit.
RollBack(a) ==
  /\ pc[a] \in {"loaded", "flushed", "counted"}
  /\ Goto(a, "done")
  /\ UNCHANGED <<rows, consumed, on, seen, op, want>>

\* expires_at passes.
Lapse(k) ==
  /\ k \in live \ lapsed
  /\ lapsed' = lapsed \cup {k}
  /\ UNCHANGED <<live, fresh, enabled, revoked, quota, ceiling, consumed, pc, on, seen,
                 op, want>>

RequestStep(r) ==
  \/ \E k \in Keys : Authenticate(r, k)
  \/ Abandon(r) \/ CheckQuota(r) \/ Touch(r) \/ Serve(r)

AdminStep(a) ==
  \/ \E o \in Ops, k \in Keys : Open(a, o, k)
  \/ NothingToDo(a) \/ Flush(a) \/ CommitUpdate(a) \/ CommitRevoke(a)
  \/ CommitDelete(a) \/ CountKeys(a) \/ CommitCreate(a) \/ RollBack(a)

Next ==
  \/ \E r \in Requests : RequestStep(r)
  \/ \E a \in Admins : AdminStep(a)
  \/ \E k \in Keys : Lapse(k)

Spec == Init /\ [][Next]_vars

-----------------------------------------------------------------------------
(* Properties. *)

TypeOK ==
  /\ live \subseteq Keys /\ fresh \subseteq Keys /\ live \cap fresh = {}
  /\ enabled \subseteq Keys /\ revoked \subseteq Keys /\ lapsed \subseteq Keys
  /\ quota \in [Keys -> Quotas]
  /\ consumed \in [Keys -> Nat]
  /\ pc \in [Sessions -> Phases]
  /\ on \in [Sessions -> Keys]
  /\ seen \in [Sessions -> Row]
  /\ op \in [Admins -> Ops]
  /\ want \in [Admins -> Quotas]
  /\ ceiling \in [Keys -> Nat]

\* A key that was revoked or deleted authenticates nobody ever again, whatever an
\* administrator who loaded the row earlier writes to it later.
StaysOut ==
  \A k \in Keys \ fresh : k \notin live \/ k \in revoked => ~Usable(k)'

RevocationIsFinal == [][StaysOut]_vars

\* The quota is checked before the row is locked, so requests that were checked
\* together overshoot it together: by less than a full pool of answers.
QuotaOvershootIsBounded ==
  \A k \in Keys : consumed[k] < ceiling[k] + PoolSize * MaxTokens

\* Keys are counted before the new one is inserted: administrators who count
\* together exceed the limit, by no more than the pool lets in at once.
KeyCountIsBounded == Cardinality(live) < MaxKeys + PoolSize

\* A request is served only while the row of its key exists, and alone: deleting
\* or revoking a key waits for the request that holds its row.
ServedAlone ==
  \A r \in Requests :
    pc[r] = "serving" =>
      /\ on[r] \in live
      /\ \A s \in Sessions \ {r} : on[s] = on[r] => pc[s] \notin {"serving", "flushed"}
=============================================================================

------------------------------- MODULE Gateway -------------------------------
(***************************************************************************)
(* The public gateway: what one worker process does with the requests it   *)
(* has in flight.  A request takes a pooled database connection, touches   *)
(* the row of its API key, opens a ClientRequest row and tries its         *)
(* candidates one after the other; every failed attempt is written to the  *)
(* request's own transaction and reported to the health history in a       *)
(* second, short one.  The unit of work commits after the answer left.     *)
(*                                                                         *)
(* The code is services/gateway.py (chat_completion, embeddings and        *)
(* stream_chat_completion share one loop here: Kind tells the places where *)
(* they differ), the order of checks is that of api/gateway/deps.py, and   *)
(* the transaction is database/session.py's get_db_session.                *)
(***************************************************************************)
EXTENDS Integers, FiniteSets, Sequences

CONSTANTS
  Requests,      \* the requests clients send (each is one HTTP call)
  Keys,          \* API keys they present
  WireIds,       \* values of X-Request-ID, chosen by the client
  Kinds,         \* the kinds of call a run explores, within AllKinds
  Failures,      \* the upstream failures a run explores, within ErrorCodes
  Candidates,    \* provider and model pairs that may serve the model asked for
  NonStreaming,  \* candidates whose endpoint row says streaming_supported = FALSE
  MaxCandidates, \* bound: candidates that serve the model of one request
  PoolSize,      \* pool_size + max_overflow of the database engine
  MaxTokens      \* bound: tokens an upstream reports for a chat answer

AllKinds == {"chat", "stream", "embeddings"}

ErrorCodes == {"rate_limited", "unavailable", "unauthorized", "bad_request",
               "base_url_missing"}

ASSUME GatewayAssumption ==
  /\ Kinds \subseteq AllKinds
  /\ Failures \subseteq ErrorCodes
  /\ NonStreaming \subseteq Candidates
  /\ IsFiniteSet(Requests)
  /\ IsFiniteSet(Candidates)
  /\ MaxCandidates \in Nat
  /\ PoolSize \in Nat \ {0}
  /\ MaxTokens \in Nat

VARIABLES
  call,     \* call[r]: the kind, key and wire id the client sent
  pc,       \* pc[r]: where the handler of r stands
  order,    \* order[r]: the candidates as the routing engine ordered them
  tried,    \* tried[r]: attempt_number
  txn,      \* txn[r]: the rows the open transaction of r holds
  ledger,   \* ledger[r]: the rows of r that are committed
  bytes,    \* bytes[r]: the candidates whose text reached the client
  answer,   \* answer[r]: the terminal answer the client received
  health    \* health[c]: the last committed observation of the candidate

vars == <<call, pc, order, tried, txn, ledger, bytes, answer, health>>

-----------------------------------------------------------------------------
(* Upstream failures and how they are classified. *)

\* providers/adapters.py _STATUS_MAP: 408, 429, 5xx and transport errors.
Retryable(code) == code \in {"rate_limited", "unavailable"}

Statuses == {"unknown", "degraded", "rate_limited", "down"}

\* Mutant: a 400 proves that the provider answers.
health_for_Optimistic(code) ==
  CASE code = "rate_limited"     -> "rate_limited"
    [] code = "unauthorized"     -> "down"
    [] code = "base_url_missing" -> "unknown"
    [] OTHER                     -> "healthy"

health_for(code) ==
  CASE code = "rate_limited"     -> "rate_limited"
    [] code = "unauthorized"     -> "down"
    [] code = "base_url_missing" -> "unknown"
    [] OTHER                     -> "degraded"

-----------------------------------------------------------------------------
(* The rows of the two tables the gateway writes. *)

Attempt == [number: Nat, candidate: Candidates, final: BOOLEAN,
            error: ErrorCodes \cup {"none"}, tokens: Nat]

Row == [state: {"pending", "succeeded", "failed"}, count: Nat, tokens: Nat,
        error: {"none", "upstream", "gateway"}]

NoRow == [state |-> "absent"]

\* What a transaction holds for one request: its ClientRequest row, its attempts.
Rows == [row: Row \cup {NoRow}, attempts: SUBSET Attempt]

Nothing == [row |-> NoRow, attempts |-> {}]

Phases == {"arrived", "admission", "locking", "routing", "opening", "choose",
           "calling", "observing", "closing", "answering", "committing", "done"}

\* Phases in which the request's session holds a pooled connection.
Connected(r) == pc[r] \notin {"arrived", "done"}

\* ApiKeyService.touch flushes an UPDATE of the key's row: from then to the end
\* of the transaction no other transaction can update that row.
HoldsKey(r) == Connected(r) /\ pc[r] \notin {"admission", "locking"}

InUse == Cardinality({r \in Requests : Connected(r)})

Stream(r) == call[r].kind = "stream"

Current(r) == order[r][tried[r]]

\* Every order the engine can return for some subset of the candidates: those
\* whose last observation is down come after all the others.
Orders ==
  {s \in UNION {[1..n -> Candidates] : n \in 1..MaxCandidates} :
     \A i, j \in DOMAIN s :
       i < j => /\ s[i] # s[j]
                /\ health[s[i]] = "down" => health[s[j]] = "down"}

Goto(r, phase) == pc' = [pc EXCEPT ![r] = phase]

\* The exception path of get_db_session: the transaction is rolled back and its
\* connection returns to the pool.
RollBack(r) ==
  /\ Goto(r, "done")
  /\ txn' = [txn EXCEPT ![r] = Nothing]

Init ==
  /\ call \in [Requests -> [kind: Kinds, key: Keys, wire: WireIds]]
  /\ pc = [r \in Requests |-> "arrived"]
  /\ order = [r \in Requests |-> <<>>]
  /\ tried = [r \in Requests |-> 0]
  /\ txn = [r \in Requests |-> Nothing]
  /\ ledger = [r \in Requests |-> Nothing]
  /\ bytes = [r \in Requests |-> {}]
  /\ answer = [r \in Requests |-> "none"]
  /\ health = [c \in Candidates |-> "unknown"]

-----------------------------------------------------------------------------
(* Admission: require_gateway_key and the route body up to the first row. *)

\* The first statement of the session checks a connection out of the pool.
Connect(r) ==
  /\ pc[r] = "arrived"
  /\ InUse < PoolSize
  /\ Goto(r, "admission")
  /\ UNCHANGED <<call, order, tried, txn, ledger, bytes, answer, health>>

\* QueuePool gives up after its timeout; the exception becomes a 500.
ConnectTimesOut(r) ==
  /\ pc[r] = "arrived"
  /\ InUse >= PoolSize
  /\ Goto(r, "done")
  /\ answer' = [answer EXCEPT ![r] = "error"]
  /\ UNCHANGED <<call, order, tried, txn, ledger, bytes, health>>

\* Disabled gateway, unusable key, rate limit or quota before the touch; missing
\* scope or no candidate after it.
Reject(r) ==
  /\ pc[r] \in {"admission", "routing"}
  /\ RollBack(r)
  /\ answer' = [answer EXCEPT ![r] = "error"]
  /\ UNCHANGED <<call, order, tried, ledger, bytes, health>>

Admit(r) ==
  /\ pc[r] = "admission"
  /\ Goto(r, "locking")
  /\ UNCHANGED <<call, order, tried, txn, ledger, bytes, answer, health>>

\* ApiKeyService.touch: waits for the row lock of the key.
Touch(r) ==
  /\ pc[r] = "locking"
  /\ \A q \in Requests \ {r} : HoldsKey(q) => call[q].key # call[r].key
  /\ Goto(r, "routing")
  /\ UNCHANGED <<call, order, tried, txn, ledger, bytes, answer, health>>

\* ordered_candidates, for a stream the second time, after the preflight.
Resolve(r) ==
  /\ pc[r] = "routing"
  /\ \E s \in Orders : order' = [order EXCEPT ![r] = s]
  /\ Goto(r, "opening")
  /\ UNCHANGED <<call, tried, txn, ledger, bytes, answer, health>>

\* An exception after admission: a 500 for a JSON call; a stream's status has
\* already left, so its body just stops.
Raise(r) ==
  /\ RollBack(r)
  /\ answer' = [answer EXCEPT ![r] = IF Stream(r) THEN "none" ELSE "error"]

\* The candidates a stream's preflight saw are gone when the body resolves them.
StreamFindsNothing(r) ==
  /\ pc[r] = "routing"
  /\ Stream(r)
  /\ Raise(r)
  /\ UNCHANGED <<call, order, tried, ledger, bytes, health>>

\* _open_client_request: request_id is UNIQUE, so the insert waits for an open
\* transaction that holds the same id ...
OpenClientRequest(r) ==
  /\ pc[r] = "opening"
  /\ \A q \in Requests \ {r} :
       call[q].wire = call[r].wire =>
         txn[q].row = NoRow /\ ledger[q].row = NoRow
  /\ txn' = [txn EXCEPT ![r].row =
               [state |-> "pending", count |-> 0, tokens |-> 0, error |-> "none"]]
  /\ Goto(r, "choose")
  /\ UNCHANGED <<call, order, tried, ledger, bytes, answer, health>>

\* ... and fails with an IntegrityError once that one is committed.
OpenConflicts(r) ==
  /\ pc[r] = "opening"
  /\ \E q \in Requests \ {r} :
       call[q].wire = call[r].wire /\ ledger[q].row # NoRow
  /\ Raise(r)
  /\ UNCHANGED <<call, order, tried, ledger, bytes, health>>

-----------------------------------------------------------------------------
(* The candidate loop. *)

MoreCandidates(r) == pc[r] = "choose" /\ tried[r] < Len(order[r])

Skipped(r) == Stream(r) /\ order[r][tried[r] + 1] \in NonStreaming

\* A stream counts a candidate that cannot stream and goes on to the next.
SkipCandidate(r) ==
  /\ MoreCandidates(r)
  /\ Skipped(r)
  /\ tried' = [tried EXCEPT ![r] = @ + 1]
  /\ UNCHANGED <<call, pc, order, txn, ledger, bytes, answer, health>>

CallCandidate(r) ==
  /\ MoreCandidates(r)
  /\ ~Skipped(r)
  /\ tried' = [tried EXCEPT ![r] = @ + 1]
  /\ Goto(r, "calling")
  /\ UNCHANGED <<call, order, txn, ledger, bytes, answer, health>>

\* chat_completion looks at the clock after it has counted the attempt.
DeadlinePassed(r) ==
  /\ MoreCandidates(r)
  /\ call[r].kind = "chat"
  /\ tried' = [tried EXCEPT ![r] = @ + 1]
  /\ Goto(r, "closing")
  /\ UNCHANGED <<call, order, txn, ledger, bytes, answer, health>>

\* _build_adapter raises when the stored secret cannot be decrypted.
DecryptFails(r) ==
  /\ MoreCandidates(r)
  /\ ~Skipped(r)
  /\ tried' = [tried EXCEPT ![r] = @ + 1]
  /\ Raise(r)
  /\ UNCHANGED <<call, order, ledger, bytes, health>>

\* A delta of a stream reaches the client.
Emit(r) ==
  /\ pc[r] = "calling"
  /\ Stream(r)
  /\ bytes' = [bytes EXCEPT ![r] = @ \cup {Current(r)}]
  /\ UNCHANGED <<call, pc, order, tried, txn, ledger, answer, health>>

Emitted(r) == Current(r) \in bytes[r]

\* The attempt's usage row; a chat failure is never final, the other two kinds
\* call a failure final when it may not be retried.
FinalOnFailure(r, code) == call[r].kind # "chat" /\ ~Retryable(code)

\* Mutant: attempts are numbered from zero.
RecordAttempt_FromZero(r, final, code, tokens) ==
  [number |-> tried[r] - 1, candidate |-> Current(r), final |-> final,
   error |-> code, tokens |-> tokens]

RecordAttempt(r, final, code, tokens) ==
  [number |-> tried[r], candidate |-> Current(r), final |-> final,
   error |-> code, tokens |-> tokens]

\* An answer arrives: the attempt is recorded and the ClientRequest closed.
\* Only a chat answer carries the tokens the upstream reported.
AttemptSucceeds(r) ==
  /\ pc[r] = "calling"
  /\ \E t \in IF call[r].kind = "chat" THEN 0..MaxTokens ELSE {0} :
       txn' = [txn EXCEPT ![r] =
                 [row |-> [state |-> "succeeded", count |-> tried[r],
                           tokens |-> t, error |-> "none"],
                  attempts |-> @.attempts \cup {RecordAttempt(r, TRUE, "none", t)}]]
  /\ Goto(r, "answering")
  /\ UNCHANGED <<call, order, tried, ledger, bytes, answer, health>>

\* Mutant: the failed attempt is committed at once.
AttemptFails_Commits(r) ==
  /\ pc[r] = "calling"
  /\ \E code \in Failures :
       LET rows == [txn[r] EXCEPT !.attempts =
                      @ \cup {RecordAttempt(r, FinalOnFailure(r, code), code, 0)}]
       IN txn' = [txn EXCEPT ![r] = rows] /\ ledger' = [ledger EXCEPT ![r] = rows]
  /\ Goto(r, "observing")
  /\ UNCHANGED <<call, order, tried, bytes, answer, health>>

\* An UpstreamError: the attempt is recorded, then the observation is made.
AttemptFails(r) ==
  /\ pc[r] = "calling"
  /\ \E code \in Failures :
       txn' = [txn EXCEPT ![r].attempts =
                 @ \cup {RecordAttempt(r, FinalOnFailure(r, code), code, 0)}]
  /\ Goto(r, "observing")
  /\ UNCHANGED <<call, order, tried, ledger, bytes, answer, health>>

\* stream_chat lets transport errors through unwrapped: the generator dies.
StreamBreaks(r) ==
  /\ pc[r] = "calling"
  /\ Stream(r)
  /\ RollBack(r)
  /\ UNCHANGED <<call, order, tried, ledger, bytes, answer, health>>

\* Mutant: every failure fails over.
AfterFailure_AnyFailure(r, code) ==
  Goto(r, IF ~(Stream(r) /\ Emitted(r)) THEN "choose" ELSE "closing")

\* Mutant: bytes that left do not stop the failover.
AfterFailure_SecondVoice(r, code) ==
  Goto(r, IF Retryable(code) THEN "choose" ELSE "closing")

\* Mutant: the last candidate is never tried.
AfterFailure_OffByOne(r, code) ==
  Goto(r, IF Retryable(code) /\ ~(Stream(r) /\ Emitted(r)) /\ tried[r] < Len(order[r]) - 1
          THEN "choose" ELSE "closing")

\* A failure that may be retried moves on, unless bytes already left.
AfterFailure(r, code) ==
  Goto(r, IF Retryable(code) /\ ~(Stream(r) /\ Emitted(r))
          THEN "choose" ELSE "closing")

LastAttempt(r) == {a \in txn[r].attempts : a.number = tried[r]}

\* record_failure_observation needs a second connection of the same pool.
Observe(r) ==
  /\ pc[r] = "observing"
  /\ InUse < PoolSize
  /\ \E a \in LastAttempt(r) :
       /\ health' = [health EXCEPT ![a.candidate] = health_for(a.error)]
       /\ AfterFailure(r, a.error)
  /\ UNCHANGED <<call, order, tried, txn, ledger, bytes, answer>>

\* Mutant: the observation waits for its connection without a timeout.
ObservationLost_Never(r) == FALSE

\* ... and any exception on the way, the pool's timeout included, is swallowed.
ObservationLost(r) ==
  /\ pc[r] = "observing"
  /\ \E a \in LastAttempt(r) : AfterFailure(r, a.error)
  /\ UNCHANGED <<call, order, tried, txn, ledger, bytes, answer, health>>

\* Mutant: the ClientRequest of a failed call is left as it was opened.
CloseFailed_LeftOpen(r) ==
  /\ \/ pc[r] = "closing"
     \/ pc[r] = "choose" /\ tried[r] >= Len(order[r])
  /\ Goto(r, "answering")
  /\ UNCHANGED <<call, order, tried, txn, ledger, bytes, answer, health>>

\* The loop ended without an answer: close FAILED with the last failure, or with
\* the gateway's own error when no attempt was made.
CloseFailed(r) ==
  /\ \/ pc[r] = "closing"
     \/ pc[r] = "choose" /\ tried[r] >= Len(order[r])
  /\ txn' = [txn EXCEPT ![r].row =
               [state |-> "failed", count |-> tried[r], tokens |-> 0,
                error |-> IF txn[r].attempts = {} THEN "gateway" ELSE "upstream"]]
  /\ Goto(r, "answering")
  /\ UNCHANGED <<call, order, tried, ledger, bytes, answer, health>>

-----------------------------------------------------------------------------
(* The end of a request. *)

\* The JSON response, or the stop or error frame of a stream.
Answer(r) ==
  /\ pc[r] = "answering"
  /\ answer' = [answer EXCEPT ![r] =
                  IF txn[r].row.state = "succeeded" THEN "ok" ELSE "error"]
  /\ Goto(r, "committing")
  /\ UNCHANGED <<call, order, tried, txn, ledger, bytes, health>>

\* The client of a stream goes away: the generator is cancelled where it waits
\* and the dependency's exit code runs over whatever the session holds.
Disconnect(r) ==
  /\ pc[r] \in {"calling", "observing", "answering"}
  /\ Stream(r)
  /\ Goto(r, "committing")
  /\ UNCHANGED <<call, order, tried, txn, ledger, bytes, answer, health>>

Commit(r) ==
  /\ pc[r] = "committing"
  /\ ledger' = [ledger EXCEPT ![r] = txn[r]]
  /\ RollBack(r)
  /\ UNCHANGED <<call, order, tried, bytes, answer, health>>

\* The commit itself fails, or a cancellation reaches the session as an error.
CommitFails(r) ==
  /\ pc[r] = "committing"
  /\ RollBack(r)
  /\ UNCHANGED <<call, order, tried, ledger, bytes, answer, health>>

\* The worker process dies: every open transaction is gone.
Crash ==
  /\ \E r \in Requests : Connected(r)
  /\ pc' = [r \in Requests |-> IF Connected(r) THEN "done" ELSE pc[r]]
  /\ txn' = [r \in Requests |-> Nothing]
  /\ UNCHANGED <<call, order, tried, ledger, bytes, answer, health>>

Admission(r) ==
  \/ Connect(r) \/ ConnectTimesOut(r) \/ Reject(r) \/ Admit(r) \/ Touch(r)
  \/ Resolve(r) \/ StreamFindsNothing(r) \/ OpenClientRequest(r) \/ OpenConflicts(r)

Loop(r) ==
  \/ SkipCandidate(r) \/ CallCandidate(r) \/ DeadlinePassed(r) \/ DecryptFails(r)
  \/ AttemptSucceeds(r) \/ AttemptFails(r) \/ StreamBreaks(r)
  \/ Observe(r) \/ ObservationLost(r) \/ CloseFailed(r)

Ending(r) == Answer(r) \/ Commit(r) \/ CommitFails(r)

Step(r) == Admission(r) \/ Loop(r) \/ Ending(r)

\* Every request has been served or refused.
Finished ==
  /\ \A r \in Requests : pc[r] = "done"
  /\ UNCHANGED vars

Next ==
  \/ \E r \in Requests : Step(r) \/ Emit(r) \/ Disconnect(r)
  \/ Crash
  \/ Finished

Spec == Init /\ [][Next]_vars

(* The event loop runs every ready handler; upstream calls end because httpx  *)
(* has a timeout, waits for a connection because the pool has one, waits for  *)
(* a row because its holder's transaction ends.  Nothing obliges a client to  *)
(* disconnect or an upstream to emit.                                         *)
FairSpec == Spec /\ \A r \in Requests : WF_vars(Step(r))

-----------------------------------------------------------------------------
(* Properties. *)

TypeOK ==
  /\ call \in [Requests -> [kind: Kinds, key: Keys, wire: WireIds]]
  /\ pc \in [Requests -> Phases]
  /\ order \in [Requests -> Seq(Candidates)]
  /\ tried \in [Requests -> Nat]
  /\ txn \in [Requests -> Rows]
  /\ ledger \in [Requests -> Rows]
  /\ bytes \in [Requests -> SUBSET Candidates]
  /\ answer \in [Requests -> {"none", "ok", "error"}]
  /\ health \in [Candidates -> Statuses]

\* Rows a reader of the request log may rely on.
Closed(rows) == rows.row.state \in {"succeeded", "failed"}

Balanced(rows) ==
  /\ rows.row = NoRow => rows.attempts = {}
  /\ rows.row.state = "succeeded" =>
       \E a \in rows.attempts :
         /\ a.error = "none" /\ a.final
         /\ a.number = rows.row.count
         /\ a.tokens = rows.row.tokens
         /\ \A b \in rows.attempts \ {a} : b.number < a.number /\ b.error # "none"
  /\ rows.row.state # "succeeded" => \A a \in rows.attempts : a.error # "none"
  /\ rows.row.state = "failed" => \A a \in rows.attempts : a.number <= rows.row.count
  /\ \A a \in rows.attempts : a.error # "none" => a.tokens = 0

\* The committed ClientRequest and its committed attempts tell the same story:
\* SUCCEEDED has exactly one attempt without an error, it is the last one, it is
\* final and its number and tokens are the request's own; anything else has only
\* failed attempts, which cost nothing; and no attempt is ever without its request.
LedgerBalances == \A r \in Requests : Balanced(ledger[r])

\* Two attempts of a request never share a number or a candidate, and another
\* attempt follows only a failure that may be retried.
NoFailoverAfterHardFailure ==
  \A r \in Requests :
    \A a, b \in ledger[r].attempts :
      /\ a # b => a.number # b.number /\ a.candidate # b.candidate
      /\ a.number < b.number => Retryable(a.error)

\* A client of a stream never reads the text of two providers: once bytes left,
\* the request does not fail over.
OneVoice ==
  \A r \in Requests : \A c, d \in bytes[r] : c = d

\* What the client was told is what the ledger says, if the commit that follows
\* the answer goes through; only a stream whose client left leaves a pending row.
AnswerMatchesLedger ==
  \A r \in Requests :
    ledger[r].row # NoRow =>
      /\ answer[r] = "ok" => ledger[r].row.state = "succeeded"
      /\ answer[r] = "error" => ledger[r].row.state = "failed"
      /\ answer[r] = "none" => Stream(r)

\* A request is given up only for cause: a failure that may not be retried, a
\* stream cut after its first bytes, the chat deadline, or every candidate tried
\* (or unable to stream).
FailedForCause(r) ==
  LET as == ledger[r].attempts
      n  == ledger[r].row.count
  IN \/ \E a \in as : a.number = n /\ (~Retryable(a.error) \/ a.candidate \in bytes[r])
     \/ call[r].kind = "chat" /\ \A a \in as : a.number < n
     \/ \A i \in DOMAIN order[r] :
          \/ \E a \in as : a.number = i /\ a.candidate = order[r][i]
          \/ Stream(r) /\ order[r][i] \in NonStreaming

GivenUpForCause ==
  \A r \in Requests : ledger[r].row.state = "failed" => FailedForCause(r)

\* A transaction becomes visible whole or not at all, and a committed request is
\* never rewritten.
CommittedOnce ==
  \A r \in Requests :
    ledger'[r] # ledger[r] => ledger[r] = Nothing /\ ledger'[r] = txn[r]

CommittedIsImmutable == [][CommittedOnce]_vars

\* Whoever waits for a pooled connection, for the row of its API key or for a
\* request id does not wait for ever: every request that reached the gateway is
\* answered or dropped, and its connection and locks are released.
EveryRequestEnds == \A r \in Requests : <>(pc[r] = "done")
=============================================================================

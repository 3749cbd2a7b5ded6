# Xerex AI: a TLA+ model of the gateway and its control plane

Xerex AI is a self-hosted gateway in front of several LLM providers: clients call an OpenAI-shaped
API with a Xerex API key, the gateway picks a provider for the requested model, calls it with a
stored credential, fails over to another one when that may help, and keeps a ledger of requests,
attempts and tokens. A panel with its own accounts manages keys, providers, models, routing rules and
health checks. The backend is FastAPI, SQLAlchemy (asyncio) over PostgreSQL, and Redis; several worker
processes share both stores.

This directory holds the specifications, the TLC configurations that check them on small instances,
and the proofs TLAPS checks. All paths below are relative to the repository root; `backend/app/` is
abbreviated to `app/` and `frontend/src/` to `panel/`.

    tlasany M.tla                            parse a module
    tlc -workers 2 -config X.cfg M           model-check module M
    tlapm M.tla                              check the proofs of module M

## 1. Inventory

State that several actors share is in **bold**.

| Component | State | Operations | Talks to | Hard behaviour | Correct when | Module |
|---|---|---|---|---|---|---|
| Public gateway (`app/api/gateway`, `app/services/gateway.py`) | **client_requests**, **usage_records** (attempts), the locals of a handler | chat completion, streamed chat, embeddings; open and close a request, record an attempt, observe a failure | API keys, limiter, routing, adapters, session, health history | failover mid-stream, answer before commit, disconnect, crash, deadline, duplicate request ids, waiting for rows and connections while holding others | the committed ledger tells one consistent story and matches what the client was told; failover stops where it must; a stream has one voice; every request ends | `Gateway` |
| Upstream adapters (`app/providers/adapters.py`) | none | complete, stream, embed; classify failures | providers | timeouts, broken streams | only failures that may pass elsewhere are retryable | inside `Gateway` |
| Database session and pool (`app/database/session.py`) | **connections** | begin, commit after the response, roll back | PostgreSQL | pool exhaustion, READ COMMITTED | a transaction is visible whole or not at all | inside `Gateway`, `ApiKeys`, `Identity` |
| Rate limiter (`app/services/rate_limit.py`) | **counters in Redis** | hit, reset | Redis | non-atomic EXPIRE, lost replies, dead workers | a fixed window: bounded grants, no refusal for ever | `RateLimiter` over `WindowLimiter` |
| Login throttling (`app/auth/service.py`, `app/api/v1/auth.py`) | the same counters | hit, reset on success | Redis | as above | as above | `RateLimiter` (Reset) |
| API keys (`app/services/api_keys.py`, `app/api/gateway/deps.py`) | **api_keys** | create, update, revoke, delete, authenticate, quota check, touch | session, usage rows | check-then-act on quota and on the key limit; changes racing requests | quota overshoot and key count are bounded; revocation is final; a served key exists and its row is held by one | `ApiKeys` |
| Routing engine (`app/router/engine.py`) | none (pure) | rank by one of six strategies | – | missing data, ties, rotation | a total order without repetition, monotone in what is scored | `RoutingEngine` |
| Routing service (`app/services/routing.py`) | **routing_rules**, **models**, **providers**, **health_checks**, **usage_records** | resolve candidates, match a rule, read signals, decide, simulate, edit rules | engine, tables | a decision is a series of queries while tables change | down is the last resort; the simulator agrees with traffic | `Routing` |
| Identity and sessions (`app/auth`, `app/api/v1/auth.py`, `users.py`) | **admin_users**, **refresh_tokens** | bootstrap, login, refresh, logout, create and update accounts | session, limiter, audit | check-then-act on roles and tokens | an owner always remains; owners are made by owners; spent tokens stay spent; suspension bites | `Identity` |
| Health checks and scheduler (`app/health`, `app/services/health_admin.py`) | **health_checks**, credential status | run checks, record an observation, retention | adapters, providers | slow probes against changed rows, errors swallowed inside a transaction | – | effects only: `Observe` in `Gateway` and `Routing`; the panel's side in `Pages` |
| Provider and credential administration (`app/services/provider_admin.py`) | **providers**, **provider_credentials** | create, update, rotate, verify, revoke, delete | adapters, crypto | a verification ending after a revocation | – | effects on routing (`AlterProvider`, `AlterCredential`); the panel's side in `Pages` |
| Model administration, discovery (`app/services/model_admin.py`, `discovery.py`) | **models**, endpoints | CRUD, discover | adapters | many rows in one transaction | – | effect on routing (`AlterModel`); the panel's side in `Pages` |
| Usage analytics, exports, rollups (`app/services/usage.py`), dashboard, settings, audit | **daily rollups**, settings and audit rows | aggregate, export, rebuild; read; append | ledger | – | – | the panel's side in `Pages`; the queries are SQL over the rows `Gateway` writes |
| Panel: session and API client (`panel/lib/api/client.ts`, `panel/features/auth`) | access token in memory, **refresh cookie of the browser**, status and user on the screen | call, refresh on a 401 and replay, stream, download, load the page, sign in, set up, sign out | `auth` routes of the API | parallel refreshes with one cookie, answers that arrive after the sign-out, lost messages, reloads | the screen agrees with the session the browser holds; nobody sees another user's data; an expired token is invisible | `Session` |
| Panel: pages and query cache (`panel/features`, `panel/lib/query`, `panel/lib/api/endpoints.ts`) | query cache (one entry per key), open page and dialog, writes under way | open, leave, choose, submit; refresh after a write; poll | API, session client | refreshes written by hand after every write; fetches aborted, joined and started over; a write that outlives its page | an administrator sees what they did; nobody is offered what the API refuses; no write waits for ever | `Pages`, `Panel` |
| Panel: playground (`panel/features/models/PlaygroundPanel.tsx`) | the state of the component, one loop per run | run with or without a stream, stop | the models API | Stop does not end the loop, so loops overlap | the button stops spinning; the screen is the last run's | `Playground` |
| Panel: Jalali dates (`panel/lib/locale/jalali.ts`) | none (pure), filters of two pages | convert, parse, fill in a filter | usage API | half years, leap years | a filter means the dates it is sent as (it does not: section 6) | `Calendar` |
| Panel: texts, locale, theme, layout, widgets | – | – | – | – | – | not modelled: no control depends on them |
| Configuration, security, logging, migrations, seeds, deployment | – | process start | – | – | – | not modelled; their settings are CONSTANTS |

How they interact in one gateway call: a handler takes a pooled connection (first statement of the
session), loads and checks the key, hits the limiter in Redis, sums the quota, `touch`es the key's
row (which locks it until the transaction ends), resolves and ranks candidates, inserts the
`client_requests` row, then loops over the candidates. Each failed attempt adds a row to the same
transaction *and* is reported to the health history through a second, short transaction on a second
connection. The response leaves, and only then the dependency's exit code commits. Administrators and
the scheduler write the tables the router reads, at any time.

And in the panel: a page mounts its queries, each answered from the cache or by a call of the client;
the client attaches the access token of that moment, and on a 401 refreshes it with the browser's cookie
and replays the call. A write ends with the refreshes its page lists, some of which it waits for, then
with a dialog closed or another page opened. Signing out clears tokens and cache whatever the API says.

## 2. Modules

    WindowLimiter  <--implements--  RateLimiter                RateLimiterProofs
    RoutingEngine  <--EXTENDS-----  Routing                    RoutingProofs
                                    Gateway                    GatewayProofs
                                    ApiKeys                    ApiKeysProofs
                                    Identity                   IdentityProofs
                                    Session                    SessionProofs
    Pages          <--EXTENDS-----  Panel                      PanelProofs
                                    Playground                 PlaygroundProofs
                                    Calendar
    MC...: one instance of each for TLC

Components meet through what one leaves to another nondeterministically. `Gateway` takes any order
`RoutingEngine` may return (`Orders`: no repetition, down last - which `Routing` checks as
`EveryCandidateOnce` and `DownIsLastResort`) and any verdict of authentication, limiter and quota
(`Reject`), which `RateLimiter` and `ApiKeys` refine. `ApiKeys` in turn reduces the time a request is
served to one phase (`serving`), during which it holds the key's row, exactly as `HoldsKey` says in
`Gateway`. `Routing` receives health observations and usage rows as `Gateway` writes them.

### Gateway

One worker process, with its own pool; other workers meet it in the rows they share, which is where two
requests of one worker meet as well. `call` is what the client sent (kind of call, key, `X-Request-ID`); `pc` is where
the handler stands between two awaits; `txn[r]` is what the open transaction of r holds, `ledger[r]`
what is committed of it; `bytes` and `answer` are what reached the client; `health` is the last
committed observation of each candidate.

| Action | Code |
|---|---|
| Connect, ConnectTimesOut | first statement of the session; QueuePool's timeout (`app/database/session.py`) |
| Reject, Admit | `require_gateway_key` and the route bodies (`app/api/gateway/deps.py`, `router.py`) |
| Touch | `ApiKeyService.touch`: an UPDATE flushed before the upstream call |
| Resolve, StreamFindsNothing | `ordered_candidates`; a stream resolves again inside its body |
| OpenClientRequest, OpenConflicts | `_open_client_request`: the unique `request_id` |
| SkipCandidate, CallCandidate, DeadlinePassed, DecryptFails | the head of the candidate loop, where the three kinds of call differ |
| Emit, AttemptSucceeds, AttemptFails, StreamBreaks | what the upstream may do; `record_attempt` |
| Observe, ObservationLost | `record_failure_observation`: needs a second connection; every exception is swallowed |
| CloseFailed, Answer | `_close_client_request`; the response or the last frame |
| Disconnect, Commit, CommitFails, Crash | the exit code of `get_db_session`, or no exit at all |

Rows are records with the columns the properties tell apart. A token count is 0..MaxTokens because a
non-streamed chat answer is the only kind whose row carries the upstream's own count to both tables.

### RateLimiter and WindowLimiter

One scope (one key or one login identity), calls from any number of workers, and the Redis clock.
INCR and TTL travel in one MULTI (`Hit`); the EXPIRE that gives the counter its window is a second
call (`Arm`), and between the two lie other calls, a lost reply, or the death of the worker.
`ReplyLost` is a call Redis counted and the caller did not hear of; `Unreachable` is the fail-open or
fail-closed answer of `redis_required`. `WindowLimiter` is the promise: a window opens with the first
call, lasts at least `Window` ticks unless cleared, and grants at most `Limit` calls.

### ApiKeys

`PoolSize` stands for the connections of all worker processes together: nothing here is kept in a
process, so sessions of one worker and of another interleave alike, and a pool for each worker only
forbids some of the interleavings that one pool of that size allows. The bounds of the properties are
therefore in connections of the whole deployment, workers times pool and overflow.

Administrator sessions load a row, decide what to change against the loaded copy (`seen`), flush (take
the row lock) and commit only the columns they changed; requests authenticate, are checked against
the quota *as loaded* and the *fresh* sum, take the row and commit what they were billed. `create`
counts and then inserts. `ceiling` is a history variable: the largest quota a key was ever given.

### RoutingEngine and Routing

`RoutingEngine` states the six strategies as key tuples compared from the left, and sorting by
places: a candidate's place is one more than the number ahead of it. Providers are numbered in the
alphabetical order of their candidate key, which is the engine's tie-breaker. `Routing` makes every
query of a decision a step: candidates, rule, then the signals of one provider at a time, while
`Observe`, `RecordUsage`, `WriteRule`, `AlterProvider`, `AlterModel` and `AlterCredential` change the tables. One candidate per
provider serves the requested model, so targets and chains name providers.

### Identity

`Workers` are slots for concurrent transactions: a request is authorised, reads and checks rows,
flushes its write (which takes the row lock or the unique key) and commits. What it checked may have
changed by then. `crown` and `fit` are history variables: who made an account an owner, and whether
the actor was active at some moment since the request began.

### Session

One browser tab. `tokens` is the tab's access token, `jar` the refresh cookie, `screen` what the
AuthProvider shows, `rows` the users on whose behalf the cached answers were given, `calls` the calls
under way, one a slot. A call leaves with the token and, for a sign-out, the cookie of that moment
(`Asked`); it is served (`Serve`, `ServeLogin`, `ServeLogout`, `ServeStatus`), and its answer arrives
(`Arrive`, `ArriveRefused`). A 401 leads to `Refresh`, whose service the API splits as `Identity` does:
`ReadRefreshToken` without a lock, then `Rotate`. Between any two of these steps other calls do the
same, the administrator signs out, the page is reloaded, the access token expires, a message is lost.

The kinds of call differ as in `client.ts`: `request` replays once, `downloadRequest` starts over each
time, `streamRequest` never refreshes; clearing the cache aborts queries, not writes, and never a
refresh. Ids of refresh tokens that nobody can present any more are used again, which keeps the state
space finite without bounding the length of a session. `stray` records that a sign-out competed with a
refresh, or left behind a call that clearing the cache does not abort; `lost` counts lost messages. Properties make an exception for both, because the code does not survive
either (section 6), and `MCSession` does not follow a mixed-up session further. Simplified: tabs
sharing a cookie, accounts suspended meanwhile, the end of a refresh token's life, wrong passwords.

### Pages and Panel

`Pages` has no state: it says for each route, as the source does component by component, which queries
it mounts (where, which key, which call), which writes it has (which call, the steps of onSuccess in
their order), and which controls offer them to whom, once which data is there. Calls are known by the
roles the API lets pass and by the facts they show or change. `Panel` turns the tables into a state
machine: `Go`, `OpenDialog`, `CloseDialog`, `Submit`, `Retry` are the administrator's; `Serve`,
`AnswerArrives`, `Lose` and the `Settle...` actions the life of a write; `ReadEntry`, `EntryArrives`,
`EntryFails`, `Age`, `Poll` that of the cache.

* One cache entry is watched in each behaviour, any of those some write may change: entries do not
  influence each other, except through the time a write spends waiting, which is arbitrary anyway.
  Writes, dialogs and pages that cannot matter to the watched entry are left out (`Matters`).
* TanStack Query is external and modelled as the code uses it: an invalidation of an entry on the screen
  restarts its fetch, except a first fetch, which it joins; closing the last page that shows an entry
  aborts its fetch and releases who waits for it. Collection of unused entries is left out: a missing
  entry is fetched when it is next shown, as a stale one is.
* There is one object of each kind and one choice of filters for each list. Queries of a panel that
  appears only with its page's data are mounted with the page.
* `Promised` says which writes refresh which entries - the contract the pages keep; section 6 lists
  what it leaves out. `raced` are writes whose refresh joined a first fetch under way: its answer may
  predate the write, a gap of the library's rule that the property excepts by name.
* What the proofs need of the tables is stated in three assumptions, which TLC evaluates over the tables
  themselves in every run: `TablesAssumption` (their form), `OffersAssumption` (a control that submits is
  rendered only for roles the API lets pass, or stands in a dialog every opener of which is, settings
  apart) and `PromisesAssumption` (each write of `Promised` has a step that refreshes the entry). They
  say what can be read off one page at a time; the invariants say what follows when pages, dialogs,
  writes and fetches overlap.

### Playground

A run is a loop over the events of its answer; `loop` has one for each run, all writing the same
`running`, `text`, `result`, `error`, `abort`. `Stop` aborts a controller whose signal no request was
given, so the loop goes on beside the next run's. `mixed` records that two loops were alive together.

### Calendar

The conversions as functions on dates, line by line (they are what is in question), and the two pages
that fill a filter by themselves and send it: the log of requests on opening, the presets of usage.

## 3. Runs

Every passing run explores its whole state space; between them they take every action and every
disjunct of the next-state relations.

| Run | Question | Bounds | States |
|---|---|---|---|
| `gateway_ledger` | Do the committed ledger, the bytes streamed and the answer given agree, whatever fails? | 2 requests of any kind, 1 key, 2 wire ids, 3 candidates (one cannot stream) of which 2 serve, a retryable and a hard failure, pool of 2, tokens 0..1 | 1.2 M |
| `gateway_progress` | Does every call end although it waits for a row and a second connection while holding a first? | 3 embeddings calls, 1 key, pool of 2 | 56 k |
| `rate_limiter` | Is it a fixed window, and is nobody refused for ever? | 5 calls, limit 2, window 2, clock 0..3, 1 reset | 360 k |
| `api_keys` | How far can check-then-act overshoot, and can a stale write undo a revocation? | 3 requests, 2 administrators, 3 keys, quotas 1..2, up to 2 tokens an answer, limit of 1 key, pool of 2 | 720 k |
| `routing` | Is a decision complete, last-resort-safe and monotone although the tables change under it? | 3 providers, one gateway call and one simulation, 1 rule slot, 3 rules, 2 profiles, 2 observations, 2 edits | 1.1 M |
| `identity` | Do races of role changes, refreshes and suspensions keep the account rules? | 2 requests at once, 3 accounts, 2 refresh tokens, payloads that change one field | 890 k |
| `session` | Do screen, cookie and cache agree through parallel refreshes, sign-outs and page loads? | 2 users, 2 calls at a time, 4 refresh tokens at a time, 1 lost message | 1.8 M |
| `playground` | Does the button always stop spinning, and whose answer is on the screen? | 3 runs, up to 2 pieces each | 8 k |
| `panel` | Does an administrator see what they did, is nobody offered what is refused, does no write wait in vain? | owner, operator or viewer, 14 pages, 2 writes, 2 acts (writes and page changes), each watched entry in turn | 1.3 M |
| `routing_simulation`, `identity_refresh`, `calendar` | Does a statement of the documentation hold? (It does not: section 6.) | as the passing run of the module; `identity_refresh` has 2 accounts, 3 tokens; `calendar` 400 days from 1 August 2024 | – |

Why the bounds are enough for what is asked:

* Gateway: a request's own story needs two candidates in one order (success after failure, hard
  failure, exhaustion), a third candidate for an order that changes, and one that cannot stream; two
  requests are what a conflict of wire ids, a row lock and a pool need, because each of them is a
  relation between two. For progress a third request fills the pool while the first two hold it.
* Limiter: five calls against a limit of two are two full windows and one more; the clock reaches one
  tick past a window, so counters die, are recreated, and a late EXPIRE straddles a boundary.
* Keys: three requests exceed the pool of two, so overshoot comes from successive pools too; two
  administrators are what a stale write needs; three keys with a limit of one leave room for the
  limit to be passed by a full pool.
* Routing: three providers distinguish a chain, a rotation and a last resort; two edits let two
  observations separate two decisions, or one observation and one usage record. Changes while no
  decision is under way amount to other initial tables and are not explored (`Edit`).
* Identity: two requests race; a third account is the one they race about. Two tokens make a chain of
  rotation, three make a fork.
* Session: a competition for the cookie is between two calls, and every interleaving of two is
  explored, for sessions of any length; two users are one signing in after the other. Four ids of
  refresh tokens are one in the jar and those two calls may present or carry; `SessionAssumption` asks for two more than there
  are calls, so that a refresh always finds a fresh one (in the code they are random).
* Playground: one loop that was stopped, the next, and one that begins after they overlapped.
* Panel: an admin is let through wherever an owner is, so three roles cover four. What a refresh can
  meet is a fetch started by opening a page, by a retry, by a poll, or by another write, and one other
  write or one change of page is enough for each; dialogs open and close without bound.

Bounds that stand for unbounded things are CONSTANTS and are named in their modules: `MaxTokens`,
`MaxCandidates`, `MaxTime`, `MaxResets`, `MaxEdits`, `Tokens`, `RefreshTokens`, `MaxLost`, `MaxRuns`,
`MaxDeltas`, `MaxWrites`, `MaxActs`, `Days`. Symmetry is used where the elements are
interchangeable and no liveness is checked. CHECK_DEADLOCK is off where the system simply stops when
the calls of the instance are used up (limiter, keys, routing, identity, playground, panel); `Gateway`
says so itself (`Finished`) and is checked for deadlock, and so is `Session`.

Fairness. `FairSpec` of `Gateway` is weak fairness of `Step(r)` for each request, and nothing else.
The code justifies it: the event loop runs every ready handler; an upstream call ends because httpx
has a timeout; waiting for a connection ends because QueuePool has one; waiting for a row or a unique
id ends because its holder's transaction does. `Emit`, `Disconnect` and `Crash` are not fair: nobody
is obliged to send bytes, to leave or to die. The circle in which requests hold connections, one holds
the key's row, and that one waits for another connection is broken by `ObservationLost`, which is the
pool's timeout swallowed by `record_failure_observation`: without it the property fails.

`Spec` of `Playground` is weak fairness of what arrives for each run (`Arrives(r)`): the API answers
every call, a stream included, with an error if the provider does not; nobody is obliged to press Run
or Stop. `RunsEnd` fails for a stream without end, which is one of its mutants.

## 4. Properties

* **LedgerBalances** - a committed SUCCEEDED request has exactly one good attempt, the last one, final,
  with the request's own number and tokens; anything else has failed attempts only, which cost
  nothing. **NoFailoverAfterHardFailure**, **GivenUpForCause** - failover goes on exactly as long as it
  should. **OneVoice** - a stream never splices two providers. **AnswerMatchesLedger** - a later
  commit, if there is one, agrees with what the client was told. **CommittedIsImmutable** - rows become
  visible whole and stay. **EveryRequestEnds** - liveness, under `FairSpec`.
* **RefusedNotForEver** - a counter that has refused somebody has an expiry. **AtMostTwiceTheLimit** -
  what a fixed window grants over any `Window` ticks. **FixedWindow** - refinement of `WindowLimiter`.
* **QuotaOvershootIsBounded**, **KeyCountIsBounded** - the price of checking before locking, bounded by
  the pool. **ServedAlone**, **RevocationIsFinal**.
* **EveryCandidateOnce**, **DownIsLastResort**, **FitterComesFirst**, **HealthNeverHurts**,
  **RotationAdvances** - of decisions made query by query over changing tables. For round robin,
  HealthNeverHurts compares only providers of unchanged priority and weight: the engine rotates the list
  as sorted by them, so a provider that is preferred more may move back. The proof found this; with
  the two profiles of the run TLC does not meet it.
* **OwnerRemains**, **CrownsComeFromOwners**, **ParentsAreSpent**, **SuspensionBites**.
* **ScreenAgreesWithJar** - once nothing is under way, behind the pages there is a live session of the
  user shown, behind the sign-in form none. **OneUserAtATime** - cache and calls belong to the user on
  the screen: clearing the cache keeps the queries of one session out of the next (calls that clearing does
  not abort are excepted, section 6). **AloneItSucceeds** - a call is refused only when refreshes compete.
* **OwnWritesShown** - after a write and its refreshes no page goes on showing the old state as fresh.
  **NothingIsRefused** - the two places that say what a role may do agree (settings excepted).
  **WaitsForAFetch** - whoever waits, waits for a fetch under way.
* **ShowsTheLastRun**, **SpinnerHasALoop**, **RunsEnd** - of the playground, whatever was stopped.

Every property is shown to bite by a mutant of the code's definition: the operators named
`Definition_Something` stand next to the definition they change and are used by nothing else.

## 5. Proofs

TLAPS proves for every value of the constants what the runs show on one.

* `GatewayProofs` - from `GatewayAssumption` (finitely many requests and candidates, at least one
  connection). `Inv` is `TypeOK` and, for each request, `RequestOK`: what the phase implies about the
  order (no candidate twice), the open rows (attempts are numbered up to `tried`, all failed while the
  loop runs, all but the last retryable, each made with the candidate of its number), the bytes
  (only of the current candidate), the answer and the committed rows. None of the properties is
  inductive: they speak of `ledger`, which is `txn` at an earlier moment, so the invariant carries
  the same facts for `txn` phase by phase. One lemma per action, one step per conjunct it disturbs.
  Theorems: `TypeCorrect`, `LedgerAlwaysBalances`, `FailoverStops`, `StreamsSpeakWithOneVoice`,
  `AnswersMatch`, and the action property `CommittedRowsStay`.
  `FailsOnlyForCause` needs the reason a request failed at the moment it fails, long before it is
  committed. `CauseInv` says, for every phase, what lies behind the candidate the loop stands at (an
  attempt, or a candidate that cannot stream) and that a request which is closed as failed has a
  final failure, no candidate left, or its time up; the reason then travels with `txn` into `ledger`.
* `RateLimiterProofs` - from `LimiterAssumption`. `LInv` adds that a counter with an expiry exists and
  expires no earlier than a window after its birth, and that no call was counted by a later counter.
  With it `RefusalEnds` follows, and `LimiterTypeCorrect`, and `ImplementsFixedWindow`: every step is a step of `WindowLimiter`
  or leaves its variables alone.
  `GrantsAreBounded` counts. `CapInv` numbers the calls a counter grants (`Numbered`: different calls
  of one counter got different replies of INCR, none above the limit) and spaces the counters out
  (`FarApart`: calls that 2 + resets counters apart counted were made a window apart, since a counter
  ends by lapsing, after a window, or by one of the resets). So the calls allowed within a window map one to one to pairs of a
  counter modulo 2 + resets and a number up to the limit, and there are (2 + resets) * Limit of those.
* `ApiKeysProofs` - from `KeysAssumption`. The invariant behind `OvershootBounded` is a reserve:
  billed tokens, plus `MaxTokens` for each request that passed the check and has not been billed, stay
  below the ceiling plus what a full pool may bill; behind `KeyCountBounded`, the same with
  administrators that have counted and not yet inserted. Their preservation needs cardinalities
  of the sets of sessions in each phase, which are lemmas of the module. `HoldersAreAlone` and
  `RevocationHolds` follow from the lock discipline.
* `IdentityProofs` - from `IdentityAssumption`. What a request checked may be stale when it writes, so
  `IInv` keeps only what survives the others' commits: accounts, crowns and issued tokens never go
  away, nobody crowns himself but by a bootstrap (`Grows`), an update that may write a role has seen
  that its target is not the bootstrap's owner, and requests about to commit touch different rows
  (`Exclusive`). `Bystander` says that such facts outlive every step of another request; each action
  then owes its own request's part and the tables' part. Theorems: `OwnerTheorem`, `CrownsTheorem`,
  `ParentsTheorem`, `SuspensionTheorem`, for any number of concurrent requests.
* `PlaygroundProofs` - from `PlaygroundAssumption`. `PlaygroundInv` says that only the run started
  last can spin, its loop being alive, and that, until two loops overlap, no other loop is alive and
  the one alive has concluded nothing. Theorems: `PlaygroundTypeCorrect`, `SpinnersEndTheorem`,
  `LastRunTheorem`, for any number of runs and pieces.
* `RoutingProofs` - from `RoutingAssumption`. Three layers. Keys: each strategy's tuples are compared
  from the left and end in the candidate's own name, so `Precedes` is irreflexive, transitive and total
  on the candidates of any sheet. Places: a candidate's place is one more than the number ahead of it;
  under a strict total order on a finite set places grow along the order and fill 1..n, and a rotation
  by any offset permutes them. Decisions: `RInv` says that a decision ranks just what it resolved with
  what it read (`RankedAsRead`), and that what it read of a provider is still true unless the provider has
  `moved` since (`HonestReads`). Theorems: `EveryCandidateIsTriedOnce`, `DownComesLast`,
  `FitterIsTriedFirst`, `BetterHealthNeverHurts`, `RotationTurns` (the offset is used modulo the number
  of eligible candidates, and no wrap loses a turn), and `SimulationAgrees`: what the run
  `routing_simulation` refutes holds once rotation is set apart.
* `SessionProofs` - from `SessionAssumption`. `SInv` is `Base`, which holds whatever is lost or mixed up
  (types, the shape of each call's record phase by phase, and `GrantsAreFresh`: a token under way is live
  and nobody else's), and `Stage`, which holds until a sign-out meets other calls: the screen is loading,
  a form, or pages, and each says which calls may be open, on whose behalf, with which tokens, and,
  while no message was lost, that the jar is live. A refresh that is overtaken shows as a call that is
  `disturbed`. Theorems: `TokensArriveAlive`, `OneUserAtATimeHolds`, `ScreenTellsTheTruth`,
  `AloneACallSucceeds`, for any number of users, parallel calls and tokens.
* `PanelProofs` - from `PanelAssumption` and the three assumptions about the tables. A move may close an
  entry while writes wait for it, open it again, or leave it alone; `PanelInv` keeps, with the
  type, that each write is at a step its mutation has and that whoever waits looks at an entry being
  fetched. `FreshInv` concerns a write from the step that refreshes the entry on (`Passed`), not only once
  it is done: the entry shows the write, or is missing or stale and out of sight, failed, or being fetched
  by a call that has not been answered without it (`Fresh`). Each step of cache and administrator keeps an
  entry as fresh as it was (`EntryKeeps`), and only the refresh itself makes a write pass. `OfferInv`
  keeps a dialog tied to a control that opens it for the role, and a write under way to a role that may
  make it. Theorems: `PanelTypeCorrect`, `NobodyWaitsInVain`, `WritesAreShown`, `OffersAreHonoured`, for
  any roles, any number of writes and moves, and any tables that meet the assumptions.

Only model-checked: `EveryRequestEnds` and `RunsEnd` (liveness under fairness and ENABLED are out of the
prover's reach). The assumptions about the tables of `Pages` are left to TLC as well: they are finite
enumerations over fourteen pages, through a fold (`CallOf`) that the provers cannot unfold. No result rests
on induction over data, and no module declares a RECURSIVE operator. The three statements of section 6 that
runs refute are, of course, not theorems.

## 6. Where the code and its documentation disagree

Shown by a run each:

* `routing_simulation`: `docs/api.md:391` says a simulated decision cannot disagree with reality; live
  traffic never passes a rotation offset, the simulator does.
* `identity_refresh`: `auth/service.py:161` calls the presented token single-use; two refreshes that
  read it before either writes both get a session.
* `calendar`: `test/usage-page.test.tsx:294` says the conversion "round-trips Gregorian and Jalali
  dates" and `jalali.ts:6` that it is the standard algorithm; from the 187th day of the Jalali year on,
  `toJalali` starts counting months from zero again, so a filter filled in on 22 September 2024 asks the
  API for 20 March. The dates of the test lie in the first half of a year.

Noted while reading the backend, without a run of their own:

* a failed request may have no final attempt, which `models/usage.py:139` promises; `attempt_count`
  counts candidates that were skipped or cut off by the deadline, which `models/usage.py:7` calls the
  attempts the request took; `router/engine.py:111` says failover walks the fallback chain, the engine
  sorts the chain's order away;
* two bootstraps with different addresses both become owner (`auth/service.py:82`, README "one-time
  owner account creation"); a promotion that commits between the check and the write of a role change
  may be overwritten (only the bootstrap's owner is safe from it, `OwnerRemains`); a logout that races a refresh leaves the successor session alive;
* `docs/operations.md` section 6 describes a per-process fallback counter that does not exist
  (`rate_limit.py:175` lets the call through); the priority strategy does not break ties by weight and
  the weighted one does not put healthy providers before degraded ones, as comments in
  `router/engine.py` and the table in `docs/api.md` say; the rule conditions `api_key_id`, `min_tokens`
  and `max_tokens` are accepted and never read; a stream that fails after its first bytes sends two
  error frames (`services/gateway.py:440`, `484`);
* `services/gateway.py:14-17` promises that a failing upstream produces a normal answer, "so the unit of
  work commits and the usage record survives". A stream whose connection fails is not translated to
  an upstream error (`providers/adapters.py:483`), so the exception passes the loop, no attempt is
  recorded, no other candidate is tried, and the exit code rolls the request's row back
  (`StreamBreaks`): of that request the ledger keeps nothing.

And while reading the panel:

* Sessions. Parallel calls that meet a 401 refresh with one cookie; one may be refused, shows an error,
  and clears the tokens the other stored (the next call refreshes again). A sign-out whose own refresh
  is refused that way signs out locally and leaves a live cookie behind: a reload signs the
  administrator in again; so does a sign-out while offline. A refresh that outlives its sign-out stores
  tokens and a cookie of the old session, into the next one if somebody else has signed in. A session
  that has ended shows errors page by page and never the sign-in form: `tokenStore.subscribe` has no
  subscriber.
* `BootstrapPage.tsx:3` says the setup form is "shown only while the API reports `requires_bootstrap:
  true`". `AuthGate` chooses by `bootstrapAllowed`, which a login takes back (`AuthProvider.tsx:96`) and
  the setup does not (102-110): who signs out after the first-run setup is shown the setup form again,
  and the API refuses whatever is submitted there, until the page is reloaded (`Arrive`, `SubmitLogin`,
  `ServeLogin`).
* Refreshes that are missing from `Promised`: the connectivity test on a provider's page refreshes
  neither its credentials nor the list; what is done in a list does not refresh the open detail entry
  (`toggle`, `test` under "provider" and "model"); deprecating on a model's page does not refresh the
  list; creating and deleting models leaves the counts of the providers as they were; deleting a
  provider leaves its models, endpoints and credentials; of all writes only those of settings refresh
  the audit log, and only a run of health checks the dashboard. Each of these is up to date when the
  entry is next fetched, at the latest when its page opens once it is thirty seconds old. The impact a
  delete dialog states may be as old; `ProvidersPage.tsx:4` calls it the real impact. Rebuilding the rollups refreshes a summary that is
  not computed from them.
* The secret of a new key is revealed only after the list was refreshed: who leaves the page meanwhile
  never sees it. `SecretRevealDialog.tsx:5` says it cannot be dismissed by accident; Escape and a
  click beside it dismiss it. A success that arrives late closes whatever dialog of its kind is open.
* `UsersPage.tsx:4` and `app/auth/dependencies.py:3` say that the panel hides what a role may not do;
  the settings page offers its controls to every role, and the API refuses.
* `parseJalaliInput` does not check the day against the month, and dates are those of UTC.
* Stop in the playground aborts nothing: the answer goes on arriving, and is paid for; the loop of the
  stopped run and the next one's write to the same panel, and their texts mix (`ShowsTheLastRun` excepts
  it).
* The test button in the list of providers is never disabled (`ProvidersPage.tsx:304`): tests overlap, and
  the box below the table shows the result of the one that ends last under the name of the one started
  last.

## 7. What is left out, and the plan

Left out for good: the wire formats of providers, message conversion, cost arithmetic (Decimal over
prices: no control depends on it), explanations and reasons, Persian and English texts, exports and
aggregates (SQL over rows without state of its own), the fields of forms and their checks, layout and
theme, process start. SQLite, which the tests use, serialises writers and shows none of the
interleavings modelled here.

Order of the plan; 1 to 7 and 9 are done:

1. `Gateway` with its ledger runs and progress; `GatewayProofs`.
2. `WindowLimiter`, `RateLimiter`; `RateLimiterProofs`.
3. `ApiKeys`; `ApiKeysProofs`.
4. `RoutingEngine`, `Routing`.
5. `Identity`; `IdentityProofs`.
6. `Session`; `Calendar`; `Playground`, `PlaygroundProofs`.
7. `Pages`, `Panel`; `PanelProofs`.
8. `Health`: probes (`verify`, `test_connection`, batch runs of the scheduler) as long transactions over
   providers, credentials and the observation history, racing with rotation and revocation; discovery
   as one transaction over many rows.
9. `RoutingProofs`, `SessionProofs`, and theorems for every safety property the passing runs check.
10. Lemmas that tie the components together: the orders `Gateway` takes from `Orders` are those
    `RoutingEngine` can return, and `serving` in `ApiKeys` is what `HoldsKey` says in `Gateway`.

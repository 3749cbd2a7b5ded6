------------------------------- MODULE Routing -------------------------------
(***************************************************************************)
(* Routing decisions for one requested model (services/routing.py): live   *)
(* traffic and the panel's simulator ask while administrators edit rules   *)
(* and providers, health checks arrive and usage is recorded.              *)
(*                                                                         *)
(* Transactions are READ COMMITTED and a decision is a series of queries:  *)
(* the candidates, the rule, then the signals of one provider at a time.   *)
(* Each query is a step here, so a decision may mix states of the tables.  *)
(***************************************************************************)
EXTENDS RoutingEngine

CONSTANTS
  Calls,       \* gateway calls that ask for a decision
  Simulations, \* runs of the panel's simulator
  Slots,       \* rows of routing_rules, numbered by (priority, created_at)
  RuleChoices, \* the rules a run explores, within Rule
  Requested,   \* the strategies simulations ask for, "none" to go by the rules
  Profiles,    \* the assignments of profiles to providers a run explores
  Observations,\* the health checks a run explores, within Observation
  Samples,     \* the latencies of attempts a run explores
  MaxEdits     \* bound: changes of the tables after the start

Askers == Calls \cup Simulations

Patterns == {"none", "match", "other"}

\* Targets are model ids: one model row per provider, so providers stand for them.
Rule == [strategy: Strategies, targets: SUBSET Providers, pattern: Patterns,
         chain: Seq(Providers), enabled: BOOLEAN]

Profile == [priority: Nat, weight: Nat, price: Nat \cup {-1}]

Observation == [status: HealthStatuses, latency: Nat]

NoRule == [strategy |-> "absent"]

ASSUME RoutingAssumption ==
  /\ Calls \cap Simulations = {}
  /\ Slots \subseteq Nat
  /\ RuleChoices \subseteq Rule
  /\ Requested \subseteq Strategies \cup {"none"}
  /\ Profiles \subseteq [Providers -> Profile]
  /\ Observations \subseteq Observation
  /\ Samples \subseteq Nat
  /\ MaxEdits \in Nat

VARIABLES
  serving,  \* providers whose model, provider and credential are usable
  profile,  \* profile[p]: the columns of p and of its model that are scored
  check,    \* check[p]: the latest health check; its latency 0 is NULL or 0
  usage,    \* usage[p]: sum and number of positive latencies of good attempts
  attempts, \* how many usage records the model has
  rules,    \* rules[s]: the rule of the slot
  edits,    \* how many changes the tables have seen
  pc,       \* pc[a]: the query asker a does next
  offset,   \* offset[a]: the rotation offset a passes to the engine
  asked,    \* asked[a]: the strategy a simulation asks for instead of a rule's
  found,    \* found[a]: the candidates a resolved
  chosen,   \* chosen[a]: the strategy and the fallback chain a goes by
  unread,   \* unread[a]: candidates whose signals a has yet to read
  sheet,    \* sheet[a]: what a has read about every candidate
  decision, \* decision[a]: the place of every candidate a found
  moved     \* moved[a]: providers whose health changed since a began to decide

tables == <<serving, profile, check, usage, attempts, rules>>
asking == <<pc, offset, asked, found, chosen, unread, sheet, decision>>
vars == <<tables, edits, asking, moved>>

Blank == [p \in Providers |->
           [priority |-> 0, weight |-> 0, price |-> -1,
            health |-> "unknown", latency |-> 0]]

Init ==
  /\ serving = Providers
  /\ profile \in Profiles
  /\ check = [p \in Providers |-> [status |-> "unknown", latency |-> 0]]
  /\ usage = [p \in Providers |-> [sum |-> 0, count |-> 0]]
  /\ attempts = 0
  /\ rules \in [Slots -> RuleChoices \cup {NoRule}]
  /\ edits = 0
  /\ pc = [a \in Askers |-> "idle"]
  /\ offset = [a \in Askers |-> 0]
  /\ asked = [a \in Askers |-> "none"]
  /\ found = [a \in Askers |-> {}]
  /\ chosen = [a \in Askers |-> [strategy |-> "priority", chain |-> <<>>]]
  /\ unread = [a \in Askers |-> {}]
  /\ sheet = [a \in Askers |-> Blank]
  /\ decision = [a \in Askers |-> <<>>]
  /\ moved = [a \in Askers |-> {}]

-----------------------------------------------------------------------------
(* What the tables answer. *)

\* A model id that no rule targets.
NoModel == -1

\* rule_matches, for the model row the caller names.
RuleMatches(rule, p) ==
  \/ p \in rule.targets
  \/ rule.pattern = "match"
  \/ rule.targets = {} /\ rule.pattern = "none"

Matching(p) ==
  {s \in Slots : rules[s] # NoRule /\ rules[s].enabled /\ RuleMatches(rules[s], p)}

\* strategy_for: the first matching rule, PRIORITY without one.
StrategyFor(p) ==
  IF Matching(p) = {} THEN [strategy |-> "priority", chain |-> <<>>]
  ELSE LET s == CHOOSE s \in Matching(p) : \A t \in Matching(p) : s <= t
       IN [strategy |-> rules[s].strategy, chain |-> rules[s].chain]

\* The candidate of D that comes first in the resolved order of a sheet.
FirstOf(D, sh, chain) ==
  CHOOSE p \in D : \A q \in D \ {p} :
    Precedes(ResolvedKey(p, sh[p], chain), ResolvedKey(q, sh[q], chain))

\* provider_signals: the latest check, and its latency or the average of the
\* successful attempts.
Latency(p) ==
  IF check[p].latency # 0 THEN check[p].latency
  ELSE IF usage[p].count = 0 THEN 0
  ELSE usage[p].sum \div usage[p].count

-----------------------------------------------------------------------------
(* The tables change. *)

\* Bound: changes are explored only while some decision is under way.
Edit ==
  /\ edits < MaxEdits
  /\ edits' = edits + 1
  /\ \E a \in Askers : pc[a] \notin {"idle", "done"}

\* A health check is recorded: by the scheduler, by an administrator, or by the
\* gateway after a failed attempt.
Observe(p) ==
  /\ Edit
  /\ \E seen \in Observations : check' = [check EXCEPT ![p] = seen]
  /\ moved' = [a \in Askers |->
                 IF pc[a] = "idle" THEN {} ELSE moved[a] \cup {p}]
  /\ UNCHANGED <<serving, profile, usage, attempts, rules, asking>>

\* The gateway commits an attempt; only a good one with a positive latency counts
\* towards the average.
RecordUsage(p) ==
  /\ Edit
  /\ attempts' = attempts + 1
  /\ \E good \in BOOLEAN, l \in Samples :
       usage' = IF good /\ l > 0
                THEN [usage EXCEPT ![p] = [sum |-> @.sum + l, count |-> @.count + 1]]
                ELSE usage
  /\ UNCHANGED <<serving, profile, check, rules, asking, moved>>

\* create_rule, update_rule and delete_rule.
WriteRule(s) ==
  /\ Edit
  /\ \E rule \in RuleChoices \cup {NoRule} :
       /\ rule # rules[s]
       /\ rules' = [rules EXCEPT ![s] = rule]
  /\ UNCHANGED <<serving, profile, check, usage, attempts, asking, moved>>

\* Whether p can serve is the conjunction of enabled columns and a usable
\* credential: a change of one may turn it either way or not at all.
MayServe(p) == serving' \in {serving, serving \cup {p}, serving \ {p}}

\* ProviderService.update: any of the provider's columns at once.
AlterProvider(p) ==
  /\ Edit
  /\ MayServe(p)
  /\ \E wanted \in Profiles :
       profile' = [profile EXCEPT ![p].priority = wanted[p].priority,
                                  ![p].weight = wanted[p].weight]
  /\ <<serving', profile'>> # <<serving, profile>>
  /\ UNCHANGED <<check, usage, attempts, rules, asking, moved>>

\* ModelService.update: the prices of p's model, and whether it is enabled.
AlterModel(p) ==
  /\ Edit
  /\ MayServe(p)
  /\ \E wanted \in Profiles : profile' = [profile EXCEPT ![p].price = wanted[p].price]
  /\ <<serving', profile'>> # <<serving, profile>>
  /\ UNCHANGED <<check, usage, attempts, rules, asking, moved>>

\* CredentialService: the credential p is reached with is created, revoked, made
\* valid again or deleted.
AlterCredential(p) ==
  /\ Edit
  /\ MayServe(p)
  /\ serving' # serving
  /\ UNCHANGED <<profile, check, usage, attempts, rules, asking, moved>>

-----------------------------------------------------------------------------
(* Deciding. *)

\* strategy_for: what the caller asks for goes before every rule.
Strategy(asks, p) ==
  IF asks = "none" THEN StrategyFor(p) ELSE [strategy |-> asks, chain |-> <<>>]

\* Mutant: the offset of the last request, not of the next one.
RoundRobinOffset_Last(asks) ==
  IF Strategy(asks, NoModel).strategy = "round_robin" THEN attempts - 1 ELSE 0

\* _next_round_robin_offset: strategy_for without a model id, which no rule
\* targets, then a count of the model's usage records.
RoundRobinOffset(asks) ==
  IF Strategy(asks, NoModel).strategy = "round_robin" THEN attempts ELSE 0

\* simulate begins.
Simulate(a) ==
  /\ a \in Simulations
  /\ pc[a] = "idle"
  /\ \E asks \in Requested :
       /\ asked' = [asked EXCEPT ![a] = asks]
       /\ offset' = [offset EXCEPT ![a] = RoundRobinOffset(asks)]
  /\ pc' = [pc EXCEPT ![a] = "resolving"]
  /\ UNCHANGED <<tables, edits, found, chosen, unread, sheet, decision, moved>>

\* resolve_candidates: the usable candidates with the columns that are scored.  It
\* is the gateway's first query: the gateway never passes an offset.
ResolveCandidates(a) ==
  /\ pc[a] = IF a \in Calls THEN "idle" ELSE "resolving"
  /\ found' = [found EXCEPT ![a] = serving]
  /\ unread' = [unread EXCEPT ![a] = serving]
  /\ sheet' = [sheet EXCEPT ![a] =
                 [p \in Providers |->
                    [Blank[p] EXCEPT !.priority = profile[p].priority,
                                     !.weight = profile[p].weight,
                                     !.price = profile[p].price]]]
  /\ pc' = [pc EXCEPT ![a] = IF serving = {} THEN "done" ELSE "matching"]
  /\ UNCHANGED <<tables, edits, offset, asked, chosen, decision, moved>>

\* The rule is matched against the model row of the first candidate.
MatchRule(a) ==
  /\ pc[a] = "matching"
  /\ chosen' = [chosen EXCEPT ![a] =
                  Strategy(asked[a], FirstOf(found[a], sheet[a], <<>>))]
  /\ pc' = [pc EXCEPT ![a] = "reading"]
  /\ UNCHANGED <<tables, edits, offset, asked, found, unread, sheet, decision, moved>>

\* One provider's signals; the last ones complete the sheet, and ranking it needs
\* no further query.
ReadSignals(a) ==
  /\ pc[a] = "reading"
  /\ LET p    == FirstOf(unread[a], sheet[a], chosen[a].chain)
         read == [sheet[a] EXCEPT ![p].health = check[p].status, ![p].latency = Latency(p)]
     IN /\ sheet' = [sheet EXCEPT ![a] = read]
        /\ unread' = [unread EXCEPT ![a] = @ \ {p}]
        /\ IF unread[a] # {p} THEN UNCHANGED <<pc, decision>>
           ELSE /\ pc' = [pc EXCEPT ![a] = "done"]
                /\ decision' = [decision EXCEPT ![a] =
                     Rank(found[a], chosen[a].strategy, read, chosen[a].chain, offset[a])]
  /\ UNCHANGED <<tables, edits, offset, asked, found, chosen, moved>>

Query(a) ==
  \/ Simulate(a) \/ ResolveCandidates(a) \/ MatchRule(a) \/ ReadSignals(a)

Next ==
  \/ \E a \in Askers : Query(a)
  \/ \E p \in Providers : Observe(p) \/ RecordUsage(p)
  \/ \E p \in Providers : AlterProvider(p) \/ AlterModel(p) \/ AlterCredential(p)
  \/ \E s \in Slots : WriteRule(s)

Spec == Init /\ [][Next]_vars

-----------------------------------------------------------------------------
(* Properties. *)

TypeOK ==
  /\ serving \subseteq Providers
  /\ profile \in [Providers -> Profile]
  /\ check \in [Providers -> Observation]
  /\ usage \in [Providers -> [sum: Nat, count: Nat]]
  /\ attempts \in Nat
  /\ rules \in [Slots -> RuleChoices \cup {NoRule}]
  /\ edits \in 0..MaxEdits
  /\ pc \in [Askers -> {"idle", "resolving", "matching", "reading", "done"}]
  /\ offset \in [Askers -> Nat]
  /\ asked \in [Askers -> Strategies \cup {"none"}]
  /\ found \in [Askers -> SUBSET Providers]
  /\ \A a \in Askers : chosen[a].strategy \in Strategies /\ chosen[a].chain \in Seq(Providers)
  /\ \A a \in Askers : unread[a] \subseteq found[a]
  /\ sheet \in [Askers -> [Providers -> Score]]
  /\ \A a \in Askers : pc[a] = "done" => DOMAIN decision[a] = found[a]
  /\ moved \in [Askers -> SUBSET Providers]

Decided(a) == pc[a] = "done" /\ found[a] # {}

\* A decision tries every candidate that was found exactly once: the places are
\* 1..n without a gap or a tie, whatever the strategy and however equal the scores.
EveryCandidateOnce ==
  \A a \in Askers : Decided(a) =>
    {decision[a][p] : p \in found[a]} = 1..Cardinality(found[a])

\* A provider that was down all the while the decision was made is a last resort:
\* it comes after every candidate that was not down all the while.  What counts is
\* the tables, not what the decision happened to read.
DownIsLastResort ==
  \A a \in Askers : Decided(a) =>
    \A p, q \in found[a] \ moved[a] :
      check[p].status = "down" /\ check[q].status # "down" =>
        decision[a][q] < decision[a][p]

\* Line t is at least as good as line s in every respect.
NoWorse(t, s) ==
  /\ HealthRank(t.health) <= HealthRank(s.health)
  /\ s.latency = 0 \/ t.latency \in 1..s.latency
  /\ s.price = -1 \/ t.price \in 0..s.price
  /\ t.priority <= s.priority
  /\ t.weight >= s.weight

\* Whatever the strategy of a rule (rotation apart), a candidate that is no worse
\* than another in health, latency, price, priority and weight, and first by name,
\* is tried before it.
FitterComesFirst ==
  \A a \in Askers : Decided(a) /\ chosen[a].strategy # "round_robin" =>
    \A p, q \in found[a] :
      NoWorse(sheet[a][p], sheet[a][q]) /\ p < q => decision[a][p] < decision[a][q]

SameQuestion(a, b) ==
  /\ Decided(a) /\ Decided(b)
  /\ found[a] = found[b]
  /\ chosen[a] = chosen[b]

\* Two decisions that differ only in that one provider was observed in better
\* health or faster, or also made cheaper or preferred, never move it further back.
\* Rotation is the exception for what is preferred: a better priority or weight
\* changes where in the rotation the provider stands.
HealthNeverHurts ==
  \A a, b \in Askers : SameQuestion(a, b) /\ offset[a] = offset[b] =>
    \A p \in found[a] :
      /\ NoWorse(sheet[b][p], sheet[a][p])
      /\ chosen[a].strategy = "round_robin" =>
           /\ sheet[b][p].priority = sheet[a][p].priority
           /\ sheet[b][p].weight = sheet[a][p].weight
      /\ \A q \in found[a] \ {p} : sheet[a][q] = sheet[b][q]
      => decision[b][p] <= decision[a][p]

\* One more usage record turns the rotation by one: with two candidates that are
\* not down, the next decision starts with another one.
RotationAdvances ==
  \A a, b \in Askers :
    /\ SameQuestion(a, b) /\ sheet[a] = sheet[b]
    /\ chosen[a].strategy = "round_robin"
    /\ Cardinality({p \in found[a] : Eligible(sheet[a][p])}) > 1
    /\ offset[b] = offset[a] + 1
    => \A p \in found[a] : decision[a][p] = 1 => decision[b][p] # 1

\* docs/api.md says that a simulated decision cannot disagree with reality.
SimulationMatchesTraffic ==
  \A a, b \in Askers :
    SameQuestion(a, b) /\ sheet[a] = sheet[b] => decision[a] = decision[b]
=============================================================================

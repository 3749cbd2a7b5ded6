---------------------------- MODULE RoutingEngine ----------------------------
(***************************************************************************)
(* The ordering rules of router/engine.py as operators.  The engine is     *)
(* pure: a sheet gives every candidate what it is scored by, a strategy    *)
(* turns a line of the sheet into a key, and candidates are sorted by key. *)
(*                                                                         *)
(* Sorting is stated by places: a candidate's place is one more than the   *)
(* number of candidates ahead of it.                                       *)
(***************************************************************************)
EXTENDS Integers, Sequences, FiniteSets, SequencesExt

CONSTANTS
  Providers,  \* the providers that have the requested model, numbered in the
              \* alphabetical order of their candidate key, slug:model
  Age         \* Age[p]: when p's model row was created

\* A slug is unique and a model's name is unique within its provider.
ASSUME EngineAssumption ==
  /\ Providers \subseteq Nat
  /\ IsFiniteSet(Providers)
  /\ Age \in [Providers -> Nat]
  /\ \A p, q \in Providers : Age[p] = Age[q] => p = q

Strategies == {"priority", "weighted", "round_robin", "latency_aware",
               "cost_aware", "failover"}

HealthStatuses == {"healthy", "degraded", "unknown", "rate_limited", "down"}

HealthRank(status) ==
  CASE status = "healthy"      -> 0
    [] status = "degraded"     -> 1
    [] status = "unknown"      -> 2
    [] status = "rate_limited" -> 3
    [] status = "down"         -> 9

\* A line of the sheet.  A latency of 0 means that there is no sample, a price
\* of -1 that neither price of the model is known.
Score == [priority: Nat, weight: Nat, price: Nat \cup {-1},
          health: HealthStatuses, latency: Nat]

\* Mutant: ELIGIBLE_STATUSES forgets to leave DOWN out.
Eligible_Down(s) == s.health \in HealthStatuses

Eligible(s) == s.health # "down"

-----------------------------------------------------------------------------
(* Key tuples, compared from the left. *)

Precedes(k, l) ==
  \E i \in 1..4 : k[i] < l[i] /\ \A j \in 1..(i - 1) : k[j] = l[j]

\* Mutant: no tie-breaker.
PriorityKey_Ties(p, s) == <<IF Eligible(s) THEN 0 ELSE 2, s.priority, 0, 0>>

PriorityKey(p, s) == <<IF Eligible(s) THEN 0 ELSE 2, s.priority, 0, p>>

WeightKey(p, s) ==
  IF Eligible(s) THEN <<0, -s.weight, s.priority, p>> ELSE <<2, 0, s.priority, p>>

\* Mutant: unknown is fast.
LatencyKey_UnknownIsFast(p, s) ==
  IF Eligible(s) THEN <<0, s.latency, s.priority, p>> ELSE <<2, 0, 0, p>>

\* Missing data: after what is measured, before what is down.
LatencyKey(p, s) ==
  CASE ~Eligible(s)                  -> <<2, 0, 0, p>>
    [] Eligible(s) /\ s.latency = 0  -> <<1, 0, s.priority, p>>
    [] Eligible(s) /\ s.latency # 0  -> <<0, s.latency, s.priority, p>>

CostKey(p, s) ==
  CASE ~Eligible(s)                  -> <<2, 0, 0, p>>
    [] Eligible(s) /\ s.price = -1   -> <<1, 0, s.priority, p>>
    [] Eligible(s) /\ s.price # -1   -> <<0, s.price, s.priority, p>>

HealthKey(p, s) == <<HealthRank(s.health), s.priority, s.priority, p>>

\* The order resolve_candidates returns, then decide's stable sort by the rule's
\* fallback chain: members of the chain first, in the order of the chain.
ChainPosition(p, chain) ==
  IF Contains(chain, p) THEN SelectInSeq(chain, LAMBDA x : x = p)
  ELSE Len(chain) + 1

ResolvedKey(p, s, chain) ==
  <<ChainPosition(p, chain), s.priority, -s.weight, Age[p]>>

-----------------------------------------------------------------------------
(* Ranking the candidates C of a sheet. *)

\* How many candidates of D come before p in the resolved order.
ResolvedIndex(p, D, sheet, chain) ==
  Cardinality({d \in D : Precedes(ResolvedKey(d, sheet[d], chain),
                                  ResolvedKey(p, sheet[p], chain))})

\* Mutant: the offset is not applied.
RotationKey_Stuck(p, C, sheet, chain, offset) ==
  <<IF Eligible(sheet[p]) THEN 0 ELSE 2, ResolvedIndex(p, C, sheet, chain), 0, p>>

\* Rotation moves the eligible candidates only; the rest keeps its order.
RotationKey(p, C, sheet, chain, offset) ==
  LET eligible == {c \in C : Eligible(sheet[c])}
  IN IF p \in eligible
     THEN <<0, (ResolvedIndex(p, eligible, sheet, chain) - offset)
                 % Cardinality(eligible), 0, p>>
     ELSE <<2, ResolvedIndex(p, C \ eligible, sheet, chain), 0, p>>

Key(p, C, strategy, sheet, chain, offset) ==
  CASE strategy = "priority"      -> PriorityKey(p, sheet[p])
    [] strategy = "weighted"      -> WeightKey(p, sheet[p])
    [] strategy = "latency_aware" -> LatencyKey(p, sheet[p])
    [] strategy = "cost_aware"    -> CostKey(p, sheet[p])
    [] strategy = "failover"      -> HealthKey(p, sheet[p])
    [] strategy = "round_robin"   -> RotationKey(p, C, sheet, chain, offset)

\* Decision.ordered puts the eligible candidates first, each part as sorted.
Ahead(q, p, C, strategy, sheet, chain, offset) ==
  \/ Eligible(sheet[q]) /\ ~Eligible(sheet[p])
  \/ /\ Eligible(sheet[q]) <=> Eligible(sheet[p])
     /\ Precedes(Key(q, C, strategy, sheet, chain, offset),
                 Key(p, C, strategy, sheet, chain, offset))

\* rank: the place of every candidate, 1 for the one tried first.
Rank(C, strategy, sheet, chain, offset) ==
  [p \in C |-> 1 + Cardinality(
     {q \in C : Ahead(q, p, C, strategy, sheet, chain, offset)})]
=============================================================================

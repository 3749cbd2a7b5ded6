------------------------------ MODULE MCRouting ------------------------------
(* Routing on a small instance: three providers, one rule, two decisions.      *)
EXTENDS Routing

CONSTANTS g1, s1

\* Model rows were created in the reverse of the alphabetical order.
MCAge == [p \in Providers |-> 4 - p]

MCRule(strategy, targets, pattern, chain) ==
  [strategy |-> strategy, targets |-> targets, pattern |-> pattern,
   chain |-> chain, enabled |-> TRUE]

MCRules ==
  {MCRule("latency_aware", {3}, "other", <<>>),
   MCRule("failover", {}, "match", <<3, 1>>),
   MCRule("round_robin", {}, "none", <<3, 2>>)}

\* A latency of 1 comes from the usage of a provider.
MCObservations ==
  {[status |-> "healthy", latency |-> 2], [status |-> "down", latency |-> 1]}

MCProfile(priority, weight, price) ==
  [priority |-> priority, weight |-> weight, price |-> price]

\* Alike but for a price that is not known; and different.
MCProfiles ==
  {[p \in Providers |-> MCProfile(1, 1, IF p = 1 THEN -1 ELSE 3)],
   [p \in Providers |-> CASE p = 1 -> MCProfile(1, 1, -1)
                          [] p = 2 -> MCProfile(1, 1, 3)
                          [] p = 3 -> MCProfile(2, 3, 1)]}

=============================================================================

SPECIFICATION Spec
CONSTANTS
  g1 = g1
  s1 = s1
  Providers = {1, 2, 3}
  Age <- MCAge
  Calls = {g1}
  Simulations = {s1}
  Slots = {1}
  RuleChoices <- MCRules
  Profiles <- MCProfiles
  Observations <- MCObservations
  Requested = {"none", "weighted", "cost_aware"}
  Samples = {1}
  MaxEdits = 2
INVARIANT SimulationMatchesTraffic
CHECK_DEADLOCK FALSE

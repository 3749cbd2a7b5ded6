SPECIFICATION Spec
CONSTANTS
  r1 = r1
  r2 = r2
  r3 = r3
  k1 = k1
  k2 = k2
  w1 = w1
  w2 = w2
  c1 = c1
  c2 = c2
  c3 = c3
  Requests = {r1, r2}
  Keys = {k1}
  WireIds = {w1, w2}
  Failures = {"unavailable", "unauthorized"}
  Kinds = {"chat", "stream", "embeddings"}
  Candidates = {c1, c2, c3}
  NonStreaming = {c3}
  MaxCandidates = 2
  PoolSize = 2
  MaxTokens = 1
SYMMETRY Symmetry
INVARIANTS
  TypeOK
  LedgerBalances
  NoFailoverAfterHardFailure
  OneVoice
  AnswerMatchesLedger
  GivenUpForCause
PROPERTY CommittedIsImmutable

\* Two concurrent callers that share a key; heartbeats may go stale, the
\* policy mode is switched and expires.  No symmetry: liveness is checked.
SPECIFICATION Spec
CONSTANTS
  Callers = {c1, c2}
  Nodes = {n1}
  Keys = {k1}
  NoKey = NoKey
  Tools <- MCTools
  RiskOf <- MCRiskOf
  ToAggressive <- MCToAggressive
  ToGuarded <- MCToGuarded
  Durations = {0, 1}
  Requests <- MixedRequests
  MaxAge = 0
  FailClosed = TRUE
  MaxJobs = 2
  MaxTime = 2
INVARIANTS
  TypeOK
  RunsAreJustified
  DuplicateKeysOverlap
  OutcomesAreTold
  AggressiveModeWasGranted
PROPERTIES
  SettledJobsAreFinal
  ImplementsGuardedExecution
CHECK_DEADLOCK FALSE

\* A database that always answers, and a restart.
SPECIFICATION Spec
CONSTANTS
  Callers = {c1}
  Filers = {f1}
  Keys = {k1}
  NoKey = NoKey
  MaxFailures = 0
  MaxSeq = 2
  MaxBorn = 3
  MaxRestarts = 1
INVARIANT AuditIsDurable
CHECK_DEADLOCK FALSE

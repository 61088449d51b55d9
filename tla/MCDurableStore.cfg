\* Two calls, a client and the worker; writes may fail; one restart.
SPECIFICATION Spec
CONSTANTS
  Callers = {c1, c2}
  Filers = {f1}
  Keys = {k1}
  NoKey = NoKey
  MaxFailures = 1
  MaxSeq = 4
  MaxBorn = 3
  MaxRestarts = 1
SYMMETRY Symmetry
INVARIANTS
  TypeOK
  JobRowsFollowMemory
  TaskRowsFallBackToQueued
  SurvivingJobsAreAudited
PROPERTY AuditRowsStay
CHECK_DEADLOCK FALSE

\* Two callers, the script of the timer, two commits.
SPECIFICATION Spec
CONSTANTS
  Callers = {c1, c2}
  Timer = script
  RollbackOnFail = TRUE
  MaxCommits = 2
INVARIANTS
  TypeOK
  StatusNamesDeployed
PROPERTY DeploysConverge

\* Two callers, with both, one or none of the hooks' commands configured;
\* every command may fail and the process may restart.
SPECIFICATION Spec
CONSTANTS
  Callers = {c1, c2}
  NoOne = NoOne
  Durations = {0, 3}
  DefaultDuration = 2
  MaxTime = 6
SYMMETRY Symmetry
INVARIANTS
  TypeOK
  DifferenceIsExplained
  DeadlineIsGranted
CHECK_DEADLOCK FALSE

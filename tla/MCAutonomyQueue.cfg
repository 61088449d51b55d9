\* Scheduler, clients and the worker over three tasks of every kind.
SPECIFICATION Spec
CONSTANTS
  Recurring <- MCRecurring
  Interval <- MCInterval
  Filed <- MCFiled
  RiskOf <- MCRiskOf
  MaxTasks = 3
  MaxTime = 3
INVARIANTS
  TypeOK
  FilingsAreSpaced
  NoFailureIsDropped
  NoOvertaking
PROPERTY FiledTasksAreWorked
CHECK_DEADLOCK FALSE

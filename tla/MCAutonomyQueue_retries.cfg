\* A task that is always held, retried: how often?
SPECIFICATION Spec
CONSTANTS
  Recurring <- HeldRecurring
  Interval <- MCInterval
  Filed <- UrgentFiled
  RiskOf <- MCRiskOf
  MaxTasks = 4
  MaxTime = 3
INVARIANT RetriesAreBounded
CHECK_DEADLOCK FALSE

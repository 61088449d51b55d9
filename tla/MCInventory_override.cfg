\* A policy and an override of a lower priority for one workload.
SPECIFICATION Spec
CONSTANTS
  Callers = {c1}
  Blueprints = {dns}
  GivenIDs = {202}
  PolicyIDs = {p1, p2}
  Workloads = {w1}
  Priorities = {10, 100}
  MaxMachines = 1
PROPERTY OverrideIsSelected
CHECK_DEADLOCK FALSE

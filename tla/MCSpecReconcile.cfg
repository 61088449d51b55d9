\* An applier, an explainer and the worker.
SPECIFICATION RSpec
CONSTANTS
  Keys = {k1}
  Values = {empty, v1, v2}
  Empty = empty
  Appliers = {a1}
  Explainers = {e1}
  Reconciler = Reconciler
  NoKey = NoKey
  MaxApplies = 3
  MaxChanges = 2
INVARIANTS
  RTypeOK
  AppliesAreKept
  StaleIsQueued
PROPERTY DriftSettles
CHECK_DEADLOCK FALSE

\* Two calls at a time for two clients; any command may fail.
SPECIFICATION Spec
CONSTANTS
  Callers = {c1, c2}
  Clients = {p1, p2}
  Broken = Broken
  Down = Down
  MaxKeys = 3
  MaxApplies = 5
SYMMETRY Symmetry
INVARIANTS
  TypeOK
  AnswersNameTheKey
  LoneApplyServes
CHECK_DEADLOCK FALSE

\* Two callers, two nodes whose agents come and go, commands of each length.
SPECIFICATION Spec
CONSTANTS
  n1 = n1
  n2 = n2
  restart = restart
  update = update
  install = install
  Callers = {worker, client}
  Clients = {client}
  Nodes = {n1, n2}
  Bridge <- TwoBridges
  Commands = {restart, update, install}
  Limit <- TheLimits
  Forking = {install}
  Patience = 2
  MaxAge = 2
  MaxRunning = 2
INVARIANTS
  TypeOK
  OrphansAreLong
  HeartbeatsAreBacked
PROPERTY CallsAreAnswered

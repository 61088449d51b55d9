\* Inventory: two deployments at a time; three policies for two workloads.
\* SelfMigration: two callers, the management VM and another, the Proxmox API
\* configured; its answers may be lost, its tasks fail, and the process may
\* restart.
SPECIFICATION BothSpec
CONSTANTS
  Callers = {c1, c2}
  Blueprints = {dns, dhcp}
  GivenIDs = {202, 203}
  PolicyIDs = {p1, p2, p3}
  Workloads = {w1, w2}
  Priorities = {1, 2}
  MaxMachines = 5
  Migrators = {m1, m2}
  Guests = {proxmaster, other}
  Management = proxmaster
  Nodes = {n1, n2}
  First = n1
  Seed <- Spread
  Targets = {n1, n2, ghost}
  RealAPI = TRUE
INVARIANTS
  TypeOK
  RecordsResolve
  SelectionMatches
  MTypeOK
  CopiesAgree
PROPERTY LoneMoveAgrees
CHECK_DEADLOCK FALSE

SPECIFICATION Spec
CONSTANTS
  i1 = i1
  g1 = g1
  s1 = s1
  v1 = v1
  v2 = v2
  v3 = v3
  w1 = w1
  Ingresses = {i1}
  Gateways = {}
  Services = {}
  Volumes = {}
  Webhooks = {}
  HasArgo = FALSE
  InRor = TRUE
  ArgoManaged = {}
  HasAppSet = FALSE
  ArgoRestarts = FALSE
  StaleHooks = {}
  HeldHooks = {}
  Stuck = {}
  OperatorOwned = {}
  Retained = {}
  PodGaps = FALSE
  Bare = {}
  Orphans = {}
  RorFaults = {"no plugin", "purge fails"}
  Flaky = {"list", "ror", "mgmt"}
  DeadlinesHit = TRUE
  StaticIPs = TRUE
  Forgotten = {}
  LateMachines = FALSE
  Modes = {"delete", "preclean", "skipPreclean"}
INVARIANTS
  DeletedMeansReleased
PROPERTIES
  ImplementsGate
  DeletedOnlyAfterVerdict
CHECK_DEADLOCK FALSE

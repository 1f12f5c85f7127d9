SPECIFICATION Spec
CONSTANTS
  i1 = i1
  g1 = g1
  s1 = s1
  v1 = v1
  v2 = v2
  v3 = v3
  w1 = w1
  Ingresses = {i1}
  Gateways = {g1}
  Services = {s1}
  Volumes = {}
  Webhooks = {w1}
  HasArgo = TRUE
  InRor = FALSE
  ArgoManaged <- NetManaged
  HasAppSet = FALSE
  ArgoRestarts = TRUE
  StaleHooks = {}
  HeldHooks = {}
  Stuck = {}
  OperatorOwned = {}
  Retained = {}
  PodGaps = FALSE
  Bare = {}
  Orphans = {}
  RorFaults = {}
  Flaky = {"list", "delete", "ror"}
  DeadlinesHit = TRUE
  StaticIPs = FALSE
  Forgotten = {}
  LateMachines = FALSE
  Modes = {"preclean"}
INVARIANTS
  TypeOK
  CleanMeansReleased
CHECK_DEADLOCK FALSE

SPECIFICATION Spec
CONSTANTS
  i1 = i1
  g1 = g1
  s1 = s1
  v1 = v1
  v2 = v2
  v3 = v3
  w1 = w1
  Ingresses = {i1}
  Gateways = {}
  Services = {s1}
  Volumes = {}
  Webhooks = {}
  HasArgo = TRUE
  InRor = FALSE
  ArgoManaged <- NetManaged
  HasAppSet = FALSE
  ArgoRestarts = FALSE
  StaleHooks = {}
  HeldHooks = {}
  Stuck = {}
  OperatorOwned = {}
  Retained = {}
  PodGaps = FALSE
  Bare = {}
  Orphans = {}
  RorFaults = {}
  Flaky = {"argo"}
  DeadlinesHit = FALSE
  StaticIPs = FALSE
  Forgotten = {}
  LateMachines = FALSE
  Modes = {"preclean"}
INVARIANTS
  CleanMeansReleased
CHECK_DEADLOCK FALSE

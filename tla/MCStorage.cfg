SPECIFICATION Spec
CONSTANTS
  i1 = i1
  g1 = g1
  s1 = s1
  v1 = v1
  v2 = v2
  v3 = v3
  w1 = w1
  Ingresses = {}
  Gateways = {}
  Services = {}
  Volumes = {v1, v2, v3}
  Webhooks = {}
  HasArgo = FALSE
  InRor = FALSE
  ArgoManaged = {}
  HasAppSet = FALSE
  ArgoRestarts = FALSE
  StaleHooks = {}
  HeldHooks = {}
  Stuck = {}
  OperatorOwned = {v1}
  Retained = {}
  PodGaps = FALSE
  Bare = {v2}
  Orphans = {v3}
  RorFaults = {}
  Flaky = {"list", "delete"}
  DeadlinesHit = TRUE
  StaticIPs = FALSE
  Forgotten = {}
  LateMachines = FALSE
  Modes = {"preclean"}
INVARIANTS
  CleanMeansReleased
PROPERTIES
  FinalizersKept
CHECK_DEADLOCK FALSE

SPECIFICATION FairSpec
CONSTANTS
  i1 = i1
  g1 = g1
  s1 = s1
  v1 = v1
  v2 = v2
  v3 = v3
  w1 = w1
  Ingresses = {}
  Gateways = {}
  Services = {}
  Volumes = {v1}
  Webhooks = {}
  HasArgo = FALSE
  InRor = TRUE
  ArgoManaged = {}
  HasAppSet = FALSE
  ArgoRestarts = FALSE
  StaleHooks = {}
  HeldHooks = {}
  Stuck <- EndsStuck
  OperatorOwned = {}
  Retained = {}
  PodGaps = TRUE
  Bare = {}
  Orphans = {}
  RorFaults = {"no secret", "no cluster id"}
  Flaky = {"list", "delete", "argo", "scale", "ror", "agents", "mgmt"}
  DeadlinesHit = TRUE
  StaticIPs = TRUE
  Forgotten = {}
  LateMachines = TRUE
  Modes = {"delete", "skipPreclean"}
INVARIANTS
  DeletedMeansDead
PROPERTIES
  RunEnds
CHECK_DEADLOCK FALSE

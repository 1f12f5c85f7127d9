SPECIFICATION FairSpec
CONSTANTS
  i1 = i1
  g1 = g1
  s1 = s1
  v1 = v1
  v2 = v2
  v3 = v3
  w1 = w1
  Ingresses = {}
  Gateways = {g1}
  Services = {}
  Volumes = {v1, v3}
  Webhooks = {w1}
  HasArgo = TRUE
  InRor = TRUE
  ArgoManaged <- LiveManaged
  HasAppSet = TRUE
  ArgoRestarts = FALSE
  StaleHooks = {w1}
  HeldHooks = {}
  Stuck = {}
  OperatorOwned = {v1}
  Retained = {}
  PodGaps = FALSE
  Bare = {}
  Orphans = {v3}
  RorFaults = {}
  Flaky = {}
  DeadlinesHit = FALSE
  StaticIPs = FALSE
  Forgotten = {}
  LateMachines = FALSE
  Modes = {"delete"}
PROPERTIES
  HealthyRunSucceeds
CHECK_DEADLOCK FALSE

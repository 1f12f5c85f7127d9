SPECIFICATION Spec
CONSTANTS
  z1 = z1
  z2 = z2
  s1 = s1
  s2 = s2
  Zones = {z1, z2}
  Sites = {s1, s2}
  ZoneOf <- TwoZones
  Commands = {"kc", "use", "nn delete", "nn orphans", "get", "plain get"}
  MaxGen = 2
  MaxChanges = 2
  Claims <- Users
  CRDZones = {z1}
INVARIANTS
  TypeOK
  ResolvesTheOnlyOne
  GoneMeansGone
  AuditTellsTheTruth
PROPERTIES
  DeletesOnlyUnused
CHECK_DEADLOCK FALSE

SPECIFICATION Spec
CONSTANTS
  z1 = z1
  z2 = z2
  s1 = s1
  s2 = s2
  Zones = {z1, z2}
  Sites = {s1, s2}
  ZoneOf <- TwoZones
  Commands = {"kc"}
  MaxGen = 1
  MaxChanges = 0
  Claims = {}
  CRDZones = {z1}
INVARIANTS
  OnlyMatch
CHECK_DEADLOCK FALSE

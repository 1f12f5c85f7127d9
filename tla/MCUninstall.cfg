SPECIFICATION Spec
CONSTANTS
  p = p
  q = q
  kv = kv
  home = home
  opt = opt
  t1 = t1
  t2 = t2
  Plugins = {p}
  Aliases = {kv}
  Dirs = {home, opt}
  Path <- TwoDirs
  Rank <- ByName
  Home = home
  Latest = 2
  Windows = FALSE
  Terminals = {t1, t2}
  Options <- SomeOptions
  MaxEvents = 3
INVARIANT
  UninstallRemovesItsAliases
CHECK_DEADLOCK FALSE

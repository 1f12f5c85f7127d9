SPECIFICATION Spec
CONSTANTS
  p = p
  q = q
  kv = kv
  home = home
  opt = opt
  t1 = t1
  t2 = t2
  Plugins = {p, q}
  Aliases = {kv}
  Dirs = {home, opt}
  Path <- TwoDirs
  Rank <- ByName
  Home = home
  Latest = 2
  Windows = TRUE
  Terminals = {t1, t2}
  Options <- SomeOptions
  MaxEvents = 3
SYMMETRY Sym
INVARIANTS
  TypeOK
  NeverTorn
  UninstallIsComplete
  NeverConflictsWithItself
PROPERTIES
  TakesOnlyItsOwn
  RecordsWhatIsThere
CHECK_DEADLOCK FALSE

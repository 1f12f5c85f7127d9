SPECIFICATION Spec
CONSTANTS
  q = q
  r = r
  t1 = t1
  t2 = t2
  Words = {"a", "b", "get", "-v", "-z", "-z=p"}
  Flags = {"-v", "-z", "-z=p"}
  ZoneFlags = {"-z"}
  Equals = {"-z=p"}
  Builtins = {"get"}
  Installs <- OwnPlugins
  MaxArgs = 4
  Sources = 2
  Tokens = {"none", "good", "stale", "denied"}
  Installables = {"p"}
  Newest = 2
  MaxPublished = 1
  Commands <- TwoNames
  Places <- TwoPlaces
  Entries = {q, r}
  Shells = {t1, t2}
  MaxBackups = 2
  MaxRuns = 3
  ZoneNames = {q, r}
  Terms = {t1, t2}
  MaxZones = 3
  MaxEdits = 3
  Machines = {q, r}
  Guests = {q, r}
  MaxTurns = 1
SYMMETRY Sym
INVARIANTS
  RunsWhatWasTyped
  PublicPluginsInstall
  InstallsWhatWasPublished
  ExitTellsTheTruth
  ListsWhatIsInstalled
  NeverHalfWritten
  PreviousIsKept
  EndpointsAreControlPlanes
  DirectedAtTheCluster
  TempConfigRemoved
  HealthyIsHealthy
PROPERTIES
  InstallsOnlyUpgrades
  TouchesOnlyItsEntries
  EditsOneZone
CHECK_DEADLOCK FALSE

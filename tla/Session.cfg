CONSTANTS
  stub = stub
  trained = trained
  Absent = Absent
  Torn = Torn
  NoThread = NoThread
  Packers = {p1}
  Readers = {r1, r2}
  Builders = {r1, r2}
  Callers = {c1, c2}
  r1 = r1
  c1 = c1
  c2 = c2
  target <- MCTarget
  Machines <- MCMachine
  Releases <- MCRelease
  DevManifest <- MCDevManifest
  Configs <- MCConfigured
  MaxCommands = 2
  MaxCalls = 1
SPECIFICATION SessionSpec
INVARIANTS
  BundleTypeOK
  SoleReaderIsExact
  InitDevRepairs
  SessionTypeOK
  ScoresNeedRelease
  RuntimeLoadedOnce
PROPERTIES
  NoThreadStuck
CHECK_DEADLOCK FALSE

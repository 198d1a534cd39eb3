CONSTANTS
  stub = stub
  trained = trained
  Absent = Absent
  Torn = Torn
  NoThread = NoThread
  Packers = {p1}
  Readers = {r1, r2}
  Builders = {r1, r2}
  Callers = {c1, c2}
  r1 = r1
  c1 = c1
  c2 = c2
  target <- MCTarget
  Machines <- MCMachines
  Releases <- MCRelease
  DevManifest <- MCDevManifest
  Configs = {}
  MaxCommands = 2
  MaxCalls = 1
SPECIFICATION SessionSpec
PROPERTY HangsFallBack
CHECK_DEADLOCK FALSE

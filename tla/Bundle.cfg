CONSTANTS
  stub = stub
  trained = trained
  Absent = Absent
  Torn = Torn
  Packers = {p1}
  Readers = {r1}
  Releases <- MCReleases
  DevManifest <- MCDevManifest
  Configs <- MCConfigs
  MaxCommands = 3
SPECIFICATION BundleSpec
INVARIANTS
  BundleTypeOK
  SoleReaderIsExact
  InitDevRepairs
CHECK_DEADLOCK FALSE

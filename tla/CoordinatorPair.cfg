CONSTANTS
  Groups = {"base", "arm"}
  Workers = {"v", "w"}
  Workloads = {{"enable", "resume", "shutdown", "recover_resource", "maintain", "restore"}}
  Monitored = FALSE
  Unreliable = {"run", "unconfigured"}
  Maintained = {"arm"}
  MaxPending = 1
  MaxCrashes = 1
  MaxOrphans = 0
SPECIFICATION Spec
VIEW WithoutGenerations
INVARIANTS CoordTypeOK Watched UnresolvedStaysClosed
PROPERTIES LateCallsSpareSessions TeardownSparesSessions

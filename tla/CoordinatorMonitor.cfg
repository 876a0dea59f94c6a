CONSTANTS
  Groups = {"arm"}
  Workers = {"w"}
  Workloads <- MonitorWorkloads
  Monitored = TRUE
  Unreliable = {"halt", "release", "status", "write", "owner_status"}
  Maintained = {"arm"}
  MaxPending = 0
  MaxCrashes = 1
  MaxOrphans = 0
SPECIFICATION FairSpec
VIEW WithoutGenerations
INVARIANTS HaltedIsQuiet
PROPERTIES MonitorJust MismatchResolved UnresolvedIsLocked

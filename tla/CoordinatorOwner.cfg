CONSTANTS
  Groups = {"base"}
  Workers = {"w"}
  Workloads = {{"init", "enable", "resume", "halt"}}
  Monitored = FALSE
  Unreliable = {"release_owned"}
  Maintained = {}
  MaxPending = 0
  MaxCrashes = 1
  MaxOrphans = 0
SPECIFICATION TakeoverSpec
VIEW WithMet
PROPERTIES TakenOverIsReleased

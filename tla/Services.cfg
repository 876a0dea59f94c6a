CONSTANTS
  MaxGoals = 2
  MaxOps = 1000
  MaxToken = 3
  Live = {1, 3}
  MaxCalls = 2
  Clients = {"one", "two"}
SPECIFICATION Spec
VIEW ServicesView
INVARIANTS ServicesTypeOK Attended Fenced WatchdogGuards
PROPERTIES GoalAnswered EmergencyStops
CHECK_DEADLOCK FALSE

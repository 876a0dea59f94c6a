CONSTANTS
  Joints = {"yaw", "left"}
  Groups = {"arm", "flippers"}
  GroupOf <- TwoGroups
  Objects <- MCObjects
  Values <- MCValues
  Switch = "enable"
  Off = 0
  RestoreOrder <- MCRestoreOrder
  Requests <- MCRequests
  Factory <- MCFactory
SPECIFICATION JournalSpec
INVARIANTS UnsureIsJournalled

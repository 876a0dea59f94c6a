CONSTANTS
  Groups <- PairGroups
  Axes <- PairAxes
  Backends = {"canopen"}
  AxisGroup <- PairAxisGroup
  AxisBackend <- PairAxisBackend
  Policies <- EitherPolicy
  Conditions = {"arm_secured"}
  Sources = {"pose"}
  Categories <- AllCategories
  AnyCategory = "*"
  ReportCategories = {"feedback"}
  ReportIds = {"e1"}
  Reports <- PairReports
  WarnedAxes = {"wheel"}
  ReportedBackends = {}
  WriterModes = {"grouped", "legacy"}
  Components = {"controller"}
  None = ""
  MaxLease = 2
  MaxValidity = 1
  MaxEpoch = 1000
  MaxLegacyEpoch = 1000
SPECIFICATION FairSpec
VIEW WithoutEpochs
INVARIANTS InhibitHolds
PROPERTIES GivesSessions LapseCommitted
CHECK_DEADLOCK FALSE

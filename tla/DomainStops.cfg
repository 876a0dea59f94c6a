CONSTANTS
  Groups <- VehicleGroups
  Axes <- VehicleAxes
  Backends <- VehicleBackends
  AxisGroup <- VehicleAxisGroup
  AxisBackend <- VehicleAxisBackend
  Policies <- VehiclePolicies
  Conditions = {"arm_secured", "payload_retained"}
  Sources = {"pose"}
  Categories <- AllCategories
  AnyCategory = "*"
  ReportCategories = {"feedback"}
  ReportIds = {"e1"}
  Reports <- VehicleReports
  WarnedAxes = {}
  ReportedBackends = {"canopen"}
  WriterModes = {}
  Components = {}
  None = ""
  MaxLease = 0
  MaxValidity = 1
  MaxEpoch = 1000
  MaxLegacyEpoch = 0
SPECIFICATION Spec
VIEW WithoutEpochs
INVARIANTS StopHolds LiveIsReady QueryCommits
PROPERTIES NoLapseForgiven RevokedForCause RecoveryIsExplicit
CHECK_DEADLOCK FALSE

CONSTANTS
  Groups = {"base"}
  Axes = {"left"}
  Joints <- OneJoint
  Switches = {"start", "stop", "restart"}
  FaultyAxes = {"left"}
  Backends = {"private"}
  AxisGroup <- TrackGroup
  AxisBackend <- TrackBackend
  Policies <- NoPolicies
  Conditions = {}
  Sources = {}
  Categories <- AllCategories
  AnyCategory = "*"
  ReportCategories = {"feedback"}
  ReportIds = {}
  Reports = {}
  WarnedAxes = {}
  ReportedBackends = {}
  WriterModes = {}
  Components = {}
  None = ""
  MaxLease = 1
  MaxValidity = 0
  MaxEpoch = 1000
  MaxLegacyEpoch = 0
SPECIFICATION HwSpec
VIEW UpToEpochs
INVARIANTS HwTypeOK
CHECK_DEADLOCK FALSE
PROPERTIES StopsAfterSession UnpreparedEnds StaleIsDropped NobodyLeftBehind

CONSTANTS
  Groups = {"base"}
  Axes = {"left","right"}
  Joints <- TwoJoints
  Switches = {"start"}
  FaultyAxes = {}
  Backends = {"private"}
  AxisGroup <- TrackGroup
  AxisBackend <- TrackBackend
  Policies <- NoPolicies
  Conditions = {}
  Sources = {}
  Categories <- AllCategories
  AnyCategory = "*"
  ReportCategories = {"feedback"}
  ReportIds = {}
  Reports = {}
  WarnedAxes = {}
  ReportedBackends = {}
  WriterModes = {}
  Components = {}
  None = ""
  MaxLease = 1
  MaxValidity = 0
  MaxEpoch = 1000
  MaxLegacyEpoch = 0
SPECIFICATION HwSpec
VIEW UpToEpochs
CHECK_DEADLOCK FALSE
PROPERTIES MovesInSession

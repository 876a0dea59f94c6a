CONSTANTS
  Expiry = 2
  MaxSessions = 2
  Warn = 2
  Stop = 3
  Stable = 2
  Horizon = 8
  Axes = {"wheel", "joint"}
  Velocity = {}
  Powered = {"joint"}
  Failing = {"wheel"}
  MaxStarts = 1
  MaxEpoch = 2
  Joints = {"yaw", "pitch"}
  Groups = {"arm"}
  GroupOf <- OneGroup
  Objects <- MCObjects
  Values <- MCValues
  Switch = "enable"
  Off = 0
  RestoreOrder <- MCRestoreOrder
  Requests <- MCRequests
  Factory <- MCFactory
  Flippers = {"front", "rear"}
  JogTimeout = 1
  FeedTimeout = 1
SPECIFICATION Spec
VIEW PartsView
INVARIANTS PartsTypeOK NothingCarriedOver SilenceStops TrustIsEarned RunsLatched WholeOrInterlocked OwnMode JogsSubside
PROPERTIES AlignedInArming FaultStopsAll
CHECK_DEADLOCK FALSE

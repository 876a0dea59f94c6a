CONSTANTS
  Axes = {"joint"}
  Velocity = {}
  Powered = {"joint"}
  Failing = {}
  MaxStarts = 2
  MaxEpoch = 2
SPECIFICATION CanSpec
INVARIANTS MotionIsReleased

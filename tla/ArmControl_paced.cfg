CONSTANTS
  left = left
  right = right
  keyscan = keyscan
  state_change = state_change
  Arms = {left}
  Commanders = {keyscan}
  Keyboards = {keyscan}
  Motions = {"JOINT_RML", "BIRDHEAD_Planing", "JOINT_Planing"}
  Ops = {"ENABLE_MOTORS", "DISABLE_MOTORS", "STOP_MOTION"}
  NMotors = 1
  MaxPoints = 2
  MaxIdx = 3
  Task = 2
  Paced = TRUE
SPECIFICATION FairSpec
INVARIANTS PathInRange NoDeferredBegin WholePath
PROPERTIES PathCompleted MailKept StopHonoured CommandTaken MotionEnds

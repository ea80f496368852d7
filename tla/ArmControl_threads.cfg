CONSTANTS
  left = left
  right = right
  keyscan = keyscan
  state_change = state_change
  Arms = {left}
  Commanders = {keyscan, state_change}
  Keyboards = {keyscan}
  Motions = {"SUPPORT"}
  Ops = {"STOP_MOTION", "ENABLE_MOTORS", "DISABLE_MOTORS", "zero"}
  NMotors = 2
  MaxPoints = 1
  MaxIdx = 1
  Task = 1
  Paced = FALSE
SPECIFICATION Spec
CHECK_DEADLOCK FALSE
INVARIANTS OneMotion DriveNeedsArm TrippedStands
PROPERTIES KeepsSession

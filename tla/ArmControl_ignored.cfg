CONSTANTS
  left = left
  right = right
  keyscan = keyscan
  state_change = state_change
  Arms = {left}
  Commanders = {keyscan, state_change}
  Keyboards = {keyscan}
  Motions = {"JOINT_RML"}
  Ops = {}
  NMotors = 1
  MaxPoints = 1
  MaxIdx = 1
  Task = 2
  Paced = FALSE
SPECIFICATION Spec
CHECK_DEADLOCK FALSE
PROPERTIES IgnoredCommandHasNoEffect

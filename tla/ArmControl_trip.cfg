CONSTANTS
  left = left
  right = right
  keyscan = keyscan
  state_change = state_change
  Arms = {left, right}
  Commanders = {keyscan}
  Keyboards = {keyscan}
  Motions = {}
  Ops = {"ENABLE_MOTORS", "DISABLE_MOTORS", "zero"}
  NMotors = 1
  MaxPoints = 1
  MaxIdx = 0
  Task = 2
  Paced = FALSE
SPECIFICATION FairSpec
PROPERTIES TripSpreads

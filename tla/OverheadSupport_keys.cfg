CONSTANTS
  left = left
  right = right
  Limbs = {left, right}
  Order <- BothArms
  Low = 2
  High = 4
  SleepTicks = 8
  Keys = {"l", "other", "stop"}
  MaxKeys = 1
  Undisturbed = TRUE
SPECIFICATION FairSpec
INVARIANTS ForceIsGiven ForceIsOver LeaveHasCause
PROPERTIES PathRequestKept BothLeave LeaveGoesHome

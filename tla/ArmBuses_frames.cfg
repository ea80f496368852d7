CONSTANTS
  m1 = m1
  m2 = m2
  Motors = {m1, m2}
  Id <- TwoIds
  Positions <- SomePositions
  Velocities <- SomeVelocities
  Gains = {0, 49999}
  Dampings = {500}
  Torques <- SomeTorques
  Senses <- SomeSenses
  First = 8
  Last = 9
  AngleInit <- SomeZeros
  Readings <- SomeReadings
  Wrists = 1
SPECIFICATION BusSpec
INVARIANTS CommandArrives OnlyEnableSwitches ReplyArrives ZeroTrue PortFree
PROPERTIES AngleTrue SwitchReaches CycleGoesOn

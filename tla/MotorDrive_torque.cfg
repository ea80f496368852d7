CONSTANTS
  Positions <- SomePositions
  Torques = {0, 1, 2}
  Step = 2
  Track = 3
  TorLimit = 2
SPECIFICATION Spec
PROPERTY TorqueRefused

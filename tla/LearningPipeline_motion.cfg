SPECIFICATION Spec

CONSTANTS
    I1 = 2
    I2 = 3
    I3 = 5
    Starts <- MCStarts
    Targets <- MCTargets
    Requests <- MCRequests
    Torques <- MCTorques
    DefaultLimit = 10
    FloorLimit = 1

INVARIANTS
    Bounded
    VelocityTruthful
    ArrivesAtTarget
    PowerKept

PROPERTIES
    SpeedLimit
    NoOvershoot

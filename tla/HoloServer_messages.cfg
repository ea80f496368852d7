SPECIFICATION FairSpec
CONSTANT MaxArrivals = 4
PROPERTIES
  OwnTextOrLater
  CarriedOut
  KeepsTarget
CHECK_DEADLOCK FALSE

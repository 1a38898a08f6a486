CONSTANTS
  low = low
  high = high
  Faces <- MCFaces
  N = 3
  Starts <- MCStarts
  Kitty <- MCKitty
  MaxSeen = 4
  MaxSelect = 2
  MaxAreas = 2
  MaxQueue = 1
SPECIFICATION FairSpec
INVARIANT FlyLandsFirst
CHECK_DEADLOCK FALSE

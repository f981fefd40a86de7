SPECIFICATION LayerFairSpec
CONSTANTS
  wide = wide
  narrow = narrow
  Width = 2
  Region <- MCRegion
  Inside <- MCInside
  Near <- MCNear
  FrameOf <- MCFrameOf
  RegionCost <- MCRegionCost
  Message <- MCMessage
  Values <- MCValues
  Initial <- MCInitial
  MaxChanges = 2
  LowerCost <- MCLowerCost
  MaxResets = 1
INVARIANTS TypeOK LoweredByCurrentValues
PROPERTIES OnlyWindowWritten PublishedRegionCleared GoneRegionRestored

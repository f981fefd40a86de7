SPECIFICATION ScanSpec
CONSTANTS
  p1 = p1  p2 = p2  g1 = g1
  NoMap = NoMap  NoRegions = NoRegions  NoPose = NoPose
  Width = 5
  Height = 4
  Scale = 4
  OriginX = 0
  OriginY = 0
  Radius = 4
  Margin = 3
  RangeMin = 1
  RangeMax = 21
  Cell <- GridCell
  Geometry = {g1}
  Degenerate = {}
  OccupiedThreshold = 65
  Pose <- MCPose
  Close <- MCClose
  MinHits = 2
  MinPoses = 2
  MinObservations = 1
  MinObservationPoses = 1
  HitCap = 2
  DynamicLabels = {"person"}
  TraversableLabels = {"curtain"}
  EnableTraversablePersistence = FALSE
  RawMap <- MCRawMap
  Region <- MCRegion
  Ray = {}
  MaxRays = 2
  TransformsMayFail = FALSE
  Sensor <- MCSensor
  Target <- MCTarget
  Polygon <- MCPolygon
  MaxScans = 2
INVARIANTS
  RayInv
  MaskIsGrownPolygon
PROPERTY ScanIsAtomic
CHECK_DEADLOCK FALSE

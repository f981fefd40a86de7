SPECIFICATION HSpec
CONSTANTS
  a = a  b = b  wall = wall
  p1 = p1  p2 = p2  p3 = p3
  g1 = g1  g2 = g2  g0 = g0
  NoMap = NoMap  NoRegions = NoRegions  NoPose = NoPose
  Cell <- MCCell
  Geometry = {g1, g2, g0}
  Degenerate = {g0}
  OccupiedThreshold = 65
  Pose <- MCPose
  Close <- MCClose
  MinHits = 3
  MinPoses = 2
  MinObservations = 2
  MinObservationPoses = 2
  HitCap = 3
  DynamicLabels = {"person"}
  TraversableLabels = {"curtain"}
  EnableTraversablePersistence = TRUE
  RawMap <- MCRawMap
  Region <- MCRegion
  Ray <- MCRay
  MaxRays = 2
  TransformsMayFail = TRUE
INVARIANTS
  TypeOK
  FreeCellsWitnessed
  WitnessedCellsFree
  UpdaterInv
PROPERTY ConfirmedCellsPersist

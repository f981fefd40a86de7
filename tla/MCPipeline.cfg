SPECIFICATION PipelineSpec
CONSTANTS
  door = door  side = side  p1 = p1  p2 = p2
  left = left  right = right  far = far  g1 = g1
  NoMap = NoMap  NoRegions = NoRegions  NoPose = NoPose
  NoRegion = NoRegion  NoMessage = NoMessage
  Cell <- MCCell
  Geometry = {g1}
  Degenerate = {}
  OccupiedThreshold = 65
  Pose <- MCPose
  Close <- MCClose
  MinHits = 1
  MinPoses = 1
  MinObservations = 2
  MinObservationPoses = 2
  HitCap = 2
  DynamicLabels = {}
  TraversableLabels = {"curtain"}
  EnableTraversablePersistence = TRUE
  RawMap <- MCRawMap
  Region <- MCRegion
  Ray = {}
  MaxRays = 0
  TransformsMayFail = TRUE
  Label = {"curtain"}
  Position <- MCPosition
  Near <- MCNear
  RequiredHits = 3
  PendingTtl = 1
  HoldTime = 2
  MaxAge = 3
  Covers <- MCCovers
SYMMETRY MCSymmetry
INVARIANTS PipelineTypeOK OpenedWhereConfirmed
PROPERTIES NewRegionConfirmed DropOutTolerated PublishedFresh

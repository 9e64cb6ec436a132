SPECIFICATION Spec
CONSTANTS
  A = A
  B = B
  Names <- MCNames
  Default = "Default"
  Points <- OneMount
  Nowhere <- NoPoint
  FilePoints <- FilePoint
  MaxProfiles = 3
  MaxRows = 2
  Traced = FALSE
SYMMETRY Symmetry
INVARIANTS
  ProfilesKept
  LiveCasterKept
  PendingHitsItsTarget

CONSTANTS
  Names <- AllNames
  Worlds <- AllWorlds
  Manifests <- AllManifests
  Kinds <- AllKinds
  Raws <- AllRaws
  MaxReplans = 1
  MaxMoves = 1
SPECIFICATION Spec
INVARIANTS
  EverySpecialistAccountedFor
  ProtectedStaysProtected
  FiguresAddUp
  EveryRowFindsItsBand
\* A recommendation ends with its pack.
CHECK_DEADLOCK FALSE

CONSTANTS
  None = None
  Absent = Absent
  p1 = p1
  p2 = p2
  svc = svc
  v1 = v1
  v2 = v2
  NamespaceOf <- MCNamespaceOf
  Kinds = {svc}
  AllocatedKinds = {svc}
  UserKeys = {"team"}
  SourceMode = "allowlist"
  PlainObjects <- OptedIn
  Projections = {p1, p2}
  Coords <- Coords2
  Specs <- TwoOverlays
  Bodies = {v1}
  UserCoords <- SourceOnly
  UserActs = {"editCR", "deleteCR", "stripAnnotation"}
  Unservable = {}
  FaultKinds = {}
  PromptWatches = TRUE
  Resync = FALSE
  MaxIncarnations = 1
  MaxUserSteps = 1
  MaxFaults = 0
SPECIFICATION FairSpec
PROPERTIES Mirrors Converges
\* The operator comes to rest when users do.
CHECK_DEADLOCK FALSE

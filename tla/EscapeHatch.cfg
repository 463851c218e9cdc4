CONSTANTS
  None = None
  Absent = Absent
  p1 = p1
  p2 = p2
  svc = svc
  v1 = v1
  v2 = v2
  NamespaceOf <- MCNamespaceOf
  Kinds = {svc}
  AllocatedKinds = {svc}
  UserKeys = {"team"}
  SourceMode = "allowlist"
  PlainObjects <- OptedIn
  Projections = {p1}
  Coords <- Coords2
  Specs <- OneSpec
  Bodies = {v1}
  UserCoords <- Coords2
  UserActs = {"deleteCR", "stripAnnotation"}
  Unservable = {}
  FaultKinds = {}
  PromptWatches = TRUE
  Resync = FALSE
  MaxIncarnations = 1
  MaxUserSteps = 2
  MaxFaults = 0
SPECIFICATION Spec
PROPERTIES DeletesOnlyOwned
\* The operator comes to rest when users do.
CHECK_DEADLOCK FALSE

CONSTANTS
  None = None
  Absent = Absent
  p1 = p1
  p2 = p2
  svc = svc
  v1 = v1
  v2 = v2
  NamespaceOf <- MCNamespaceOf
  Kinds = {svc}
  AllocatedKinds = {svc}
  UserKeys = {"team"}
  SourceMode = "allowlist"
  PlainObjects <- OptedIn
  Projections = {p1}
  Coords <- Coords2
  Specs <- OneSpec
  Bodies = {v1}
  UserCoords <- Coords2
  UserActs = {"createCR", "deleteCR", "create", "delete", "projectable", "stripAnnotation"}
  Unservable = {}
  FaultKinds = {"request", "crash"}
  PromptWatches = TRUE
  Resync = FALSE
  MaxIncarnations = 2
  MaxUserSteps = 3
  MaxFaults = 1
SPECIFICATION Spec
INVARIANTS TypeOK IInv NoOrphan
PROPERTIES WritesOnlyOwned KeepsUserIntent Mirrors
\* The operator comes to rest when users do.
CHECK_DEADLOCK FALSE

CONSTANTS
  None = None
  Absent = Absent
  p1 = p1
  p2 = p2
  svc = svc
  v1 = v1
  v2 = v2
  NamespaceOf <- MCNamespaceOf
  Kinds = {svc}
  AllocatedKinds = {svc}
  UserKeys = {"team"}
  SourceMode = "allowlist"
  PlainObjects <- OptedIn
  Projections = {p1}
  Coords <- Coords2
  Specs <- TwoOverlays
  Bodies = {v1, v2}
  UserCoords <- Coords2
  UserActs = {"createCR", "editCR", "deleteCR", "create", "edit", "delete", "projectable", "stripAnnotation"}
  Unservable = {}
  FaultKinds = {"request", "crash"}
  PromptWatches = TRUE
  Resync = FALSE
  MaxIncarnations = 1
  MaxUserSteps = 1
  MaxFaults = 1
SPECIFICATION FairSpec
PROPERTIES Converges Quiesces
\* The operator comes to rest when users do.
CHECK_DEADLOCK FALSE

CONSTANTS
  None = None
  Absent = Absent
  cp1 = cp1
  svc = svc
  v1 = v1
  crd = crd
  v2 = v2
  ClusterProjections = {cp1}
  Namespaces <- MCNamespaces
  StartNamespaces <- JustOne
  Kinds = {svc, crd}
  AllocatedKinds = {svc}
  UserKeys = {"team"}
  SourceMode = "allowlist"
  Coords <- MCCoords
  ClusterSpecs <- WithUnserved
  Bodies = {v1, v2}
  PlainObjects <- OptedIn
  UserCoords <- SourceOnly
  UserActs = {"createCP", "deleteCP", "edit", "stripAnnotation", "label"}
  Unservable = {crd}
  FaultKinds = {"request", "stale", "watch", "crash"}
  OrderedInformers = TRUE
  MaxIncarnations = 2
  MaxUserSteps = 2
  MaxFaults = 1
SPECIFICATION Spec
INVARIANTS TypeOK IInv
PROPERTIES WritesOnlyOwned Mirrors
\* The operator comes to rest when users do.
CHECK_DEADLOCK FALSE

CONSTANTS
  None = None
  Absent = Absent
  cp1 = cp1
  svc = svc
  v1 = v1
  crd = crd
  v2 = v2
  ClusterProjections = {cp1}
  Namespaces <- MCNamespaces
  StartNamespaces <- JustOne
  Kinds = {svc}
  AllocatedKinds = {svc}
  UserKeys = {"team"}
  SourceMode = "allowlist"
  Coords <- MCCoords
  ClusterSpecs <- SelectorOnly
  Bodies = {v1}
  PlainObjects <- OptedIn
  UserCoords <- SourceOnly
  UserActs = {"label"}
  Unservable = {}
  FaultKinds = {}
  OrderedInformers = FALSE
  MaxIncarnations = 1
  MaxUserSteps = 1
  MaxFaults = 0
SPECIFICATION FairSpec
PROPERTIES Converges
\* The operator comes to rest when users do.
CHECK_DEADLOCK FALSE

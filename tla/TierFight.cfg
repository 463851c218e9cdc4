CONSTANTS
  None = None
  Absent = Absent
  p1 = p1
  cp1 = cp1
  svc = svc
  v1 = v1
  v2 = v2
  AllocatedKinds = {svc}
  UserKeys = {}
  SourceMode = "allowlist"
  Projections = {p1}
  NamespaceOf <- InDev
  Specs <- ChainSpecs
  PromptWatches = TRUE
  ClusterProjections = {cp1}
  Namespaces = {"apps"}
  StartNamespaces <- OneNamespace
  ClusterSpecs <- ChainClusterSpecs
  OrderedInformers = TRUE
  Kinds = {svc}
  Coords <- ChainCoords
  Bodies = {v1}
  PlainObjects <- OptedIn
  UserCoords <- SourceOnly
  UserActs = {}
  Unservable = {}
  FaultKinds = {}
  Resync = FALSE
  MaxIncarnations = 1
  MaxUserSteps = 0
  MaxFaults = 0
SPECIFICATION Spec
PROPERTIES TiersApart
\* The operator comes to rest when users do.
CHECK_DEADLOCK FALSE

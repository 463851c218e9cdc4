CONSTANTS
  None = None
  Absent = Absent
  p1 = p1
  cp1 = cp1
  svc = svc
  v1 = v1
  v2 = v2
  AllocatedKinds = {svc}
  UserKeys = {}
  SourceMode = "allowlist"
  Projections = {p1}
  NamespaceOf <- InApps
  Specs <- SameSpecs
  PromptWatches = TRUE
  ClusterProjections = {cp1}
  Namespaces = {"apps"}
  StartNamespaces <- OneNamespace
  ClusterSpecs <- SameClusterSpecs
  OrderedInformers = TRUE
  Kinds = {svc}
  Coords <- SameCoords
  Bodies = {v1}
  PlainObjects <- OptedIn
  UserCoords <- SourceOnly
  UserActs = {"deleteCR", "deleteCP"}
  Unservable = {}
  FaultKinds = {"crash"}
  Resync = FALSE
  MaxIncarnations = 1
  MaxUserSteps = 1
  MaxFaults = 1
SPECIFICATION FairSpec
PROPERTIES Mirrors Converges
\* The operator comes to rest when users do.
CHECK_DEADLOCK FALSE

CONSTANTS
  None = None
  Absent = Absent
  cp1 = cp1
  svc = svc
  v1 = v1
  crd = crd
  v2 = v2
  ClusterProjections = {cp1}
  Namespaces <- MCNamespaces
  StartNamespaces <- OneOfTwo
  Kinds = {svc}
  AllocatedKinds = {svc}
  UserKeys = {"team"}
  SourceMode = "allowlist"
  Coords <- MCCoords
  ClusterSpecs <- AllForms
  Bodies = {v1}
  PlainObjects <- OptedIn
  UserCoords <- SourceOnly
  UserActs = {"createCP", "editCP", "deleteCP", "create", "delete", "projectable", "stripAnnotation", "label", "deleteNamespace", "createNamespace"}
  Unservable = {}
  FaultKinds = {"request", "crash"}
  OrderedInformers = TRUE
  MaxIncarnations = 1
  MaxUserSteps = 1
  MaxFaults = 1
SPECIFICATION FairSpec
PROPERTIES KeepsUserIntent Converges
\* The operator comes to rest when users do.
CHECK_DEADLOCK FALSE

----------------------------- MODULE Destination -----------------------------
(***************************************************************************)
(* The value-level part of the operator, with no state: how a destination  *)
(* object is computed from a source object, who owns an object, when an    *)
(* existing destination has to be rewritten, and which source objects may  *)
(* be projected at all.  Both reconcilers are built on these operators.    *)
(*                                                                         *)
(* An object is a record                                                   *)
(*   annotations, labels   total functions on the keys the code tells      *)
(*                         apart; None means that the key is not set       *)
(*   body                  every other authored field                      *)
(*   alloc                 the fields the apiserver allocates on create    *)
(*                         (clusterIP, volumeName, nodeName, ...)          *)
(* Server-owned metadata and .status are not part of the value: the code   *)
(* drops them from the source and skips them in the comparison.            *)
(*                                                                         *)
(* A definition X_y next to X is X with a plausible mistake; no behaviour  *)
(* uses it.  Each shows that some property can fail.                       *)
(***************************************************************************)
EXTENDS Integers

CONSTANTS
  AllocatedKinds, \* the kinds of droppedSpecFieldsByGVK
  UserKeys,       \* annotation and label keys with no meaning to the operator
  SourceMode,     \* the --source-mode flag: "", "allowlist" or "permissive"
  None,           \* an unset key, an empty optional string
  Absent          \* no object (an apiserver 404)

ASSUME SourceModeAssumption == SourceMode \in {"", "allowlist", "permissive"}

ownedByAnnotation == "owned-by-projection"
ownedByUIDLabel == "owned-by-projection-uid"
ownedByClusterAnnotation == "owned-by-cluster-projection"
ownedByClusterUIDLabel == "owned-by-cluster-projection-uid"
projectableAnnotation == "projectable"
lastAppliedAnnotation == "last-applied-configuration"

AnnotationKeys ==
  {ownedByAnnotation, ownedByClusterAnnotation, projectableAnnotation,
   lastAppliedAnnotation} \cup UserKeys
LabelKeys == {ownedByUIDLabel, ownedByClusterUIDLabel} \cup UserKeys

\* A label or annotation map with no entries.
NoAnnotations == [k \in AnnotationKeys |-> None]
NoLabels == [k \in LabelKeys |-> None]

\* The entries of over replace those of base.
Merge(base, over) ==
  [k \in DOMAIN base |-> IF over[k] = None THEN base[k] ELSE over[k]]

\* The transform shared by the two tiers.
buildDestinationCore(kind, source, overlay) ==
  [source EXCEPT
     !.annotations = Merge([@ EXCEPT ![lastAppliedAnnotation] = None],
                           overlay.annotations),
     !.labels = Merge(@, overlay.labels),
     !.alloc = IF kind \in AllocatedKinds THEN None ELSE @]

\* The stamps go on last, over whatever source and overlay carried.
buildDestination(kind, source, ownerKey, proj) ==
  [buildDestinationCore(kind, source, proj.spec.overlay) EXCEPT
     !.annotations[ownedByAnnotation] = ownerKey,
     !.labels[ownedByUIDLabel] = proj.uid]

buildClusterDestination(kind, source, clusterOwnerKey, cp) ==
  [buildDestinationCore(kind, source, cp.spec.overlay) EXCEPT
     !.annotations[ownedByClusterAnnotation] = clusterOwnerKey,
     !.labels[ownedByClusterUIDLabel] = cp.uid]

isOwnedBy_Anybody(obj, ownerKey) == obj.annotations[ownedByAnnotation] # None
isOwnedBy(obj, ownerKey) == obj.annotations[ownedByAnnotation] = ownerKey

isOwnedByCluster_AnyTier(obj, clusterOwnerKey) ==
  \/ obj.annotations[ownedByClusterAnnotation] = clusterOwnerKey
  \/ obj.annotations[ownedByAnnotation] # None
isOwnedByCluster(obj, clusterOwnerKey) ==
  obj.annotations[ownedByClusterAnnotation] = clusterOwnerKey

preserveAPIServerAllocatedFields_Dropped(kind, existing, desired) == desired
preserveAPIServerAllocatedFields(kind, existing, desired) ==
  IF kind \in AllocatedKinds /\ existing.alloc # None
  THEN [desired EXCEPT !.alloc = existing.alloc]
  ELSE desired

needsUpdate(existing, desired) ==
  \/ existing.labels # desired.labels
  \/ existing.annotations # desired.annotations
  \/ existing.body # desired.body
  \/ existing.alloc # desired.alloc

\* The reason a source is refused, None when it may be projected.
checkProjectable(source) ==
  LET val  == source.annotations[projectableAnnotation]
      mode == IF SourceMode = "" THEN "allowlist" ELSE SourceMode
  IN  IF val = "false" THEN "SourceOptedOut"
      ELSE IF mode = "allowlist" /\ val # "true" THEN "SourceNotProjectable"
      ELSE None
=============================================================================

----------------------------- MODULE ClusterProofs -----------------------------
(***************************************************************************)
(* Theorems about ClusterProjectionController, for every set of            *)
(* ClusterProjections, namespaces, kinds, coordinates and specs and every  *)
(* bound.                                                                  *)
(***************************************************************************)
EXTENDS ClusterInvariant, FiniteSetTheorems, TLAPS

\* The object buildClusterDestination returns is well formed and stamped with
\* the owner's key and uid, whatever stamps the source or the overlay carried.
LEMMA BuildClusterDestination ==
  ASSUME NEW k, NEW src \in Objects, NEW p \in ClusterProjections, NEW cp \in CPs
  PROVE  /\ buildClusterDestination(k, src, p, cp) \in Objects
         /\ isOwnedByCluster(buildClusterDestination(k, src, p, cp), p)
         /\ buildClusterDestination(k, src, p, cp).labels[ownedByClusterUIDLabel] = cp.uid
PROOF
<1> DEFINE ov == cp.spec.overlay
           a1 == [src.annotations EXCEPT ![lastAppliedAnnotation] = None]
           a2 == Merge(a1, ov.annotations)
           l2 == Merge(src.labels, ov.labels)
           core == buildDestinationCore(k, src, ov)
<1>1. ov.annotations \in Annotations /\ ov.labels \in Labels
  BY DEF CPs, SpecTypes
<1>2. a1 \in Annotations
  BY DEF Objects, Annotations
<1>3. a2 \in Annotations
  BY <1>1, <1>2 DEF Annotations, Merge
<1>4. l2 \in Labels
  BY <1>1 DEF Objects, Labels, Merge
<1>5. core \in Objects
  <2>1. core = [src EXCEPT !.annotations = a2, !.labels = l2,
                  !.alloc = IF k \in AllocatedKinds THEN None ELSE src.alloc]
    BY DEF buildDestinationCore, Objects
  <2> HIDE DEF a2, l2
  <2> QED
    BY <2>1, <1>3, <1>4 DEF Objects
<1>6. cp.uid \in Uids
  BY DEF CPs
<1> HIDE DEF core
<1>7. buildClusterDestination(k, src, p, cp)
        = [core EXCEPT
             !.annotations = [core.annotations EXCEPT ![ownedByClusterAnnotation] = p],
             !.labels = [core.labels EXCEPT ![ownedByClusterUIDLabel] = cp.uid]]
  BY <1>5 DEF buildClusterDestination, core, Objects
<1>8. [core.annotations EXCEPT ![ownedByClusterAnnotation] = p] \in Annotations
  BY <1>5 DEF Objects, Annotations
<1>9. [core.labels EXCEPT ![ownedByClusterUIDLabel] = cp.uid] \in Labels
  BY <1>5, <1>6 DEF Objects, Labels
<1>10. ownedByClusterAnnotation \in AnnotationKeys /\ ownedByClusterUIDLabel \in LabelKeys
  BY DEF AnnotationKeys, LabelKeys
<1>11. core.annotations \in Annotations /\ core.labels \in Labels
  BY <1>5 DEF Objects
<1>12. /\ [core.annotations EXCEPT ![ownedByClusterAnnotation] = p][ownedByClusterAnnotation] = p
       /\ [core.labels EXCEPT ![ownedByClusterUIDLabel] = cp.uid][ownedByClusterUIDLabel] = cp.uid
  BY <1>10, <1>11 DEF Annotations, Labels
<1> QED
  BY <1>5, <1>7, <1>8, <1>9, <1>12 DEF Objects, isOwnedByCluster

\* Preserving allocated fields keeps the object well formed and its stamps.
LEMMA PreserveObject ==
  ASSUME NEW kind, NEW existing \in Objects, NEW desired \in Objects
  PROVE  LET kept == preserveAPIServerAllocatedFields(kind, existing, desired)
         IN  /\ kept \in Objects
             /\ kept.annotations = desired.annotations
             /\ kept.labels = desired.labels
BY DEF preserveAPIServerAllocatedFields, Objects

\* What the apiserver fills in on create keeps the object well formed and its
\* stamps.
LEMMA AllocateObject ==
  ASSUME NEW c \in Coords, NEW o \in Objects
  PROVE  /\ Allocate(c, o) \in Objects
         /\ Allocate(c, o).annotations = o.annotations
         /\ Allocate(c, o).labels = o.labels
BY DEF Allocate, Objects

\* The events of a write enqueue keys of ClusterProjections only.
LEMMA HitsAreKeys ==
  ASSUME NEW c, NEW old, NEW new
  PROVE  Hits(c, old, new) \subseteq ClusterProjections
BY DEF Hits, mapSource, ensureDestWatchHandler, enqueueByUID

\* So do those of an informer that starts.
LEMMA ReplaysAreKeys ==
  ASSUME NEW k
  PROVE  SourceReplay(k) \subseteq ClusterProjections /\ DestReplay(k) \subseteq ClusterProjections
BY DEF SourceReplay, DestReplay, mapSource, ensureDestWatchHandler, enqueueByUID

\* The destinations of a spec are among the coordinates, of the source's kind.
LEMMA DestInCoords ==
  ASSUME NEW s \in SpecTypes, NEW n \in Namespaces
  PROVE  /\ DestIn(s, n) \in Coords
         /\ DestIn(s, n).kind = s.source.kind /\ DestIn(s, n).ns = n
         /\ s.source.kind \in Kinds
<1>1. s.source \in Coords /\ s.source.name \in Names /\ clusterDestinationName(s) \in Names
  BY DEF SpecTypes, Names, clusterDestinationName
<1> QED
  BY <1>1, ClusterCoordsAssumption DEF DestIn

\* A write replaces one object.
LEMMA PutObject ==
  ASSUME ApiType, NEW c \in Coords, NEW obj, objects' = [objects EXCEPT ![c] = obj]
  PROVE  objects'[c] = obj /\ \A d \in Coords \ {c} : objects'[d] = objects[d]
BY DEF ApiType

\* So does a write of a ClusterProjection.
LEMMA PutOneCP ==
  ASSUME ApiType, ManagerType, NEW p \in ClusterProjections, NEW cp, PutCP(p, cp)
  PROVE  /\ cps'[p] = cp /\ cpCacheFresh'[p] = FALSE
         /\ \A q \in ClusterProjections \ {p} :
              cps'[q] = cps[q] /\ cpCacheFresh'[q] = cpCacheFresh[q]
BY DEF PutCP, ApiType, ManagerType

\* What users make of an object is an object; they never give it to a
\* ClusterProjection that did not have it, nor touch the UID label except where
\* they strip it.
LEMMA UserObjects ==
  ASSUME ApiType, NEW c \in Coords, NEW act \in ObjectActs,
         (act = "create") = (objects[c] = Absent), NEW obj \in UserValues(act, c)
  PROVE  /\ obj \in Objects \cup {Absent}
         /\ \A p \in ClusterProjections :
              obj # Absent /\ isOwnedByCluster(obj, p) =>
                /\ Carries(c, p)
                /\ act # "stripLabel" =>
                     obj.labels[ownedByClusterUIDLabel]
                       = objects[c].labels[ownedByClusterUIDLabel]
<1>1. CASE act = "create"
  <2>1. PICK o \in PlainObjects : obj = Allocate(c, o)
    BY <1>1 DEF UserValues
  <2>2. /\ obj \in Objects
        /\ obj.annotations[ownedByClusterAnnotation] = None
    BY <2>1, ClusterPlainAssumption, AllocateObject
  <2> QED
    BY <2>2, ClusterAbsentAssumption DEF isOwnedByCluster
<1>2. CASE act = "delete"
  BY <1>2 DEF UserValues
<1>3. CASE act \in {"edit", "projectable", "stripAnnotation", "stripLabel"}
  <2>1. objects[c] \in Objects /\ objects[c] # Absent
    BY <1>3 DEF ApiType
  <2>2. /\ ownedByClusterAnnotation \in AnnotationKeys
        /\ projectableAnnotation \in AnnotationKeys
        /\ ownedByClusterUIDLabel \in LabelKeys
        /\ projectableAnnotation # ownedByClusterAnnotation
    BY DEF AnnotationKeys, LabelKeys, projectableAnnotation, ownedByClusterAnnotation
  <2>3. /\ obj \in Objects
        /\ obj.annotations[ownedByClusterAnnotation]
             \in {objects[c].annotations[ownedByClusterAnnotation], None}
        /\ act # "stripLabel" => obj.labels = objects[c].labels
    <3>1. CASE act = "edit"
      BY <2>1, <3>1 DEF UserValues, Objects
    <3>2. CASE act = "projectable"
      <4>1. PICK v \in {"true", "false", None} :
              obj = [objects[c] EXCEPT !.annotations[projectableAnnotation] = v]
        BY <3>2 DEF UserValues
      <4>2. [objects[c].annotations EXCEPT ![projectableAnnotation] = v] \in Annotations
        BY <2>1 DEF Objects, Annotations
      <4>3. [objects[c].annotations EXCEPT ![projectableAnnotation] = v]
              [ownedByClusterAnnotation] = objects[c].annotations[ownedByClusterAnnotation]
        BY <2>1, <2>2 DEF Objects, Annotations
      <4> QED
        BY <2>1, <4>1, <4>2, <4>3 DEF Objects
    <3>3. CASE act = "stripAnnotation"
      <4>1. obj = [objects[c] EXCEPT !.annotations[ownedByClusterAnnotation] = None]
        BY <3>3 DEF UserValues
      <4>2. [objects[c].annotations EXCEPT ![ownedByClusterAnnotation] = None] \in Annotations
        BY <2>1 DEF Objects, Annotations
      <4>3. [objects[c].annotations EXCEPT ![ownedByClusterAnnotation] = None]
              [ownedByClusterAnnotation] = None
        BY <2>1, <2>2 DEF Objects, Annotations
      <4> QED
        BY <2>1, <4>1, <4>2, <4>3 DEF Objects
    <3>4. CASE act = "stripLabel"
      <4>1. obj = [objects[c] EXCEPT !.labels[ownedByClusterUIDLabel] = None]
        BY <3>4 DEF UserValues
      <4>2. [objects[c].labels EXCEPT ![ownedByClusterUIDLabel] = None] \in Labels
        BY <2>1 DEF Objects, Labels
      <4> QED
        BY <2>1, <3>4, <4>1, <4>2 DEF Objects
    <3> QED
      BY <1>3, <3>1, <3>2, <3>3, <3>4
  <2> QED
    BY <2>1, <2>3, ClusterAbsentAssumption DEF isOwnedByCluster, Carries
<1> QED
  BY <1>1, <1>2, <1>3 DEF ObjectActs

\* The counts of a rollup are at most the number of namespaces.
LEMMA Counts ==
  ASSUME run \in Runs, NEW phase
  PROVE  Cardinality(At(phase)) \in 0 .. Cardinality(Namespaces)
<1>1. At(phase) \subseteq Namespaces
  BY DEF At, Runs
<1>2. /\ IsFiniteSet(At(phase))
      /\ Cardinality(At(phase)) <= Cardinality(Namespaces)
  BY <1>1, FS_Subset, ClusterNamespacesAssumption
<1> QED
  BY <1>2, FS_CardinalityType, ClusterNamespacesAssumption

\* The status a reconcile stages is well formed.
LEMMA StagedStatus ==
  ASSUME run \in Runs, run.cp \in CPs, run.outcome \in Reasons
  PROVE  Staged \in Statuses
<1>1. run.cp.status \in Statuses /\ run.outcome \in Reasons
  BY DEF CPs, Runs
<1>2. clusterDestinationName(run.cp.spec) \in Names
  BY DEF CPs, SpecTypes, Names, clusterDestinationName
<1>3. 0 \in 0 .. Cardinality(Namespaces)
  BY FS_CardinalityType, ClusterNamespacesAssumption
<1>4. failClusterSource(run.cp.status) \in Statuses
  BY <1>1 DEF failClusterSource, Statuses
<1>5. failClusterDestination(run.cp.status) \in Statuses
  BY <1>1, <1>3 DEF failClusterDestination, Statuses
<1>6. rollup(run.cp.status) \in Statuses
  BY <1>1, <1>2, Counts DEF rollup, Statuses
<1> QED
  BY <1>4, <1>5, <1>6 DEF Staged

\* A ClusterProjection is created well formed.
LEMMA NewCPType ==
  ASSUME NEW p \in ClusterProjections, NEW i \in 1 .. MaxIncarnations,
         NEW s \in SpecTypes
  PROVE  NewCP(p, i, s) \in CPs
<1>1. 0 \in 0 .. Cardinality(Namespaces)
  BY FS_CardinalityType, ClusterNamespacesAssumption
<1> QED
  BY <1>1 DEF NewCP, CPs, Uids, Statuses

\* The initial states are well typed.
LEMMA InitType == Init => TypeOK
<1> SUFFICES ASSUME Init PROVE TypeOK
  OBVIOUS
<1>1. ApiType
  <2>1. objects \in [Coords -> Objects \cup {Absent}]
    BY ClusterPlainAssumption, AllocateObject DEF Init
  <2>2. 1 \in 1 .. MaxIncarnations
    BY ClusterBoundsAssumption
  <2>3. cps \in [ClusterProjections -> CPs \cup {Absent}]
    BY <2>2, NewCPType, ClusterSpecsAssumption DEF Init
  <2> QED
    BY <2>1, <2>3, ClusterNamespacesAssumption DEF Init, ApiType
<1>2. ManagerType
  BY <1>1 DEF Init, ApiType, ManagerType
<1>3. run \in Runs /\ Operands
  BY DEF Init, Idle, Runs, Steps, Operands
<1>4. BoundType
  BY ClusterBoundsAssumption DEF Init, BoundType
<1> QED
  BY <1>1, <1>2, <1>3, <1>4 DEF TypeOK

-----------------------------------------------------------------------------
(* How the steps move the record of the reconcile.                         *)

\* The reconcile in progress is still that of the same copy.
SameRun == run'.name = run.name /\ run'.cp = run.cp /\ run'.fresh = run.fresh

\* Where the fan-out and the sweep of the reconcile are.
SameWork ==
  /\ run'.want = run.want /\ run'.targets = run.targets /\ run'.at = run.at
  /\ run'.current = run.current

SameSweep == run'.sweep = run.sweep /\ run'.failed = run.failed

\* The reconcile goes on to its next request.
LEMMA GotoRun ==
  ASSUME run \in Runs, NEW s \in Steps, Goto(s)
  PROVE  /\ run' \in Runs /\ run'.step = s /\ run'.outcome = run.outcome
         /\ SameRun /\ SameWork /\ SameSweep /\ cpDelayed' = cpDelayed
BY DEF Goto, Runs, SameRun, SameWork, SameSweep

\* The reconcile goes on to the status.
LEMMA FinishRun ==
  ASSUME run \in Runs, NEW o \in Reasons, Finish(o)
  PROVE  /\ run' \in Runs /\ run'.step = "flush" /\ run'.outcome = o
         /\ SameRun /\ SameWork /\ SameSweep /\ cpDelayed' = cpDelayed
BY DEF Finish, Runs, Steps, SameRun, SameWork, SameSweep

\* The reconcile returns.
LEMMA ReturnRun ==
  ASSUME NEW requeue, Return(requeue), cpDelayed \subseteq ClusterProjections,
         run.name \in ClusterProjections
  PROVE  /\ run' \in Runs /\ run'.step = "idle" /\ run'.current = {}
         /\ cpDelayed' \subseteq ClusterProjections
BY DEF Return, Idle, Runs, Steps

\* The sweep is over: a deletion returns or goes on to the finalizer, any other
\* reconcile to the watch or to the status.
LEMMA SweepDoneRun ==
  ASSUME run \in Runs, NEW failed, SweepDone(failed), run.name \in ClusterProjections,
         cpDelayed \subseteq ClusterProjections
  PROVE  /\ run' \in Runs /\ cpDelayed' \subseteq ClusterProjections
         /\ \/ run'.step = "idle"
            \/ /\ run'.step \in {"removeFinalizer", "ensureClusterDestWatch", "flush"}
               /\ SameRun /\ SameWork /\ SameSweep /\ run'.outcome = run.outcome
               /\ run.cp.deleting => run'.step = "removeFinalizer" /\ ~failed
               /\ ~run.cp.deleting => run'.step # "removeFinalizer"
               /\ run'.step = "flush" => run.outcome \in Reasons
<1>1. CASE run.cp.deleting /\ failed
  BY <1>1, ReturnRun DEF SweepDone
<1>2. CASE ~(run.cp.deleting /\ failed)
  <2> DEFINE s == IF run.cp.deleting THEN "removeFinalizer"
                  ELSE IF StaleSweep THEN "ensureClusterDestWatch" ELSE "flush"
  <2>1. s \in Steps /\ Goto(s)
    BY <1>2 DEF SweepDone, Steps
  <2>2. ~run.cp.deleting /\ ~StaleSweep => run.outcome \in Reasons
    BY DEF StaleSweep, Runs
  <2> HIDE DEF s
  <2>3. /\ run' \in Runs /\ run'.step = s /\ run'.outcome = run.outcome
        /\ SameRun /\ SameWork /\ SameSweep /\ cpDelayed' = cpDelayed
    BY <2>1, GotoRun
  <2> QED
    BY <1>2, <2>2, <2>3 DEF s
<1> QED
  BY <1>1, <1>2

\* A namespace of the fan-out moves on.
LEMMA ProgressRun ==
  ASSUME run \in Runs, NEW n \in Namespaces, NEW current \in SUBSET Namespaces,
         NEW next \in {"get", "create", "update", "written", "failed"},
         Progress(n, next, current)
  PROVE  /\ run' \in Runs /\ run'.step \in {"fanOut", "listOwned"}
         /\ SameRun /\ SameSweep /\ run'.outcome = run.outcome
         /\ run'.want = run.want /\ run'.targets = run.targets
         /\ run'.current = current
<1>1. [run.at EXCEPT ![n] = next]
        \in [Namespaces -> {"get", "create", "update", "written", "failed", None}]
  BY DEF Runs
<1> QED
  BY <1>1 DEF Progress, Runs, Steps, SameRun, SameSweep

\* Somebody else writes an object.
LEMMA OutsideRun ==
  ASSUME run \in Runs, NEW c, NEW obj, PutOutside(c, obj)
  PROVE  /\ run' \in Runs /\ run'.step = run.step /\ run'.outcome = run.outcome
         /\ SameRun /\ SameSweep
         /\ run'.want = run.want /\ run'.targets = run.targets
         /\ run'.current = StillCurrent({c})
<1>1. StillCurrent({c}) \subseteq Namespaces
  BY DEF StillCurrent, Runs
<1> QED
  BY <1>1 DEF PutOutside, Runs, SameRun, SameSweep
-----------------------------------------------------------------------------
(* Types.                                                                  *)

\* A watch registration keeps the types of the manager.
LEMMA WatchesType ==
  ASSUME TypeOK, NEW registered, NEW registered1, NEW replay \in SUBSET ClusterProjections,
         registered \subseteq mapped, Kind \in mapped,
         \/ registered1 = registered /\ UNCHANGED cpQueue
         \/ registered1 = registered \cup {Kind} /\ cpQueue' = cpQueue \cup replay
  PROVE  registered1 \subseteq mapped /\ cpQueue' \subseteq ClusterProjections
BY DEF TypeOK, ManagerType

\* Every step keeps the types; one step per action.
LEMMA NextType == TypeOK /\ [Next]_vars => TypeOK'
<1> SUFFICES ASSUME TypeOK, [Next]_vars PROVE TypeOK'
  OBVIOUS
<1> USE DEF TypeOK, apiVars, watchVars, nsVars, boundVars
<1>a. ASSUME NEW a, Fault(a) PROVE faults' \in 0 .. MaxFaults
  BY <1>a, ClusterBoundsAssumption DEF Fault, BoundType
<1>b. ASSUME NEW k, NEW r, ReplyOf(k, r) PROVE faults' \in 0 .. MaxFaults
  BY <1>a, <1>b DEF ReplyOf, BoundType
<1>c. ASSUME run.step # "idle"
      PROVE  /\ run.cp \in CPs /\ run.name \in ClusterProjections
             /\ run.cp.spec \in SpecTypes /\ Kind \in Kinds
             /\ \A n \in Namespaces :
                  Dest(n) \in Coords /\ Live(Dest(n)) \in Objects \cup {Absent}
  <2>1. run.cp \in CPs /\ run.name \in ClusterProjections /\ run.cp.spec \in SpecTypes
    BY <1>c DEF Operands, CPs
  <2>2. Kind \in Kinds
    BY <2>1, ClusterCoordsAssumption DEF Kind, SpecTypes
  <2> QED
    BY <2>1, <2>2, DestInCoords DEF Dest, Live, ApiType
<1>1. CASE UNCHANGED vars
  BY <1>1 DEF vars, ApiType, ManagerType, BoundType, Operands
<1>2. ASSUME NEW p \in ClusterProjections, Reconcile(p) PROVE TypeOK'
  <2>1. ApiType' /\ ManagerType' /\ BoundType'
    BY <1>2 DEF Reconcile, ApiType, ManagerType, BoundType
  <2>2. CASE run' = run
    BY <1>2, <2>1, <2>2 DEF Reconcile, Operands
  <2>3. CASE run' # run
    <3>1. cpCache[p] \in CPs /\ cpCacheFresh[p] \in BOOLEAN
      BY <1>2, <2>3 DEF Reconcile, ManagerType
    <3>2. \E s \in {"resolveGVR", "ensureClusterFinalizer"} :
            run' = [Idle EXCEPT !.step = s, !.name = p, !.cp = cpCache[p],
                                !.fresh = cpCacheFresh[p]]
      BY <1>2, <2>3 DEF Reconcile
    <3>3. Idle \in Runs
      BY DEF Idle, Runs, Steps
    <3>4. /\ run' \in Runs /\ run'.name = p /\ run'.cp = cpCache[p]
          /\ run'.step \in {"resolveGVR", "ensureClusterFinalizer"}
      BY <3>1, <3>2, <3>3 DEF Runs, Steps
    <3>5. Operands'
      BY <3>1, <3>4 DEF Operands
    <3> QED
      BY <2>1, <3>4, <3>5
  <2> QED
    BY <2>2, <2>3
<1>3. ASSUME NEW p \in ClusterProjections, CacheSync(p) PROVE TypeOK'
  BY <1>3 DEF CacheSync, ApiType, ManagerType, BoundType, Operands
<1>4. ASSUME NEW p \in ClusterProjections, Requeue(p) PROVE TypeOK'
  BY <1>4 DEF Requeue, ApiType, ManagerType, BoundType, Operands
<1>5. CASE resolveGVR
  <2>1. BoundType'
    BY <1>5, <1>a DEF resolveGVR, BoundType
  <2>2. CASE Kind \in mapped \cup served /\ mapped' = mapped \cup {Kind}
             /\ Goto(IF run.cp.deleting THEN "listOwned" ELSE "ensureSourceWatch")
    <3>1. /\ run' \in Runs /\ SameRun /\ cpDelayed' = cpDelayed
          /\ run'.step \in {"listOwned", "ensureSourceWatch"}
      BY <2>2, GotoRun DEF Steps
    <3>2. ApiType' /\ ManagerType'
      BY <1>5, <2>2, <3>1 DEF resolveGVR, ApiType, ManagerType
    <3>3. Operands'
      BY <1>5, <1>c, <2>2, <3>1 DEF resolveGVR, Operands, SameRun, Kind
    <3> QED
      BY <2>1, <3>1, <3>2, <3>3
  <2>3. CASE mapped' = mapped /\ Goto("removeFinalizer")
    <3>1. /\ run' \in Runs /\ SameRun /\ cpDelayed' = cpDelayed
          /\ run'.step = "removeFinalizer"
      BY <2>3, GotoRun DEF Steps
    <3>2. ApiType' /\ ManagerType'
      BY <1>5, <2>3, <3>1 DEF resolveGVR, ApiType, ManagerType
    <3>3. Operands'
      BY <1>5, <1>c, <3>1 DEF resolveGVR, Operands, SameRun
    <3> QED
      BY <2>1, <3>1, <3>2, <3>3
  <2>4. CASE mapped' = mapped /\ Finish("SourceResolutionFailed")
    <3>1. /\ run' \in Runs /\ SameRun /\ cpDelayed' = cpDelayed
          /\ run'.step = "flush" /\ run'.outcome \in Reasons
      BY <2>4, FinishRun DEF Reasons, SourceReasons
    <3>2. ApiType' /\ ManagerType'
      BY <1>5, <2>4, <3>1 DEF resolveGVR, ApiType, ManagerType
    <3>3. Operands'
      BY <1>5, <1>c, <3>1 DEF resolveGVR, Operands, SameRun
    <3> QED
      BY <2>1, <3>1, <3>2, <3>3
  <2> QED
    BY <1>5, <2>2, <2>3, <2>4 DEF resolveGVR
<1>6. CASE ensureSourceWatch
  <2>1. BoundType'
    BY <1>6, <1>a DEF ensureSourceWatch, Watches, BoundType
  <2>2. /\ run' \in Runs /\ SameRun /\ cpDelayed' = cpDelayed /\ run'.step = "getSource"
    BY <1>6, GotoRun DEF ensureSourceWatch, Steps
  <2>3. Kind \in mapped /\ cpWatched \subseteq mapped
    BY <1>6 DEF ensureSourceWatch, Operands, Kind, ManagerType
  <2>4. cpWatched' \subseteq mapped /\ cpQueue' \subseteq ClusterProjections
    BY <1>6, <2>3, ReplaysAreKeys, WatchesType DEF ensureSourceWatch, Watches
  <2>5. ApiType' /\ ManagerType'
    BY <1>6, <2>2, <2>4 DEF ensureSourceWatch, ApiType, ManagerType
  <2>6. Operands'
    BY <1>6, <1>c, <2>2, <2>3 DEF ensureSourceWatch, Operands, SameRun, Kind
  <2> QED
    BY <2>1, <2>2, <2>5, <2>6
<1>7. CASE ensureClusterDestWatch
  <2>1. BoundType'
    BY <1>7, <1>a DEF ensureClusterDestWatch, Watches, BoundType
  <2>2. /\ run' \in Runs /\ SameRun /\ cpDelayed' = cpDelayed
        /\ run'.step = "flush" /\ run'.outcome \in Reasons
    BY <1>7, FinishRun DEF ensureClusterDestWatch, Reasons
  <2>3. Kind \in mapped /\ cpWatchedDests \subseteq mapped
    BY <1>7 DEF ensureClusterDestWatch, Operands, Kind, ManagerType
  <2>4. cpWatchedDests' \subseteq mapped /\ cpQueue' \subseteq ClusterProjections
    BY <1>7, <2>3, ReplaysAreKeys, WatchesType DEF ensureClusterDestWatch, Watches
  <2>5. ApiType' /\ ManagerType'
    BY <1>7, <2>2, <2>4 DEF ensureClusterDestWatch, ApiType, ManagerType
  <2>6. Operands'
    BY <1>7, <1>c, <2>2 DEF ensureClusterDestWatch, Operands, SameRun
  <2> QED
    BY <2>1, <2>2, <2>5, <2>6
<1>8. ASSUME NEW acc, NEW cp \in CPs \cup {Absent}, run.name \in ClusterProjections,
             UpdateCP(acc, cp)
      PROVE  /\ cps' \in [ClusterProjections -> CPs \cup {Absent}]
             /\ cpCacheFresh' \in [ClusterProjections -> BOOLEAN]
  BY <1>8 DEF UpdateCP, PutCP, ApiType, ManagerType
<1>9. ASSUME NEW r \in Replies, ensureClusterFinalizer(r) PROVE TypeOK'
  <2> DEFINE cp == [run.cp EXCEPT !.finalizer = TRUE]
  <2>1. run.step # "idle"
    BY <1>9 DEF ensureClusterFinalizer
  <2>2. cp \in CPs
    BY <1>c, <2>1 DEF CPs
  <2> HIDE DEF cp
  <2>3. BoundType'
    BY <1>9, <1>b DEF ensureClusterFinalizer, Reply, BoundType
  <2>4. /\ cps' \in [ClusterProjections -> CPs \cup {Absent}]
        /\ cpCacheFresh' \in [ClusterProjections -> BOOLEAN]
    BY <1>9, <1>8, <1>c, <2>1, <2>2 DEF ensureClusterFinalizer, cp
  <2>5. CASE run' = [run EXCEPT !.step = "resolveGVR", !.cp = cp] /\ UNCHANGED cpDelayed
    <3>1. /\ run' \in Runs /\ run'.step = "resolveGVR" /\ run'.cp = cp
          /\ run'.name = run.name
      BY <2>2, <2>5 DEF Runs, Steps
    <3>2. Operands'
      BY <1>c, <2>1, <2>2, <3>1 DEF Operands
    <3> QED
      BY <1>9, <2>3, <2>4, <2>5, <3>1, <3>2 DEF ensureClusterFinalizer, ApiType, ManagerType
  <2>6. CASE Return(TRUE)
    <3>1. /\ run' \in Runs /\ run'.step = "idle" /\ cpDelayed' \subseteq ClusterProjections
      BY <1>c, <2>1, <2>6, ReturnRun DEF ManagerType
    <3>2. Operands'
      BY <3>1 DEF Operands
    <3> QED
      BY <1>9, <2>3, <2>4, <3>1, <3>2 DEF ensureClusterFinalizer, ApiType, ManagerType
  <2> QED
    BY <1>9, <2>5, <2>6 DEF ensureClusterFinalizer, cp
<1>10. ASSUME NEW r \in Replies, getSource(r) PROVE TypeOK'
  <2> DEFINE src == Live(run.cp.spec.source)
             want == buildClusterDestination(Kind, src, run.name, run.cp)
             targets == resolveTargetNamespaces(run.cp.spec, NamespaceList)
  <2>1. run.step = "getSource" /\ src \in Objects \cup {Absent}
    BY <1>10, <1>c DEF getSource, SpecTypes, Live, ApiType
  <2>2. src # Absent => want \in Objects
    BY <1>c, <2>1, BuildClusterDestination
  <2>3. targets \subseteq Namespaces
    BY <1>c, <2>1 DEF resolveTargetNamespaces, SpecTypes
  <2>4. Kind \in mapped
    BY <2>1 DEF Operands, Kind
  <2>5. BoundType'
    BY <1>10, <1>b DEF getSource, Reply, BoundType
  <2>6. nsCache' \in [Namespaces -> NamespaceStates \cup {None}]
    BY <1>10 DEF getSource, NamespaceList, ApiType, ManagerType
  <2>7. ApiType' /\ ManagerType'
    BY <1>10, <2>6 DEF getSource, ApiType, ManagerType
  <2> HIDE DEF want, targets
  <2>8. CASE run' = FanOutTo(targets, want) /\ src # Absent
    <3>1. [n \in Namespaces |-> IF n \in targets THEN "get" ELSE None]
            \in [Namespaces -> {"get", "create", "update", "written", "failed", None}]
      OBVIOUS
    <3>2. /\ run' \in Runs /\ SameRun /\ run'.want = want /\ run'.targets = targets
          /\ run'.step = IF targets = {} THEN "listOwned" ELSE "fanOut"
      BY <2>2, <2>3, <2>8, <3>1 DEF FanOutTo, Runs, Steps, SameRun
    <3>3. Operands'
      BY <1>c, <2>1, <2>2, <2>4, <2>7, <2>8, <3>2, <1>10
         DEF Operands, SameRun, Kind, getSource
    <3> QED
      BY <2>5, <2>7, <3>2, <3>3
  <2>9. CASE \E s \in {"flush", "listOwned"}, o \in Reasons :
               run' = [run EXCEPT !.step = s, !.outcome = o]
    <3>1. /\ run' \in Runs /\ SameRun /\ run'.step \in {"flush", "listOwned"}
          /\ run'.outcome \in Reasons
      BY <2>9 DEF Runs, Steps, SameRun
    <3>2. Operands'
      BY <1>c, <2>1, <2>4, <3>1, <1>10 DEF Operands, SameRun, Kind, getSource
    <3> QED
      BY <2>5, <2>7, <3>1, <3>2
  <2>10. \/ run' = FanOutTo(targets, want) /\ src # Absent
         \/ \E s \in {"flush", "listOwned"}, o \in Reasons :
              run' = [run EXCEPT !.step = s, !.outcome = o]
    <3>1. checkProjectable(src) # None => checkProjectable(src) \in Reasons
      BY DEF checkProjectable, Reasons, SourceReasons
    <3>2. {"TargetResolutionFailed", "SourceFetchFailed", "SourceDeleted",
           "SourceNotFound"} \subseteq Reasons
      BY DEF Reasons, SourceReasons
    <3> HIDE DEF src
    <3>3. CASE r = "ok" /\ src # Absent /\ checkProjectable(src) = None
      BY <1>10, <3>2, <3>3 DEF getSource, src, want, targets
    <3>4. CASE ~(r = "ok" /\ src # Absent /\ checkProjectable(src) = None)
      <4> DEFINE s == IF r # "ok" THEN "flush" ELSE "listOwned"
                 o == IF r # "ok" THEN "SourceFetchFailed"
                      ELSE IF src # Absent THEN checkProjectable(src)
                      ELSE IF run.cp.status.destinationName # None
                      THEN "SourceDeleted" ELSE "SourceNotFound"
      <4>1. run' = [run EXCEPT !.step = s, !.outcome = o]
        BY <1>10, <3>4 DEF getSource, src
      <4>2. s \in {"flush", "listOwned"} /\ o \in Reasons
        BY <3>1, <3>2, <3>4
      <4> QED
        BY <4>1, <4>2
    <3> QED
      BY <3>3, <3>4
  <2> QED
    BY <2>8, <2>9, <2>10
<1>11. ASSUME NEW n \in Namespaces, NEW next, NEW current \in SUBSET Namespaces,
              next \in {"get", "create", "update", "written", "failed"},
              run.step = "fanOut", Progress(n, next, current), mapped' = mapped
       PROVE  run' \in Runs /\ Operands'
  <2>1. /\ run' \in Runs /\ run'.step \in {"fanOut", "listOwned"} /\ SameRun
        /\ run'.want = run.want /\ run'.targets = run.targets
    BY <1>11, ProgressRun
  <2>2. Operands'
    BY <1>11, <2>1 DEF Operands, SameRun
  <2> QED
    BY <2>1, <2>2
<1>12. ASSUME NEW r \in Replies, NEW n \in Namespaces, getDest(n, r) PROVE TypeOK'
  <2>1. BoundType'
    BY <1>12, <1>b DEF getDest, Reply, BoundType
  <2>2. ApiType' /\ ManagerType'
    BY <1>12 DEF getDest, ApiType, ManagerType
  <2>3. run.current \in SUBSET Namespaces /\ run.current \cup {n} \in SUBSET Namespaces
    BY DEF Runs
  <2>4. run' \in Runs /\ Operands'
    BY <1>11, <1>12, <2>3 DEF getDest
  <2> QED
    BY <2>1, <2>2, <2>4
<1>13. ASSUME NEW c \in Coords, NEW obj \in Objects \cup {Absent}, Put(c, obj)
       PROVE  /\ objects' \in [Coords -> Objects \cup {Absent}]
              /\ cpQueue' \subseteq ClusterProjections
  BY <1>13, HitsAreKeys DEF Put, ApiType, ManagerType
<1>14. ASSUME NEW r \in Replies, NEW n \in Namespaces, writeDest(n, r) PROVE TypeOK'
  <2> DEFINE acc == IF run.at[n] = "create" THEN CreateAccepted(n) ELSE UpdateAccepted(n)
  <2>1. BoundType'
    BY <1>14, <1>b DEF writeDest, Reply, BoundType
  <2>2. run.step = "fanOut" /\ run.want \in Objects /\ Dest(n) \in Coords
        /\ Live(Dest(n)) \in Objects \cup {Absent}
    BY <1>14, <1>c DEF writeDest, Operands
  <2>3. acc => Allocate(Dest(n), Desired(n)) \in Objects
    BY <2>2, AllocateObject, PreserveObject DEF Desired, UpdateAccepted
  <2> HIDE DEF acc
  <2>4. /\ objects' \in [Coords -> Objects \cup {Absent}]
        /\ cpQueue' \subseteq ClusterProjections
    BY <1>14, <1>13, <2>2, <2>3 DEF writeDest, acc, ApiType, ManagerType
  <2>5. ApiType' /\ ManagerType'
    BY <1>14, <2>4 DEF writeDest, ApiType, ManagerType
  <2>6. run.current \ {n} \in SUBSET Namespaces
    BY DEF Runs
  <2>7. run' \in Runs /\ Operands'
    BY <1>11, <1>14, <2>2, <2>6 DEF writeDest
  <2> QED
    BY <2>1, <2>5, <2>7
<1>15. ASSUME NEW failed, run.step \in {"listOwned", "deleteListed"}, SweepDone(failed),
              mapped' = mapped
       PROVE  run' \in Runs /\ Operands' /\ cpDelayed' \subseteq ClusterProjections
  <2>1. /\ run' \in Runs /\ cpDelayed' \subseteq ClusterProjections
        /\ \/ run'.step = "idle"
           \/ /\ run'.step \in {"removeFinalizer", "ensureClusterDestWatch", "flush"}
              /\ SameRun /\ run'.outcome = run.outcome
              /\ run'.step = "flush" => run.outcome \in Reasons
    BY <1>15, <1>c, SweepDoneRun DEF ManagerType
  <2>2. Operands'
    BY <1>15, <1>c, <2>1 DEF Operands, SameRun
  <2> QED
    BY <2>1, <2>2
<1>16. ASSUME NEW r \in Replies, listOwned(r) PROVE TypeOK'
  <2>1. BoundType'
    BY <1>16, <1>b DEF listOwned, SweepReply, BoundType
  <2>2. CASE \E f : SweepDone(f)
    <3>1. run' \in Runs /\ Operands' /\ cpDelayed' \subseteq ClusterProjections
      BY <1>15, <1>16, <2>2 DEF listOwned
    <3> QED
      BY <1>16, <2>1, <3>1 DEF listOwned, ApiType, ManagerType
  <2>3. CASE \E l \in SUBSET Coords : /\ run' = [run EXCEPT !.step = "deleteListed", !.sweep = l]
                                      /\ UNCHANGED cpDelayed
    <3>1. run' \in Runs /\ SameRun /\ run'.step = "deleteListed"
      BY <2>3 DEF Runs, Steps, SameRun
    <3>2. Operands'
      BY <1>16, <3>1 DEF listOwned, Operands, SameRun
    <3> QED
      BY <1>16, <2>1, <2>3, <3>1, <3>2 DEF listOwned, ApiType, ManagerType
  <2>4. \/ \E f : SweepDone(f)
        \/ \E l \in SUBSET Coords : /\ run' = [run EXCEPT !.step = "deleteListed", !.sweep = l]
                                    /\ UNCHANGED cpDelayed
    <3> DEFINE l == {c \in Existing(Kind) :
                       /\ objects[c].labels[ownedByClusterUIDLabel] = run.cp.uid
                       /\ isOwnedByCluster(objects[c], run.name)
                       /\ c.ns \notin Keep}
    <3>1. l \in SUBSET Coords
      BY DEF Existing
    <3>2. \/ SweepDone(TRUE) \/ SweepDone(FALSE)
          \/ run' = [run EXCEPT !.step = "deleteListed", !.sweep = l] /\ UNCHANGED cpDelayed
      BY <1>16 DEF listOwned
    <3> QED
      BY <3>1, <3>2
  <2> QED
    BY <2>2, <2>3, <2>4
<1>17. ASSUME NEW r \in Replies, NEW c \in Coords, deleteListed(c, r) PROVE TypeOK'
  <2>1. BoundType'
    BY <1>17, <1>b DEF deleteListed, SweepReply, BoundType
  <2>2. /\ objects' \in [Coords -> Objects \cup {Absent}]
        /\ cpQueue' \subseteq ClusterProjections
    BY <1>13, <1>17 DEF deleteListed, ApiType, ManagerType
  <2>3. run' \in Runs /\ Operands' /\ cpDelayed' \subseteq ClusterProjections
    <3>1. CASE run.sweep = {c}
      BY <1>15, <1>17, <3>1 DEF deleteListed
    <3>2. CASE run.sweep # {c}
      <4>1. run.sweep \ {c} \in SUBSET Coords /\ (run.failed \/ r # "ok") \in BOOLEAN
        BY DEF Runs
      <4>2. /\ run' = [run EXCEPT !.sweep = run.sweep \ {c}, !.failed = run.failed \/ r # "ok"]
            /\ cpDelayed' = cpDelayed
        BY <1>17, <3>2 DEF deleteListed, Runs
      <4>3. run' \in Runs /\ SameRun /\ run'.step = run.step
        BY <4>1, <4>2 DEF Runs, SameRun
      <4>4. Operands'
        BY <1>17, <4>3 DEF deleteListed, Operands, SameRun
      <4> QED
        BY <4>2, <4>3, <4>4 DEF ManagerType
    <3> QED
      BY <3>1, <3>2
  <2> QED
    BY <1>17, <2>1, <2>2, <2>3 DEF deleteListed, ApiType, ManagerType
<1>18. ASSUME NEW r \in Replies, removeFinalizer(r) \/ flush(r) PROVE TypeOK'
  <2>1. run.step \in {"removeFinalizer", "flush"}
    BY <1>18 DEF removeFinalizer, flush
  <2>2. BoundType'
    BY <1>18, <1>b DEF removeFinalizer, flush, Reply, BoundType
  <2>3. run' \in Runs /\ run'.step = "idle" /\ cpDelayed' \subseteq ClusterProjections
    BY <1>18, <1>c, <2>1, ReturnRun DEF removeFinalizer, flush, ManagerType
  <2>4. Operands'
    BY <2>3 DEF Operands
  <2>5. /\ cps' \in [ClusterProjections -> CPs \cup {Absent}]
        /\ cpCacheFresh' \in [ClusterProjections -> BOOLEAN]
    <3>1. CASE removeFinalizer(r)
      BY <1>8, <1>c, <2>1, <3>1 DEF removeFinalizer
    <3>2. CASE flush(r)
      <4>1. Staged \in Statuses
        BY <1>c, <3>2, StagedStatus DEF flush, Operands
      <4>2. cps[run.name] \in CPs \cup {Absent}
        BY <1>c, <2>1 DEF ApiType
      <4>3. CASE cps[run.name] = Absent
        BY <3>2, <4>3 DEF flush, UpdateCP, CopyAccepted, ApiType, ManagerType
      <4>4. CASE cps[run.name] # Absent
        <5>1. [cps[run.name] EXCEPT !.status = Staged] \in CPs
          BY <4>1, <4>2, <4>4 DEF CPs
        <5> QED
          BY <1>8, <1>c, <2>1, <3>2, <5>1 DEF flush
      <4> QED
        BY <4>3, <4>4
    <3> QED
      BY <1>18, <3>1, <3>2
  <2> QED
    BY <1>18, <2>2, <2>3, <2>4, <2>5 DEF removeFinalizer, flush, ApiType, ManagerType
<1>19. ASSUME NEW n \in Namespaces, NamespaceSync(n) \/ mapNamespace(n) PROVE TypeOK'
  <2>1. nsCache' \in [Namespaces -> NamespaceStates \cup {None}]
        /\ nsEvents' \in [Namespaces -> SUBSET BOOLEAN]
    BY <1>19 DEF NamespaceSync, mapNamespace, ApiType, ManagerType
  <2>2. cpQueue' \subseteq ClusterProjections
    BY <1>19 DEF NamespaceSync, mapNamespace, matchingClusterProjectionRequests, ManagerType
  <2> QED
    BY <1>19, <2>1, <2>2 DEF NamespaceSync, mapNamespace, ApiType, ManagerType, BoundType,
       Operands
<1>20. CASE Restart
  <2>1. run' \in Runs /\ run'.step = "idle"
    BY <1>20 DEF Restart, Fresh, Idle, Runs, Steps
  <2>2. Operands' /\ BoundType'
    BY <1>20, <1>a, <2>1 DEF Restart, Operands, BoundType
  <2>3. ApiType' /\ ManagerType'
    BY <1>20 DEF Restart, Fresh, ApiType, ManagerType
  <2> QED
    BY <2>1, <2>2, <2>3
<1>21. ASSUME NEW a, UserStep(a) PROVE userSteps' \in 0 .. MaxUserSteps
  BY <1>21, ClusterBoundsAssumption DEF UserStep, BoundType
<1>22. ASSUME NEW p \in ClusterProjections, NEW cp \in CPs \cup {Absent}, UserOnCP(p, cp)
       PROVE  ApiType' /\ ManagerType' /\ run' \in Runs /\ Operands'
  <2>1. run' \in Runs /\ run'.step = run.step /\ run'.name = run.name /\ run'.cp = run.cp
        /\ run'.want = run.want /\ run'.targets = run.targets /\ run'.outcome = run.outcome
    BY <1>22 DEF UserOnCP, Runs
  <2>2. Operands'
    BY <1>22, <2>1 DEF UserOnCP, Operands
  <2>3. ApiType' /\ ManagerType'
    BY <1>22 DEF UserOnCP, PutCP, ApiType, ManagerType
  <2> QED
    BY <2>1, <2>2, <2>3
<1>23. ASSUME NEW p \in ClusterProjections, CreateClusterProjection(p) PROVE TypeOK'
  <2>1. /\ cpIncarnation[p] + 1 \in 1 .. MaxIncarnations
        /\ cpIncarnation' = [cpIncarnation EXCEPT ![p] = cpIncarnation[p] + 1]
    BY <1>23, ClusterBoundsAssumption DEF CreateClusterProjection, BoundType
  <2>2. \A s \in ClusterSpecs[p] : NewCP(p, cpIncarnation[p] + 1, s) \in CPs
    BY <2>1, NewCPType, ClusterSpecsAssumption
  <2>3. ApiType' /\ ManagerType' /\ run' \in Runs /\ Operands'
    BY <1>22, <1>23, <2>2 DEF CreateClusterProjection
  <2>4. BoundType'
    BY <1>21, <1>23, <2>1 DEF CreateClusterProjection, UserOnCP, BoundType
  <2> QED
    BY <2>3, <2>4
<1>24. ASSUME NEW p \in ClusterProjections,
              EditClusterProjection(p) \/ DeleteClusterProjection(p)
       PROVE  TypeOK'
  <2>1. cps[p] \in CPs
    BY <1>24 DEF EditClusterProjection, DeleteClusterProjection, ApiType
  <2>2. /\ \A s \in ClusterSpecs[p] : [cps[p] EXCEPT !.spec = s] \in CPs
        /\ [cps[p] EXCEPT !.deleting = TRUE] \in CPs
    BY <2>1, ClusterSpecsAssumption DEF CPs
  <2>3. ApiType' /\ ManagerType' /\ run' \in Runs /\ Operands'
    BY <1>22, <1>24, <2>2 DEF EditClusterProjection, DeleteClusterProjection
  <2>4. BoundType'
    BY <1>21, <1>24 DEF EditClusterProjection, DeleteClusterProjection, UserOnCP, BoundType
  <2> QED
    BY <2>3, <2>4
<1>25. ASSUME NEW n \in Namespaces, NEW state \in NamespaceStates, PutNamespace(n, state)
       PROVE  ApiType' /\ ManagerType' /\ run' \in Runs /\ Operands'
  <2>1. nss[n].labelled \in BOOLEAN /\ state.labelled \in BOOLEAN
    BY DEF ApiType, NamespaceStates
  <2> QED
    BY <1>25, <2>1 DEF PutNamespace, ApiType, ManagerType, Operands
<1>26. ASSUME NEW n \in Namespaces,
              \/ UserLabelsNamespace(n) \/ UserDeletesNamespace(n)
              \/ UserCreatesNamespace(n)
       PROVE  TypeOK'
  <2>1. PICK state \in NamespaceStates : PutNamespace(n, state)
    BY <1>26 DEF UserLabelsNamespace, UserDeletesNamespace, UserCreatesNamespace,
       ApiType, NamespaceStates
  <2>2. BoundType'
    BY <1>21, <1>26 DEF UserLabelsNamespace, UserDeletesNamespace, UserCreatesNamespace,
       PutNamespace, BoundType
  <2> QED
    BY <1>25, <2>1, <2>2
<1>27. ASSUME NEW c \in Coords, NEW obj \in Objects \cup {Absent}, PutOutside(c, obj),
              UNCHANGED <<served, cps, nss, mapped, cpCache, cpCacheFresh, cpDelayed,
                          watchVars, nsVars>>
       PROVE  ApiType' /\ ManagerType' /\ run' \in Runs /\ Operands'
  <2>1. /\ run' \in Runs /\ run'.step = run.step /\ run'.outcome = run.outcome /\ SameRun
        /\ run'.want = run.want /\ run'.targets = run.targets
    BY <1>27, OutsideRun
  <2>2. Operands'
    BY <1>27, <2>1 DEF Operands, SameRun
  <2>3. /\ objects' \in [Coords -> Objects \cup {Absent}]
        /\ cpQueue' \subseteq ClusterProjections
    BY <1>13, <1>27 DEF PutOutside
  <2>4. ApiType' /\ ManagerType'
    BY <1>27, <2>3 DEF ApiType, ManagerType
  <2> QED
    BY <2>1, <2>2, <2>4
<1>28. ASSUME NEW n \in Namespaces, Terminate(n) PROVE TypeOK'
  <2>1. Gone \in NamespaceStates
    BY DEF Gone, NamespaceStates
  <2>2. ApiType' /\ ManagerType' /\ run' \in Runs /\ Operands'
    BY <1>25, <1>27, <1>28, <2>1 DEF Terminate
  <2>3. BoundType'
    BY <1>28 DEF Terminate, PutNamespace, BoundType
  <2> QED
    BY <2>2, <2>3
<1>29. ASSUME NEW c \in Coords, NEW act \in ObjectActs, UserWrites(act, c) PROVE TypeOK'
  <2>1. PICK obj \in UserValues(act, c) : PutOutside(c, obj)
    BY <1>29 DEF UserWrites
  <2>2. obj \in Objects \cup {Absent}
    BY <1>29, UserObjects DEF UserWrites
  <2>3. ApiType' /\ ManagerType' /\ run' \in Runs /\ Operands'
    BY <1>27, <1>29, <2>1, <2>2 DEF UserWrites
  <2>4. BoundType'
    BY <1>21, <1>29 DEF UserWrites, BoundType
  <2> QED
    BY <2>3, <2>4
<1> QED
  BY <1>1, <1>2, <1>3, <1>4, <1>5, <1>6, <1>7, <1>9, <1>10, <1>12, <1>14, <1>16, <1>17,
     <1>18, <1>19, <1>20, <1>23, <1>24, <1>26, <1>28, <1>29
     DEF Next, Operator, ReconcileStep, ClusterUser

\* Every variable keeps its type and no request is made without its operands:
\* the fan-out and the sweeps never run for a ClusterProjection that was not
\* fetched, without a destination to write, or for a kind that was not resolved.
THEOREM TypeCorrect == Spec => []TypeOK
BY InitType, NextType, PTL DEF Spec
-----------------------------------------------------------------------------
(* The inductive invariant.                                                *)

\* The inductive invariant holds initially: nothing is stamped yet.
LEMMA InitInv == Init => IInv
<1> SUFFICES ASSUME Init PROVE IInv
  OBVIOUS
<1>1. \A p \in ClusterProjections : cps[p] # Absent =>
        /\ cps[p].spec \in ClusterSpecs[p]
        /\ ~cps[p].deleting /\ ~cps[p].finalizer
  BY DEF Init, NewCP
<1>2. \A c \in Coords, p \in ClusterProjections : ~Carries(c, p)
  <2> SUFFICES ASSUME NEW c \in Coords, NEW p \in ClusterProjections, Carries(c, p)
               PROVE  FALSE
    OBVIOUS
  <2>1. PICK o \in PlainObjects : objects[c] = Allocate(c, o)
    BY DEF Init, Carries
  <2> QED
    BY <2>1, ClusterPlainAssumption, AllocateObject, ClusterAbsentAssumption
       DEF Carries, isOwnedByCluster
<1>3. run.step = "idle" /\ cpCache = cps
  BY DEF Init, Idle
<1>4. SpecsInv /\ CopiesInv /\ StepInv /\ FinalizerInv
  BY <1>1, <1>3 DEF SpecsInv, CopiesInv, StepInv, FinalizerInv, Running, Writing, Finalizing
<1>5. WriteInv /\ ClaimInv /\ SweepInv
  BY <1>2, <1>3 DEF WriteInv, ClaimInv, SweepInv, Finalizing, Running, Places
<1>6. ServedInv
  BY DEF Init, ServedInv
<1> QED
  BY <1>4, <1>5, <1>6 DEF IInv

\* The parts of IInv about the copies of ClusterProjections.
CopyPart == SpecsInv /\ CopiesInv /\ FinalizerInv /\ ServedInv

\* A step that leaves the ClusterProjections, the objects and the reconcile alone.
LEMMA StillKeepsInv ==
  ASSUME IInv, UNCHANGED <<objects, served, cps, cpCache, cpCacheFresh, run>>
  PROVE  IInv'
<1>1. CopyPart'
  BY DEF IInv, CopyPart, SpecsInv, CopiesInv, FinalizerInv, ServedInv, Guarded, Ended,
     SameCP, Writing, Finalizing, Running
<1>2. StepInv' /\ WriteInv'
  BY DEF IInv, StepInv, WriteInv, Finalizing, Running, Carries, Dest
<1>3. ClaimInv' /\ SweepInv'
  BY DEF IInv, ClaimInv, SweepInv, Finalizing, Running, Carries, Guarded
<1> QED
  BY <1>1, <1>2, <1>3 DEF IInv, CopyPart

\* A reconcile that goes on keeps what is known about the copies.
LEMMA CopyPartStay ==
  ASSUME IInv, UNCHANGED <<cps, cpCache, cpCacheFresh, served>>, SameRun,
         run.step \notin {"idle", "ensureClusterFinalizer"},
         run'.step \notin {"idle", "ensureClusterFinalizer"}
  PROVE  CopyPart' /\ (Finalizing' <=> Finalizing) /\ (Writing' <=> Writing)
<1>1. (Finalizing' <=> Finalizing) /\ (Writing' <=> Writing) /\ Running /\ Running'
  BY DEF Finalizing, Writing, Running, SameRun
<1> QED
  BY <1>1 DEF IInv, CopyPart, SpecsInv, CopiesInv, FinalizerInv, ServedInv, Guarded,
     Ended, SameCP, SameRun

\* Without a write, stamps and claims stay as they are.
LEMMA ClaimSame ==
  ASSUME IInv, UNCHANGED <<objects, cps>>
  PROVE  ClaimInv' /\ \A c, p : Carries(c, p)' = Carries(c, p)
BY DEF IInv, ClaimInv, Carries, Guarded

\* Between reconciles the parts about a reconcile's work hold trivially.
LEMMA IdleInv ==
  ASSUME run'.step = "idle"
  PROVE  StepInv' /\ WriteInv' /\ SweepInv' /\ ~Running' /\ ~Finalizing' /\ ~Writing'
BY DEF StepInv, WriteInv, SweepInv, Running, Finalizing, Writing

\* A reconcile that returns without a write of its ClusterProjection.
LEMMA ReturnKeepsInv ==
  ASSUME IInv, UNCHANGED <<cps, cpCache, cpCacheFresh, served>>, run'.step = "idle",
         ClaimInv'
  PROVE  IInv'
<1>1. StepInv' /\ WriteInv' /\ SweepInv' /\ ~Running' /\ ~Finalizing' /\ ~Writing'
  BY IdleInv
<1>2. CopyPart'
  BY <1>1 DEF IInv, CopyPart, SpecsInv, CopiesInv, FinalizerInv, ServedInv, Guarded, Ended,
     SameCP
<1> QED
  BY <1>1, <1>2 DEF IInv, CopyPart

\* A reconcile that is not of a deletion goes on to a request outside the
\* fan-out.
LEMMA OrdinaryKeepsInv ==
  ASSUME IInv, UNCHANGED <<cps, cpCache, cpCacheFresh, served>>, SameRun,
         run.step \notin {"idle", "ensureClusterFinalizer"},
         run'.step \in {"ensureSourceWatch", "getSource", "fanOut", "listOwned",
                        "deleteListed", "ensureClusterDestWatch", "flush"},
         ~run.cp.deleting, ClaimInv', WriteInv'
  PROVE  IInv'
<1>1. CopyPart' /\ ~Finalizing'
  BY CopyPartStay DEF Finalizing
<1>2. StepInv' /\ SweepInv'
  BY <1>1 DEF StepInv, SweepInv
<1> QED
  BY <1>1, <1>2 DEF IInv, CopyPart

\* What the phase of a reconcile says about its ClusterProjection.
LEMMA PhaseFacts ==
  ASSUME TypeOK, IInv, run.step # "idle"
  PROVE  /\ run.name \in ClusterProjections /\ run.cp \in CPs
         /\ run.cp.spec \in SpecTypes /\ Kind \in Kinds
         /\ \A n \in Namespaces : /\ Dest(n) \in Coords
                                  /\ Dest(n).kind = Kind /\ Dest(n).ns = n
         /\ run.step \notin {"ensureClusterFinalizer", "resolveGVR", "listOwned",
                             "deleteListed", "removeFinalizer"} => ~run.cp.deleting
<1>1. run.name \in ClusterProjections /\ run.cp \in CPs /\ run.cp.spec \in SpecTypes
  BY DEF TypeOK, Operands, CPs
<1>2. Kind \in Kinds
  BY <1>1, ClusterCoordsAssumption DEF Kind, SpecTypes
<1>3. \A n \in Namespaces : /\ Dest(n) \in Coords
                            /\ Dest(n).kind = Kind /\ Dest(n).ns = n
  BY <1>1, DestInCoords DEF Dest, Kind
<1>4. run.step \notin {"resolveGVR", "listOwned", "deleteListed", "removeFinalizer"}
        => ~run.cp.deleting
  BY DEF IInv, StepInv, Finalizing, Running
<1> QED
  BY <1>1, <1>2, <1>3, <1>4

\* Under Tidy, whatever carries the stamp of a ClusterProjection that is being
\* finalized is of its kind and has its uid.
LEMMA FinalizedCopies ==
  ASSUME TypeOK, IInv, Tidy, Finalizing, NEW c \in Places, Carries(c, run.name)
  PROVE  /\ c.kind = Kind /\ objects[c].labels[ownedByClusterUIDLabel] = run.cp.uid
         /\ c.kind \in served /\ Live(c) # Absent
<1>1. run.name \in ClusterProjections
  BY PhaseFacts DEF Finalizing, Running
<1>2. /\ Guarded(cps[run.name]) /\ c.kind = cps[run.name].spec.source.kind
      /\ objects[c].labels[ownedByClusterUIDLabel] = cps[run.name].uid
  BY <1>1 DEF IInv, ClaimInv
<1>3. SameCP(cps[run.name], run.cp)
  BY <1>2 DEF IInv, FinalizerInv, Ended, Guarded
<1>4. c.kind \in served
  BY ClusterCoordsAssumption DEF Places, IInv, ServedInv
<1> QED
  BY <1>2, <1>3, <1>4 DEF SameCP, Kind, Live, Carries

\* A reconcile starts from the cache: its copy is as the step it enters assumes.
LEMMA ReconcileKeepsInv ==
  ASSUME TypeOK, TypeOK', IInv, NEW p \in ClusterProjections, Reconcile(p)
  PROVE  IInv'
<1>1. CASE run' = run
  BY <1>1, StillKeepsInv DEF Reconcile, apiVars
<1>2. CASE run' # run
  <2> DEFINE cp == cpCache[p]
  <2>1. /\ cp # Absent /\ ~(cp.deleting /\ ~cp.finalizer)
        /\ run' = [Idle EXCEPT !.step = IF cp.finalizer THEN "resolveGVR"
                                        ELSE "ensureClusterFinalizer",
                               !.name = p, !.cp = cp, !.fresh = cpCacheFresh[p]]
        /\ UNCHANGED <<objects, served, cps, cpCache, cpCacheFresh>>
    BY <1>2 DEF Reconcile, Handled, apiVars
  <2>2. /\ run'.step = IF cp.finalizer THEN "resolveGVR" ELSE "ensureClusterFinalizer"
        /\ run'.name = p /\ run'.cp = cp /\ run'.fresh = cpCacheFresh[p]
        /\ run'.current = {}
    BY <2>1 DEF Idle
  <2> HIDE DEF cp
  <2>3. SpecsInv' /\ CopiesInv' /\ ServedInv'
    BY <2>1, <2>2 DEF cp, IInv, SpecsInv, CopiesInv, ServedInv, Running
  <2>4. StepInv' /\ WriteInv' /\ SweepInv'
    BY <2>1, <2>2 DEF StepInv, WriteInv, SweepInv, Finalizing, Running
  <2>5. FinalizerInv'
    <3>1. Writing' => Guarded(cps[p]) /\ SameCP(cps[p], cp)
      BY <2>1, <2>2 DEF cp, IInv, FinalizerInv, Writing
    <3>2. Finalizing' => Ended(cp, cps[p]) /\ Ended(cp, cp)
      BY <2>1, <2>2 DEF cp, IInv, FinalizerInv, Finalizing, Ended, SameCP
    <3> QED
      BY <2>1, <2>2, <3>1, <3>2 DEF cp, IInv, FinalizerInv, Guarded, Ended, SameCP
  <2> QED
    BY <2>1, <2>3, <2>4, <2>5, ClaimSame DEF IInv
<1> QED
  BY <1>1, <1>2

\* The informer catches up: the newer copy is as good as the older one.
LEMMA CacheSyncKeepsInv ==
  ASSUME TypeOK, TypeOK', IInv, NEW p \in ClusterProjections, CacheSync(p)
  PROVE  IInv'
<1>1. /\ UNCHANGED <<objects, served, cps, run>>
      /\ cpCache'[p] = cps[p] /\ cpCacheFresh'[p] = TRUE
      /\ \A q \in ClusterProjections \ {p} :
           cpCache'[q] = cpCache[q] /\ cpCacheFresh'[q] = cpCacheFresh[q]
  BY DEF CacheSync, apiVars, TypeOK, ManagerType
<1>2. Running => run.name \in ClusterProjections
  BY PhaseFacts DEF Running
<1>3. SpecsInv' /\ ServedInv'
  BY <1>1 DEF IInv, SpecsInv, ServedInv
<1>4. CopiesInv'
  BY <1>1, <1>2 DEF IInv, CopiesInv, Running
<1>5. FinalizerInv'
  <2>1. \A q \in ClusterProjections :
          /\ cps[q] # Absent /\ cps[q].deleting => cps[q].finalizer
          /\ cpCache'[q] # Absent /\ cpCache'[q].finalizer /\ ~cpCache'[q].deleting
               => Guarded(cps[q]) /\ SameCP(cps[q], cpCache'[q])
          /\ cpCache'[q] # Absent /\ cpCache'[q].deleting => Ended(cpCache'[q], cps[q])
    BY <1>1 DEF IInv, FinalizerInv, Guarded, Ended, SameCP
  <2>2. (Writing' <=> Writing) /\ (Finalizing' <=> Finalizing)
    BY <1>1 DEF Writing, Finalizing, Running
  <2>3. Finalizing => Ended(run.cp, cps[run.name]) /\ Ended(run.cp, cpCache'[run.name])
    BY <1>1, <1>2 DEF IInv, FinalizerInv, Finalizing
  <2> QED
    BY <1>1, <2>1, <2>2, <2>3 DEF IInv, FinalizerInv, Guarded, Ended, SameCP
<1>6. StepInv' /\ WriteInv' /\ SweepInv'
  BY <1>1 DEF IInv, StepInv, WriteInv, SweepInv, Finalizing, Running, Carries, Dest
<1> QED
  BY <1>1, <1>3, <1>4, <1>5, <1>6, ClaimSame DEF IInv

\* A new process starts with nothing but what is stored.
LEMMA RestartKeepsInv ==
  ASSUME IInv, Restart
  PROVE  IInv'
<1>1. /\ UNCHANGED <<objects, served, cps>> /\ cpCache' = cps /\ run'.step = "idle"
  BY DEF Restart, Fresh, Idle, apiVars
<1>2. StepInv' /\ WriteInv' /\ SweepInv' /\ ~Running' /\ ~Finalizing' /\ ~Writing'
  BY <1>1, IdleInv
<1>3. SpecsInv' /\ CopiesInv' /\ ServedInv'
  BY <1>1, <1>2 DEF IInv, SpecsInv, CopiesInv, ServedInv
<1>4. FinalizerInv'
  BY <1>1, <1>2 DEF IInv, FinalizerInv, Guarded, Ended, SameCP
<1> QED
  BY <1>1, <1>2, <1>3, <1>4, ClaimSame DEF IInv

\* Resolution: a deletion skips the sweep only for a kind that is not served,
\* which no finalizer has to answer for.
LEMMA ResolveKeepsInv ==
  ASSUME TypeOK, TypeOK', IInv, resolveGVR
  PROVE  IInv'
<1>1. /\ run.step = "resolveGVR" /\ run \in Runs
      /\ UNCHANGED <<objects, served, cps, cpCache, cpCacheFresh>>
  BY DEF resolveGVR, apiVars, TypeOK
<1>2. /\ SameRun /\ SameWork
      /\ run'.step = IF Kind \in mapped'
                     THEN IF run.cp.deleting THEN "listOwned" ELSE "ensureSourceWatch"
                     ELSE IF run.cp.deleting THEN "removeFinalizer" ELSE "flush"
  <2>1. CASE /\ Kind \in mapped \cup served /\ mapped' = mapped \cup {Kind}
             /\ Goto(IF run.cp.deleting THEN "listOwned" ELSE "ensureSourceWatch")
    BY <1>1, <2>1, GotoRun DEF Steps
  <2>2. CASE Kind \notin mapped /\ mapped' = mapped /\ run.cp.deleting /\ Goto("removeFinalizer")
    BY <1>1, <2>2, GotoRun DEF Steps
  <2>3. CASE /\ Kind \notin mapped /\ mapped' = mapped /\ ~run.cp.deleting
             /\ Finish("SourceResolutionFailed")
    BY <1>1, <2>3, FinishRun DEF Reasons, SourceReasons
  <2> QED
    BY <2>1, <2>2, <2>3 DEF resolveGVR
<1>3. CopyPart' /\ (Finalizing' <=> Finalizing) /\ (Writing' <=> Writing)
  BY <1>1, <1>2, CopyPartStay
<1>4. StepInv'
  BY <1>1, <1>2 DEF StepInv, Finalizing, Running, SameRun
<1>5. WriteInv'
  BY <1>1, <1>2 DEF IInv, WriteInv, SameRun, SameWork, Carries, Dest
<1>6. SweepInv'
  <2> SUFFICES ASSUME Tidy, Finalizing', NEW c \in Places, Carries(c, run.name)',
                      run'.step \in {"removeFinalizer", "deleteListed"}
               PROVE  FALSE
    BY <1>2 DEF SweepInv, SameRun
  <2>1. Carries(c, run.name)
    BY <1>1, <1>2 DEF SameRun, Carries
  <2>2. run'.step = "removeFinalizer" /\ Kind \notin mapped'
    BY <1>2
  <2>3. Kind \notin served
    BY <2>2 DEF resolveGVR, Fault, Tidy
  <2> QED
    BY <1>3, <2>1, <2>3, FinalizedCopies
<1> QED
  BY <1>1, <1>3, <1>4, <1>5, <1>6, ClaimSame DEF IInv, CopyPart

\* Watch registration.
LEMMA WatchesKeepInv ==
  ASSUME TypeOK, TypeOK', IInv, ensureSourceWatch \/ ensureClusterDestWatch
  PROVE  IInv'
<1>1. /\ run.step \in {"ensureSourceWatch", "ensureClusterDestWatch"} /\ run \in Runs
      /\ UNCHANGED <<objects, served, cps, cpCache, cpCacheFresh>>
  BY DEF ensureSourceWatch, ensureClusterDestWatch, apiVars, TypeOK
<1>2. /\ SameRun /\ SameWork
      /\ \/ run.step = "ensureSourceWatch" /\ run'.step = "getSource"
         \/ run'.step = "flush"
  <2>1. CASE ensureSourceWatch
    BY <1>1, <2>1, GotoRun DEF ensureSourceWatch, Steps
  <2>2. CASE ensureClusterDestWatch
    BY <1>1, <2>2, FinishRun DEF ensureClusterDestWatch, Reasons
  <2> QED
    BY <2>1, <2>2
<1>3. ~run.cp.deleting
  BY <1>1, PhaseFacts
<1>4. WriteInv'
  BY <1>1, <1>2 DEF IInv, WriteInv, SameRun, SameWork, Carries, Dest
<1> QED
  BY <1>1, <1>2, <1>3, <1>4, ClaimSame, OrdinaryKeepsInv

\* The source decides: what is then written everywhere carries the stamps.
LEMMA GetSourceKeepsInv ==
  ASSUME TypeOK, TypeOK', IInv, NEW r \in Replies, getSource(r)
  PROVE  IInv'
<1> DEFINE src == Live(run.cp.spec.source)
           want == buildClusterDestination(Kind, src, run.name, run.cp)
           targets == resolveTargetNamespaces(run.cp.spec, NamespaceList)
<1>1. /\ run.step = "getSource" /\ run \in Runs
      /\ UNCHANGED <<objects, served, cps, cpCache, cpCacheFresh>>
  BY DEF getSource, apiVars, TypeOK
<1>2. /\ run.name \in ClusterProjections /\ run.cp \in CPs /\ run.cp.spec \in SpecTypes
      /\ ~run.cp.deleting
  BY <1>1, PhaseFacts
<1>3. src \in Objects \cup {Absent}
  BY <1>2 DEF SpecTypes, Live, TypeOK, ApiType
<1>4. src # Absent => /\ isOwnedByCluster(want, run.name)
                      /\ want.labels[ownedByClusterUIDLabel] = run.cp.uid
  BY <1>2, <1>3, BuildClusterDestination
<1> HIDE DEF src, want, targets
<1>5. \/ run' = FanOutTo(targets, want) /\ src # Absent
      \/ \E s \in {"flush", "listOwned"} : \E o : run' = [run EXCEPT !.step = s, !.outcome = o]
  <2>1. CASE r = "ok" /\ src # Absent /\ checkProjectable(src) = None
    BY <2>1 DEF getSource, src, want, targets
  <2>2. CASE ~(r = "ok" /\ src # Absent /\ checkProjectable(src) = None)
    BY <2>2 DEF getSource, src
  <2> QED
    BY <2>1, <2>2
<1>6. /\ SameRun /\ run'.current = run.current
      /\ run'.step \in {"flush", "listOwned", "fanOut"}
      /\ run'.step = "fanOut" => run'.want = want /\ src # Absent
  <2>1. CASE run' = FanOutTo(targets, want) /\ src # Absent
    BY <1>1, <2>1 DEF FanOutTo, SameRun, Runs
  <2>2. CASE \E s \in {"flush", "listOwned"} : \E o :
               run' = [run EXCEPT !.step = s, !.outcome = o]
    BY <1>1, <2>2 DEF SameRun, Runs
  <2> QED
    BY <1>5, <2>1, <2>2
<1>7. WriteInv'
  BY <1>1, <1>4, <1>6 DEF IInv, WriteInv, SameRun, Carries, Dest
<1> QED
  BY <1>1, <1>2, <1>6, <1>7, ClaimSame, OrdinaryKeepsInv

\* The Get of the fan-out: a namespace with an Update to make was seen with our
\* stamp.
LEMMA GetDestKeepsInv ==
  ASSUME TypeOK, TypeOK', IInv, NEW n \in Namespaces, NEW r \in Replies, getDest(n, r)
  PROVE  IInv'
<1>1. /\ run.step = "fanOut" /\ run \in Runs
      /\ UNCHANGED <<objects, served, cps, cpCache, cpCacheFresh>>
  BY DEF getDest, apiVars, TypeOK
<1>2. ~run.cp.deleting
  BY <1>1, PhaseFacts
<1>3. /\ run.current \in SUBSET Namespaces /\ run.current \cup {n} \in SUBSET Namespaces
  BY <1>1 DEF Runs
<1>4. \E current \in SUBSET Namespaces,
         next \in {"get", "create", "update", "written", "failed"} :
        /\ Progress(n, next, current)
        /\ \/ current = run.current
           \/ current = run.current \cup {n} /\ Carries(Dest(n), run.name)
  BY <1>3 DEF getDest, Live, Carries
<1>5. /\ SameRun /\ run'.step \in {"fanOut", "listOwned"} /\ run'.want = run.want
      /\ \/ run'.current = run.current
         \/ run'.current = run.current \cup {n} /\ Carries(Dest(n), run.name)
  BY <1>1, <1>4, ProgressRun
<1>6. WriteInv'
  BY <1>1, <1>5 DEF IInv, WriteInv, SameRun, Carries, Dest
<1> QED
  BY <1>1, <1>2, <1>5, <1>6, ClaimSame, OrdinaryKeepsInv

\* A write of one object, with no stamp or with one that its owner answers for.
LEMMA ClaimAfterPut ==
  ASSUME TypeOK, IInv, NEW c \in Coords, NEW obj \in Objects \cup {Absent},
         objects' = [objects EXCEPT ![c] = obj], cps' = cps,
         \A p \in ClusterProjections :
           Tidy /\ c \in Places /\ obj # Absent /\ isOwnedByCluster(obj, p) =>
             /\ Guarded(cps[p])
             /\ obj.labels[ownedByClusterUIDLabel] = cps[p].uid
             /\ c.kind = cps[p].spec.source.kind
  PROVE  ClaimInv'
<1>1. objects'[c] = obj /\ \A d \in Coords \ {c} : objects'[d] = objects[d]
  BY PutObject DEF TypeOK
<1> SUFFICES ASSUME Tidy, NEW d \in Places, NEW p \in ClusterProjections, Carries(d, p)'
             PROVE  /\ Guarded(cps[p])
                    /\ objects'[d].labels[ownedByClusterUIDLabel] = cps[p].uid
                    /\ d.kind = cps[p].spec.source.kind
  BY DEF ClaimInv, Guarded
<1>2. CASE d = c
  BY <1>1, <1>2 DEF Carries
<1>3. CASE d # c
  BY <1>1, <1>3 DEF Carries, IInv, ClaimInv, Places
<1> QED
  BY <1>2, <1>3

\* The Create or the Update of the fan-out: it stamps one destination for a
\* ClusterProjection whose finalizer is stored, and disturbs no other namespace.
LEMMA WriteDestKeepsInv ==
  ASSUME TypeOK, TypeOK', IInv, NEW n \in Namespaces, NEW r \in Replies, writeDest(n, r)
  PROVE  IInv'
<1> DEFINE obj == Allocate(Dest(n), Desired(n))
<1>1. /\ run.step = "fanOut" /\ run \in Runs /\ run.want \in Objects
      /\ UNCHANGED <<served, cps, cpCache, cpCacheFresh>>
  BY DEF writeDest, TypeOK, Operands
<1>2. /\ run.name \in ClusterProjections /\ ~run.cp.deleting
      /\ \A m \in Namespaces : Dest(m) \in Coords /\ Dest(m).kind = Kind /\ Dest(m).ns = m
  BY <1>1, PhaseFacts
<1>3. run.current \ {n} \in SUBSET Namespaces
  BY <1>1 DEF Runs
<1>4. \E next \in {"get", "create", "update", "written", "failed"} :
        Progress(n, next, run.current \ {n})
  BY DEF writeDest
<1>5. /\ SameRun /\ run'.step \in {"fanOut", "listOwned"} /\ run'.want = run.want
      /\ run'.current = run.current \ {n}
  BY <1>1, <1>3, <1>4, ProgressRun
<1>6. CASE objects' = objects
  <2>1. WriteInv'
    BY <1>1, <1>5, <1>6 DEF IInv, WriteInv, SameRun, Carries, Dest
  <2> QED
    BY <1>1, <1>2, <1>5, <1>6, <2>1, ClaimSame, OrdinaryKeepsInv
<1>7. CASE objects' # objects
  <2>1. /\ objects' = [objects EXCEPT ![Dest(n)] = obj]
        /\ run.at[n] # "create" => Live(Dest(n)) # Absent
    BY <1>7 DEF writeDest, Put, UpdateAccepted
  <2>2. Live(Dest(n)) \in Objects \cup {Absent}
    BY <1>2 DEF Live, TypeOK, ApiType
  <2>3. /\ Desired(n) \in Objects /\ Desired(n).annotations = run.want.annotations
        /\ Desired(n).labels = run.want.labels
    BY <1>1, <2>1, <2>2, PreserveObject DEF Desired
  <2>4. /\ obj \in Objects /\ obj.annotations = run.want.annotations
        /\ obj.labels = run.want.labels
    BY <1>2, <2>3, AllocateObject
  <2> HIDE DEF obj
  <2>5. /\ \A p \in ClusterProjections : isOwnedByCluster(obj, p) => p = run.name
        /\ obj.labels[ownedByClusterUIDLabel] = run.cp.uid
    BY <1>1, <2>4 DEF IInv, WriteInv, isOwnedByCluster
  <2>6. Guarded(cps[run.name]) /\ SameCP(cps[run.name], run.cp)
    BY <1>1, <1>2 DEF IInv, FinalizerInv, Writing, Running
  <2>7. Dest(n) \in Coords /\ Dest(n).kind = run.cp.spec.source.kind
    BY <1>2 DEF Kind
  <2>8. ClaimInv'
    BY <1>1, <2>1, <2>4, <2>5, <2>6, <2>7, ClaimAfterPut DEF SameCP
  <2>9. WriteInv'
    <3>1. \A d \in Coords \ {Dest(n)} : objects'[d] = objects[d]
      BY <2>1, <2>7, PutObject DEF TypeOK
    <3>2. \A m \in run'.current : /\ m \in run.current /\ Dest(m) \in Coords \ {Dest(n)}
                                  /\ Dest(m)' = Dest(m)
      BY <1>1, <1>2, <1>5 DEF Runs, SameRun, Dest
    <3>3. \A m \in run'.current : Carries(Dest(m), run.name)'
      BY <1>1, <1>5, <3>1, <3>2 DEF IInv, WriteInv, Carries, SameRun
    <3> QED
      BY <1>1, <1>5, <3>3 DEF IInv, WriteInv, SameRun, Carries
  <2> QED
    BY <1>1, <1>2, <1>5, <2>8, <2>9, OrdinaryKeepsInv
<1> QED
  BY <1>6, <1>7

\* The List of a deletion finds every copy that is left.
LEMMA ListOwnedKeepsInv ==
  ASSUME TypeOK, TypeOK', IInv, NEW r \in Replies, listOwned(r)
  PROVE  IInv'
<1> DEFINE listed == {c \in Existing(Kind) :
                        /\ objects[c].labels[ownedByClusterUIDLabel] = run.cp.uid
                        /\ isOwnedByCluster(objects[c], run.name)
                        /\ c.ns \notin Keep}
<1>1. /\ run.step = "listOwned" /\ run \in Runs /\ cpDelayed \subseteq ClusterProjections
      /\ UNCHANGED <<objects, served, cps, cpCache, cpCacheFresh>>
      /\ run.name \in ClusterProjections
  BY PhaseFacts DEF listOwned, apiVars, TypeOK, ManagerType
<1>2. \/ SweepDone(TRUE)
      \/ SweepDone(FALSE) /\ listed = {}
      \/ run' = [run EXCEPT !.step = "deleteListed", !.sweep = listed]
  BY DEF listOwned
<1>3. ASSUME Tidy, Finalizing, NEW c \in Places, Carries(c, run.name)
      PROVE  c \in listed
  <2>1. Keep = {}
    BY <1>3 DEF Keep, StaleSweep, Finalizing
  <2> QED
    BY <1>3, <2>1, FinalizedCopies DEF Existing, Carries, Places
<1> HIDE DEF listed
<1>4. CASE run'.step = "idle"
  BY <1>1, <1>4, ClaimSame, ReturnKeepsInv
<1>5. CASE run'.step # "idle"
  <2>1. /\ SameRun
        /\ run'.step \in {"removeFinalizer", "ensureClusterDestWatch", "flush", "deleteListed"}
        /\ run.cp.deleting =>
             \/ run'.step = "removeFinalizer" /\ listed = {}
             \/ run'.step = "deleteListed" /\ run'.sweep = listed
        /\ ~run.cp.deleting => run'.step # "removeFinalizer"
    <3>1. CASE SweepDone(TRUE)
      BY <1>1, <1>5, <3>1, SweepDoneRun
    <3>2. CASE SweepDone(FALSE) /\ listed = {}
      BY <1>1, <1>5, <3>2, SweepDoneRun
    <3>3. CASE run' = [run EXCEPT !.step = "deleteListed", !.sweep = listed]
      BY <1>1, <3>3 DEF Runs, SameRun
    <3> QED
      BY <1>2, <3>1, <3>2, <3>3
  <2>2. CopyPart' /\ (Finalizing' <=> Finalizing)
    BY <1>1, <2>1, CopyPartStay
  <2>3. StepInv' /\ WriteInv'
    BY <2>1 DEF StepInv, WriteInv, Finalizing, Running, SameRun
  <2>4. SweepInv'
    BY <1>1, <1>3, <2>1, <2>2 DEF SweepInv, Finalizing, SameRun, Carries
  <2> QED
    BY <1>1, <2>2, <2>3, <2>4, ClaimSame DEF IInv, CopyPart
<1> QED
  BY <1>4, <1>5

\* One Delete of the sweep: the copy is gone, or an error is remembered.
LEMMA DeleteListedKeepsInv ==
  ASSUME TypeOK, TypeOK', IInv, NEW c \in Coords, NEW r \in Replies, deleteListed(c, r)
  PROVE  IInv'
<1> DEFINE failed == run.failed \/ r # "ok"
<1>1. /\ run.step = "deleteListed" /\ run \in Runs /\ cpDelayed \subseteq ClusterProjections
      /\ UNCHANGED <<served, cps, cpCache, cpCacheFresh>>
      /\ run.name \in ClusterProjections
  BY PhaseFacts DEF deleteListed, TypeOK, ManagerType
<1>2. /\ objects' = [objects EXCEPT ![c] = Absent] \/ objects' = objects
      /\ r = "ok" /\ Live(c) # Absent => objects' = [objects EXCEPT ![c] = Absent]
  BY DEF deleteListed, Put
<1>3. /\ \A d \in Coords : objects'[d] \in {objects[d], Absent}
      /\ r = "ok" /\ Live(c) # Absent => objects'[c] = Absent
  BY <1>2, PutObject DEF TypeOK
<1>4. \A d \in Coords : \A p : Carries(d, p)' => Carries(d, p) /\ objects'[d] = objects[d]
  BY <1>3 DEF Carries
<1>5. ClaimInv'
  BY <1>1, <1>4 DEF IInv, ClaimInv, Guarded, Places
<1>6. ASSUME Tidy, Finalizing, ~failed, NEW d \in Places, NEW p, p = run.name,
             Carries(d, p)'
      PROVE  d \in run.sweep \ {c}
  <2>1. Carries(d, run.name) /\ objects'[d] # Absent
    BY <1>4, <1>6 DEF Places, Carries
  <2>2. d \in run.sweep
    BY <1>1, <1>6, <2>1 DEF IInv, SweepInv
  <2>3. d # c
    BY <1>3, <1>6, <2>1, FinalizedCopies DEF Replies
  <2> QED
    BY <2>2, <2>3
<1> HIDE DEF failed
<1>7. CASE run'.step = "idle"
  BY <1>1, <1>5, <1>7, ReturnKeepsInv
<1>8. CASE run'.step # "idle"
  <2>1. /\ SameRun
        /\ run'.step \in {"removeFinalizer", "ensureClusterDestWatch", "flush", "deleteListed"}
        /\ run.cp.deleting =>
             \/ run'.step = "removeFinalizer" /\ run.sweep = {c} /\ ~failed
             \/ /\ run'.step = "deleteListed"
                /\ run'.sweep = run.sweep \ {c} /\ run'.failed = failed
        /\ ~run.cp.deleting => run'.step # "removeFinalizer"
    <3>1. CASE run.sweep = {c}
      <4>1. SweepDone(failed)
        BY <3>1 DEF deleteListed, failed
      <4> QED
        BY <1>1, <1>8, <3>1, <4>1, SweepDoneRun
    <3>2. CASE run.sweep # {c}
      <4>1. run' = [run EXCEPT !.sweep = run.sweep \ {c}, !.failed = failed]
        BY <1>1, <3>2 DEF deleteListed, failed, Runs
      <4> QED
        BY <1>1, <4>1 DEF Runs, SameRun
    <3> QED
      BY <3>1, <3>2
  <2>2. CopyPart' /\ (Finalizing' <=> Finalizing)
    BY <1>1, <2>1, CopyPartStay
  <2>3. StepInv' /\ WriteInv'
    BY <2>1 DEF StepInv, WriteInv, Finalizing, Running, SameRun
  <2>4. SweepInv'
    <3> SUFFICES ASSUME Tidy, Finalizing, NEW d \in Places, NEW p, p = run.name,
                        Carries(d, p)'
                 PROVE  /\ run'.step # "removeFinalizer"
                        /\ run'.step = "deleteListed" => d \in run'.sweep \/ run'.failed
      BY <2>1, <2>2 DEF SweepInv, SameRun, Carries
    <3> QED
      BY <1>6, <2>1 DEF Finalizing
  <2> QED
    BY <1>1, <1>5, <2>2, <2>3, <2>4 DEF IInv, CopyPart
<1> QED
  BY <1>7, <1>8

\* A new version of one ClusterProjection that is no less guarded than the old
\* one, and ended where that was, keeps what is known from outside a reconcile.
LEMMA CopyWrite ==
  ASSUME TypeOK, IInv, NEW p \in ClusterProjections, NEW cp \in CPs \cup {Absent},
         PutCP(p, cp), UNCHANGED <<objects, cpCache>>,
         cp # Absent => cp.spec \in ClusterSpecs[p] /\ (cp.deleting => cp.finalizer),
         Guarded(cps[p]) => Guarded(cp) /\ SameCP(cp, cps[p]),
         \A old : Ended(old, cps[p]) => Ended(old, cp)
  PROVE  /\ SpecsInv' /\ ClaimInv'
         /\ \A q \in ClusterProjections : cpCacheFresh'[q] => cpCache'[q] = cps'[q]
         /\ \A q \in ClusterProjections :
              /\ Guarded(cps[q]) => Guarded(cps'[q]) /\ SameCP(cps'[q], cps[q])
              /\ \A old : Ended(old, cps[q]) => Ended(old, cps'[q])
         /\ \A q \in ClusterProjections :
              /\ cps'[q] # Absent /\ cps'[q].deleting => cps'[q].finalizer
              /\ cpCache'[q] # Absent /\ cpCache'[q].finalizer /\ ~cpCache'[q].deleting
                   => Guarded(cps'[q]) /\ SameCP(cps'[q], cpCache'[q])
              /\ cpCache'[q] # Absent /\ cpCache'[q].deleting => Ended(cpCache'[q], cps'[q])
<1>1. /\ cps'[p] = cp /\ cpCacheFresh'[p] = FALSE
      /\ \A q \in ClusterProjections \ {p} :
           cps'[q] = cps[q] /\ cpCacheFresh'[q] = cpCacheFresh[q]
  BY PutOneCP DEF TypeOK
<1>2. \A q \in ClusterProjections :
        /\ Guarded(cps[q]) => Guarded(cps'[q]) /\ SameCP(cps'[q], cps[q])
        /\ \A old : Ended(old, cps[q]) => Ended(old, cps'[q])
  BY <1>1 DEF SameCP
<1>3. SpecsInv' /\ \A q \in ClusterProjections : cpCacheFresh'[q] => cpCache'[q] = cps'[q]
  BY <1>1 DEF IInv, SpecsInv, CopiesInv
<1>4. ClaimInv'
  <2> SUFFICES ASSUME Tidy, NEW c \in Places, NEW q \in ClusterProjections, Carries(c, q)
               PROVE  /\ Guarded(cps'[q])
                      /\ objects[c].labels[ownedByClusterUIDLabel] = cps'[q].uid
                      /\ c.kind = cps'[q].spec.source.kind
    BY DEF ClaimInv, Carries, Guarded
  <2>1. /\ Guarded(cps[q])
        /\ objects[c].labels[ownedByClusterUIDLabel] = cps[q].uid
        /\ c.kind = cps[q].spec.source.kind
    BY DEF IInv, ClaimInv
  <2> QED
    BY <1>2, <2>1 DEF SameCP
<1>5. ASSUME NEW q \in ClusterProjections
      PROVE  /\ cps'[q] # Absent /\ cps'[q].deleting => cps'[q].finalizer
             /\ cpCache'[q] # Absent /\ cpCache'[q].finalizer /\ ~cpCache'[q].deleting
                  => Guarded(cps'[q]) /\ SameCP(cps'[q], cpCache'[q])
             /\ cpCache'[q] # Absent /\ cpCache'[q].deleting => Ended(cpCache'[q], cps'[q])
  <2>1. /\ cps[q] # Absent /\ cps[q].deleting => cps[q].finalizer
        /\ cpCache[q] # Absent /\ cpCache[q].finalizer /\ ~cpCache[q].deleting
             => Guarded(cps[q]) /\ SameCP(cps[q], cpCache[q])
        /\ cpCache[q] # Absent /\ cpCache[q].deleting => Ended(cpCache[q], cps[q])
    BY <1>5 DEF IInv, FinalizerInv
  <2>2. cps'[q] # Absent /\ cps'[q].deleting => cps'[q].finalizer
    BY <1>1, <2>1
  <2>3. ASSUME NEW a, NEW b, NEW d, SameCP(a, b), SameCP(b, d) PROVE SameCP(a, d)
    BY <2>3 DEF SameCP
  <2> QED
    BY <1>2, <2>1, <2>2, <2>3
<1> QED
  BY <1>2, <1>3, <1>4, <1>5

\* Such a version written by the last request of a reconcile, which returns.
LEMMA LastWriteKeepsInv ==
  ASSUME TypeOK, IInv, NEW p \in ClusterProjections, NEW cp \in CPs \cup {Absent},
         PutCP(p, cp), UNCHANGED <<objects, served, cpCache>>, run'.step = "idle",
         cp # Absent => cp.spec \in ClusterSpecs[p] /\ (cp.deleting => cp.finalizer),
         Guarded(cps[p]) => Guarded(cp) /\ SameCP(cp, cps[p]),
         \A old : Ended(old, cps[p]) => Ended(old, cp)
  PROVE  IInv'
<1>1. StepInv' /\ WriteInv' /\ SweepInv' /\ ~Running' /\ ~Finalizing' /\ ~Writing'
  BY IdleInv
<1>2. SpecsInv' /\ ClaimInv'
  BY CopyWrite
<1>3. CopiesInv'
  BY <1>1, CopyWrite DEF CopiesInv
<1>4. FinalizerInv'
  <2>1. \A q \in ClusterProjections :
          /\ cps'[q] # Absent /\ cps'[q].deleting => cps'[q].finalizer
          /\ cpCache'[q] # Absent /\ cpCache'[q].finalizer /\ ~cpCache'[q].deleting
               => Guarded(cps'[q]) /\ SameCP(cps'[q], cpCache'[q])
          /\ cpCache'[q] # Absent /\ cpCache'[q].deleting => Ended(cpCache'[q], cps'[q])
    BY CopyWrite
  <2> QED
    BY <1>1, <2>1 DEF FinalizerInv, Guarded, Ended, SameCP
<1>5. ServedInv'
  BY DEF IInv, ServedInv
<1> QED
  BY <1>1, <1>2, <1>3, <1>4, <1>5 DEF IInv

\* The status update: of the stored version, and nothing but its status.
LEMMA FlushKeepsInv ==
  ASSUME TypeOK, TypeOK', IInv, NEW r \in Replies, flush(r)
  PROVE  IInv'
<1> DEFINE p == run.name
           cp == [cps[p] EXCEPT !.status = Staged]
<1>1. /\ run.step = "flush" /\ p \in ClusterProjections /\ run \in Runs /\ run.cp \in CPs
      /\ UNCHANGED <<objects, served, cpCache>> /\ run'.step = "idle"
      /\ run.outcome \in Reasons
  BY PhaseFacts DEF flush, Return, Idle, TypeOK, Operands
<1>2. CASE UNCHANGED <<cps, cpCacheFresh>>
  BY <1>1, <1>2, ClaimSame, ReturnKeepsInv
<1>3. CASE ~UNCHANGED <<cps, cpCacheFresh>>
  <2>1. PutCP(p, cp) /\ cps[p] # Absent
    BY <1>3 DEF flush, UpdateCP, CopyAccepted
  <2>2. cps[p] \in CPs /\ Staged \in Statuses
    BY <1>1, <2>1, StagedStatus DEF TypeOK, ApiType
  <2>3. /\ cp \in CPs /\ cp # Absent /\ cp.spec = cps[p].spec /\ cp.uid = cps[p].uid
        /\ cp.deleting = cps[p].deleting /\ cp.finalizer = cps[p].finalizer
    BY <2>2, ClusterAbsentAssumption DEF CPs
  <2>4. cps[p].spec \in ClusterSpecs[p] /\ (cps[p].deleting => cps[p].finalizer)
    BY <1>1, <2>1 DEF IInv, SpecsInv, FinalizerInv
  <2> HIDE DEF cp
  <2>5. /\ Guarded(cps[p]) => Guarded(cp) /\ SameCP(cp, cps[p])
        /\ \A old : Ended(old, cps[p]) => Ended(old, cp)
    BY <2>1, <2>3 DEF Guarded, SameCP, Ended
  <2> QED
    BY <1>1, <2>1, <2>3, <2>4, <2>5, LastWriteKeepsInv
<1> QED
  BY <1>2, <1>3

\* The finalizer goes, and with it the ClusterProjection, only when the copy is
\* the stored version, no cached one could start writing, and no copy is left.
LEMMA RemoveFinalizerKeepsInv ==
  ASSUME TypeOK, TypeOK', IInv, NEW r \in Replies, removeFinalizer(r)
  PROVE  IInv'
<1> DEFINE p == run.name
<1>1. /\ run.step = "removeFinalizer" /\ p \in ClusterProjections
      /\ UNCHANGED <<objects, served, cpCache>> /\ run'.step = "idle"
  BY PhaseFacts DEF removeFinalizer, Return, Idle
<1>2. CASE UNCHANGED <<cps, cpCacheFresh>>
  BY <1>1, <1>2, ClaimSame, ReturnKeepsInv
<1>3. CASE ~UNCHANGED <<cps, cpCacheFresh>>
  <2>1. PutCP(p, Absent)
    BY <1>3 DEF removeFinalizer, UpdateCP
  <2>2. /\ cps'[p] = Absent /\ cpCacheFresh'[p] = FALSE
        /\ \A q \in ClusterProjections \ {p} :
             cps'[q] = cps[q] /\ cpCacheFresh'[q] = cpCacheFresh[q]
    BY <1>1, <2>1, PutOneCP DEF TypeOK
  <2>3. Finalizing /\ Ended(run.cp, cpCache[p])
    BY <1>1 DEF IInv, StepInv, FinalizerInv, Finalizing, Running
  <2>4. StepInv' /\ WriteInv' /\ SweepInv' /\ ~Running' /\ ~Finalizing' /\ ~Writing'
    BY <1>1, IdleInv
  <2>5. SpecsInv' /\ CopiesInv' /\ ServedInv'
    BY <1>1, <2>2, <2>4 DEF IInv, SpecsInv, CopiesInv, ServedInv
  <2>6. FinalizerInv'
    <3>1. ASSUME NEW q \in ClusterProjections
          PROVE  /\ cps'[q] # Absent /\ cps'[q].deleting => cps'[q].finalizer
                 /\ cpCache'[q] # Absent /\ cpCache'[q].finalizer /\ ~cpCache'[q].deleting
                      => Guarded(cps'[q]) /\ SameCP(cps'[q], cpCache'[q])
                 /\ cpCache'[q] # Absent /\ cpCache'[q].deleting
                      => Ended(cpCache'[q], cps'[q])
      <4>1. CASE q = p
        BY <1>1, <2>2, <2>3, <4>1 DEF Ended
      <4>2. CASE q # p
        BY <1>1, <2>2, <4>2 DEF IInv, FinalizerInv
      <4> QED
        BY <4>1, <4>2
    <3> QED
      BY <2>4, <3>1 DEF FinalizerInv, Guarded, Ended, SameCP
  <2>7. ClaimInv'
    <3> SUFFICES ASSUME Tidy, NEW c \in Places, NEW q \in ClusterProjections, Carries(c, q)
                 PROVE  /\ Guarded(cps'[q])
                        /\ objects[c].labels[ownedByClusterUIDLabel] = cps'[q].uid
                        /\ c.kind = cps'[q].spec.source.kind
      BY <1>1 DEF ClaimInv, Carries, Guarded
    <3>1. q # p
      BY <1>1, <2>3 DEF IInv, SweepInv
    <3> QED
      BY <2>2, <3>1 DEF IInv, ClaimInv
  <2> QED
    BY <2>4, <2>5, <2>6, <2>7 DEF IInv
<1> QED
  BY <1>2, <1>3

\* The finalizer is stored on a version that the cache still shows, so no cached
\* copy claims it before it is there.
LEMMA EnsureFinalizerKeepsInv ==
  ASSUME TypeOK, TypeOK', IInv, NEW r \in Replies, ensureClusterFinalizer(r)
  PROVE  IInv'
<1> DEFINE p == run.name
           cp == [run.cp EXCEPT !.finalizer = TRUE]
<1>1. /\ run.step = "ensureClusterFinalizer" /\ p \in ClusterProjections /\ run \in Runs
      /\ run.cp \in CPs /\ UNCHANGED <<objects, served, cpCache>>
  BY PhaseFacts DEF ensureClusterFinalizer, TypeOK
<1>2. CASE UNCHANGED <<cps, cpCacheFresh>> /\ run'.step = "idle"
  BY <1>1, <1>2, ClaimSame, ReturnKeepsInv
<1>3. CASE CopyAccepted /\ PutCP(p, cp)
  <2>1. /\ cps'[p] = cp /\ cpCacheFresh'[p] = FALSE
        /\ \A q \in ClusterProjections \ {p} :
             cps'[q] = cps[q] /\ cpCacheFresh'[q] = cpCacheFresh[q]
    BY <1>1, <1>3, PutOneCP DEF TypeOK
  <2>2. /\ cps[p] # Absent /\ run.fresh /\ run.cp = cps[p] /\ cpCache[p] = cps[p]
        /\ ~run.cp.finalizer
    BY <1>1, <1>3 DEF CopyAccepted, IInv, CopiesInv, StepInv, Running
  <2>3. ~run.cp.deleting /\ run.cp.spec \in ClusterSpecs[p]
    BY <1>1, <2>2 DEF IInv, FinalizerInv, SpecsInv
  <2>4. /\ cp \in CPs /\ cp # Absent /\ cp.spec = run.cp.spec /\ cp.uid = run.cp.uid
        /\ ~cp.deleting /\ cp.finalizer
    BY <1>1, <2>3, ClusterAbsentAssumption DEF CPs
  <2> HIDE DEF cp
  <2>5. \/ run'.step = "idle"
        \/ /\ run'.step = "resolveGVR" /\ run'.cp = cp /\ run'.name = p
           /\ run'.current = run.current
    <3>1. CASE Return(TRUE)
      BY <3>1 DEF Return, Idle
    <3>2. CASE run' = [run EXCEPT !.step = "resolveGVR", !.cp = cp]
      BY <1>1, <3>2 DEF Runs
    <3> QED
      BY <3>1, <3>2 DEF ensureClusterFinalizer, cp
  <2>6. ~Finalizing' /\ (Running' => run'.step = "resolveGVR" /\ run'.cp = cp /\ run'.name = p)
    BY <2>4, <2>5 DEF Finalizing, Running
  <2>7. SpecsInv' /\ CopiesInv' /\ StepInv' /\ SweepInv' /\ ServedInv'
    <3>1. SpecsInv' /\ ServedInv'
      BY <1>1, <2>1, <2>3, <2>4 DEF IInv, SpecsInv, ServedInv
    <3>2. CopiesInv'
      BY <1>1, <2>1, <2>5, <2>6 DEF IInv, CopiesInv
    <3>3. StepInv' /\ SweepInv'
      BY <2>5, <2>6 DEF StepInv, SweepInv
    <3> QED
      BY <3>1, <3>2, <3>3
  <2>8. FinalizerInv'
    <3>1. ASSUME NEW q \in ClusterProjections
          PROVE  /\ cps'[q] # Absent /\ cps'[q].deleting => cps'[q].finalizer
                 /\ cpCache'[q] # Absent /\ cpCache'[q].finalizer /\ ~cpCache'[q].deleting
                      => Guarded(cps'[q]) /\ SameCP(cps'[q], cpCache'[q])
                 /\ cpCache'[q] # Absent /\ cpCache'[q].deleting
                      => Ended(cpCache'[q], cps'[q])
      <4>1. CASE q = p
        BY <1>1, <2>1, <2>2, <2>3, <2>4, <4>1
      <4>2. CASE q # p
        BY <1>1, <2>1, <4>2 DEF IInv, FinalizerInv
      <4> QED
        BY <4>1, <4>2
    <3>2. Writing' => Guarded(cps'[p]) /\ SameCP(cps'[p], cp)
      BY <2>1, <2>4 DEF Guarded, SameCP
    <3> QED
      BY <2>6, <3>1, <3>2 DEF FinalizerInv, Guarded, Ended, SameCP, Writing
  <2>9. WriteInv'
    BY <1>1, <2>4, <2>5 DEF IInv, WriteInv, Carries, Dest, DestIn
  <2>10. ClaimInv'
    <3> SUFFICES ASSUME Tidy, NEW c \in Places, NEW q \in ClusterProjections, Carries(c, q)
                 PROVE  /\ Guarded(cps'[q])
                        /\ objects[c].labels[ownedByClusterUIDLabel] = cps'[q].uid
                        /\ c.kind = cps'[q].spec.source.kind
      BY <1>1 DEF ClaimInv, Carries, Guarded
    <3>1. q # p
      BY <1>1, <2>2 DEF IInv, ClaimInv, Guarded
    <3> QED
      BY <2>1, <3>1 DEF IInv, ClaimInv
  <2> QED
    BY <2>7, <2>8, <2>9, <2>10 DEF IInv
<1> QED
  BY <1>2, <1>3 DEF ensureClusterFinalizer, UpdateCP, Return, Idle

\* A user's write of a ClusterProjection, under the reconcile in progress.
LEMMA UserOnCPKeepsInv ==
  ASSUME TypeOK, TypeOK', IInv, NEW p \in ClusterProjections, NEW cp \in CPs \cup {Absent},
         UserOnCP(p, cp),
         cp # Absent => cp.spec \in ClusterSpecs[p] /\ (cp.deleting => cp.finalizer),
         Guarded(cps[p]) => Guarded(cp) /\ SameCP(cp, cps[p]),
         \A old : Ended(old, cps[p]) => Ended(old, cp)
  PROVE  IInv'
<1>1. /\ PutCP(p, cp) /\ UNCHANGED <<objects, served, cpCache>> /\ run \in Runs
      /\ run' = [run EXCEPT !.fresh = run.fresh /\ run.name # p]
  BY DEF UserOnCP, TypeOK, Runs
<1>2. /\ run'.step = run.step /\ run'.name = run.name /\ run'.cp = run.cp
      /\ run'.fresh = (run.fresh /\ run.name # p) /\ SameWork /\ SameSweep
  BY <1>1 DEF Runs, SameWork, SameSweep
<1>3. /\ SpecsInv' /\ ClaimInv'
      /\ \A q \in ClusterProjections : cpCacheFresh'[q] => cpCache'[q] = cps'[q]
  BY <1>1, CopyWrite
<1>4. \A q \in ClusterProjections :
        /\ Guarded(cps[q]) => Guarded(cps'[q]) /\ SameCP(cps'[q], cps[q])
        /\ \A old : Ended(old, cps[q]) => Ended(old, cps'[q])
  BY <1>1, CopyWrite
<1>5. \A q \in ClusterProjections :
        /\ cps'[q] # Absent /\ cps'[q].deleting => cps'[q].finalizer
        /\ cpCache'[q] # Absent /\ cpCache'[q].finalizer /\ ~cpCache'[q].deleting
             => Guarded(cps'[q]) /\ SameCP(cps'[q], cpCache'[q])
        /\ cpCache'[q] # Absent /\ cpCache'[q].deleting => Ended(cpCache'[q], cps'[q])
  BY <1>1, CopyWrite
<1>6. /\ (Running' <=> Running) /\ (Writing' <=> Writing) /\ (Finalizing' <=> Finalizing)
      /\ Writing \/ Finalizing => Running
      /\ Running => run.name \in ClusterProjections
  BY <1>2, PhaseFacts DEF Running, Writing, Finalizing
<1>7. CopiesInv'
  <2>1. /\ cps'[p] = cp
        /\ \A q \in ClusterProjections \ {p} :
             cps'[q] = cps[q] /\ cpCacheFresh'[q] = cpCacheFresh[q]
    BY <1>1, PutOneCP DEF TypeOK
  <2> QED
    BY <1>2, <1>3, <1>6, <2>1 DEF IInv, CopiesInv, Running
<1>8. FinalizerInv'
  <2>1. Writing => Guarded(cps'[run.name]) /\ SameCP(cps'[run.name], run.cp)
    <3>1. Writing => Guarded(cps[run.name]) /\ SameCP(cps[run.name], run.cp)
      BY DEF IInv, FinalizerInv
    <3> QED
      BY <1>4, <1>6, <3>1 DEF SameCP
  <2>2. Finalizing => Ended(run.cp, cps'[run.name]) /\ Ended(run.cp, cpCache'[run.name])
    <3>1. Finalizing => Ended(run.cp, cps[run.name]) /\ Ended(run.cp, cpCache[run.name])
      BY DEF IInv, FinalizerInv
    <3> QED
      BY <1>1, <1>4, <1>6, <3>1
  <2> QED
    BY <1>2, <1>5, <1>6, <2>1, <2>2 DEF FinalizerInv, Guarded, Ended, SameCP
<1>9. StepInv' /\ WriteInv' /\ SweepInv' /\ ServedInv'
  <2>1. StepInv' /\ ServedInv'
    BY <1>1, <1>2, <1>6 DEF IInv, StepInv, ServedInv
  <2>2. WriteInv'
    BY <1>1, <1>2 DEF IInv, WriteInv, Carries, Dest, SameWork
  <2>3. SweepInv'
    BY <1>1, <1>2, <1>6 DEF IInv, SweepInv, Carries, SameSweep
  <2> QED
    BY <2>1, <2>2, <2>3
<1> QED
  BY <1>3, <1>7, <1>8, <1>9 DEF IInv

\* Creating, editing and deleting a ClusterProjection.
LEMMA UserCPStepsKeepInv ==
  ASSUME TypeOK, TypeOK', IInv, NEW p \in ClusterProjections,
         \/ CreateClusterProjection(p) \/ EditClusterProjection(p)
         \/ DeleteClusterProjection(p)
  PROVE  IInv'
<1>1. CASE CreateClusterProjection(p)
  <2>1. PICK s \in ClusterSpecs[p] : UserOnCP(p, NewCP(p, cpIncarnation[p] + 1, s))
    BY <1>1 DEF CreateClusterProjection
  <2> DEFINE cp == NewCP(p, cpIncarnation[p] + 1, s)
  <2>2. cps[p] = Absent /\ cp.spec = s /\ ~cp.deleting /\ ~cp.finalizer
    BY <1>1 DEF CreateClusterProjection, NewCP
  <2>3. cp \in CPs
    <3>1. cpIncarnation[p] + 1 \in 1 .. MaxIncarnations
      BY <1>1, ClusterBoundsAssumption DEF CreateClusterProjection, TypeOK, BoundType
    <3> QED
      BY <3>1, NewCPType, ClusterSpecsAssumption
  <2> HIDE DEF cp
  <2> QED
    BY <2>1, <2>2, <2>3, UserOnCPKeepsInv DEF cp, Guarded, Ended
<1>2. CASE EditClusterProjection(p)
  <2>1. PICK s \in ClusterSpecs[p] : UserOnCP(p, [cps[p] EXCEPT !.spec = s])
    BY <1>2 DEF EditClusterProjection
  <2> DEFINE cp == [cps[p] EXCEPT !.spec = s]
  <2>2. cps[p] \in CPs /\ cps[p] # Absent
    BY <1>2 DEF EditClusterProjection, TypeOK, ApiType
  <2>3. /\ cp \in CPs /\ cp # Absent /\ cp.spec = s /\ cp.uid = cps[p].uid
        /\ cp.deleting = cps[p].deleting /\ cp.finalizer = cps[p].finalizer
    BY <2>2, ClusterSpecsAssumption, ClusterAbsentAssumption DEF CPs
  <2>4. (cp.deleting => cp.finalizer) /\ cps[p].spec \in ClusterSpecs[p]
    BY <2>2, <2>3 DEF IInv, FinalizerInv, SpecsInv
  <2>5. SameCP(cp, cps[p])
    BY <1>2, <2>3, <2>4 DEF EditClusterProjection, UserStep, SameCP, Tidy, StableKinds
  <2> HIDE DEF cp
  <2>6. /\ Guarded(cps[p]) => Guarded(cp)
        /\ \A old : Ended(old, cps[p]) => Ended(old, cp)
    BY <2>2, <2>3, <2>5 DEF Guarded, Ended, SameCP
  <2> QED
    BY <2>1, <2>3, <2>4, <2>5, <2>6, UserOnCPKeepsInv DEF cp
<1>3. CASE DeleteClusterProjection(p)
  <2>1. cps[p] \in CPs /\ cps[p] # Absent /\ ~cps[p].deleting
    BY <1>3 DEF DeleteClusterProjection, TypeOK, ApiType
  <2>2. CASE cps[p].finalizer
    <3> DEFINE cp == [cps[p] EXCEPT !.deleting = TRUE]
    <3>1. UserOnCP(p, cp)
      BY <1>3, <2>2 DEF DeleteClusterProjection
    <3>2. /\ cp \in CPs /\ cp # Absent /\ cp.spec = cps[p].spec /\ cp.uid = cps[p].uid
          /\ cp.deleting /\ cp.finalizer
      BY <2>1, <2>2, ClusterAbsentAssumption DEF CPs
    <3>3. cp.spec \in ClusterSpecs[p]
      BY <2>1, <3>2 DEF IInv, SpecsInv
    <3> HIDE DEF cp
    <3>4. /\ Guarded(cp) /\ SameCP(cp, cps[p])
          /\ \A old : Ended(old, cps[p]) => Ended(old, cp)
      BY <2>1, <2>2, <3>2 DEF Guarded, SameCP, Ended
    <3> QED
      BY <3>1, <3>2, <3>3, <3>4, UserOnCPKeepsInv
  <2>3. CASE ~cps[p].finalizer
    <3>1. UserOnCP(p, Absent)
      BY <1>3, <2>3 DEF DeleteClusterProjection
    <3> QED
      BY <2>3, <3>1, UserOnCPKeepsInv DEF Guarded, Ended
  <2> QED
    BY <2>2, <2>3
<1> QED
  BY <1>1, <1>2, <1>3

\* Somebody else writes an object, without adding a stamp: fetched destinations
\* that changed are no longer current, and the sweep has less to do.
LEMMA OutsideKeepsInv ==
  ASSUME TypeOK, TypeOK', IInv, NEW c \in Coords, NEW obj \in Objects \cup {Absent},
         PutOutside(c, obj), UNCHANGED <<served, cps, cpCache, cpCacheFresh>>,
         \A p \in ClusterProjections :
           obj # Absent /\ isOwnedByCluster(obj, p) =>
             /\ Carries(c, p)
             /\ Tidy => obj.labels[ownedByClusterUIDLabel]
                          = objects[c].labels[ownedByClusterUIDLabel]
  PROVE  IInv'
<1>1. /\ objects' = [objects EXCEPT ![c] = obj] /\ run \in Runs
      /\ run'.step = run.step /\ SameRun /\ SameSweep /\ run'.want = run.want
      /\ run'.current = StillCurrent({c})
  BY OutsideRun DEF PutOutside, Put, TypeOK
<1>2. objects'[c] = obj /\ \A d \in Coords \ {c} : objects'[d] = objects[d]
  BY <1>1, PutObject DEF TypeOK
<1>3. ClaimInv'
  <2>1. \A p \in ClusterProjections :
          Tidy /\ c \in Places /\ obj # Absent /\ isOwnedByCluster(obj, p) =>
            /\ Guarded(cps[p])
            /\ obj.labels[ownedByClusterUIDLabel] = cps[p].uid
            /\ c.kind = cps[p].spec.source.kind
    BY DEF IInv, ClaimInv
  <2> QED
    BY <1>1, <2>1, ClaimAfterPut
<1>4. /\ (Running' <=> Running) /\ (Writing' <=> Writing) /\ (Finalizing' <=> Finalizing)
      /\ Running => run.name \in ClusterProjections
      /\ Writing \/ Finalizing => Running
  BY <1>1, PhaseFacts DEF Running, Writing, Finalizing, SameRun
<1>5. CopyPart' /\ StepInv'
  <2>1. SpecsInv' /\ ServedInv' /\ StepInv'
    BY <1>1, <1>4 DEF IInv, SpecsInv, ServedInv, StepInv, SameRun
  <2>2. CopiesInv'
    BY <1>1, <1>4 DEF IInv, CopiesInv, SameRun
  <2>3. FinalizerInv'
    BY <1>1, <1>4 DEF IInv, FinalizerInv, Guarded, Ended, SameCP, SameRun
  <2> QED
    BY <2>1, <2>2, <2>3 DEF CopyPart
<1>6. WriteInv'
  <2>1. ASSUME Running, NEW n \in run'.current
        PROVE  n \in run.current /\ Dest(n) \in Coords \ {c} /\ Dest(n)' = Dest(n)
    BY <1>1, <2>1, PhaseFacts DEF StillCurrent, Runs, Dest, SameRun, Running
  <2>2. Running /\ run.step \in {"ensureClusterFinalizer", "resolveGVR",
                                 "ensureSourceWatch", "getSource", "fanOut"} =>
          \A n \in run'.current : Carries(Dest(n), run.name)'
    BY <1>1, <1>2, <2>1 DEF IInv, WriteInv, Carries, SameRun
  <2> QED
    BY <1>1, <2>2 DEF IInv, WriteInv, Running, SameRun, Carries
<1>7. SweepInv'
  <2>1. ASSUME NEW d \in Coords, NEW p \in ClusterProjections, Carries(d, p)'
        PROVE  Carries(d, p)
    BY <1>2, <2>1 DEF Carries
  <2> SUFFICES ASSUME Tidy, Finalizing, NEW d \in Places, NEW p \in ClusterProjections,
                      p = run.name, Carries(d, p)'
               PROVE  /\ run'.step # "removeFinalizer"
                      /\ run'.step = "deleteListed" => d \in run'.sweep \/ run'.failed
    BY <1>1, <1>4 DEF SweepInv, SameRun, Carries
  <2>2. Carries(d, run.name)
    BY <2>1 DEF Places
  <2> QED
    BY <1>1, <2>2 DEF IInv, SweepInv, SameSweep
<1> QED
  BY <1>3, <1>5, <1>6, <1>7 DEF IInv, CopyPart

\* What users do to objects.
LEMMA UserWritesKeepsInv ==
  ASSUME TypeOK, TypeOK', IInv, NEW c \in Coords, NEW act \in ObjectActs, UserWrites(act, c)
  PROVE  IInv'
<1>1. PICK obj \in UserValues(act, c) : PutOutside(c, obj)
  BY DEF UserWrites
<1>2. /\ act \in UserActs /\ (act = "create") = (objects[c] = Absent)
      /\ UNCHANGED <<served, cps, cpCache, cpCacheFresh>>
  BY DEF UserWrites, UserStep
<1>3. Tidy => act # "stripLabel"
  BY <1>2 DEF Tidy
<1> QED
  BY <1>1, <1>2, <1>3, UserObjects, OutsideKeepsInv DEF TypeOK

\* The namespace controller.
LEMMA TerminateKeepsInv ==
  ASSUME TypeOK, TypeOK', IInv, NEW n \in Namespaces, Terminate(n)
  PROVE  IInv'
<1>1. CASE PutNamespace(n, Gone)
  BY <1>1, StillKeepsInv DEF PutNamespace
<1>2. CASE /\ \E c \in Coords : PutOutside(c, Absent)
           /\ UNCHANGED <<served, cps, cpCache, cpCacheFresh>>
  BY <1>2, OutsideKeepsInv
<1> QED
  BY <1>1, <1>2 DEF Terminate

\* Every step keeps the inductive invariant; one step per action.
LEMMA NextInv == TypeOK /\ TypeOK' /\ IInv /\ [Next]_vars => IInv'
<1> SUFFICES ASSUME TypeOK, TypeOK', IInv, [Next]_vars PROVE IInv'
  OBVIOUS
<1>1. CASE UNCHANGED vars
  BY <1>1, StillKeepsInv DEF vars, apiVars
<1>2. ASSUME NEW p \in ClusterProjections, Requeue(p) PROVE IInv'
  BY <1>2, StillKeepsInv DEF Requeue, apiVars
<1>3. ASSUME NEW n \in Namespaces, NamespaceSync(n) \/ mapNamespace(n) PROVE IInv'
  BY <1>3, StillKeepsInv DEF NamespaceSync, mapNamespace, apiVars
<1>4. CASE ReconcileStep
  BY <1>4, ResolveKeepsInv, WatchesKeepInv, EnsureFinalizerKeepsInv, GetSourceKeepsInv,
     GetDestKeepsInv, WriteDestKeepsInv, ListOwnedKeepsInv, DeleteListedKeepsInv,
     RemoveFinalizerKeepsInv, FlushKeepsInv DEF ReconcileStep
<1>5. CASE Operator
  BY <1>2, <1>3, <1>4, <1>5, ReconcileKeepsInv, CacheSyncKeepsInv, TerminateKeepsInv
     DEF Operator
<1>6. ASSUME NEW n \in Namespaces,
             \/ UserLabelsNamespace(n) \/ UserDeletesNamespace(n)
             \/ UserCreatesNamespace(n)
      PROVE  IInv'
  BY <1>6, StillKeepsInv DEF UserLabelsNamespace, UserDeletesNamespace,
     UserCreatesNamespace, PutNamespace
<1>7. CASE ClusterUser
  BY <1>6, <1>7, UserCPStepsKeepInv DEF ClusterUser
<1> QED
  BY <1>1, <1>5, <1>7, RestartKeepsInv, UserWritesKeepsInv DEF Next

\* What every request of a reconcile assumes of the copies and lists it works
\* from holds in every reachable state: a destination that is overwritten is
\* still ours, a copy is written only under a stored finalizer and with the uid
\* the sweeps look for, and the finalizer goes only when no copy is left.
THEOREM Invariance == Spec => []IInv
<1>1. TypeOK /\ TypeOK' /\ IInv /\ [Next]_vars => IInv'
  BY NextInv
<1> QED
  BY <1>1, InitInv, TypeCorrect, PTL DEF Spec

\* Users count their steps: a step that does not count is the operator's.
LEMMA UserCounted ==
  ASSUME TypeOK, ClusterUser \/ \E c \in Coords, act \in ObjectActs : UserWrites(act, c)
  PROVE  userSteps' # userSteps
<1>1. \A a : UserStep(a) => userSteps' # userSteps
  BY DEF UserStep, TypeOK, BoundType
<1> QED
  BY <1>1 DEF ClusterUser, CreateClusterProjection, EditClusterProjection,
     DeleteClusterProjection, UserLabelsNamespace, UserDeletesNamespace,
     UserCreatesNamespace, UserWrites

\* The only request that changes an object that is there is the Update of the
\* fan-out, and it is accepted only for the version that was checked.
LEMMA ReconcileWrites ==
  ASSUME TypeOK, IInv, ReconcileStep, NEW c \in Coords, objects[c] # Absent,
         objects'[c] \notin {Absent, objects[c]}
  PROVE  Carries(c, run.name)
<1>1. ASSUME NEW d \in Coords, NEW r, deleteListed(d, r) PROVE FALSE
  BY <1>1, PutObject DEF deleteListed, Put, TypeOK, ApiType
<1>2. PICK n \in Namespaces, r \in Replies : writeDest(n, r)
  BY <1>1 DEF ReconcileStep, resolveGVR, ensureSourceWatch, ensureClusterDestWatch,
     ensureClusterFinalizer, getSource, getDest, listOwned, removeFinalizer, flush, apiVars
<1>3. /\ run.step = "fanOut"
      /\ IF run.at[n] = "create" THEN CreateAccepted(n) ELSE UpdateAccepted(n)
      /\ objects' = [objects EXCEPT ![Dest(n)] = Allocate(Dest(n), Desired(n))]
  BY <1>2 DEF writeDest, Put
<1>4. c = Dest(n)
  BY <1>3 DEF TypeOK, ApiType
<1> QED
  BY <1>3, <1>4 DEF CreateAccepted, UpdateAccepted, IInv, WriteInv

\* However the namespaces of a fan-out interleave with each other and with
\* users, an object is overwritten only while it carries the stamp of the
\* ClusterProjection: the resourceVersion of each Update closes the window
\* between writeClusterDestination's check and its write.
THEOREM OverwritesOnlyOwned == Spec => WritesOnlyOwned
<1>1. TypeOK /\ IInv /\ [Next]_vars => [OwnedOverwrite]_vars
  <2> SUFFICES ASSUME TypeOK, IInv, Next PROVE OwnedOverwrite
    OBVIOUS
  <2> SUFFICES ASSUME NEW c \in Coords, userSteps' = userSteps, objects[c] # Absent,
                      objects'[c] \notin {Absent, objects[c]}
               PROVE  Carries(c, run.name)
    BY DEF OwnedOverwrite
  <2>1. ASSUME NEW n \in Namespaces, Terminate(n) PROVE FALSE
    <3>1. CASE objects' = objects
      BY <3>1
    <3>2. CASE \E d \in Coords : objects' = [objects EXCEPT ![d] = Absent]
      BY <3>2, PutObject DEF TypeOK, ApiType
    <3> QED
      BY <2>1, <3>1, <3>2 DEF Terminate, PutNamespace, PutOutside, Put
  <2>2. ReconcileStep
    BY <2>1, UserCounted DEF Next, Operator, Reconcile, CacheSync, Requeue, NamespaceSync,
       mapNamespace, Restart, apiVars
  <2> QED
    BY <2>2, ReconcileWrites
<1> QED
  BY <1>1, TypeCorrect, Invariance, PTL DEF Spec, WritesOnlyOwned

\* The reconciler's updates of a ClusterProjection never undo a user's edit of
\* the spec, revive it, or hit another incarnation, however stale its copy was.
THEOREM KeepsIntent == Spec => KeepsUserIntent
<1>1. TypeOK /\ IInv /\ [Next]_vars => [IntentKept]_vars
  <2> SUFFICES ASSUME TypeOK, IInv, Next PROVE IntentKept
    OBVIOUS
  <2> SUFFICES ASSUME NEW p \in ClusterProjections, userSteps' = userSteps,
                      cps'[p] # Absent, cps'[p] # cps[p]
               PROVE  /\ cps[p] # Absent
                      /\ cps'[p].spec = cps[p].spec
                      /\ cps'[p].uid = cps[p].uid
                      /\ cps'[p].deleting = cps[p].deleting
    BY DEF IntentKept
  <2>1. PICK r \in Replies : ensureClusterFinalizer(r) \/ removeFinalizer(r) \/ flush(r)
    BY UserCounted DEF Next, Operator, Reconcile, CacheSync, Requeue, NamespaceSync,
       mapNamespace, Terminate, PutNamespace, Restart, apiVars, ReconcileStep, resolveGVR,
       ensureSourceWatch, ensureClusterDestWatch, getSource, listOwned, deleteListed,
       getDest, writeDest
  <2>2. /\ CopyAccepted /\ run.step # "idle"
        /\ \E cp \in {[run.cp EXCEPT !.finalizer = TRUE], Absent,
                      [cps[run.name] EXCEPT !.status = Staged]} :
             cps' = [cps EXCEPT ![run.name] = cp]
    BY <2>1 DEF ensureClusterFinalizer, removeFinalizer, flush, UpdateCP, PutCP
  <2>3. p = run.name /\ cps[p] # Absent /\ cps[p] \in CPs /\ cps[p] = run.cp
    BY <2>2 DEF CopyAccepted, TypeOK, ApiType, IInv, CopiesInv, Running
  <2>4. cps'[p] \in {[cps[p] EXCEPT !.finalizer = TRUE], [cps[p] EXCEPT !.status = Staged]}
    BY <2>2, <2>3 DEF TypeOK, ApiType
  <2> QED
    BY <2>3, <2>4 DEF CPs
<1> QED
  BY <1>1, TypeCorrect, Invariance, PTL DEF Spec, KeepsUserIntent
=============================================================================

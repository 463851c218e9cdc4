--------------------------- MODULE ProjectionProofs ---------------------------
(***************************************************************************)
(* Theorems about ProjectionController, for every set of Projections,      *)
(* kinds, coordinates and specs and every bound.                           *)
(***************************************************************************)
EXTENDS ProjectionInvariant, TLAPS

\* The object buildDestination returns is well formed and stamped with the
\* owner's key, whatever stamps the source or the overlay carried.
LEMMA BuildDestination ==
  ASSUME NEW k, NEW src \in Objects, NEW p \in Projections, NEW cr \in CRs
  PROVE  /\ buildDestination(k, src, p, cr) \in Objects
         /\ isOwnedBy(buildDestination(k, src, p, cr), p)
PROOF
<1> DEFINE ov == cr.spec.overlay
           a1 == [src.annotations EXCEPT ![lastAppliedAnnotation] = None]
           a2 == Merge(a1, ov.annotations)
           l2 == Merge(src.labels, ov.labels)
           core == buildDestinationCore(k, src, ov)
<1>1. ov.annotations \in Annotations /\ ov.labels \in Labels
  BY DEF CRs, SpecTypes
<1>2. a1 \in Annotations
  BY DEF Objects, Annotations
<1>3. a2 \in Annotations
  BY <1>1, <1>2 DEF Annotations, Merge
<1>4. l2 \in Labels
  BY <1>1 DEF Objects, Labels, Merge
<1>5. core \in Objects
  <2>1. core = [src EXCEPT !.annotations = a2, !.labels = l2,
                  !.alloc = IF k \in AllocatedKinds THEN None ELSE src.alloc]
    BY DEF buildDestinationCore, Objects
  <2> HIDE DEF a2, l2
  <2> QED
    BY <2>1, <1>3, <1>4 DEF Objects
<1>6. cr.uid \in Uids
  BY DEF CRs
<1> HIDE DEF core
<1>7. buildDestination(k, src, p, cr)
        = [core EXCEPT !.annotations = [core.annotations EXCEPT ![ownedByAnnotation] = p],
                       !.labels = [core.labels EXCEPT ![ownedByUIDLabel] = cr.uid]]
  BY <1>5 DEF buildDestination, core, Objects
<1>8. [core.annotations EXCEPT ![ownedByAnnotation] = p] \in Annotations
  BY <1>5 DEF Objects, Annotations
<1>9. [core.labels EXCEPT ![ownedByUIDLabel] = cr.uid] \in Labels
  BY <1>5, <1>6 DEF Objects, Labels
<1>10. ownedByAnnotation \in AnnotationKeys
  BY DEF AnnotationKeys
<1>11. core.annotations \in Annotations
  BY <1>5 DEF Objects
<1> QED
  BY <1>5, <1>7, <1>8, <1>9, <1>10, <1>11 DEF Objects, isOwnedBy, Annotations

\* Preserving allocated fields keeps the object well formed and its stamp.
LEMMA PreserveObject ==
  ASSUME NEW kind, NEW existing \in Objects, NEW desired \in Objects
  PROVE  /\ preserveAPIServerAllocatedFields(kind, existing, desired) \in Objects
         /\ \A p : isOwnedBy(preserveAPIServerAllocatedFields(kind, existing, desired), p)
                   <=> isOwnedBy(desired, p)
BY DEF preserveAPIServerAllocatedFields, isOwnedBy, Objects

\* What the apiserver fills in on create keeps the object well formed and its
\* stamp.
LEMMA AllocateObject ==
  ASSUME NEW c \in Coords, NEW o \in Objects
  PROVE  /\ Allocate(c, o) \in Objects
         /\ \A p : isOwnedBy(Allocate(c, o), p) <=> isOwnedBy(o, p)
BY DEF Allocate, isOwnedBy, Objects

\* The events of a write enqueue keys of Projections only.
LEMMA HitsAreKeys ==
  ASSUME NEW c, NEW old, NEW new
  PROVE  Hits(c, old, new) \subseteq Projections
BY DEF Hits, mapSource, ensureDestWatchHandler, enqueueByUID

\* The destination of a reconcile in progress is one of the coordinates.
LEMMA DestInCoords ==
  ASSUME NEW p \in Projections, NEW s \in SpecTypes
  PROVE  destinationCoords(p, s) \in Coords
<1>1. s.source.name \in Names
  BY DEF SpecTypes, Names
<1> QED
  BY <1>1, CoordsAssumption DEF destinationCoords, SpecTypes

\* The status a reconcile stages is well formed.
LEMMA StagedStatus ==
  ASSUME LocalType, Operands, pc = "flush", Dest \in Coords
  PROVE  Staged \in Statuses
BY DEF LocalType, Operands, Staged, failSource, failDestination, markAllReady, Statuses, CRs,
   Names, Reasons

\* A Projection is created well formed.
LEMMA NewCRType ==
  ASSUME NEW p \in Projections, NEW n \in 1 .. MaxIncarnations,
         NEW s \in SpecTypes
  PROVE  NewCR(p, n, s) \in CRs
BY DEF NewCR, CRs, Uids, Statuses

\* The initial states are well typed.
LEMMA InitType == Init => TypeOK
<1> SUFFICES ASSUME Init PROVE TypeOK
  OBVIOUS
<1>1. ApiType
  <2>1. objects \in [Coords -> Objects \cup {Absent}]
    BY PlainAssumption, AllocateObject DEF Init
  <2>2. 1 \in 1 .. MaxIncarnations
    BY BoundsAssumption
  <2>3. crs \in [Projections -> CRs \cup {Absent}]
    BY <2>2, NewCRType, SpecsAssumption DEF Init
  <2> QED
    BY <2>1, <2>3 DEF Init, ApiType
<1>2. ManagerType
  BY <1>1 DEF Init, ApiType, ManagerType, WatchStates
<1>3. LocalType /\ Operands
  BY DEF Init, LocalType, Operands, PCs
<1>4. BoundType
  BY BoundsAssumption DEF Init, BoundType
<1> QED
  BY <1>1, <1>2, <1>3, <1>4 DEF TypeOK

\* Every step keeps the types; one step per action.
LEMMA NextType == TypeOK /\ [Next]_vars => TypeOK'
<1> SUFFICES ASSUME TypeOK, [Next]_vars PROVE TypeOK'
  OBVIOUS
<1> USE DEF TypeOK, apiVars, managerVars, localVars, boundVars
<1>0. ASSUME NEW a, Fault(a) PROVE faults' \in 0 .. MaxFaults
  BY <1>0, BoundsAssumption DEF Fault, BoundType
<1>00. ASSUME NEW r, Reply(r) \/ ReadReply(r) PROVE faults' \in 0 .. MaxFaults
  BY <1>0, <1>00 DEF Reply, ReadReply, BoundType
<1>1. CASE UNCHANGED vars
  BY <1>1 DEF vars, ApiType, ManagerType, LocalType, BoundType, Operands
<1>2. ASSUME NEW p \in Projections, Reconcile(p) PROVE TypeOK'
  BY <1>2, AbsentAssumption
     DEF Reconcile, ApiType, ManagerType, LocalType, BoundType, Operands, PCs
<1>3. ASSUME NEW p \in Projections, CacheSync(p) PROVE TypeOK'
  BY <1>3 DEF CacheSync, ApiType, ManagerType, LocalType, BoundType, Operands
<1>4. ASSUME NEW p \in Projections, Requeue(p) PROVE TypeOK'
  BY <1>4 DEF Requeue, ApiType, ManagerType, LocalType, BoundType, Operands
<1>5. ASSUME NEW p \in Projections, ResyncTick(p) PROVE TypeOK'
  BY <1>5 DEF ResyncTick, ApiType, ManagerType, LocalType, BoundType, Operands
<1>6. CASE resolveGVR
  <2>1. SourceKind \in Kinds
    BY <1>6, CoordsAssumption DEF resolveGVR, Operands, SourceKind, CRs, SpecTypes
  <2>2. BoundType'
    BY <1>6, <1>0 DEF resolveGVR, ResolutionFails, BoundType
  <2>3. ApiType' /\ ManagerType'
    BY <1>6, <2>1 DEF resolveGVR, Resolves, ResolutionFails, Goto, Finish, ApiType,
       ManagerType
  <2>4. LocalType' /\ Operands'
    BY <1>6 DEF resolveGVR, Goto, Finish, LocalType, Operands, PCs, Reasons,
       SourceReasons
  <2> QED
    BY <2>2, <2>3, <2>4
<1>7. CASE ensureSourceWatch
  <2>1. BoundType'
    BY <1>7, <1>0 DEF ensureSourceWatch, BoundType
  <2>2. ApiType' /\ ManagerType'
    BY <1>7 DEF ensureSourceWatch, Goto, SourceReplay, mapSource, ApiType,
       ManagerType, WatchStates
  <2>3. LocalType' /\ Operands'
    BY <1>7 DEF ensureSourceWatch, Goto, LocalType, Operands, PCs
  <2> QED
    BY <2>1, <2>2, <2>3
<1>8. CASE ensureNamespacedDestWatch
  <2>1. BoundType'
    BY <1>8, <1>0 DEF ensureNamespacedDestWatch, BoundType
  <2>2. ApiType' /\ ManagerType'
    BY <1>8 DEF ensureNamespacedDestWatch, Goto, Finish, DestReplay,
       ensureDestWatchHandler, enqueueByUID, ApiType, ManagerType, WatchStates
  <2>3. LocalType' /\ Operands'
    BY <1>8 DEF ensureNamespacedDestWatch, Goto, Finish, LocalType, Operands, PCs,
       Reasons
  <2> QED
    BY <2>1, <2>2, <2>3
<1>9. ASSUME NEW r \in Replies, ensureFinalizer(r) PROVE TypeOK'
  <2>1. [proj EXCEPT !.finalizer = TRUE] \in CRs
    BY <1>9 DEF ensureFinalizer, Operands, CRs
  <2>2. BoundType'
    BY <1>9, <1>00 DEF ensureFinalizer, BoundType
  <2>3. ApiType' /\ ManagerType'
    BY <1>9, <2>1 DEF ensureFinalizer, Return, ApiType, ManagerType, Operands
  <2>4. LocalType' /\ Operands'
    BY <1>9, <2>1 DEF ensureFinalizer, Return, LocalType, Operands, PCs
  <2> QED
    BY <2>2, <2>3, <2>4
<1>10. ASSUME NEW r \in Replies, getSource(r) PROVE TypeOK'
  <2>1. Live(proj.spec.source) \in Objects \cup {Absent}
    BY <1>10 DEF getSource, Operands, CRs, SpecTypes, Live, ApiType
  <2>2. BoundType'
    BY <1>10, <1>00 DEF getSource, BoundType
  <2>3. ApiType' /\ ManagerType'
    BY <1>10 DEF getSource, Goto, Finish, ApiType, ManagerType
  <2>4. LocalType' /\ Operands'
    <3> DEFINE src == Live(proj.spec.source)
    <3>1. checkProjectable(src) # None => checkProjectable(src) \in Reasons
      BY DEF checkProjectable, Reasons, SourceReasons
    <3>2. src # Absent => buildDestination(SourceKind, src, key, proj) \in Objects
      BY <1>10, <2>1, BuildDestination DEF getSource, Operands
    <3> HIDE DEF src
    <3> QED
      BY <1>10, <3>1, <3>2 DEF getSource, src, Goto, Finish, LocalType, Operands, PCs,
         Reasons, SourceReasons
  <2> QED
    BY <2>2, <2>3, <2>4
<1>11. ASSUME NEW r \in Replies, listOwned(r) PROVE TypeOK'
  <2>1. BoundType'
    BY <1>11, <1>00 DEF listOwned, BoundType
  <2>2. ApiType' /\ ManagerType'
    BY <1>11 DEF listOwned, Goto, ApiType, ManagerType
  <2>3. LocalType' /\ Operands'
    BY <1>11 DEF listOwned, Goto, Existing, LocalType, Operands, PCs
  <2> QED
    BY <2>1, <2>2, <2>3
<1>12. ASSUME NEW r, NEW c \in Coords, Delete(c, r)
       PROVE  /\ objects' \in [Coords -> Objects \cup {Absent}]
              /\ queue' \subseteq Projections
              /\ exFresh' \in BOOLEAN
  BY <1>12, HitsAreKeys DEF Delete, Put, ApiType, ManagerType, LocalType
<1>13. ASSUME NEW r \in Replies, NEW c \in Coords, deleteListed(c, r) PROVE TypeOK'
  <2>1. BoundType'
    BY <1>13, <1>00 DEF deleteListed, BoundType
  <2>2. ApiType' /\ ManagerType'
    BY <1>13, <1>12 DEF deleteListed, Goto, ApiType, ManagerType
  <2>3. LocalType' /\ Operands'
    BY <1>13, <1>12 DEF deleteListed, Goto, LocalType, Operands, PCs
  <2> QED
    BY <2>1, <2>2, <2>3
<1>14. ASSUME pc \in {"deleteDestination", "deleteOwned"}, exFresh' \in BOOLEAN,
              CleanupDone \/ CleanupFailed
       PROVE  LocalType' /\ Operands' /\ delayed' \subseteq Projections
  BY <1>14 DEF CleanupDone, CleanupFailed, Goto, Return, LocalType, Operands, PCs,
     ManagerType
<1>15. ASSUME NEW r \in Replies, deleteDestination(r) PROVE TypeOK'
  <2>1. SourceKind \in Kinds
    BY <1>15, CoordsAssumption DEF deleteDestination, Operands, SourceKind, CRs, SpecTypes
  <2>2. BoundType'
    BY <1>15, <1>0, <1>00 DEF deleteDestination, ResolutionFails, BoundType
  <2>3. CASE CleanupDone \/ CleanupFailed
    BY <1>15, <1>14, <2>1, <2>2, <2>3 DEF deleteDestination, Resolves, ResolutionFails,
       ApiType, ManagerType
  <2>4. CASE Goto("deleteOwned") /\ UNCHANGED <<projFresh, dst, sweep, reason>>
    BY <1>15, <2>1, <2>2, <2>4 DEF deleteDestination, Resolves, ResolutionFails, Goto,
       ApiType, ManagerType, LocalType, Operands, PCs
  <2> QED
    BY <1>15, <2>3, <2>4 DEF deleteDestination
<1>16. ASSUME NEW r \in Replies, deleteOwned(r) PROVE TypeOK'
  <2>1. BoundType'
    BY <1>16, <1>00 DEF deleteOwned, BoundType
  <2>2. objects' \in [Coords -> Objects \cup {Absent}] /\ queue' \subseteq Projections
        /\ exFresh' \in BOOLEAN
    BY <1>16, HitsAreKeys DEF deleteOwned, Delete, Put, ApiType, ManagerType, LocalType
  <2>3. LocalType' /\ Operands' /\ delayed' \subseteq Projections
    BY <1>16, <1>14, <2>2 DEF deleteOwned
  <2> QED
    BY <1>16, <2>1, <2>2, <2>3 DEF deleteOwned, ApiType, ManagerType
<1>17. ASSUME NEW r \in Replies, removeFinalizer(r) PROVE TypeOK'
  <2>1. BoundType'
    BY <1>17, <1>00 DEF removeFinalizer, BoundType
  <2>2. ApiType' /\ ManagerType'
    BY <1>17 DEF removeFinalizer, Return, ApiType, ManagerType, Operands
  <2>3. LocalType' /\ Operands'
    BY <1>17 DEF removeFinalizer, Return, LocalType, Operands, PCs
  <2> QED
    BY <2>1, <2>2, <2>3
<1>18. ASSUME pc # "idle" PROVE Dest \in Coords /\ Live(Dest) \in Objects \cup {Absent}
  BY <1>18, DestInCoords DEF Dest, Live, ApiType, Operands, CRs
<1>19. ASSUME NEW r \in Replies, getDest(r) PROVE TypeOK'
  <2>1. BoundType'
    BY <1>19, <1>00 DEF getDest, BoundType
  <2>2. ApiType' /\ ManagerType'
    BY <1>19 DEF getDest, Goto, Finish, ApiType, ManagerType
  <2>3. LocalType' /\ Operands'
    <3> DEFINE des == preserveAPIServerAllocatedFields(SourceKind, Live(Dest), dst)
    <3>1. Live(Dest) # Absent => des \in Objects
      BY <1>19, <1>18, PreserveObject DEF getDest, Operands
    <3> HIDE DEF des
    <3> QED
      BY <1>19, <3>1 DEF getDest, des, Goto, Finish, LocalType, Operands, PCs, Reasons,
         DestinationReasons
  <2> QED
    BY <2>1, <2>2, <2>3
<1>20. ASSUME NEW r \in Replies, NEW acc, NEW f \in DestinationReasons,
              pc \in {"create", "update"}, WriteDest(r, acc, f)
       PROVE  TypeOK'
  <2>1. BoundType'
    BY <1>20, <1>00 DEF WriteDest, BoundType
  <2>2. Allocate(Dest, dst) \in Objects
    BY <1>20, <1>18, AllocateObject DEF Operands
  <2>3. ApiType' /\ ManagerType'
    BY <1>20, <2>2, HitsAreKeys DEF WriteDest, Put, Goto, Finish, ApiType, ManagerType
  <2>4. LocalType' /\ Operands'
    BY <1>20 DEF WriteDest, Put, Goto, Finish, LocalType, Operands, PCs, Reasons
  <2> QED
    BY <2>1, <2>3, <2>4
<1>21. ASSUME NEW r \in Replies, create(r) \/ update(r) PROVE TypeOK'
  BY <1>21, <1>20 DEF create, update, DestinationReasons
<1>22. ASSUME NEW r \in Replies, flush(r) PROVE TypeOK'
  <2>1. BoundType'
    BY <1>22, <1>00 DEF flush, NewStatus, Requeues, BoundType
  <2>2. Staged \in Statuses
    BY <1>22, <1>18, StagedStatus DEF flush, NewStatus, Requeues
  <2>3. ApiType' /\ ManagerType'
    <3>1. key \in Projections /\ crs[key] \in CRs \cup {Absent}
      BY <1>22 DEF flush, NewStatus, Requeues, Operands, ApiType
    <3>2. crs[key] # Absent => [crs[key] EXCEPT !.status = Staged] \in CRs
      BY <3>1, <2>2 DEF CRs
    <3>3. crs' \in [Projections -> CRs \cup {Absent}]
      BY <1>22, <3>1, <3>2 DEF flush, NewStatus, Requeues, CopyAccepted, ApiType
    <3> QED
      BY <1>22, <3>1, <3>3 DEF flush, NewStatus, Requeues, Return, ApiType, ManagerType
  <2>4. LocalType' /\ Operands'
    BY <1>22 DEF flush, NewStatus, Requeues, Return, LocalType, Operands, PCs
  <2> QED
    BY <2>1, <2>3, <2>4
<1>23. ASSUME NEW k \in Kinds, WatchStarts(k) \/ DestWatchStarts(k) PROVE TypeOK'
  BY <1>23 DEF WatchStarts, DestWatchStarts, SourceReplay, DestReplay, mapSource,
     ensureDestWatchHandler, enqueueByUID, WatchStates, ApiType, ManagerType,
     LocalType, BoundType, Operands
<1>24. CASE Restart
  BY <1>24, <1>0 DEF Restart, PCs, WatchStates, ApiType, ManagerType, LocalType,
     BoundType, Operands
<1>25. ASSUME NEW a, UserStep(a) PROVE userSteps' \in 0 .. MaxUserSteps
  BY <1>25, BoundsAssumption DEF UserStep, BoundType
<1>26. ASSUME NEW p \in Projections, NEW cr \in CRs \cup {Absent}, UserOnCR(p, cr)
       PROVE  ApiType' /\ ManagerType' /\ LocalType' /\ Operands'
  BY <1>26 DEF UserOnCR, PutCR, ApiType, ManagerType, LocalType, Operands
<1>27. ASSUME NEW p \in Projections, CreateProjection(p) PROVE TypeOK'
  <2>1. /\ incarnation[p] + 1 \in 1 .. MaxIncarnations
        /\ incarnation' = [incarnation EXCEPT ![p] = incarnation[p] + 1]
    BY <1>27, BoundsAssumption DEF CreateProjection, BoundType
  <2>2. \A s \in Specs[p] : NewCR(p, incarnation[p] + 1, s) \in CRs
    BY <2>1, NewCRType, SpecsAssumption
  <2>3. ApiType' /\ ManagerType' /\ LocalType' /\ Operands'
    BY <1>27, <1>26, <2>2 DEF CreateProjection
  <2>4. BoundType'
    BY <1>27, <1>25, <2>1 DEF CreateProjection, UserOnCR, BoundType
  <2> QED
    BY <2>3, <2>4
<1>28. ASSUME NEW p \in Projections, EditProjection(p) \/ DeleteProjection(p)
       PROVE  TypeOK'
  <2>1. crs[p] \in CRs
    BY <1>28 DEF EditProjection, DeleteProjection, ApiType
  <2>2. /\ \A s \in Specs[p] : [crs[p] EXCEPT !.spec = s] \in CRs
        /\ [crs[p] EXCEPT !.deleting = TRUE] \in CRs
    BY <2>1, SpecsAssumption DEF CRs
  <2>3. ApiType' /\ ManagerType' /\ LocalType' /\ Operands'
    BY <1>28, <1>26, <2>2 DEF EditProjection, DeleteProjection
  <2>4. BoundType'
    BY <1>28, <1>25 DEF EditProjection, DeleteProjection, UserOnCR, BoundType
  <2> QED
    BY <2>3, <2>4
<1>29. ASSUME NEW c \in Coords, NEW o \in Objects \cup {Absent}, NEW a,
              UserStep(a), UserOnObject(c, o)
       PROVE  TypeOK'
  BY <1>29, <1>25, HitsAreKeys DEF UserOnObject, Put, ApiType, ManagerType, LocalType,
     BoundType, Operands
<1>30. ASSUME NEW c \in Coords, UserCreates(c) \/ UserDeletes(c) PROVE TypeOK'
  BY <1>29, <1>30, AllocateObject, PlainAssumption DEF UserCreates, UserDeletes
<1>31. ASSUME NEW c \in Coords,
              UserEdits(c) \/ UserSetsProjectable(c) \/ UserStripsAnnotation(c)
              \/ UserStripsLabel(c)
       PROVE  TypeOK'
  <2>1. objects[c] \in Objects
    BY <1>31 DEF UserEdits, UserSetsProjectable, UserStripsAnnotation,
       UserStripsLabel, ApiType
  <2>2. /\ \A b \in Bodies : [objects[c] EXCEPT !.body = b] \in Objects
        /\ \A v \in {"true", "false", None} :
             [objects[c] EXCEPT !.annotations[projectableAnnotation] = v] \in Objects
        /\ [objects[c] EXCEPT !.annotations[ownedByAnnotation] = None] \in Objects
        /\ [objects[c] EXCEPT !.labels[ownedByUIDLabel] = None] \in Objects
    BY <2>1 DEF Objects, Annotations, Labels
  <2> QED
    BY <1>29, <1>31, <2>2 DEF UserEdits, UserSetsProjectable, UserStripsAnnotation,
       UserStripsLabel
<1>32. ASSUME NEW k \in Kinds, ServingChanges(k) PROVE TypeOK'
  BY <1>32, <1>25 DEF ServingChanges, ApiType, ManagerType, LocalType, BoundType, Operands
<1> QED
  BY <1>1, <1>2, <1>3, <1>4, <1>5, <1>6, <1>7, <1>8, <1>9, <1>10, <1>11, <1>13,
     <1>15, <1>16, <1>17, <1>19, <1>21, <1>22, <1>23, <1>24, <1>27, <1>28, <1>30,
     <1>31, <1>32 DEF Next, ReconcileStep, User

\* Every variable keeps its type and no request is made without its operands:
\* the reconciler never works on an object or a Projection it did not fetch.
THEOREM TypeCorrect == Spec => []TypeOK
BY InitType, NextType, PTL DEF Spec

-----------------------------------------------------------------------------
(* The inductive invariant.                                                *)

\* The parts of IInv about the copies of Projections.
CopyPart == SpecsInv /\ CopiesInv /\ FinalizerInv /\ ServedInv

\* The inductive invariant holds initially: nothing is stamped yet.
LEMMA InitInv == Init => IInv
<1> SUFFICES ASSUME Init PROVE IInv
  OBVIOUS
<1>1. \A p \in Projections : crs[p] # Absent =>
        /\ crs[p].spec \in Specs[p]
        /\ ~crs[p].deleting /\ ~crs[p].finalizer
  BY DEF Init, NewCR
<1>2. \A c \in Coords, p \in Projections : ~Carries(c, p)
  <2> SUFFICES ASSUME NEW c \in Coords, NEW p \in Projections, Carries(c, p)
               PROVE  FALSE
    OBVIOUS
  <2>1. PICK o \in PlainObjects : objects[c] = Allocate(c, o)
    BY DEF Init, Carries
  <2> QED
    BY <2>1, PlainAssumption, AllocateObject, AbsentAssumption DEF Carries, isOwnedBy
<1> QED
  BY <1>1, <1>2 DEF Init, IInv, SpecsInv, CopiesInv, WriteInv, HomeInv, FinalizerInv,
     CleanInv, ServedInv, OrphanInv, NoOrphan, Writing, Finalizing, LivePCs, CleanupPCs

\* A reconcile that goes on, and changes no Projection, keeps what is known
\* about the copies; so does one that returns.
LEMMA CopyPartStay ==
  ASSUME TypeOK, CopyPart,
         UNCHANGED <<crs, cache, cacheFresh, served, key, proj, projFresh>>,
         pc \notin {"idle", "ensureFinalizer"},
         pc' \in PCs \ {"idle", "ensureFinalizer"},
         Finalizing' <=> Finalizing
  PROVE  CopyPart'
<1>1. Writing' <=> Writing
  BY DEF TypeOK, LocalType, PCs, Finalizing, Writing, LivePCs, CleanupPCs
<1> QED
  BY <1>1 DEF CopyPart, SpecsInv, CopiesInv, FinalizerInv, ServedInv, Guarded, Doomed

\* The same when the reconcile returns.
LEMMA CopyPartReturn ==
  ASSUME CopyPart, UNCHANGED <<crs, cache, cacheFresh, served>>, pc' = "idle"
  PROVE  CopyPart'
BY DEF CopyPart, SpecsInv, CopiesInv, FinalizerInv, ServedInv, Guarded, Doomed,
   Finalizing, Writing, LivePCs, CleanupPCs

\* Without a write of an object, p's stamps stay where they are.
LEMMA ObjectPartSame ==
  ASSUME IInv, UNCHANGED <<objects, crs>>
  PROVE  HomeInv' /\ OrphanInv' /\ \A c, p : Carries(c, p)' = Carries(c, p)
BY DEF IInv, HomeInv, OrphanInv, NoOrphan, Carries

\* Between reconciles the parts about a reconcile's copies hold trivially.
LEMMA IdleInv ==
  ASSUME pc' = "idle"
  PROVE  WriteInv' /\ CleanInv'
BY DEF WriteInv, CleanInv

\* The phases whose requests only read.
LEMMA ReadsKeepInv ==
  ASSUME TypeOK, IInv,
         UNCHANGED <<objects, crs, cache, cacheFresh, served, key, proj, projFresh>>,
         pc \notin {"idle", "ensureFinalizer"},
         pc' \in PCs \ {"idle", "ensureFinalizer"},
         Finalizing' <=> Finalizing,
         WriteInv', CleanInv'
  PROVE  IInv'
BY CopyPartStay, ObjectPartSame DEF IInv, CopyPart

\* A reconcile that returns without a write keeps the invariant.
LEMMA ReturnKeepsInv ==
  ASSUME IInv, UNCHANGED <<objects, crs, cache, cacheFresh, served>>, pc' = "idle"
  PROVE  IInv'
BY CopyPartReturn, ObjectPartSame, IdleInv DEF IInv, CopyPart

\* The writes of the reconcile: the object at c becomes obj, which carries no
\* stamp, or that of the guarded Projection at its destination.
LEMMA HomeAfterPut ==
  ASSUME TypeOK, IInv, NEW c \in Coords, NEW obj \in Objects \cup {Absent},
         objects' = [objects EXCEPT ![c] = obj], crs' = crs,
         \A p \in Projections :
           obj # Absent /\ isOwnedBy(obj, p) =>
             \/ Carries(c, p)
             \/ Guarded(crs[p]) /\ \E s \in Specs[p] : destinationCoords(p, s) = c
  PROVE  /\ HomeInv' /\ OrphanInv'
         /\ \A d \in Coords \ {c} : objects'[d] = objects[d]
         /\ objects'[c] = obj
<1>1. /\ objects'[c] = obj
      /\ \A d \in Coords \ {c} : objects'[d] = objects[d]
  BY DEF TypeOK, ApiType
<1>2. ASSUME NEW d \in Coords, NEW p \in Projections, Carries(d, p)'
      PROVE  /\ \E s \in Specs[p] : destinationCoords(p, s) = d
             /\ Tidy /\ d.kind \notin Unservable => Guarded(crs[p])
  <2>1. CASE d = c
    BY <1>1, <1>2, <2>1 DEF Carries, IInv, HomeInv, OrphanInv, NoOrphan, Guarded
  <2>2. CASE d # c
    BY <1>1, <1>2, <2>2 DEF Carries, IInv, HomeInv, OrphanInv, NoOrphan, Guarded
  <2> QED
    BY <2>1, <2>2
<1> QED
  BY <1>1, <1>2 DEF HomeInv, OrphanInv, NoOrphan, Guarded

\* What the current phase means for the Projection of the reconcile.
LEMMA PhaseFacts ==
  ASSUME TypeOK, IInv, pc # "idle"
  PROVE  /\ key \in Projections /\ proj \in CRs
         /\ Dest \in Coords /\ SourceKind \in Kinds /\ Dest.kind = SourceKind
         /\ proj.spec \in Specs[key]
         /\ Writing => ~proj.deleting /\ Guarded(crs[key])
         /\ Finalizing => proj.deleting /\ Doomed(crs[key]) /\ Doomed(cache[key])
<1>1. key \in Projections /\ proj \in CRs
  BY DEF TypeOK, Operands
<1>2. Dest \in Coords
  BY <1>1, DestInCoords DEF Dest, CRs
<1>3. SourceKind \in Kinds /\ Dest.kind = SourceKind
  BY <1>1, CoordsAssumption DEF SourceKind, CRs, SpecTypes, Dest, destinationCoords
<1> QED
  BY <1>1, <1>2, <1>3 DEF IInv, SpecsInv, FinalizerInv

\* Under Tidy, whatever carries p's stamp is at the destination of p's spec.
LEMMA OnlyHome ==
  ASSUME Tidy, IInv, NEW p \in Projections, NEW s \in Specs[p], NEW c \in Coords,
         Carries(c, p)
  PROVE  c = destinationCoords(p, s)
BY DEF Tidy, StableCoords, IInv, HomeInv

\* The manager's own steps (timers, watches, resyncs) keep the invariant.
LEMMA LocalStepsKeepInv ==
  ASSUME TypeOK, TypeOK', IInv,
         UNCHANGED <<objects, crs, served, cache, cacheFresh, localVars>>
  PROVE  IInv'
<1>1. WriteInv'
  BY DEF IInv, WriteInv, Carries, Dest, localVars
<1>2. CleanInv'
  BY DEF IInv, CleanInv, Carries, localVars
<1>3. CopyPart'
  BY DEF IInv, CopyPart, SpecsInv, CopiesInv, FinalizerInv, ServedInv, Guarded, Doomed,
     Writing, Finalizing, LivePCs, CleanupPCs, localVars
<1> QED
  BY <1>1, <1>2, <1>3, ObjectPartSame DEF IInv, CopyPart

\* A reconcile starts from the cache: its copy is as the phase it enters
\* assumes.
LEMMA ReconcileKeepsInv ==
  ASSUME TypeOK, TypeOK', IInv, NEW p \in Projections, Reconcile(p)
  PROVE  IInv'
<1>1. CASE UNCHANGED localVars
  BY <1>1, LocalStepsKeepInv DEF Reconcile, apiVars
<1>2. CASE ~UNCHANGED localVars
  <2>1. /\ cache[p] # Absent
        /\ key' = p /\ proj' = cache[p] /\ projFresh' = cacheFresh[p]
        /\ pc' = IF cache[p].deleting THEN "deleteDestination"
                 ELSE IF cache[p].finalizer THEN "resolveGVR"
                 ELSE "ensureFinalizer"
        /\ UNCHANGED <<objects, crs, served, cache, cacheFresh>>
    BY <1>2 DEF Reconcile, apiVars
  <2>2. SpecsInv' /\ CopiesInv' /\ ServedInv'
    BY <2>1 DEF IInv, SpecsInv, CopiesInv, ServedInv
  <2>3. FinalizerInv'
    BY <2>1 DEF IInv, FinalizerInv, Writing, Finalizing, LivePCs, CleanupPCs, Guarded,
       Doomed
  <2>4. WriteInv' /\ CleanInv'
    BY <2>1 DEF WriteInv, CleanInv
  <2> QED
    BY <2>1, <2>2, <2>3, <2>4, ObjectPartSame DEF IInv
<1> QED
  BY <1>1, <1>2

\* The informer catches up: the newer copy is as good as the older one.
LEMMA CacheSyncKeepsInv ==
  ASSUME TypeOK, TypeOK', IInv, NEW p \in Projections, CacheSync(p)
  PROVE  IInv'
<1>1. /\ UNCHANGED <<objects, crs, served, localVars>>
      /\ cache'[p] = crs[p] /\ cacheFresh'[p] = TRUE
      /\ \A q \in Projections \ {p} : /\ cache'[q] = cache[q]
                                      /\ cacheFresh'[q] = cacheFresh[q]
  BY DEF CacheSync, apiVars, TypeOK, ManagerType
<1>2. pc # "idle" => key \in Projections
  BY DEF TypeOK, Operands
<1>3. SpecsInv' /\ CopiesInv' /\ ServedInv'
  BY <1>1, <1>2 DEF IInv, SpecsInv, CopiesInv, ServedInv, localVars
<1>4. FinalizerInv'
  <2>1. \A q \in Projections :
          /\ (crs[q] # Absent /\ crs[q].deleting => crs[q].finalizer)'
          /\ (cache[q] # Absent /\ cache[q].finalizer /\ ~cache[q].deleting
                => Guarded(crs[q]))'
          /\ (cache[q] # Absent /\ cache[q].deleting => Doomed(crs[q]))'
    BY <1>1 DEF IInv, FinalizerInv, Guarded, Doomed
  <2>2. Writing' = Writing /\ Finalizing' = Finalizing
    BY <1>1 DEF Writing, Finalizing, localVars
  <2>3. Finalizing => key \in Projections /\ Doomed(crs[key]) /\ Doomed(cache[key])
    BY <1>2 DEF IInv, FinalizerInv, Finalizing, CleanupPCs
  <2>4. Finalizing => Doomed(cache'[key])
    BY <1>1, <2>3
  <2> QED
    BY <1>1, <2>1, <2>2, <2>3, <2>4 DEF IInv, FinalizerInv, Guarded, Doomed, localVars
<1>5. WriteInv'
  BY <1>1 DEF IInv, WriteInv, Carries, Dest, localVars
<1>6. CleanInv'
  BY <1>1 DEF IInv, CleanInv, Carries, localVars
<1> QED
  BY <1>1, <1>3, <1>4, <1>5, <1>6, ObjectPartSame DEF IInv

\* Resolution, watch registration and the reads keep the invariant.
LEMMA ReadStepsKeepInv ==
  ASSUME TypeOK, TypeOK', IInv,
         \/ resolveGVR \/ ensureSourceWatch \/ ensureNamespacedDestWatch
         \/ \E r \in Replies : getSource(r) \/ listOwned(r) \/ getDest(r)
  PROVE  IInv'
<1>1. CASE resolveGVR \/ ensureSourceWatch \/ ensureNamespacedDestWatch
           \/ \E r \in Replies : listOwned(r)
  <2>1. /\ UNCHANGED <<objects, crs, cache, cacheFresh, served, key, proj, projFresh>>
        /\ pc \in {"resolveGVR", "ensureSourceWatch", "watchDest", "listOwned"}
        /\ pc' \in {"ensureSourceWatch", "getSource", "deleteListed", "flush"}
    BY <1>1 DEF resolveGVR, ensureSourceWatch, ensureNamespacedDestWatch, listOwned,
       Goto, Finish, apiVars
  <2>2. ~Finalizing /\ ~Finalizing'
    BY <2>1 DEF Finalizing, CleanupPCs
  <2>3. WriteInv' /\ CleanInv'
    BY <2>1 DEF WriteInv, CleanInv
  <2>4. pc' \in PCs
    BY DEF TypeOK, LocalType
  <2> QED
    BY <2>1, <2>2, <2>3, <2>4, ReadsKeepInv
<1>2. ASSUME NEW r \in Replies, getSource(r) PROVE IInv'
  <2> DEFINE src == Live(proj.spec.source)
  <2>1. pc = "getSource" /\ Writing
    BY <1>2 DEF getSource, Writing, LivePCs
  <2>2. /\ UNCHANGED <<objects, crs, cache, cacheFresh, served, key, proj, projFresh>>
        /\ pc' \in {"flush", "listOwned", "deleteDestination", "getDest"}
        /\ pc' = "getDest" =>
             src # Absent /\ dst' = buildDestination(SourceKind, src, key, proj)
    BY <1>2 DEF getSource, Goto, Finish, apiVars
  <2>3. key \in Projections /\ proj \in CRs /\ ~proj.deleting
    BY <2>1, PhaseFacts
  <2>4. src # Absent => src \in Objects
    BY <2>3 DEF CRs, SpecTypes, Live, TypeOK, ApiType
  <2>5. pc' = "getDest" => isOwnedBy(dst', key)
    BY <2>2, <2>3, <2>4, BuildDestination
  <2>6. WriteInv' /\ CleanInv'
    BY <2>2, <2>5 DEF WriteInv, CleanInv
  <2>7. ~Finalizing /\ ~Finalizing'
    BY <2>1, <2>2, <2>3 DEF Finalizing, CleanupPCs
  <2>8. pc' \in PCs
    BY DEF TypeOK, LocalType
  <2> QED
    BY <2>1, <2>2, <2>6, <2>7, <2>8, ReadsKeepInv
<1>3. ASSUME NEW r \in Replies, getDest(r) PROVE IInv'
  <2> DEFINE des == preserveAPIServerAllocatedFields(SourceKind, Live(Dest), dst)
  <2>1. pc = "getDest" /\ ~Finalizing
    BY <1>3 DEF getDest, Finalizing, CleanupPCs
  <2>2. /\ UNCHANGED <<objects, crs, cache, cacheFresh, served, key, proj, projFresh>>
        /\ pc' \in {"flush", "create", "update", "watchDest"}
        /\ pc' = "create" => dst' = dst
        /\ pc' = "update" =>
             dst' = des /\ Live(Dest) # Absent /\ isOwnedBy(Live(Dest), key)
    BY <1>3 DEF getDest, Goto, Finish, apiVars
  <2>3. dst \in Objects /\ isOwnedBy(dst, key) /\ Dest \in Coords
    BY <2>1, PhaseFacts DEF TypeOK, Operands, IInv, WriteInv
  <2>4. Live(Dest) # Absent => Live(Dest) = objects[Dest] /\ Live(Dest) \in Objects
    BY <2>3 DEF Live, TypeOK, ApiType
  <2>5. pc' = "update" => isOwnedBy(dst', key) /\ Carries(Dest, key)
    BY <2>2, <2>3, <2>4, PreserveObject DEF Carries
  <2>6. Dest' = Dest /\ Carries(Dest, key)' = Carries(Dest, key)
    BY <2>2 DEF Dest, Carries
  <2>7. WriteInv' /\ CleanInv'
    BY <2>2, <2>3, <2>5, <2>6 DEF WriteInv, CleanInv
  <2>8. ~Finalizing' /\ pc' \in PCs
    BY <2>2 DEF Finalizing, CleanupPCs, TypeOK, LocalType
  <2> QED
    BY <2>1, <2>2, <2>7, <2>8, ReadsKeepInv
<1> QED
  BY <1>1, <1>2, <1>3

\* A Delete request leaves every stamp but that at c where it was.
LEMMA DeleteKeepsStamps ==
  ASSUME TypeOK, IInv, NEW c \in Coords, NEW r, Delete(c, r), crs' = crs
  PROVE  /\ HomeInv' /\ OrphanInv'
         /\ \A d \in Coords : \A p : Carries(d, p)' => Carries(d, p)
         /\ r # "lost" /\ c.kind \in served => objects'[c] = Absent
<1>1. CASE r # "lost" /\ Live(c) # Absent
  <2>1. objects' = [objects EXCEPT ![c] = Absent]
    BY <1>1 DEF Delete, Put
  <2>2. /\ HomeInv' /\ OrphanInv' /\ objects'[c] = Absent
        /\ \A d \in Coords \ {c} : objects'[d] = objects[d]
    BY <2>1, HomeAfterPut
  <2> QED
    BY <2>2 DEF Carries
<1>2. CASE ~(r # "lost" /\ Live(c) # Absent)
  <2>1. objects' = objects
    BY <1>2 DEF Delete
  <2> QED
    BY <1>2, <2>1, ObjectPartSame DEF Carries, Live
<1> QED
  BY <1>1, <1>2

\* A Delete of the sweep keeps the invariant.
LEMMA DeleteListedKeepsInv ==
  ASSUME TypeOK, TypeOK', IInv, NEW r \in Replies, NEW c \in Coords, deleteListed(c, r)
  PROVE  IInv'
<1>1. /\ Delete(c, r)
      /\ UNCHANGED <<crs, cache, cacheFresh, served, key, proj, projFresh>>
      /\ pc = "deleteListed" /\ pc' \in {"deleteListed", "flush"}
  BY DEF deleteListed, Goto
<1>2. ~Finalizing /\ ~Finalizing' /\ pc' \in PCs
  BY <1>1 DEF Finalizing, CleanupPCs, PCs
<1>3. WriteInv' /\ CleanInv'
  BY <1>1 DEF WriteInv, CleanInv
<1> QED
  BY <1>1, <1>2, <1>3, CopyPartStay, DeleteKeepsStamps DEF IInv, CopyPart

\* deleteDestination proper, and its Delete: if the finalizer is the next thing
\* to go, nothing carries the Projection's stamp any more.
LEMMA CleanupKeepsInv ==
  ASSUME TypeOK, TypeOK', IInv, NEW r \in Replies,
         deleteDestination(r) \/ deleteOwned(r)
  PROVE  IInv'
<1>1. /\ pc \in CleanupPCs
      /\ UNCHANGED <<crs, served, cache, cacheFresh>>
  BY DEF deleteDestination, deleteOwned, CleanupPCs, apiVars
<1>2. /\ key \in Projections /\ proj \in CRs /\ Dest \in Coords
      /\ Dest.kind = SourceKind /\ SourceKind \in Kinds /\ proj.spec \in Specs[key]
  BY <1>1, PhaseFacts DEF CleanupPCs
<1>3. HomeInv' /\ OrphanInv' /\ \A d \in Coords : \A p : Carries(d, p)' => Carries(d, p)
  <2>1. CASE deleteDestination(r)
    BY <1>1, <2>1, ObjectPartSame DEF deleteDestination, apiVars
  <2>2. CASE deleteOwned(r)
    BY <1>1, <1>2, <2>2, DeleteKeepsStamps DEF deleteOwned
  <2> QED
    BY <2>1, <2>2
<1>4. CASE pc' = "idle"
  BY <1>1, <1>3, <1>4, CopyPartReturn, IdleInv DEF IInv, CopyPart
<1>5. CASE pc' # "idle"
  <2>1. /\ UNCHANGED <<key, proj, projFresh>>
        /\ pc' \in {"removeFinalizer", "flush", "deleteOwned"}
        /\ pc' = "removeFinalizer" => proj.deleting
        /\ pc' = "flush" => ~proj.deleting
    BY <1>5 DEF deleteDestination, deleteOwned, CleanupDone, CleanupFailed, Goto, Return
  <2>2. (Finalizing' <=> Finalizing) /\ pc' \in PCs
    BY <1>1, <2>1 DEF Finalizing, CleanupPCs, PCs
  <2>3. CopyPart'
    BY <1>1, <2>1, <2>2, CopyPartStay DEF IInv, CopyPart, CleanupPCs
  <2>4. WriteInv'
    BY <2>1 DEF WriteInv
  <2>5. CleanInv'
    <3> SUFFICES ASSUME Tidy, pc' = "removeFinalizer", NEW c \in Coords,
                        Carries(c, key)', c.kind \notin Unservable
                 PROVE  FALSE
      BY <2>1 DEF CleanInv
    <3>1. Carries(c, key) /\ c = Dest
      BY <1>2, <1>3, <2>1, OnlyHome DEF Dest
    <3>2. SourceKind \in served
      BY <1>2, <3>1 DEF IInv, ServedInv
    <3>3. objects[c] # Absent /\ Live(Dest) = objects[c] /\ isOwnedBy(Live(Dest), key)
      BY <1>2, <3>1, <3>2 DEF Carries, Live
    <3>4. CASE deleteDestination(r)
      <4>1. ~ResolutionFails(SourceKind)
        BY <3>2 DEF ResolutionFails, Fault, Tidy
      <4>2. r # "ok"
        BY <3>3, <3>4, <4>1 DEF deleteDestination, Goto
      <4>3. CleanupFailed
        BY <3>4, <4>1, <4>2 DEF deleteDestination
      <4> QED
        BY <2>1, <4>3 DEF CleanupFailed, Return
    <3>5. CASE deleteOwned(r)
      <4>1. CASE r = "ok"
        <5>1. objects'[Dest] = Absent
          BY <1>1, <1>2, <3>2, <3>5, <4>1, DeleteKeepsStamps DEF deleteOwned
        <5> QED
          BY <3>1, <5>1 DEF Carries
      <4>2. CASE r # "ok"
        BY <2>1, <3>5, <4>2 DEF deleteOwned, CleanupFailed, Return
      <4> QED
        BY <4>1, <4>2
    <3> QED
      BY <3>4, <3>5
  <2> QED
    BY <1>3, <2>3, <2>4, <2>5 DEF IInv, CopyPart
<1> QED
  BY <1>4, <1>5

\* The Create and the Update stamp the destination of a guarded Projection.
LEMMA WriteDestKeepsInv ==
  ASSUME TypeOK, TypeOK', IInv, NEW r \in Replies, create(r) \/ update(r)
  PROVE  IInv'
<1>1. /\ pc \in {"create", "update"}
      /\ UNCHANGED <<crs, served, cache, cacheFresh, key, proj, projFresh>>
      /\ pc' \in {"watchDest", "flush"}
      /\ \/ objects' = objects
         \/ objects' = [objects EXCEPT ![Dest] = Allocate(Dest, dst)]
  BY DEF create, update, WriteDest, Put, Goto, Finish
<1>2. Writing /\ ~Finalizing /\ ~Finalizing' /\ pc' \in PCs
  BY <1>1 DEF Writing, Finalizing, LivePCs, CleanupPCs, PCs
<1>3. CopyPart'
  BY <1>1, <1>2, CopyPartStay DEF IInv, CopyPart
<1>4. WriteInv' /\ CleanInv'
  BY <1>1 DEF WriteInv, CleanInv
<1>5. HomeInv' /\ OrphanInv'
  <2>1. CASE objects' = objects
    BY <1>1, <2>1, ObjectPartSame
  <2>2. CASE objects' = [objects EXCEPT ![Dest] = Allocate(Dest, dst)]
    <3>1. /\ key \in Projections /\ Dest \in Coords /\ proj.spec \in Specs[key]
          /\ Guarded(crs[key])
      BY <1>1, <1>2, PhaseFacts
    <3>2. dst \in Objects /\ isOwnedBy(dst, key)
      BY <1>1 DEF TypeOK, Operands, IInv, WriteInv
    <3>3. Allocate(Dest, dst) \in Objects
      BY <3>1, <3>2, AllocateObject
    <3>4. ASSUME NEW p \in Projections, isOwnedBy(Allocate(Dest, dst), p) PROVE p = key
      BY <3>1, <3>2, <3>4, AllocateObject DEF isOwnedBy
    <3> QED
      BY <1>1, <2>2, <3>1, <3>3, <3>4, HomeAfterPut DEF Dest
  <2> QED
    BY <1>1, <2>1, <2>2
<1> QED
  BY <1>3, <1>4, <1>5 DEF IInv, CopyPart

\* The three updates of the Projection.
LEMMA CopyWritesKeepInv ==
  ASSUME TypeOK, TypeOK', IInv, NEW r \in Replies,
         ensureFinalizer(r) \/ removeFinalizer(r) \/ flush(r)
  PROVE  IInv'
<1>1. CASE UNCHANGED <<crs, cacheFresh>>
  <2>1. CASE pc' = "idle"
    BY <1>1, <2>1, ReturnKeepsInv DEF ensureFinalizer, removeFinalizer, flush, NewStatus, Requeues
  <2>2. CASE pc' # "idle"
    <3>1. /\ ensureFinalizer(r) /\ CopyAccepted
          /\ cacheFresh' = [cacheFresh EXCEPT ![key] = FALSE]
      BY <2>2 DEF ensureFinalizer, removeFinalizer, flush, NewStatus, Requeues, Return
    <3>2. key \in Projections /\ pc = "ensureFinalizer" /\ projFresh
      BY <3>1 DEF ensureFinalizer, CopyAccepted, TypeOK, Operands
    <3>3. cacheFresh[key] = TRUE
      BY <3>2 DEF IInv, CopiesInv, TypeOK, ManagerType
    <3> QED
      BY <1>1, <3>1, <3>2, <3>3 DEF TypeOK, ManagerType
  <2> QED
    BY <2>1, <2>2
<1>2. CASE ~UNCHANGED <<crs, cacheFresh>>
  <2>1. /\ pc # "idle" /\ CopyAccepted
        /\ UNCHANGED <<objects, served, cache>>
        /\ cacheFresh' = [cacheFresh EXCEPT ![key] = FALSE]
    BY <1>2 DEF ensureFinalizer, removeFinalizer, flush, NewStatus, Requeues
  <2>2. /\ key \in Projections /\ crs[key] \in CRs /\ crs[key] = proj
        /\ proj.spec \in Specs[key]
    BY <2>1, PhaseFacts DEF CopyAccepted, TypeOK, ApiType, IInv, CopiesInv
  <2>3. /\ cacheFresh'[key] = FALSE
        /\ \A q \in Projections \ {key} : cacheFresh'[q] = cacheFresh[q]
    BY <2>1, <2>2 DEF TypeOK, ManagerType
  <2>4. CASE ensureFinalizer(r)
    <3> DEFINE cr == [proj EXCEPT !.finalizer = TRUE]
    <3>1. pc = "ensureFinalizer" /\ crs' = [crs EXCEPT ![key] = cr] /\ projFresh
      BY <1>2, <2>4 DEF ensureFinalizer, CopyAccepted
    <3>2. /\ crs'[key] = cr /\ \A q \in Projections \ {key} : crs'[q] = crs[q]
          /\ cr \in CRs /\ cr.finalizer /\ cr.spec = proj.spec
          /\ cr.deleting = proj.deleting /\ cr # Absent
      BY <2>2, <3>1, AbsentAssumption DEF TypeOK, ApiType, CRs
    <3>3. cache[key] = proj /\ ~proj.deleting /\ ~proj.finalizer
      BY <2>2, <3>1 DEF IInv, CopiesInv, FinalizerInv
    <3>4. \/ pc' = "idle"
          \/ /\ pc' = "resolveGVR" /\ proj' = cr /\ key' = key
             /\ UNCHANGED projFresh
      BY <2>4 DEF ensureFinalizer, Return
    <3> HIDE DEF cr
    <3>5. SpecsInv' /\ CopiesInv' /\ ServedInv'
      BY <2>1, <2>2, <2>3, <3>2, <3>4 DEF IInv, SpecsInv, CopiesInv, ServedInv
    <3>6. FinalizerInv'
      BY <2>1, <2>2, <3>2, <3>3, <3>4 DEF IInv, FinalizerInv, Guarded, Doomed, Writing,
         Finalizing, LivePCs, CleanupPCs
    <3>7. WriteInv' /\ CleanInv'
      BY <3>4 DEF WriteInv, CleanInv
    <3>8. HomeInv' /\ OrphanInv'
      BY <2>1, <3>2 DEF IInv, HomeInv, OrphanInv, NoOrphan, Carries
    <3> QED
      BY <3>5, <3>6, <3>7, <3>8 DEF IInv
  <2>5. CASE removeFinalizer(r)
    <3>1. /\ pc = "removeFinalizer" /\ pc' = "idle"
          /\ crs' = [crs EXCEPT ![key] = Absent]
      BY <1>2, <2>5 DEF removeFinalizer, Return
    <3>2. crs'[key] = Absent /\ \A q \in Projections \ {key} : crs'[q] = crs[q]
      BY <2>2, <3>1 DEF TypeOK, ApiType
    <3>3. Doomed(cache[key])
      BY <3>1, PhaseFacts DEF Finalizing
    <3>4. SpecsInv' /\ CopiesInv' /\ ServedInv'
      BY <2>1, <2>3, <3>1, <3>2 DEF IInv, SpecsInv, CopiesInv, ServedInv
    <3>5. FinalizerInv'
      BY <2>1, <3>1, <3>2, <3>3 DEF IInv, FinalizerInv, Guarded, Doomed, Writing,
         Finalizing, LivePCs, CleanupPCs
    <3>6. HomeInv' /\ OrphanInv'
      BY <2>1, <3>1, <3>2 DEF IInv, HomeInv, CleanInv, OrphanInv, NoOrphan, Carries
    <3> QED
      BY <3>1, <3>4, <3>5, <3>6, IdleInv DEF IInv
  <2>6. CASE flush(r)
    <3>1. pc' = "idle" /\ crs' = [crs EXCEPT ![key].status = Staged]
      BY <1>2, <2>6 DEF flush, NewStatus, Requeues, Return
    <3>2. /\ \A q \in Projections \ {key} : crs'[q] = crs[q]
          /\ crs'[key] = [crs[key] EXCEPT !.status = Staged]
      BY <2>2, <3>1 DEF TypeOK, ApiType
    <3>3. /\ crs'[key] # Absent /\ crs[key] # Absent
          /\ crs'[key].spec = crs[key].spec
          /\ crs'[key].deleting = crs[key].deleting
          /\ crs'[key].finalizer = crs[key].finalizer
      <4>1. Staged \in Statuses
        BY <2>6, PhaseFacts, StagedStatus DEF flush, NewStatus, Requeues, TypeOK
      <4>2. [crs[key] EXCEPT !.status = Staged] \in CRs
        BY <2>2, <4>1 DEF CRs
      <4> QED
        BY <2>2, <3>2, <4>2, AbsentAssumption DEF CRs
    <3>4. SpecsInv' /\ CopiesInv' /\ ServedInv'
      BY <2>1, <2>2, <2>3, <3>1, <3>2, <3>3 DEF IInv, SpecsInv, CopiesInv, ServedInv
    <3>5. FinalizerInv'
      BY <2>1, <2>2, <3>1, <3>2, <3>3 DEF IInv, FinalizerInv, Guarded, Doomed, Writing,
         Finalizing, LivePCs, CleanupPCs
    <3>6. HomeInv' /\ OrphanInv'
      BY <2>1, <2>2, <3>2, <3>3 DEF IInv, HomeInv, OrphanInv, NoOrphan, Carries
    <3> QED
      BY <3>1, <3>4, <3>5, <3>6, IdleInv DEF IInv
  <2> QED
    BY <2>4, <2>5, <2>6
<1> QED
  BY <1>1, <1>2

\* A crash loses the process's state only: all that is stored is kept.
LEMMA RestartKeepsInv ==
  ASSUME TypeOK, TypeOK', IInv, Restart
  PROVE  IInv'
<1>1. /\ pc' = "idle" /\ cache' = crs /\ UNCHANGED <<objects, crs, served>>
      /\ \A p \in Projections : cacheFresh'[p] = TRUE
  BY DEF Restart, apiVars
<1>2. SpecsInv' /\ CopiesInv' /\ ServedInv'
  BY <1>1 DEF IInv, SpecsInv, CopiesInv, ServedInv
<1>3. FinalizerInv'
  BY <1>1 DEF IInv, FinalizerInv, Guarded, Doomed, Writing, Finalizing, LivePCs,
     CleanupPCs
<1> QED
  BY <1>1, <1>2, <1>3, ObjectPartSame, IdleInv DEF IInv

\* Users write a Projection: they give it one of its specs, and neither take a
\* finalizer away nor bring one back.
LEMMA UserOnCRKeepsInv ==
  ASSUME TypeOK, TypeOK', IInv, NEW p \in Projections, NEW cr, UserOnCR(p, cr),
         cr # Absent => cr.spec \in Specs[p] /\ (cr.deleting => cr.finalizer),
         Guarded(crs[p]) => Guarded(cr), Doomed(crs[p]) => Doomed(cr)
  PROVE  IInv'
<1>1. /\ UNCHANGED <<objects, served, cache, pc, key, proj, dst, exFresh>>
      /\ projFresh' = (projFresh /\ key # p)
      /\ crs'[p] = cr /\ cacheFresh'[p] = FALSE
      /\ \A q \in Projections \ {p} : crs'[q] = crs[q] /\ cacheFresh'[q] = cacheFresh[q]
  BY DEF UserOnCR, PutCR, TypeOK, ApiType, ManagerType
<1>2. pc # "idle" => key \in Projections
  BY DEF TypeOK, Operands
<1>3. SpecsInv' /\ CopiesInv' /\ ServedInv'
  BY <1>1, <1>2 DEF IInv, SpecsInv, CopiesInv, ServedInv
<1>4. /\ \A q \in Projections : /\ Guarded(crs[q]) => Guarded(crs'[q])
                                /\ Doomed(crs[q]) => Doomed(crs'[q])
      /\ (Writing' <=> Writing) /\ (Finalizing' <=> Finalizing)
      /\ Writing \/ Finalizing => pc # "idle"
  BY <1>1 DEF Writing, Finalizing, LivePCs, CleanupPCs
<1>5. FinalizerInv'
  <2>1. \A q \in Projections :
          /\ crs'[q] # Absent /\ crs'[q].deleting => crs'[q].finalizer
          /\ cache'[q] # Absent /\ cache'[q].finalizer /\ ~cache'[q].deleting
               => Guarded(crs'[q])
          /\ cache'[q] # Absent /\ cache'[q].deleting => Doomed(crs'[q])
    BY <1>1, <1>4 DEF IInv, FinalizerInv
  <2>2. Writing' => ~proj'.deleting /\ Guarded(crs'[key'])
    BY <1>1, <1>2, <1>4 DEF IInv, FinalizerInv
  <2>3. Finalizing' => proj'.deleting /\ Doomed(crs'[key']) /\ Doomed(cache'[key'])
    BY <1>1, <1>2, <1>4 DEF IInv, FinalizerInv
  <2>4. pc' = "ensureFinalizer" => ~proj'.deleting /\ ~proj'.finalizer
    BY <1>1 DEF IInv, FinalizerInv
  <2> QED
    BY <2>1, <2>2, <2>3, <2>4 DEF FinalizerInv, Guarded, Doomed
<1>6. WriteInv' /\ CleanInv'
  BY <1>1 DEF IInv, WriteInv, CleanInv, Carries, Dest
<1>7. HomeInv' /\ OrphanInv'
  BY <1>1, <1>4 DEF IInv, HomeInv, OrphanInv, NoOrphan, Carries, Guarded
<1> QED
  BY <1>3, <1>5, <1>6, <1>7 DEF IInv

\* Creating, editing and deleting a Projection keeps the invariant.
LEMMA UserCRStepsKeepInv ==
  ASSUME TypeOK, TypeOK', IInv, NEW p \in Projections,
         CreateProjection(p) \/ EditProjection(p) \/ DeleteProjection(p)
  PROVE  IInv'
<1>1. CASE CreateProjection(p)
  <2>1. PICK s \in Specs[p] : UserOnCR(p, NewCR(p, incarnation[p] + 1, s))
    BY <1>1 DEF CreateProjection
  <2> DEFINE cr == NewCR(p, incarnation[p] + 1, s)
  <2>2. crs[p] = Absent /\ cr.spec = s /\ ~cr.deleting /\ ~cr.finalizer
    BY <1>1 DEF CreateProjection, NewCR
  <2> HIDE DEF cr
  <2> QED
    BY <2>1, <2>2, UserOnCRKeepsInv DEF cr, Guarded, Doomed
<1>2. CASE EditProjection(p)
  <2>1. PICK s \in Specs[p] : UserOnCR(p, [crs[p] EXCEPT !.spec = s])
    BY <1>2 DEF EditProjection
  <2> DEFINE cr == [crs[p] EXCEPT !.spec = s]
  <2>2. crs[p] \in CRs /\ crs[p] # Absent
    BY <1>2 DEF EditProjection, TypeOK, ApiType
  <2>3. /\ cr # Absent /\ cr.spec = s /\ cr.deleting = crs[p].deleting
        /\ cr.finalizer = crs[p].finalizer
    BY <2>2, SpecsAssumption, AbsentAssumption DEF CRs
  <2>4. cr.deleting => cr.finalizer
    BY <2>2, <2>3 DEF IInv, FinalizerInv
  <2> HIDE DEF cr
  <2> QED
    BY <2>1, <2>2, <2>3, <2>4, UserOnCRKeepsInv DEF cr, Guarded, Doomed
<1>3. CASE DeleteProjection(p)
  <2>1. crs[p] \in CRs /\ crs[p] # Absent
    BY <1>3 DEF DeleteProjection, TypeOK, ApiType
  <2>2. CASE crs[p].finalizer
    <3> DEFINE cr == [crs[p] EXCEPT !.deleting = TRUE]
    <3>1. UserOnCR(p, cr)
      BY <1>3, <2>2 DEF DeleteProjection
    <3>2. cr # Absent /\ cr.spec = crs[p].spec /\ cr.deleting /\ cr.finalizer
      BY <2>1, <2>2, AbsentAssumption DEF CRs
    <3>3. cr.spec \in Specs[p]
      BY <2>1, <3>2 DEF IInv, SpecsInv
    <3> HIDE DEF cr
    <3> QED
      BY <3>1, <3>2, <3>3, UserOnCRKeepsInv DEF Guarded, Doomed
  <2>3. CASE ~crs[p].finalizer
    BY <1>3, <2>1, <2>3, UserOnCRKeepsInv DEF DeleteProjection, Guarded, Doomed
  <2> QED
    BY <2>2, <2>3
<1> QED
  BY <1>1, <1>2, <1>3

\* Users write an object: they never add an ownership annotation.
LEMMA UserOnObjectKeepsInv ==
  ASSUME TypeOK, TypeOK', IInv, NEW c \in Coords, NEW o \in Objects \cup {Absent},
         UserOnObject(c, o),
         \A p \in Projections : o # Absent /\ isOwnedBy(o, p) => Carries(c, p)
  PROVE  IInv'
<1>1. /\ UNCHANGED <<crs, served, cache, cacheFresh, pc, key, proj, projFresh, dst>>
      /\ objects' = [objects EXCEPT ![c] = o]
      /\ exFresh' = (exFresh /\ pc = "update" /\ c # Dest)
  BY DEF UserOnObject, Put, Dest
<1>2. /\ HomeInv' /\ OrphanInv' /\ objects'[c] = o
      /\ \A d \in Coords \ {c} : objects'[d] = objects[d]
  BY <1>1, HomeAfterPut
<1>3. CopyPart'
  BY <1>1 DEF IInv, CopyPart, SpecsInv, CopiesInv, FinalizerInv, ServedInv, Guarded,
     Doomed, Writing, Finalizing, LivePCs, CleanupPCs
<1>4. pc # "idle" => key \in Projections /\ Dest \in Coords
  BY PhaseFacts
<1>5. WriteInv'
  BY <1>1, <1>2, <1>4 DEF IInv, WriteInv, Carries, Dest
<1>6. \A d \in Coords, p \in Projections : Carries(d, p)' => Carries(d, p)
  BY <1>2 DEF Carries
<1>7. CleanInv'
  BY <1>1, <1>4, <1>6 DEF IInv, CleanInv
<1> QED
  BY <1>2, <1>3, <1>5, <1>7 DEF IInv, CopyPart

\* Users delete objects, create plain ones, and edit others without giving them
\* to a Projection that did not have them.
LEMMA UserObjects ==
  ASSUME TypeOK, NEW c \in Coords,
         \/ UserCreates(c) \/ UserDeletes(c) \/ UserEdits(c)
         \/ UserSetsProjectable(c) \/ UserStripsAnnotation(c) \/ UserStripsLabel(c)
  PROVE  \E o \in Objects \cup {Absent} :
           /\ UserOnObject(c, o)
           /\ \A p \in Projections : o # Absent /\ isOwnedBy(o, p) => Carries(c, p)
<1>1. CASE UserCreates(c)
  <2>1. PICK o \in PlainObjects : UserOnObject(c, Allocate(c, o))
    BY <1>1 DEF UserCreates
  <2>2. /\ Allocate(c, o) \in Objects
        /\ \A p \in Projections : ~isOwnedBy(Allocate(c, o), p)
    BY PlainAssumption, AllocateObject, AbsentAssumption DEF isOwnedBy
  <2> QED
    BY <2>1, <2>2
<1>2. CASE UserDeletes(c)
  BY <1>2 DEF UserDeletes
<1>3. CASE UserEdits(c) \/ UserSetsProjectable(c) \/ UserStripsAnnotation(c)
           \/ UserStripsLabel(c)
  <2>1. objects[c] \in Objects /\ objects[c] # Absent
    BY <1>3 DEF UserEdits, UserSetsProjectable, UserStripsAnnotation, UserStripsLabel,
       TypeOK, ApiType
  <2>2. PICK o \in Objects : /\ UserOnObject(c, o)
                             /\ o.annotations[ownedByAnnotation]
                                  \in {objects[c].annotations[ownedByAnnotation], None}
    <3>1. CASE UserEdits(c)
      BY <2>1, <3>1 DEF UserEdits, Objects
    <3>2. CASE UserSetsProjectable(c)
      <4>1. PICK v \in {"true", "false", None} :
              UserOnObject(c, [objects[c] EXCEPT !.annotations[projectableAnnotation] = v])
        BY <3>2 DEF UserSetsProjectable
      <4>2. projectableAnnotation # ownedByAnnotation
        BY DEF projectableAnnotation, ownedByAnnotation
      <4>3. /\ [objects[c] EXCEPT !.annotations[projectableAnnotation] = v] \in Objects
            /\ [objects[c] EXCEPT !.annotations[projectableAnnotation] = v]
                 .annotations[ownedByAnnotation]
                 = objects[c].annotations[ownedByAnnotation]
        BY <2>1, <4>2 DEF Objects, Annotations, AnnotationKeys
      <4> QED
        BY <4>1, <4>3
    <3>3. CASE UserStripsAnnotation(c)
      BY <2>1, <3>3 DEF UserStripsAnnotation, Objects, Annotations, AnnotationKeys
    <3>4. CASE UserStripsLabel(c)
      BY <2>1, <3>4 DEF UserStripsLabel, Objects, Labels
    <3> QED
      BY <1>3, <3>1, <3>2, <3>3, <3>4
  <2> QED
    BY <2>1, <2>2, AbsentAssumption DEF isOwnedBy, Carries
<1> QED
  BY <1>1, <1>2, <1>3

\* What users do to objects keeps the invariant.
LEMMA UserObjectStepsKeepInv ==
  ASSUME TypeOK, TypeOK', IInv, NEW c \in Coords,
         \/ UserCreates(c) \/ UserDeletes(c) \/ UserEdits(c)
         \/ UserSetsProjectable(c) \/ UserStripsAnnotation(c) \/ UserStripsLabel(c)
  PROVE  IInv'
BY UserObjects, UserOnObjectKeepsInv

\* A kind that stops or starts being served keeps the invariant.
LEMMA ServingKeepsInv ==
  ASSUME TypeOK, TypeOK', IInv, NEW k \in Kinds, ServingChanges(k)
  PROVE  IInv'
<1>1. /\ UNCHANGED <<objects, crs, cache, cacheFresh, localVars>>
      /\ ServedInv'
  BY DEF ServingChanges, managerVars, IInv, ServedInv
<1>2. WriteInv' /\ CleanInv'
  BY <1>1 DEF IInv, WriteInv, CleanInv, Carries, Dest, localVars
<1>3. SpecsInv' /\ CopiesInv' /\ FinalizerInv'
  BY <1>1 DEF IInv, SpecsInv, CopiesInv, FinalizerInv, Guarded, Doomed, Writing,
     Finalizing, LivePCs, CleanupPCs, localVars
<1> QED
  BY <1>1, <1>2, <1>3, ObjectPartSame DEF IInv

\* Every step keeps the inductive invariant; one step per action.
LEMMA NextInv == TypeOK /\ TypeOK' /\ IInv /\ [Next]_vars => IInv'
<1> SUFFICES ASSUME TypeOK, TypeOK', IInv, [Next]_vars PROVE IInv'
  OBVIOUS
<1>1. CASE UNCHANGED vars
  BY <1>1, LocalStepsKeepInv DEF vars, apiVars, managerVars
<1>2. ASSUME NEW p \in Projections, Requeue(p) \/ ResyncTick(p) PROVE IInv'
  BY <1>2, LocalStepsKeepInv DEF Requeue, ResyncTick, apiVars
<1>3. ASSUME NEW k \in Kinds, WatchStarts(k) \/ DestWatchStarts(k) PROVE IInv'
  BY <1>3, LocalStepsKeepInv DEF WatchStarts, DestWatchStarts, apiVars
<1>4. CASE ReconcileStep
  BY <1>4, ReadStepsKeepInv, DeleteListedKeepsInv, CleanupKeepsInv, WriteDestKeepsInv,
     CopyWritesKeepInv DEF ReconcileStep
<1>5. CASE User
  BY <1>5, UserCRStepsKeepInv, UserObjectStepsKeepInv, ServingKeepsInv DEF User
<1> QED
  BY <1>1, <1>2, <1>3, <1>4, <1>5, ReconcileKeepsInv, CacheSyncKeepsInv, RestartKeepsInv
     DEF Next

\* What every phase of a reconcile assumes of the copies it works from holds in
\* every reachable state.
THEOREM Invariance == Spec => []IInv
<1>1. TypeOK /\ TypeOK' /\ IInv /\ [Next]_vars => IInv'
  BY NextInv
<1> QED
  BY <1>1, InitInv, TypeCorrect, PTL DEF Spec

\* Whatever carries a Projection's stamp has a stored Projection with the
\* finalizer: with every destination name fixed and a RESTMapper that only fails
\* for kinds that are not served, no crash, lost answer, stale cache, deletion
\* or re-creation leaves an orphaned destination.
THEOREM NoOrphans == Tidy => (Spec => []NoOrphan)
<1> SUFFICES ASSUME Tidy PROVE Spec => []NoOrphan
  OBVIOUS
<1>1. IInv => NoOrphan
  BY DEF IInv, OrphanInv
<1> QED
  BY <1>1, Invariance, PTL

\* Users count their steps: a step that does not count is the operator's.
LEMMA UserCounted == ASSUME TypeOK, User PROVE userSteps' # userSteps
<1>1. \A a : UserStep(a) => userSteps' # userSteps
  BY DEF UserStep, TypeOK, BoundType
<1> QED
  BY <1>1 DEF User, CreateProjection, EditProjection, DeleteProjection, UserCreates,
     UserDeletes, UserEdits, UserSetsProjectable, UserStripsAnnotation,
     UserStripsLabel, ServingChanges

\* The only requests that change an existing object are the Create and the
\* Update, and an Update is accepted only for the version that was checked.
LEMMA ReconcileWrites ==
  ASSUME TypeOK, IInv, ReconcileStep, NEW c \in Coords, objects[c] # Absent,
         objects'[c] \notin {Absent, objects[c]}
  PROVE  Carries(c, key)
<1>1. ASSUME NEW d, NEW r, Delete(d, r) PROVE FALSE
  BY <1>1 DEF Delete, Put, TypeOK, ApiType
<1>2. PICK r \in Replies : create(r) \/ update(r)
  BY <1>1 DEF ReconcileStep, resolveGVR, ensureSourceWatch, ensureNamespacedDestWatch,
     ensureFinalizer, getSource, listOwned, deleteListed, deleteDestination,
     deleteOwned, removeFinalizer, getDest, flush, apiVars
<1>3. /\ \/ pc = "create" /\ CreateAccepted
         \/ pc = "update" /\ UpdateAccepted
      /\ objects' = [objects EXCEPT ![Dest] = Allocate(Dest, dst)]
  BY <1>2 DEF create, update, WriteDest, Put
<1>4. c = Dest
  BY <1>3 DEF TypeOK, ApiType
<1> QED
  BY <1>3, <1>4 DEF CreateAccepted, UpdateAccepted, IInv, WriteInv

\* The reconciler overwrites an object only while it carries the stamp of the
\* Projection being reconciled: the resourceVersion of the Update closes the
\* window between writeDestination's check and its write.
THEOREM OverwritesOnlyOwned == Spec => WritesOnlyOwned
<1>1. TypeOK /\ IInv /\ [Next]_vars => [OwnedOverwrite]_vars
  <2> SUFFICES ASSUME TypeOK, IInv, Next PROVE OwnedOverwrite
    OBVIOUS
  <2> SUFFICES ASSUME NEW c \in Coords, userSteps' = userSteps, objects[c] # Absent,
                      objects'[c] \notin {Absent, objects[c]}
               PROVE  Carries(c, key)
    BY DEF OwnedOverwrite
  <2>1. ReconcileStep \/ objects' = objects
    BY UserCounted DEF Next, Reconcile, CacheSync, Requeue, ResyncTick, WatchStarts,
       DestWatchStarts, Restart, apiVars
  <2> QED
    BY <2>1, ReconcileWrites
<1> QED
  BY <1>1, TypeCorrect, Invariance, PTL DEF Spec, WritesOnlyOwned

\* The reconciler's updates of a Projection never undo a user's spec edit,
\* revive it, or hit another incarnation, however stale its copy was.
THEOREM KeepsIntent == Spec => KeepsUserIntent
<1>1. TypeOK /\ IInv /\ [Next]_vars => [IntentKept]_vars
  <2> SUFFICES ASSUME TypeOK, IInv, Next PROVE IntentKept
    OBVIOUS
  <2> SUFFICES ASSUME NEW p \in Projections, userSteps' = userSteps, crs'[p] # Absent,
                      crs'[p] # crs[p]
               PROVE  /\ crs[p] # Absent
                      /\ crs'[p].spec = crs[p].spec
                      /\ crs'[p].uid = crs[p].uid
                      /\ crs'[p].deleting = crs[p].deleting
    BY DEF IntentKept
  <2>1. PICK r \in Replies : ensureFinalizer(r) \/ removeFinalizer(r) \/ flush(r)
    BY UserCounted DEF Next, Reconcile, CacheSync, Requeue, ResyncTick, WatchStarts,
       DestWatchStarts, Restart, apiVars, ReconcileStep, resolveGVR, ensureSourceWatch,
       ensureNamespacedDestWatch, getSource, listOwned, deleteListed,
       deleteDestination, deleteOwned, getDest, create, update, WriteDest
  <2>2. /\ CopyAccepted /\ pc # "idle"
        /\ \/ crs' = [crs EXCEPT ![key] = [proj EXCEPT !.finalizer = TRUE]]
           \/ crs' = [crs EXCEPT ![key] = Absent]
           \/ crs' = [crs EXCEPT ![key].status = Staged]
    BY <2>1 DEF ensureFinalizer, removeFinalizer, flush, NewStatus, Requeues
  <2>3. p = key /\ crs[key] \in CRs /\ crs[key] = proj
    BY <2>2 DEF CopyAccepted, TypeOK, ApiType, IInv, CopiesInv
  <2>4. crs'[p] \in {[crs[p] EXCEPT !.finalizer = TRUE], [crs[p] EXCEPT !.status = Staged]}
    BY <2>2, <2>3 DEF TypeOK, ApiType
  <2> QED
    BY <2>2, <2>3, <2>4 DEF CRs, CopyAccepted
<1> QED
  BY <1>1, TypeCorrect, Invariance, PTL DEF Spec, KeepsUserIntent
=============================================================================

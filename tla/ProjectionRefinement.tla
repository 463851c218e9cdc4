------------------------- MODULE ProjectionRefinement -------------------------
(***************************************************************************)
(* The namespaced reconciler implements Mirror, for every value of the     *)
(* constants that is Tidy: a step on a Projection is a Guard or a Release, *)
(* a step on an object a Claim, a Clear or an Outside, and every other     *)
(* step is a stutter.                                                      *)
(***************************************************************************)
EXTENDS ProjectionProofs

\* The abstract state, named.
Guards == {p \in Projections : Guarded(crs[p])}
Holders == [c \in Places |-> Holder(c)]

\* An object that carries p's stamp is held by p, and nothing else is.
LEMMA HolderCarries ==
  ASSUME NEW c \in Coords, NEW p \in Projections
  PROVE  Carries(c, p) <=> Holder(c) = p
BY AbsentAssumption DEF Carries, isOwnedBy, Holder

\* Steps that touch neither Projections nor objects are out of sight.
LEMMA OutOfSight ==
  ASSUME UNCHANGED <<objects, crs>>
  PROVE  UNCHANGED M!vars
BY DEF M!vars, Holder, Guarded

\* A write of one Projection stores its finalizer, or takes away one that has
\* nothing left to guard: otherwise NoOrphan would fail in the next state.
LEMMA ProjectionStep ==
  ASSUME TypeOK, NoOrphan', NEW p \in Projections, NEW cr,
         crs' = [crs EXCEPT ![p] = cr], objects' = objects
  PROVE  M!Next
<1>1. UNCHANGED Holders
  BY DEF Holders, Holder
<1>2. CASE Guarded(cr)
  <2>1. Guards' = Guards \cup {p}
    BY <1>2 DEF Guards, Guarded, TypeOK, ApiType
  <2> QED
    BY <1>1, <2>1 DEF M!Next, M!Guard, Guards, Holders
<1>3. CASE ~Guarded(cr)
  <2>1. Guards' = Guards \ {p}
    BY <1>3 DEF Guards, Guarded, TypeOK, ApiType
  <2>2. ~Guarded(crs'[p])
    BY <1>3 DEF TypeOK, ApiType
  <2>3. ASSUME NEW c \in Places PROVE Holders[c] # p
    <3>1. ~Carries(c, p)
      BY <2>2 DEF NoOrphan, Carries, Guarded, Places
    <3> QED
      BY <3>1, HolderCarries DEF Holders, Places
  <2> QED
    BY <1>1, <2>1, <2>3 DEF M!Next, M!Release, Guards, Holders
<1> QED
  BY <1>2, <1>3

\* A write of one object that does not put a stamp on an object that was there.
LEMMA ObjectStep ==
  ASSUME TypeOK, NoOrphan', crs' = crs, NEW c \in Coords, NEW obj,
         objects' = [objects EXCEPT ![c] = obj],
         \A p \in Projections :
           obj # Absent /\ objects[c] # Absent /\ isOwnedBy(obj, p) => Carries(c, p)
  PROVE  [M!Next]_M!vars
<1>1. UNCHANGED Guards
  BY DEF Guards, Guarded
<1>2. objects'[c] = obj /\ \A d \in Coords \ {c} : objects'[d] = objects[d]
  BY DEF TypeOK, ApiType
<1>3. \A d \in Coords \ {c} : Holder(d)' = Holder(d)
  BY <1>2 DEF Holder
<1>4. CASE Holder(c)' = Holder(c) \/ c \notin Places
  <2>1. UNCHANGED Holders
    BY <1>3, <1>4 DEF Holders, Places
  <2> QED
    BY <1>1, <2>1 DEF M!vars, Guards, Holders
<1>5. CASE Holder(c)' # Holder(c) /\ c \in Places
  <2>1. Holders' = [Holders EXCEPT ![c] = Holder(c)']
    <3>1. \A d \in Places : Holders'[d] = Holder(d)' /\ Holders[d] = Holder(d)
      BY DEF Holders, Places
    <3>2. \A d \in Places : Holders'[d] = IF d = c THEN Holder(c)' ELSE Holders[d]
      BY <1>3, <3>1 DEF Places
    <3>3. /\ Holders = [d \in Places |-> Holders[d]]
          /\ Holders' = [d \in Places |-> Holders'[d]]
      BY DEF Holders, Places
    <3> QED
      BY <1>5, <3>2, <3>3
  <2>2. CASE Holder(c)' = Absent
    BY <1>1, <1>5, <2>1, <2>2 DEF M!Next, M!Clear, Guards, Holders
  <2>3. CASE Holder(c)' = None
    BY <1>1, <1>5, <2>1, <2>3 DEF M!Next, M!Outside, Guards, Holders
  <2>4. CASE Holder(c)' \notin {Absent, None}
    <3>1. PICK p \in Projections : Holder(c)' = p /\ obj # Absent /\ isOwnedBy(obj, p)
      BY <1>2, <2>4 DEF Holder, isOwnedBy
    <3>2. objects[c] = Absent
      BY <1>5, <3>1, HolderCarries
    <3>3. Guarded(crs[p])
      BY <1>2, <1>5, <3>1 DEF NoOrphan, Carries, Guarded, Places
    <3>4. p \in Guards /\ Holders[c] = Absent
      BY <1>5, <3>2, <3>3 DEF Guards, Holders, Holder
    <3> QED
      BY <1>1, <1>5, <2>1, <3>1, <3>4 DEF M!Next, M!Claim, Guards, Holders
  <2> QED
    BY <2>2, <2>3, <2>4
<1> QED
  BY <1>4, <1>5

\* Every request of a reconcile writes at most one Projection or one object, and
\* an Update stamps only what the same Projection has stamped before.
LEMMA ReconcileSteps ==
  ASSUME TypeOK, IInv, NoOrphan', ReconcileStep
  PROVE  [M!Next]_M!vars
<1>1. CASE UNCHANGED <<objects, crs>>
  BY <1>1, OutOfSight
<1>2. ASSUME NEW c \in Coords, NEW r, Delete(c, r), crs' = crs
      PROVE  [M!Next]_M!vars
  <2>1. CASE objects' = objects
    BY <1>2, <2>1, OutOfSight
  <2>2. CASE objects' = [objects EXCEPT ![c] = Absent]
    BY <1>2, <2>2, ObjectStep
  <2> QED
    BY <1>2, <2>1, <2>2 DEF Delete, Put
<1>3. ASSUME NEW r \in Replies, create(r) \/ update(r) PROVE [M!Next]_M!vars
  <2>1. CASE objects' = objects
    BY <1>3, <2>1, OutOfSight DEF create, update, WriteDest
  <2>2. CASE objects' # objects
    <3>1. /\ pc \in {"create", "update"} /\ crs' = crs
          /\ objects' = [objects EXCEPT ![Dest] = Allocate(Dest, dst)]
          /\ pc = "create" => objects[Dest] = Absent
          /\ pc = "update" => exFresh
      BY <1>3, <2>2 DEF create, update, WriteDest, Put, CreateAccepted, UpdateAccepted
    <3>2. key \in Projections /\ Dest \in Coords /\ dst \in Objects /\ isOwnedBy(dst, key)
      BY <3>1, PhaseFacts DEF TypeOK, Operands, IInv, WriteInv
    <3>3. \A p \in Projections : isOwnedBy(Allocate(Dest, dst), p) => p = key
      BY <3>2, AllocateObject DEF isOwnedBy
    <3>4. objects[Dest] # Absent => Carries(Dest, key)
      BY <3>1 DEF IInv, WriteInv
    <3> QED
      BY <3>1, <3>2, <3>3, <3>4, ObjectStep
  <2> QED
    BY <2>1, <2>2
<1>4. ASSUME NEW r \in Replies, ensureFinalizer(r) \/ removeFinalizer(r) \/ flush(r)
      PROVE  [M!Next]_M!vars
  <2>1. CASE crs' = crs
    BY <1>4, <2>1, OutOfSight DEF ensureFinalizer, removeFinalizer, flush
  <2>2. CASE crs' # crs
    <3>1. /\ objects' = objects /\ pc # "idle"
          /\ \E cr : crs' = [crs EXCEPT ![key] = cr]
      BY <1>4, <2>2 DEF ensureFinalizer, removeFinalizer, flush
    <3> QED
      BY <3>1, PhaseFacts, ProjectionStep
  <2> QED
    BY <2>1, <2>2
<1>5. ASSUME NEW r \in Replies, NEW c \in Coords, deleteListed(c, r)
      PROVE  [M!Next]_M!vars
  BY <1>2, <1>5 DEF deleteListed
<1>6. ASSUME NEW r \in Replies, deleteOwned(r) PROVE [M!Next]_M!vars
  <2>1. Dest \in Coords
    BY <1>6, PhaseFacts DEF deleteOwned
  <2> QED
    BY <1>2, <1>6, <2>1 DEF deleteOwned
<1> QED
  BY <1>1, <1>3, <1>4, <1>5, <1>6 DEF ReconcileStep, resolveGVR, ensureSourceWatch,
     ensureNamespacedDestWatch, getSource, listOwned, deleteDestination, getDest, apiVars

\* What users do to Projections and objects.
LEMMA UserSteps ==
  ASSUME TypeOK, NoOrphan', User
  PROVE  [M!Next]_M!vars
<1>1. ASSUME NEW p \in Projections, NEW cr, UserOnCR(p, cr) PROVE [M!Next]_M!vars
  BY <1>1, ProjectionStep DEF UserOnCR, PutCR
<1>2. ASSUME NEW p \in Projections,
             CreateProjection(p) \/ EditProjection(p) \/ DeleteProjection(p)
      PROVE  [M!Next]_M!vars
  BY <1>1, <1>2 DEF CreateProjection, EditProjection, DeleteProjection
<1>3. ASSUME NEW c \in Coords,
             \/ UserCreates(c) \/ UserDeletes(c) \/ UserEdits(c)
             \/ UserSetsProjectable(c) \/ UserStripsAnnotation(c) \/ UserStripsLabel(c)
      PROVE  [M!Next]_M!vars
  <2>1. PICK o \in Objects \cup {Absent} :
          /\ UserOnObject(c, o)
          /\ \A p \in Projections : o # Absent /\ isOwnedBy(o, p) => Carries(c, p)
    BY <1>3, UserObjects
  <2> QED
    BY <2>1, ObjectStep DEF UserOnObject, Put
<1>4. ASSUME NEW k \in Kinds, ServingChanges(k) PROVE [M!Next]_M!vars
  BY <1>4, OutOfSight DEF ServingChanges
<1> QED
  BY <1>2, <1>3, <1>4 DEF User

\* At the start nothing is stamped and no finalizer is stored.
LEMMA InitMirrors == Init => M!Init
<1> SUFFICES ASSUME Init PROVE M!Init
  OBVIOUS
<1>1. \A p \in Projections : ~Guarded(crs[p])
  BY DEF Init, NewCR, Guarded
<1>2. ASSUME NEW c \in Coords PROVE Holder(c) \in {Absent, None}
  <2>1. CASE objects[c] = Absent
    BY <2>1 DEF Holder
  <2>2. CASE objects[c] # Absent
    <3>1. PICK o \in PlainObjects : objects[c] = Allocate(c, o)
      BY <2>2 DEF Init
    <3>2. isOwnedBy(o, None)
      BY PlainAssumption DEF isOwnedBy
    <3>3. objects[c].annotations[ownedByAnnotation] = None
      BY <3>1, <3>2, PlainAssumption, AllocateObject DEF isOwnedBy
    <3> QED
      BY <2>2, <3>3, AbsentAssumption DEF Holder
  <2> QED
    BY <2>1, <2>2
<1> QED
  BY <1>1, <1>2 DEF M!Init, Places

\* The namespaced reconciler implements Mirror when no spec edit moves a
\* destination and resolution fails only for kinds that are not served.
THEOREM Refinement == Tidy => (Spec => Mirrors)
<1> SUFFICES ASSUME Tidy PROVE Spec => Mirrors
  OBVIOUS
<1>1. TypeOK /\ IInv /\ IInv' /\ [Next]_vars => [M!Next]_M!vars
  <2> SUFFICES ASSUME TypeOK, IInv, IInv', [Next]_vars PROVE [M!Next]_M!vars
    OBVIOUS
  <2>1. NoOrphan'
    BY DEF IInv, OrphanInv, Tidy, StableCoords
  <2>2. CASE ReconcileStep
    BY <2>1, <2>2, ReconcileSteps
  <2>3. CASE User
    BY <2>1, <2>3, UserSteps
  <2>4. CASE UNCHANGED <<objects, crs>>
    BY <2>4, OutOfSight
  <2> QED
    BY <2>2, <2>3, <2>4 DEF Next, vars, Reconcile, CacheSync, Requeue, ResyncTick,
       WatchStarts, DestWatchStarts, Restart, apiVars
<1> QED
  BY <1>1, InitMirrors, TypeCorrect, Invariance, PTL DEF Spec, Mirrors, M!Spec
=============================================================================

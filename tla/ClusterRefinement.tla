--------------------------- MODULE ClusterRefinement ---------------------------
(***************************************************************************)
(* The cluster-tier reconciler implements Mirror, for every value of the   *)
(* constants that is Tidy: a step on a ClusterProjection is a Guard or a   *)
(* Release, a step on an object (of the fan-out, of a sweep, of a user or  *)
(* of the namespace controller) a Claim, a Clear or an Outside, and every  *)
(* other step is a stutter.                                                *)
(***************************************************************************)
EXTENDS ClusterProofs

\* The abstract state, named.
Guards == {p \in ClusterProjections : Guarded(cps[p])}
Holders == [c \in Places |-> Holder(c)]

\* Whatever carries p's stamp has p's finalizer stored.
Answered ==
  \A c \in Places, p \in ClusterProjections : Carries(c, p) => Guarded(cps[p])

\* An object that carries p's stamp is held by p, and nothing else is.
LEMMA HolderCarries ==
  ASSUME NEW c \in Coords, NEW p \in ClusterProjections
  PROVE  Carries(c, p) <=> Holder(c) = p
BY ClusterAbsentAssumption DEF Carries, isOwnedByCluster, Holder

\* Steps that touch neither ClusterProjections nor objects are out of sight.
LEMMA OutOfSight ==
  ASSUME UNCHANGED <<objects, cps>>
  PROVE  UNCHANGED M!vars
BY DEF M!vars, Holder, Guarded

\* A write of one ClusterProjection stores its finalizer, or takes away one that
\* has nothing left to guard: otherwise Answered would fail in the next state.
LEMMA ClusterProjectionStep ==
  ASSUME TypeOK, Answered', NEW p \in ClusterProjections, NEW cp,
         cps' = [cps EXCEPT ![p] = cp], objects' = objects
  PROVE  M!Next
<1>1. UNCHANGED Holders
  BY DEF Holders, Holder
<1>2. CASE Guarded(cp)
  <2>1. Guards' = Guards \cup {p}
    BY <1>2 DEF Guards, Guarded, TypeOK, ApiType
  <2> QED
    BY <1>1, <2>1 DEF M!Next, M!Guard, Guards, Holders
<1>3. CASE ~Guarded(cp)
  <2>1. Guards' = Guards \ {p}
    BY <1>3 DEF Guards, Guarded, TypeOK, ApiType
  <2>2. ~Guarded(cps'[p])
    BY <1>3 DEF TypeOK, ApiType
  <2>3. ASSUME NEW c \in Places PROVE Holders[c] # p
    <3>1. ~Carries(c, p)
      BY <2>2 DEF Answered, Carries, Guarded
    <3> QED
      BY <3>1, HolderCarries DEF Holders, Places
  <2> QED
    BY <1>1, <2>1, <2>3 DEF M!Next, M!Release, Guards, Holders
<1> QED
  BY <1>2, <1>3

\* A write of one object that does not put a stamp on an object that was there.
LEMMA ObjectStep ==
  ASSUME TypeOK, Answered', cps' = cps, NEW c \in Coords, NEW obj,
         objects' = [objects EXCEPT ![c] = obj],
         \A p \in ClusterProjections :
           obj # Absent /\ objects[c] # Absent /\ isOwnedByCluster(obj, p) => Carries(c, p)
  PROVE  [M!Next]_M!vars
<1>1. UNCHANGED Guards
  BY DEF Guards, Guarded
<1>2. objects'[c] = obj /\ \A d \in Coords \ {c} : objects'[d] = objects[d]
  BY PutObject DEF TypeOK
<1>3. \A d \in Coords \ {c} : Holder(d)' = Holder(d)
  BY <1>2 DEF Holder
<1>4. CASE Holder(c)' = Holder(c) \/ c \notin Places
  <2>1. UNCHANGED Holders
    BY <1>3, <1>4 DEF Holders, Places
  <2> QED
    BY <1>1, <2>1 DEF M!vars, Guards, Holders
<1>5. CASE Holder(c)' # Holder(c) /\ c \in Places
  <2>1. Holders' = [Holders EXCEPT ![c] = Holder(c)']
    <3>1. \A d \in Places : Holders'[d] = Holder(d)' /\ Holders[d] = Holder(d)
      BY DEF Holders, Places
    <3>2. \A d \in Places : Holders'[d] = IF d = c THEN Holder(c)' ELSE Holders[d]
      BY <1>3, <3>1 DEF Places
    <3>3. /\ Holders = [d \in Places |-> Holders[d]]
          /\ Holders' = [d \in Places |-> Holders'[d]]
      BY DEF Holders, Places
    <3> QED
      BY <1>5, <3>2, <3>3
  <2>2. CASE Holder(c)' = Absent
    BY <1>1, <1>5, <2>1, <2>2 DEF M!Next, M!Clear, Guards, Holders
  <2>3. CASE Holder(c)' = None
    BY <1>1, <1>5, <2>1, <2>3 DEF M!Next, M!Outside, Guards, Holders
  <2>4. CASE Holder(c)' \notin {Absent, None}
    <3>1. PICK p \in ClusterProjections :
            Holder(c)' = p /\ obj # Absent /\ isOwnedByCluster(obj, p)
      BY <1>2, <2>4 DEF Holder, isOwnedByCluster
    <3>2. objects[c] = Absent
      BY <1>5, <3>1, HolderCarries
    <3>3. Guarded(cps[p])
      BY <1>2, <1>5, <3>1 DEF Answered, Carries, Guarded
    <3>4. p \in Guards /\ Holders[c] = Absent
      BY <1>5, <3>2, <3>3 DEF Guards, Holders, Holder
    <3> QED
      BY <1>1, <1>5, <2>1, <3>1, <3>4 DEF M!Next, M!Claim, Guards, Holders
  <2> QED
    BY <2>2, <2>3, <2>4
<1> QED
  BY <1>4, <1>5

\* A write of the fan-out stamps a free destination, or one whose fetched
\* version carried the same stamp and is still the stored one.
LEMMA FanOutStep ==
  ASSUME TypeOK, IInv, Answered', NEW n \in Namespaces, NEW r \in Replies, writeDest(n, r)
  PROVE  [M!Next]_M!vars
<1>1. CASE objects' = objects
  BY <1>1, OutOfSight DEF writeDest
<1>2. CASE objects' # objects
  <2> DEFINE obj == Allocate(Dest(n), Desired(n))
  <2>1. /\ run.step = "fanOut" /\ run.want \in Objects /\ cps' = cps
        /\ run.name \in ClusterProjections /\ Dest(n) \in Coords
    BY PhaseFacts DEF writeDest, TypeOK, Operands
  <2>2. /\ objects' = [objects EXCEPT ![Dest(n)] = obj]
        /\ run.at[n] = "create" => objects[Dest(n)] = Absent
        /\ run.at[n] # "create" => n \in run.current /\ Live(Dest(n)) # Absent
    BY <1>2 DEF writeDest, Put, CreateAccepted, UpdateAccepted
  <2>3. Live(Dest(n)) \in Objects \cup {Absent}
    BY <2>1 DEF Live, TypeOK, ApiType
  <2>4. Desired(n) \in Objects /\ Desired(n).annotations = run.want.annotations
    BY <2>1, <2>2, <2>3, PreserveObject DEF Desired
  <2>5. obj.annotations = run.want.annotations
    BY <2>1, <2>4, AllocateObject
  <2> HIDE DEF obj
  <2>6. \A p \in ClusterProjections : isOwnedByCluster(obj, p) => p = run.name
    BY <2>1, <2>5 DEF IInv, WriteInv, isOwnedByCluster
  <2>7. objects[Dest(n)] # Absent => Carries(Dest(n), run.name)
    BY <2>1, <2>2 DEF IInv, WriteInv
  <2> QED
    BY <2>1, <2>2, <2>6, <2>7, ObjectStep
<1> QED
  BY <1>1, <1>2

\* Every request of a reconcile writes at most one ClusterProjection or one
\* object.
LEMMA ReconcileSteps ==
  ASSUME TypeOK, IInv, Answered', ReconcileStep
  PROVE  [M!Next]_M!vars
<1>1. CASE UNCHANGED <<objects, cps>>
  BY <1>1, OutOfSight
<1>2. ASSUME NEW r \in Replies, NEW c \in Coords, deleteListed(c, r)
      PROVE  [M!Next]_M!vars
  <2>1. CASE objects' = objects
    BY <1>2, <2>1, OutOfSight DEF deleteListed
  <2>2. CASE objects' = [objects EXCEPT ![c] = Absent]
    BY <1>2, <2>2, ObjectStep DEF deleteListed
  <2> QED
    BY <1>2, <2>1, <2>2 DEF deleteListed, Put
<1>3. ASSUME NEW r \in Replies,
             ensureClusterFinalizer(r) \/ removeFinalizer(r) \/ flush(r)
      PROVE  [M!Next]_M!vars
  <2>1. CASE cps' = cps
    BY <1>3, <2>1, OutOfSight DEF ensureClusterFinalizer, removeFinalizer, flush
  <2>2. CASE cps' # cps
    <3>1. /\ objects' = objects /\ run.step # "idle"
          /\ \E cp : cps' = [cps EXCEPT ![run.name] = cp]
      BY <1>3, <2>2 DEF ensureClusterFinalizer, removeFinalizer, flush, UpdateCP, PutCP
    <3> QED
      BY <3>1, PhaseFacts, ClusterProjectionStep
  <2> QED
    BY <2>1, <2>2
<1> QED
  BY <1>1, <1>2, <1>3, FanOutStep DEF ReconcileStep, resolveGVR, ensureSourceWatch,
     ensureClusterDestWatch, getSource, listOwned, getDest, apiVars

\* What users and the namespace controller do.
LEMMA OtherSteps ==
  ASSUME TypeOK, Answered',
         \/ ClusterUser
         \/ \E n \in Namespaces : Terminate(n)
         \/ \E c \in Coords, act \in ObjectActs : UserWrites(act, c)
  PROVE  [M!Next]_M!vars
<1>1. ASSUME NEW p \in ClusterProjections, NEW cp, UserOnCP(p, cp) PROVE [M!Next]_M!vars
  BY <1>1, ClusterProjectionStep DEF UserOnCP, PutCP
<1>2. ASSUME NEW n \in Namespaces, NEW state, PutNamespace(n, state)
      PROVE  [M!Next]_M!vars
  BY <1>2, OutOfSight DEF PutNamespace
<1>3. CASE ClusterUser
  BY <1>1, <1>2, <1>3 DEF ClusterUser, CreateClusterProjection, EditClusterProjection,
     DeleteClusterProjection, UserLabelsNamespace, UserDeletesNamespace,
     UserCreatesNamespace
<1>4. ASSUME NEW n \in Namespaces, Terminate(n) PROVE [M!Next]_M!vars
  <2>1. CASE \E c \in Coords : PutOutside(c, Absent) /\ cps' = cps
    BY <2>1, ObjectStep DEF PutOutside, Put
  <2> QED
    BY <1>2, <1>4, <2>1 DEF Terminate
<1>5. ASSUME NEW c \in Coords, NEW act \in ObjectActs, UserWrites(act, c)
      PROVE  [M!Next]_M!vars
  <2>1. PICK obj \in UserValues(act, c) : PutOutside(c, obj)
    BY <1>5 DEF UserWrites
  <2>2. \A p \in ClusterProjections :
          obj # Absent /\ isOwnedByCluster(obj, p) => Carries(c, p)
    BY <1>5, UserObjects DEF UserWrites, TypeOK
  <2> QED
    BY <1>5, <2>1, <2>2, ObjectStep DEF UserWrites, PutOutside, Put
<1> QED
  BY <1>3, <1>4, <1>5

\* At the start nothing is stamped and no finalizer is stored.
LEMMA InitMirrors == Init => M!Init
<1> SUFFICES ASSUME Init PROVE M!Init
  OBVIOUS
<1>1. \A p \in ClusterProjections : ~Guarded(cps[p])
  BY DEF Init, NewCP, Guarded
<1>2. ASSUME NEW c \in Coords PROVE Holder(c) \in {Absent, None}
  <2>1. CASE objects[c] = Absent
    BY <2>1 DEF Holder
  <2>2. CASE objects[c] # Absent
    <3>1. PICK o \in PlainObjects : objects[c] = Allocate(c, o)
      BY <2>2 DEF Init
    <3>2. objects[c].annotations[ownedByClusterAnnotation] = None
      BY <3>1, ClusterPlainAssumption, AllocateObject
    <3> QED
      BY <2>2, <3>2, ClusterAbsentAssumption DEF Holder
  <2> QED
    BY <2>1, <2>2
<1> QED
  BY <1>1, <1>2 DEF M!Init, Places

\* The cluster-tier reconciler implements Mirror when no edit changes the kind of
\* a spec, nobody strips the UID label the sweeps select by, and resolution fails
\* only for kinds that are not served.
THEOREM Refinement == Tidy => (Spec => Mirrors)
<1> SUFFICES ASSUME Tidy PROVE Spec => Mirrors
  OBVIOUS
<1>1. TypeOK /\ IInv /\ IInv' /\ [Next]_vars => [M!Next]_M!vars
  <2> SUFFICES ASSUME TypeOK, IInv, IInv', [Next]_vars PROVE [M!Next]_M!vars
    OBVIOUS
  <2>1. Answered'
    BY DEF IInv, ClaimInv, Answered
  <2>2. CASE ReconcileStep
    BY <2>1, <2>2, ReconcileSteps
  <2>3. CASE \/ ClusterUser
             \/ \E n \in Namespaces : Terminate(n)
             \/ \E c \in Coords, act \in ObjectActs : UserWrites(act, c)
    BY <2>1, <2>3, OtherSteps
  <2>4. CASE UNCHANGED <<objects, cps>>
    BY <2>4, OutOfSight
  <2> QED
    BY <2>2, <2>3, <2>4 DEF Next, Operator, vars, Reconcile, CacheSync, Requeue,
       NamespaceSync, mapNamespace, Restart, apiVars
<1> QED
  BY <1>1, InitMirrors, TypeCorrect, Invariance, PTL DEF Spec, Mirrors, M!Spec
=============================================================================

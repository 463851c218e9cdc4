-------------------------- MODULE ProjectionController --------------------------
(***************************************************************************)
(* The namespaced reconciler (ProjectionReconciler) beside the apiserver   *)
(* it reads and writes, the manager's caches, queue and watches, and the   *)
(* users of the cluster.                                                   *)
(*                                                                         *)
(* One reconcile runs at a time (SetupWithManager sets no                  *)
(* MaxConcurrentReconciles); between two of its apiserver requests         *)
(* anything else may happen: users edit, informers deliver, the process    *)
(* crashes.  pc names the request the reconcile will make next.            *)
(*                                                                         *)
(* A request is answered "ok", or fails: "lost" when the apiserver never   *)
(* executed it, "applied" when it did and only the answer was lost.        *)
(*                                                                         *)
(* Abstractions:                                                           *)
(*  - resourceVersions are kept as "is still current" flags: cacheFresh,   *)
(*    projFresh and exFresh say whether the copy in the informer cache,    *)
(*    the reconcile's Projection and its existing destination are the      *)
(*    stored ones, and every write of the stored object clears them;       *)
(*  - the Projection informer delivers the newest state and may skip       *)
(*    intermediate ones; source and destination events are mapped to       *)
(*    requests when the write happens, as the reconciler reads nothing     *)
(*    from those informers;                                                *)
(*  - kinds stand for resolved group/version/kinds, and owner keys         *)
(*    ("ns/name") are the members of Projections;                          *)
(*  - events, metrics, logs and condition messages are left out.           *)
(*                                                                         *)
(* A definition X_y next to X is X with a plausible mistake; no behaviour  *)
(* uses it.  Each shows that some property below can fail.                 *)
(***************************************************************************)
EXTENDS Destination, FiniteSets

CONSTANTS
  Projections,     \* the namespace/name keys of Projections
  NamespaceOf,     \* their namespaces
  Kinds,           \* resource kinds, the resolved GVKs
  Coords,          \* [kind, ns, name] of the objects under consideration
  Specs,           \* Specs[p]: the specs users give p
  Bodies,          \* contents of objects
  PlainObjects,    \* the objects users create, none of them stamped
  UserCoords,      \* where users create them
  UserActs,        \* what users and the cluster do besides the operator
  Unservable,      \* kinds that the apiserver may stop serving
  FaultKinds,      \* subset of {"request", "discovery", "watch", "crash"}
  PromptWatches,   \* a dynamic watch delivers from its registration on
  Resync,          \* the informers' periodic resync is taken into account
  MaxIncarnations, \* bound on the times one Projection is created
  MaxUserSteps,    \* bound on the steps of users
  MaxFaults        \* bound on failed requests, crashes, ...

Uids == Projections \X (1 .. MaxIncarnations)
Names == {c.name : c \in Coords}

Annotations ==
  [AnnotationKeys -> Projections \cup {"true", "false", "user", None}]
Labels == [LabelKeys -> Uids \cup {"user", None}]

Objects ==
  [annotations : Annotations, labels : Labels, body : Bodies,
   alloc : Coords \cup {None}]

SourceReasons == {"SourceResolutionFailed", "SourceFetchFailed",
  "SourceNotFound", "SourceDeleted", "SourceOptedOut", "SourceNotProjectable"}
DestinationReasons == {"DestinationCreateFailed", "DestinationFetchFailed",
  "DestinationConflict", "DestinationUpdateFailed"}
Reasons == SourceReasons \cup DestinationReasons \cup {"Projected"}

Statuses ==
  [sourceResolved : {"True", "False", None},
   destinationWritten : {"True", "False", "Unknown", None},
   reason : Reasons \cup {None},
   destinationName : Names \cup {None}]

SpecTypes ==
  [source : Coords, name : Names \cup {None},
   overlay : [annotations : Annotations, labels : Labels]]

CRs ==
  [uid : Uids, deleting : BOOLEAN, finalizer : BOOLEAN,
   spec : SpecTypes, status : Statuses]

\* The coordinates a namespaced Projection writes to.
destinationCoords(p, spec) ==
  [kind |-> spec.source.kind,
   ns   |-> NamespaceOf[p],
   name |-> IF spec.name = None THEN spec.source.name ELSE spec.name]

ASSUME AbsentAssumption ==
  /\ Absent # None /\ Absent \notin CRs /\ Absent \notin Objects
  /\ None \notin Projections /\ Absent \notin Projections
ASSUME CoordsAssumption ==
  /\ \A c \in Coords : c.kind \in Kinds
  /\ \A p \in Projections, c \in Coords, n \in Names :
       [kind |-> c.kind, ns |-> NamespaceOf[p], name |-> n] \in Coords
ASSUME SpecsAssumption ==
  \A p \in Projections : \A s \in Specs[p] : s \in SpecTypes
ASSUME PlainAssumption ==
  \A o \in PlainObjects :
    o \in Objects /\ o.annotations[ownedByAnnotation] = None /\ o.alloc = None
ASSUME BoundsAssumption ==
  MaxIncarnations \in Nat \ {0} /\ MaxUserSteps \in Nat /\ MaxFaults \in Nat
-----------------------------------------------------------------------------
VARIABLES
  \* the apiserver
  objects,     \* the mirrored resources: Coords -> Objects or Absent
  crs,         \* the Projections: Projections -> CRs or Absent
  served,      \* the kinds the apiserver serves
  \* the manager process
  cache,       \* the Projection informer's copy of crs
  cacheFresh,  \* whether that copy is the stored version
  queue,       \* the workqueue: keys waiting for a reconcile
  delayed,     \* keys waiting for RequeueAfter or an error backoff
  mapped,      \* the kinds the lazily cached RESTMapper has resolved
  watched,     \* per kind, the dynamic source watch
  watchedDests,\* per kind, the dynamic destination watch
  \* the reconcile in progress
  pc,          \* its next request, or "idle"
  key,         \* the key being reconciled
  proj,        \* its copy of the Projection
  projFresh,   \* whether that copy has the stored resourceVersion
  dst,         \* the destination it wants
  exFresh,     \* whether the destination it read is still the stored one
  sweep,       \* listed destinations still to be deleted
  reason,      \* the outcome it will write to the status
  \* bounds
  incarnation, \* how often each Projection was created
  userSteps,   \* steps taken by users
  faults       \* failures injected so far

apiVars == <<objects, crs, served>>
managerVars == <<cache, cacheFresh, queue, delayed, mapped, watched, watchedDests>>
localVars == <<pc, key, proj, projFresh, dst, exFresh, sweep, reason>>
boundVars == <<incarnation, userSteps, faults>>
vars == <<apiVars, managerVars, localVars, boundVars>>

WatchStates == {"none", "starting", "live"}

PCs == {"idle", "ensureFinalizer", "resolveGVR", "ensureSourceWatch", "getSource", "listOwned",
        "deleteListed", "deleteDestination", "deleteOwned", "removeFinalizer",
        "getDest", "create", "update", "watchDest", "flush"}

ApiType ==
  /\ objects \in [Coords -> Objects \cup {Absent}]
  /\ crs \in [Projections -> CRs \cup {Absent}]
  /\ served \subseteq Kinds

ManagerType ==
  /\ cache \in [Projections -> CRs \cup {Absent}]
  /\ cacheFresh \in [Projections -> BOOLEAN]
  /\ queue \subseteq Projections
  /\ delayed \subseteq Projections
  /\ mapped \subseteq Kinds
  /\ watched \in [Kinds -> WatchStates]
  /\ watchedDests \in [Kinds -> WatchStates]

LocalType ==
  /\ pc \in PCs
  /\ key \in Projections \cup {None}
  /\ proj \in CRs \cup {Absent}
  /\ projFresh \in BOOLEAN
  /\ dst \in Objects \cup {Absent}
  /\ exFresh \in BOOLEAN
  /\ sweep \subseteq Coords
  /\ reason \in Reasons \cup {None}

BoundType ==
  /\ incarnation \in [Projections -> 0 .. MaxIncarnations]
  /\ userSteps \in 0 .. MaxUserSteps
  /\ faults \in 0 .. MaxFaults

\* A reconcile in progress has the operands its requests need.
Operands ==
  /\ pc # "idle" => key \in Projections /\ proj \in CRs
  /\ pc \in {"getDest", "create", "update"} => dst \in Objects
  /\ \/ pc \in {"listOwned", "deleteListed", "flush"}
     \/ pc \in {"deleteDestination", "deleteOwned"} /\ ~proj.deleting
     => reason \in Reasons

\* Every variable has its type, and no request is made without its operands.
TypeOK == ApiType /\ ManagerType /\ LocalType /\ BoundType /\ Operands
-----------------------------------------------------------------------------
(* The apiserver, and the events its writes cause.                         *)

\* What a read of c answers: a kind that is not served is a 404 as well.
Live(c) == IF c.kind \in served THEN objects[c] ELSE Absent

\* The apiserver fills in the allocated fields on create; it refuses a value
\* allocated to another object, and any later change.
Allocate(c, obj) ==
  IF c.kind \in AllocatedKinds THEN [obj EXCEPT !.alloc = c] ELSE obj

\* Event handlers.  mapSource and enqueueByUID look the owner up in the
\* informer cache's field indexes.
mapSource(c) ==
  {p \in Projections : cache[p] # Absent /\ cache[p].spec.source = c}

enqueueByUID(obj) ==
  {p \in Projections : /\ cache[p] # Absent
                       /\ cache[p].uid = obj.labels[ownedByUIDLabel]}

\* The label predicate of the destination watch sees the new object on an
\* update; the handler then maps the old and the new one.
ensureDestWatchHandler_NoDeletes(old, new) ==
  IF new = Absent THEN {}
  ELSE IF new.labels[ownedByUIDLabel] = None THEN {}
  ELSE enqueueByUID(new) \cup (IF old = Absent THEN {} ELSE enqueueByUID(old))

ensureDestWatchHandler(old, new) ==
  IF new = Absent THEN enqueueByUID(old)
  ELSE IF new.labels[ownedByUIDLabel] = None THEN {}
  ELSE enqueueByUID(new) \cup (IF old = Absent THEN {} ELSE enqueueByUID(old))

Hits(c, old, new) ==
  (IF watched[c.kind] = "live" THEN mapSource(c) ELSE {}) \cup
  (IF watchedDests[c.kind] = "live" THEN ensureDestWatchHandler(old, new)
   ELSE {})

\* A write of the object at c (Absent: a delete) and its events.
Put(c, obj) ==
  /\ objects' = [objects EXCEPT ![c] = obj]
  /\ queue' = queue \cup Hits(c, objects[c], obj)
  /\ exFresh' = (exFresh /\ pc = "update" /\ c # destinationCoords(key, proj.spec))

\* A write of Projection p by somebody other than the reconcile in progress.
PutCR(p, cr) ==
  /\ crs' = [crs EXCEPT ![p] = cr]
  /\ cacheFresh' = [cacheFresh EXCEPT ![p] = FALSE]
  /\ projFresh' = (projFresh /\ key # p)

Replies == {"ok", "lost", "applied"}

\* How a request may be answered, and what that costs the fault budget.
Fault(kind) ==
  kind \in FaultKinds /\ faults < MaxFaults /\ faults' = faults + 1

Reply(r) == IF r = "ok" THEN faults' = faults ELSE Fault("request")
ReadReply(r) == r # "applied" /\ Reply(r)
-----------------------------------------------------------------------------
(* The reconcile.                                                          *)

\* The reconcile returns; requeue: with an error or RequeueAfter set.
Return(requeue) ==
  /\ pc' = "idle"
  /\ key' = None
  /\ proj' = Absent
  /\ projFresh' = FALSE
  /\ dst' = Absent
  /\ exFresh' = FALSE
  /\ sweep' = {}
  /\ reason' = None
  /\ delayed' = IF requeue THEN delayed \cup {key} ELSE delayed

\* The reconcile continues with request l.
Goto(l) == pc' = l /\ UNCHANGED <<key, proj, delayed>>

\* The reconcile goes on to write its outcome rsn to the status.
Finish_NoReason(rsn) == Goto("flush") /\ dst' = Absent /\ sweep' = {} /\ UNCHANGED reason
Finish(rsn) == Goto("flush") /\ reason' = rsn /\ dst' = Absent /\ sweep' = {}

Dest == destinationCoords(key, proj.spec)
SourceKind == proj.spec.source.kind

\* Get the Projection from the cache and branch: gone, deleting, or alive.
Reconcile(p) ==
  /\ pc = "idle"
  /\ p \in queue
  /\ queue' = queue \ {p}
  /\ LET cr == cache[p] IN
       IF cr = Absent
       THEN UNCHANGED localVars
       ELSE IF cr.deleting /\ ~cr.finalizer
       THEN UNCHANGED localVars
       ELSE /\ pc' = IF cr.deleting THEN "deleteDestination"
                     ELSE IF cr.finalizer THEN "resolveGVR"
                     ELSE "ensureFinalizer"
            /\ key' = p
            /\ proj' = cr
            /\ projFresh' = cacheFresh[p]
            /\ UNCHANGED <<dst, exFresh, sweep, reason>>
  /\ UNCHANGED <<apiVars, cache, cacheFresh, delayed, mapped, watched,
                 watchedDests, boundVars>>

\* An update of the Projection: refused when it is gone (404) or when the
\* copy's resourceVersion is not the stored one (409).
CopyAccepted_AnyVersion == crs[key] # Absent
CopyAccepted == crs[key] # Absent /\ projFresh

\* Update of the whole Projection with the finalizer added.
ensureFinalizer_NoUpdate(r) ==
  /\ pc = "ensureFinalizer"
  /\ Reply(r)
  /\ pc' = "resolveGVR"
  /\ proj' = [proj EXCEPT !.finalizer = TRUE]
  /\ UNCHANGED <<apiVars, managerVars, key, projFresh, dst, exFresh, sweep,
                 reason, incarnation, userSteps>>

ensureFinalizer(r) ==
  LET accepted == r # "lost" /\ CopyAccepted
      cr == [proj EXCEPT !.finalizer = TRUE]
  IN  /\ pc = "ensureFinalizer"
      /\ Reply(r)
      /\ IF accepted
         THEN /\ crs' = [crs EXCEPT ![key] = cr]
              /\ cacheFresh' = [cacheFresh EXCEPT ![key] = FALSE]
         ELSE UNCHANGED <<crs, cacheFresh>>
      /\ IF accepted /\ r = "ok"
         THEN /\ pc' = "resolveGVR"
              /\ proj' = cr
              /\ UNCHANGED <<key, projFresh, dst, exFresh, sweep, reason, delayed>>
         ELSE Return(TRUE)
      /\ UNCHANGED <<objects, served, cache, queue, mapped, watched,
                     watchedDests, incarnation, userSteps>>

\* The RESTMapper answers from its cache or from discovery; resolution fails
\* for a kind that is neither cached nor served, or when discovery fails.
Resolves(k) == k \in mapped \cup served /\ mapped' = mapped \cup {k}

ResolutionFails(k) ==
  /\ k \notin mapped
  /\ IF k \in served THEN Fault("discovery") ELSE faults' = faults
  /\ mapped' = mapped

resolveGVR ==
  /\ pc = "resolveGVR"
  /\ \/ /\ Resolves(SourceKind)
        /\ Goto("ensureSourceWatch")
        /\ UNCHANGED <<faults, dst, sweep, reason>>
     \/ /\ ResolutionFails(SourceKind)
        /\ Finish("SourceResolutionFailed")
  /\ UNCHANGED <<apiVars, cache, cacheFresh, queue, watched, watchedDests,
                 projFresh, exFresh, incarnation, userSteps>>

\* Objects of kind k at the moment an informer starts: each is an Add event.
Existing(k) == {c \in Coords : c.kind = k /\ Live(c) # Absent}

SourceReplay(k) == UNION {mapSource(c) : c \in Existing(k)}
DestReplay(k) ==
  UNION {ensureDestWatchHandler(Absent, objects[c]) : c \in Existing(k)}

\* Controller.Watch: once per kind and process.  An error is only logged, and
\* the informer may start delivering later than the call returns.
ensureSourceWatch ==
  /\ pc = "ensureSourceWatch"
  /\ \/ /\ watched[SourceKind] # "none"
        /\ UNCHANGED <<watched, queue, faults>>
     \/ /\ watched[SourceKind] = "none"
        /\ Fault("watch")
        /\ UNCHANGED <<watched, queue>>
     \/ /\ watched[SourceKind] = "none"
        /\ watched' = [watched EXCEPT ![SourceKind] =
                         IF PromptWatches THEN "live" ELSE "starting"]
        /\ queue' = queue \cup (IF PromptWatches THEN SourceReplay(SourceKind)
                                ELSE {})
        /\ UNCHANGED faults
  /\ Goto("getSource")
  /\ UNCHANGED <<apiVars, cache, cacheFresh, mapped, watchedDests, projFresh,
                 dst, exFresh, sweep, reason, incarnation, userSteps>>

\* Get the source, then decide: fetch error, gone, refused, or projectable.
getSource(r) ==
  LET src == Live(proj.spec.source)
  IN  /\ pc = "getSource"
      /\ ReadReply(r)
      /\ IF r # "ok"
         THEN Finish("SourceFetchFailed")
         ELSE IF src = Absent
         THEN /\ Goto("listOwned")
              /\ reason' = IF proj.status.destinationName # None
                           THEN "SourceDeleted" ELSE "SourceNotFound"
              /\ UNCHANGED <<dst, sweep>>
         ELSE IF checkProjectable(src) # None
         THEN /\ Goto("deleteDestination")
              /\ reason' = checkProjectable(src)
              /\ UNCHANGED <<dst, sweep>>
         ELSE /\ Goto("getDest")
              /\ dst' = buildDestination(SourceKind, src, key, proj)
              /\ UNCHANGED <<sweep, reason>>
      /\ UNCHANGED <<apiVars, cache, cacheFresh, queue, mapped, watched,
                     watchedDests, projFresh, exFresh, incarnation, userSteps>>

\* The List of deleteAllOwnedDestinations: selected by the UID label, kept
\* only with our ownership annotation.  A List error is logged.
listOwned(r) ==
  LET listed == {c \in Existing(SourceKind) :
                   /\ objects[c].labels[ownedByUIDLabel] = proj.uid
                   /\ isOwnedBy(objects[c], key)}
  IN  /\ pc = "listOwned"
      /\ ReadReply(r)
      /\ IF r = "ok" /\ SourceKind \in served
         THEN /\ sweep' = listed
              /\ Goto(IF listed = {} THEN "flush" ELSE "deleteListed")
         ELSE /\ sweep' = {}
              /\ Goto("flush")
      /\ UNCHANGED <<apiVars, cache, cacheFresh, queue, mapped, watched,
                     watchedDests, projFresh, dst, exFresh, reason,
                     incarnation, userSteps>>

\* A Delete request with no preconditions: it removes whatever is at c.
Delete(c, r) ==
  IF r # "lost" /\ Live(c) # Absent
  THEN Put(c, Absent)
  ELSE UNCHANGED <<objects, queue, exFresh>>

\* One Delete of the sweep; an error is remembered and the sweep goes on.
deleteListed(c, r) ==
  /\ pc = "deleteListed"
  /\ c \in sweep
  /\ Reply(r)
  /\ Delete(c, r)
  /\ sweep' = sweep \ {c}
  /\ Goto(IF sweep = {c} THEN "flush" ELSE "deleteListed")
  /\ UNCHANGED <<crs, served, cache, cacheFresh, mapped, watched, watchedDests,
                 projFresh, dst, reason, incarnation, userSteps>>

\* How deleteDestination's two callers go on: handleDeletion drops the
\* finalizer or returns the error, the opt-out path only logs an error.
CleanupDone ==
  /\ Goto(IF proj.deleting THEN "removeFinalizer" ELSE "flush")
  /\ UNCHANGED <<projFresh, dst, sweep, reason>>

CleanupFailed_Ignored == CleanupDone
CleanupFailed == IF proj.deleting THEN Return(TRUE) ELSE CleanupDone

\* deleteDestination up to the ownership check: resolve, Get, compare.
deleteDestination(r) ==
  /\ pc = "deleteDestination"
  /\ \/ /\ r = "ok"
        /\ ResolutionFails(SourceKind)
        /\ CleanupDone
     \/ /\ Resolves(SourceKind)
        /\ ReadReply(r)
        /\ IF r # "ok"
           THEN CleanupFailed
           ELSE IF Live(Dest) = Absent
           THEN CleanupDone
           ELSE IF ~isOwnedBy(Live(Dest), key)
           THEN CleanupDone
           ELSE /\ Goto("deleteOwned")
                /\ UNCHANGED <<projFresh, dst, sweep, reason>>
  /\ exFresh' = FALSE
  /\ UNCHANGED <<apiVars, cache, cacheFresh, queue, watched, watchedDests,
                 incarnation, userSteps>>

\* The Delete of deleteOneDestination.
deleteOwned(r) ==
  /\ pc = "deleteOwned"
  /\ Reply(r)
  /\ Delete(Dest, r)
  /\ IF r = "ok" THEN CleanupDone ELSE CleanupFailed
  /\ UNCHANGED <<crs, served, cache, cacheFresh, mapped, watched, watchedDests,
                 incarnation, userSteps>>

\* Update without the finalizer: the apiserver then removes the Projection.
removeFinalizer(r) ==
  LET accepted == r # "lost" /\ CopyAccepted
  IN  /\ pc = "removeFinalizer"
      /\ Reply(r)
      /\ IF accepted
         THEN /\ crs' = [crs EXCEPT ![key] = Absent]
              /\ cacheFresh' = [cacheFresh EXCEPT ![key] = FALSE]
         ELSE UNCHANGED <<crs, cacheFresh>>
      /\ Return(~accepted \/ r # "ok")
      /\ UNCHANGED <<objects, served, cache, queue, mapped, watched,
                     watchedDests, incarnation, userSteps>>

\* writeDestination, first request: Get the destination and compare.
getDest(r) ==
  LET existing == Live(Dest)
      desired  == preserveAPIServerAllocatedFields(SourceKind, existing, dst)
  IN  /\ pc = "getDest"
      /\ ReadReply(r)
      /\ IF r # "ok"
         THEN Finish("DestinationFetchFailed") /\ exFresh' = FALSE
         ELSE IF existing = Absent
         THEN /\ Goto("create")
              /\ UNCHANGED <<dst, exFresh, sweep, reason>>
         ELSE IF ~isOwnedBy(existing, key)
         THEN Finish("DestinationConflict") /\ exFresh' = FALSE
         ELSE IF needsUpdate(existing, desired)
         THEN /\ Goto("update")
              /\ dst' = desired
              /\ exFresh' = TRUE
              /\ UNCHANGED <<sweep, reason>>
         ELSE /\ Goto("watchDest")
              /\ dst' = Absent
              /\ UNCHANGED <<exFresh, sweep, reason>>
      /\ UNCHANGED <<apiVars, cache, cacheFresh, queue, mapped, watched,
                     watchedDests, projFresh, incarnation, userSteps>>

\* The Create, or the Update with the resourceVersion that was read.
CreateAccepted == Dest.kind \in served /\ objects[Dest] = Absent
                  /\ dst.alloc \in {None, Dest}
UpdateAccepted_AnyVersion == Live(Dest) # Absent
                             /\ dst.alloc = objects[Dest].alloc
UpdateAccepted == exFresh /\ Live(Dest) # Absent
                  /\ dst.alloc = objects[Dest].alloc

WriteDest(r, accepted, failure) ==
  /\ Reply(r)
  /\ IF r # "lost" /\ accepted
     THEN Put(Dest, Allocate(Dest, dst))
     ELSE UNCHANGED <<objects, queue>> /\ exFresh' = FALSE
  /\ IF r = "ok" /\ accepted
     THEN /\ Goto("watchDest")
          /\ dst' = Absent
          /\ UNCHANGED <<sweep, reason>>
     ELSE Finish(failure)
  /\ UNCHANGED <<crs, served, cache, cacheFresh, mapped, watched, watchedDests,
                 projFresh, incarnation, userSteps>>

create(r) == pc = "create"
             /\ WriteDest(r, CreateAccepted, "DestinationCreateFailed")
update(r) == pc = "update"
             /\ WriteDest(r, UpdateAccepted, "DestinationUpdateFailed")

\* The destination watch, registered after the first successful write.
ensureNamespacedDestWatch ==
  /\ pc = "watchDest"
  /\ \/ /\ watchedDests[SourceKind] # "none"
        /\ UNCHANGED <<watchedDests, queue, faults>>
     \/ /\ watchedDests[SourceKind] = "none"
        /\ Fault("watch")
        /\ UNCHANGED <<watchedDests, queue>>
     \/ /\ watchedDests[SourceKind] = "none"
        /\ watchedDests' = [watchedDests EXCEPT ![SourceKind] =
                              IF PromptWatches THEN "live" ELSE "starting"]
        /\ queue' = queue \cup (IF PromptWatches THEN DestReplay(SourceKind)
                                ELSE {})
        /\ UNCHANGED faults
  /\ Finish("Projected")
  /\ UNCHANGED <<apiVars, cache, cacheFresh, mapped, watched, projFresh,
                 exFresh, incarnation, userSteps>>

\* The status each outcome stages on the Projection.
failSource(status, rsn) ==
  [status EXCEPT !.sourceResolved = "False", !.destinationWritten = "Unknown",
                 !.reason = rsn]
failDestination(status, rsn) ==
  [status EXCEPT !.sourceResolved = "True", !.destinationWritten = "False",
                 !.reason = rsn]
markAllReady(status, name) ==
  [status EXCEPT !.sourceResolved = "True", !.destinationWritten = "True",
                 !.reason = "Projected", !.destinationName = name]

Staged ==
  IF reason \in SourceReasons THEN failSource(proj.status, reason)
  ELSE IF reason \in DestinationReasons THEN failDestination(proj.status, reason)
  ELSE markAllReady(proj.status, Dest.name)

\* A status update that changes nothing is no new version.
NewStatus_Touched(accepted) == accepted
NewStatus(accepted) == accepted /\ crs[key].status # Staged

\* Every failure is retried after RequeueInterval or the error backoff; a
\* success is not, the watches are trusted to wake the reconciler up.
Requeues_ErrorsOnly(accepted, r) == ~accepted \/ r # "ok"
Requeues(accepted, r) == ~accepted \/ r # "ok" \/ reason # "Projected"

\* Status().Update, the last request of every reconcile of a live Projection.
flush(r) ==
  LET accepted == r # "lost" /\ CopyAccepted
  IN  /\ pc = "flush"
      /\ Reply(r)
      /\ IF NewStatus(accepted)
         THEN /\ crs' = [crs EXCEPT ![key].status = Staged]
              /\ cacheFresh' = [cacheFresh EXCEPT ![key] = FALSE]
         ELSE UNCHANGED <<crs, cacheFresh>>
      /\ Return(Requeues(accepted, r))
      /\ UNCHANGED <<objects, served, cache, queue, mapped, watched,
                     watchedDests, incarnation, userSteps>>

ReconcileStep ==
  \/ resolveGVR
  \/ ensureSourceWatch
  \/ ensureNamespacedDestWatch
  \/ \E r \in Replies :
       \/ ensureFinalizer(r)
       \/ getSource(r)
       \/ listOwned(r)
       \/ \E c \in Coords : deleteListed(c, r)
       \/ deleteDestination(r)
       \/ deleteOwned(r)
       \/ removeFinalizer(r)
       \/ getDest(r)
       \/ create(r)
       \/ update(r)
       \/ flush(r)
-----------------------------------------------------------------------------
(* The manager around the reconcile.                                       *)

\* The Projection informer catches up and its event enqueues the key.
CacheSync(p) ==
  /\ ~cacheFresh[p]
  /\ cache' = [cache EXCEPT ![p] = crs[p]]
  /\ cacheFresh' = [cacheFresh EXCEPT ![p] = TRUE]
  /\ queue' = queue \cup {p}
  /\ UNCHANGED <<apiVars, delayed, mapped, watched, watchedDests, localVars,
                 boundVars>>

\* RequeueAfter or an error backoff has passed.
Requeue(p) ==
  /\ p \in delayed
  /\ delayed' = delayed \ {p}
  /\ queue' = queue \cup {p}
  /\ UNCHANGED <<apiVars, cache, cacheFresh, mapped, watched, watchedDests,
                 localVars, boundVars>>

\* A dynamic watch's informer has listed its kind and delivers from now on.
WatchStarts(k) ==
  /\ watched[k] = "starting"
  /\ k \in served
  /\ watched' = [watched EXCEPT ![k] = "live"]
  /\ queue' = queue \cup SourceReplay(k)
  /\ UNCHANGED <<apiVars, cache, cacheFresh, delayed, mapped, watchedDests,
                 localVars, boundVars>>

DestWatchStarts(k) ==
  /\ watchedDests[k] = "starting"
  /\ k \in served
  /\ watchedDests' = [watchedDests EXCEPT ![k] = "live"]
  /\ queue' = queue \cup DestReplay(k)
  /\ UNCHANGED <<apiVars, cache, cacheFresh, delayed, mapped, watched,
                 localVars, boundVars>>

\* The informer's periodic resync: an update event for every cached object.
ResyncTick(p) ==
  /\ Resync
  /\ cache[p] # Absent
  /\ p \notin queue
  /\ queue' = queue \cup {p}
  /\ UNCHANGED <<apiVars, cache, cacheFresh, delayed, mapped, watched,
                 watchedDests, localVars, boundVars>>

\* The process dies anywhere; a new one syncs its cache, then reconciles all.
Restart ==
  /\ Fault("crash")
  /\ cache' = crs
  /\ cacheFresh' = [p \in Projections |-> TRUE]
  /\ queue' = {p \in Projections : crs[p] # Absent}
  /\ delayed' = {}
  /\ mapped' = {}
  /\ watched' = [k \in Kinds |-> "none"]
  /\ watchedDests' = [k \in Kinds |-> "none"]
  /\ pc' = "idle"
  /\ key' = None
  /\ proj' = Absent
  /\ projFresh' = FALSE
  /\ dst' = Absent
  /\ exFresh' = FALSE
  /\ sweep' = {}
  /\ reason' = None
  /\ UNCHANGED <<apiVars, incarnation, userSteps>>
-----------------------------------------------------------------------------
(* The users of the cluster, and the cluster itself.                       *)

UserStep(act) ==
  act \in UserActs /\ userSteps < MaxUserSteps /\ userSteps' = userSteps + 1

NewCR(p, n, spec) ==
  [uid |-> <<p, n>>, deleting |-> FALSE, finalizer |-> FALSE, spec |-> spec,
   status |-> [sourceResolved |-> None, destinationWritten |-> None,
               reason |-> None, destinationName |-> None]]

UserOnCR(p, cr) ==
  /\ PutCR(p, cr)
  /\ UNCHANGED <<objects, served, cache, queue, delayed, mapped, watched,
                 watchedDests, pc, key, proj, dst, exFresh, sweep, reason,
                 faults>>

CreateProjection(p) ==
  /\ UserStep("createCR")
  /\ crs[p] = Absent
  /\ incarnation[p] < MaxIncarnations
  /\ incarnation' = [incarnation EXCEPT ![p] = @ + 1]
  /\ \E s \in Specs[p] : UserOnCR(p, NewCR(p, incarnation[p] + 1, s))

EditProjection(p) ==
  /\ UserStep("editCR")
  /\ crs[p] # Absent
  /\ \E s \in Specs[p] \ {crs[p].spec} : UserOnCR(p, [crs[p] EXCEPT !.spec = s])
  /\ UNCHANGED incarnation

\* kubectl delete: with a finalizer the object is only marked.
DeleteProjection(p) ==
  /\ UserStep("deleteCR")
  /\ crs[p] # Absent
  /\ ~crs[p].deleting
  /\ UserOnCR(p, IF crs[p].finalizer THEN [crs[p] EXCEPT !.deleting = TRUE]
                 ELSE Absent)
  /\ UNCHANGED incarnation

UserOnObject(c, obj) ==
  /\ c.kind \in served
  /\ Put(c, obj)
  /\ UNCHANGED <<crs, served, cache, cacheFresh, delayed, mapped, watched,
                 watchedDests, pc, key, proj, projFresh, dst, sweep, reason,
                 incarnation, faults>>

UserCreates(c) ==
  /\ UserStep("create")
  /\ c \in UserCoords
  /\ objects[c] = Absent
  /\ \E o \in PlainObjects : UserOnObject(c, Allocate(c, o))

UserDeletes(c) ==
  /\ UserStep("delete")
  /\ objects[c] # Absent
  /\ UserOnObject(c, Absent)

UserEdits(c) ==
  /\ UserStep("edit")
  /\ objects[c] # Absent
  /\ \E b \in Bodies \ {objects[c].body} :
       UserOnObject(c, [objects[c] EXCEPT !.body = b])

\* The source's owner opts in, opts out, or withdraws the annotation.
UserSetsProjectable(c) ==
  /\ UserStep("projectable")
  /\ objects[c] # Absent
  /\ \E v \in {"true", "false", None}
              \ {objects[c].annotations[projectableAnnotation]} :
       UserOnObject(c, [objects[c] EXCEPT
                          !.annotations[projectableAnnotation] = v])

\* Somebody takes a destination over by removing the ownership annotation.
UserStripsAnnotation(c) ==
  /\ UserStep("stripAnnotation")
  /\ objects[c] # Absent
  /\ objects[c].annotations[ownedByAnnotation] # None
  /\ UserOnObject(c, [objects[c] EXCEPT !.annotations[ownedByAnnotation] = None])

UserStripsLabel(c) ==
  /\ UserStep("stripLabel")
  /\ objects[c] # Absent
  /\ objects[c].labels[ownedByUIDLabel] # None
  /\ UserOnObject(c, [objects[c] EXCEPT !.labels[ownedByUIDLabel] = None])

\* A CRD version stops, or starts, being served; stored objects survive.
ServingChanges(k) ==
  /\ UserStep("serving")
  /\ k \in Unservable
  /\ served' = IF k \in served THEN served \ {k} ELSE served \cup {k}
  /\ UNCHANGED <<objects, crs, managerVars, localVars, incarnation, faults>>

User ==
  \/ \E p \in Projections :
       CreateProjection(p) \/ EditProjection(p) \/ DeleteProjection(p)
  \/ \E c \in Coords :
       \/ UserCreates(c) \/ UserDeletes(c) \/ UserEdits(c)
       \/ UserSetsProjectable(c) \/ UserStripsAnnotation(c) \/ UserStripsLabel(c)
  \/ \E k \in Kinds : ServingChanges(k)
-----------------------------------------------------------------------------
\* The manager has just started in a cluster that may hold user objects and
\* Projections it has never reconciled.
Init ==
  /\ objects \in [Coords -> {Absent} \cup
                    {Allocate(c, o) : c \in Coords, o \in PlainObjects}]
  /\ \A c \in Coords : objects[c] # Absent =>
       c \in UserCoords /\ \E o \in PlainObjects : objects[c] = Allocate(c, o)
  /\ crs \in [Projections -> {Absent} \cup
                {NewCR(p, 1, s) : p \in Projections,
                                  s \in UNION {Specs[q] : q \in Projections}}]
  /\ \A p \in Projections : crs[p] # Absent =>
       \E s \in Specs[p] : crs[p] = NewCR(p, 1, s)
  /\ incarnation = [p \in Projections |-> IF crs[p] = Absent THEN 0 ELSE 1]
  /\ served = Kinds
  /\ cache = crs
  /\ cacheFresh = [p \in Projections |-> TRUE]
  /\ queue = {p \in Projections : crs[p] # Absent}
  /\ delayed = {}
  /\ mapped = {}
  /\ watched = [k \in Kinds |-> "none"]
  /\ watchedDests = [k \in Kinds |-> "none"]
  /\ pc = "idle"
  /\ key = None
  /\ proj = Absent
  /\ projFresh = FALSE
  /\ dst = Absent
  /\ exFresh = FALSE
  /\ sweep = {}
  /\ reason = None
  /\ userSteps = 0
  /\ faults = 0

Next ==
  \/ \E p \in Projections :
       Reconcile(p) \/ CacheSync(p) \/ Requeue(p) \/ ResyncTick(p)
  \/ ReconcileStep
  \/ \E k \in Kinds : WatchStarts(k) \/ DestWatchStarts(k)
  \/ Restart
  \/ User

\* The process runs: a reconcile in progress goes on, the informers, timers and
\* watches fire, and the workqueue serves its keys in turn.  Users, faults and
\* crashes are never forced.
Fairness ==
  /\ WF_vars(ReconcileStep)
  /\ \A p \in Projections :
       /\ SF_vars(Reconcile(p))
       /\ WF_vars(CacheSync(p))
       /\ WF_vars(Requeue(p))
       /\ WF_vars(ResyncTick(p))
  /\ \A k \in Kinds : WF_vars(WatchStarts(k)) /\ WF_vars(DestWatchStarts(k))

Spec == Init /\ [][Next]_vars

FairSpec == Spec /\ Fairness
-----------------------------------------------------------------------------
(* Properties.                                                             *)

\* A destination that carries p's ownership annotation.
Carries(c, p) == objects[c] # Absent /\ isOwnedBy(objects[c], p)

\* ensureFinalizer comes before the first write and handleDeletion gives the
\* finalizer up only after the destination is gone: whatever is stamped as p's
\* has a stored Projection whose finalizer will clean it up, through stale
\* caches, failed and half-failed requests, crashes, deletion and re-creation.
\* (Kinds the apiserver may stop serving are exempt: deleteDestination lets go
\* of those on purpose.)
NoOrphan ==
  \A c \in Coords, p \in Projections :
    Carries(c, p) /\ c.kind \notin Unservable =>
      crs[p] # Absent /\ crs[p].finalizer

\* writeDestination never overwrites an object that is not ours when the Update
\* takes effect, although it was fetched and checked in an earlier request.
OwnedOverwrite ==
  \A c \in Coords :
    /\ userSteps' = userSteps
    /\ objects[c] # Absent
    /\ objects'[c] \notin {Absent, objects[c]}
    => Carries(c, key)

WritesOnlyOwned == [][OwnedOverwrite]_vars

\* The cleanup paths delete an object only while it carries our annotation.
DeletesOnlyOwned ==
  [][\A c \in Coords :
       userSteps' = userSteps /\ objects[c] # Absent /\ objects'[c] = Absent
       => Carries(c, key)]_vars

\* The reconciler's writes of a Projection (finalizer, status) are whole-object
\* updates of a possibly stale copy; they never undo a user's spec edit, revive
\* a deleted Projection or touch another incarnation.
IntentKept ==
  \A p \in Projections :
    userSteps' = userSteps /\ crs'[p] # Absent
    => /\ crs[p] # Absent
       /\ crs'[p].spec = crs[p].spec
       /\ crs'[p].uid = crs[p].uid
       /\ crs'[p].deleting = crs[p].deleting

KeepsUserIntent == [][IntentKept]_vars

\* The cluster is as p's spec asks for, and p's status says so.
Settled(p) ==
  LET cr  == crs[p]
      src == Live(cr.spec.source)
      d   == destinationCoords(p, cr.spec)
      cur == Live(d)
  IN  cr # Absent =>
      /\ ~cr.deleting
      /\ IF cr.spec.source.kind \notin served
         THEN cr.status.reason \in SourceReasons
         ELSE IF src = Absent
         THEN /\ cr.status.reason \in {"SourceNotFound", "SourceDeleted"}
              /\ ~ \E c \in Existing(cr.spec.source.kind) :
                     Carries(c, p) /\ objects[c].labels[ownedByUIDLabel] = cr.uid
         ELSE IF checkProjectable(src) # None
         THEN /\ cr.status.reason = checkProjectable(src)
              /\ ~Carries(d, p)
         ELSE IF cur # Absent /\ ~Carries(d, p)
         THEN cr.status.reason = "DestinationConflict"
         ELSE /\ cr.status.reason = "Projected"
              /\ cr.status.destinationName = d.name
              /\ cur # Absent
              /\ ~needsUpdate(cur, preserveAPIServerAllocatedFields(d.kind, cur,
                                     buildDestination(d.kind, src, p, cr)))

\* When users and faults come to rest, every destination and every status ends
\* up, and stays, where its Projection and its source say; every deletion
\* completes.
Converges == <>[](\A p \in Projections : Settled(p))

\* Writing a destination or a status wakes the reconciler up again; that chain
\* ends: once all is settled as Projected, no reconcile is due.
Quiesces ==
  []<>(\A p \in Projections :
         crs[p] # Absent => crs[p].status.reason # "Projected")
  \/ <>[](pc = "idle" /\ queue = {})
=============================================================================

---------------------- MODULE ClusterProjectionController ----------------------
(***************************************************************************)
(* The cluster-tier reconciler (ClusterProjectionReconciler): one source   *)
(* mirrored into the namespaces of a list or of a label selector, beside   *)
(* the apiserver, the manager's caches, queue and watches, the namespace   *)
(* controller and the users.                                               *)
(*                                                                         *)
(* One reconcile runs at a time, held in the record run; run.step names    *)
(* its next request.  During the fan-out every target namespace has its    *)
(* own place in run.at, and the requests of different namespaces           *)
(* interleave freely: the worker pool itself is module FanOut.             *)
(*                                                                         *)
(* Namespaces reach the reconciler through two informers: the cached List  *)
(* of resolveTargetNamespaces reads full Namespace objects (nsCache), the  *)
(* events of mapNamespace come from WatchesMetadata (nsEvents).            *)
(*                                                                         *)
(* Requests, faults, freshness flags and watch events are modelled as in   *)
(* ProjectionController, with watches that deliver from their registration *)
(* on.  Variables shared by the two reconcilers keep their name here, so   *)
(* that TwoTiers can run both.                                             *)
(*                                                                         *)
(* A definition X_y next to X is X with a plausible mistake; no behaviour  *)
(* uses it.  Each shows that some property can fail.                       *)
(***************************************************************************)
EXTENDS Destination, FiniteSets

CONSTANTS
  ClusterProjections, \* the names of ClusterProjections
  Namespaces,         \* the namespaces that may be targets
  StartNamespaces,    \* how they may be found at the start
  Kinds,              \* resource kinds
  Coords,             \* [kind, ns, name] of the objects under consideration
  ClusterSpecs,       \* ClusterSpecs[p]: the specs users give p
  Bodies,             \* contents of objects
  PlainObjects,       \* the objects users create
  UserCoords,         \* where they create them
  UserActs,           \* what users do
  Unservable,         \* kinds that may be missing from the apiserver
  FaultKinds,         \* subset of {"request", "stale", "discovery", "watch", "crash"}
  OrderedInformers,   \* the namespace cache is never behind the namespace events
  MaxIncarnations, MaxUserSteps, MaxFaults

Uids == ClusterProjections \X (1 .. MaxIncarnations)
Names == {c.name : c \in Coords}

Annotations ==
  [AnnotationKeys -> ClusterProjections \cup {"true", "false", "user", None}]
Labels == [LabelKeys -> Uids \cup {"user", None}]

Objects ==
  [annotations : Annotations, labels : Labels, body : Bodies,
   alloc : Coords \cup {None}]

SourceReasons == {"SourceResolutionFailed", "SourceFetchFailed",
  "SourceNotFound", "SourceDeleted", "SourceOptedOut", "SourceNotProjectable"}
Reasons == SourceReasons \cup
  {"TargetResolutionFailed", "DestinationWriteFailed", "Projected"}

Statuses ==
  [reason : Reasons \cup {None}, destinationName : Names \cup {None},
   namespacesWritten : 0 .. Cardinality(Namespaces),
   namespacesFailed : 0 .. Cardinality(Namespaces)]

\* The selector "mirror" matches the label of labelled namespaces; "refused"
\* stands for an empty or malformed one.
SpecTypes ==
  [source : Coords, name : Names \cup {None}, namespaces : SUBSET Namespaces,
   selector : {"mirror", "refused", None},
   overlay : [annotations : Annotations, labels : Labels]]

\* The two CEL rules of the destination, and MinItems=1.
Admitted(spec) == (spec.namespaces = {}) # (spec.selector = None)

CPs == [uid : Uids, deleting : BOOLEAN, finalizer : BOOLEAN,
        spec : SpecTypes, status : Statuses]

NamespaceStates ==
  [phase : {"active", "terminating", "gone"}, labelled : BOOLEAN]
Gone == [phase |-> "gone", labelled |-> FALSE]

clusterDestinationName(spec) ==
  IF spec.name # None THEN spec.name ELSE spec.source.name

DestIn(spec, n) ==
  [kind |-> spec.source.kind, ns |-> n, name |-> clusterDestinationName(spec)]

ASSUME ClusterAbsentAssumption ==
  /\ Absent # None /\ Absent \notin CPs /\ Absent \notin Objects
  /\ None \notin ClusterProjections /\ Absent \notin ClusterProjections
ASSUME ClusterCoordsAssumption ==
  /\ \A c \in Coords : c.kind \in Kinds
  /\ \A c \in Coords, n \in Namespaces, m \in Names :
       [kind |-> c.kind, ns |-> n, name |-> m] \in Coords
ASSUME ClusterNamespacesAssumption ==
  /\ IsFiniteSet(Namespaces)
  /\ \A s \in StartNamespaces : s \in [Namespaces -> NamespaceStates]
ASSUME ClusterBoundsAssumption ==
  MaxIncarnations \in Nat \ {0} /\ MaxUserSteps \in Nat /\ MaxFaults \in Nat
ASSUME ClusterSpecsAssumption ==
  \A p \in ClusterProjections : \A s \in ClusterSpecs[p] :
    s \in SpecTypes /\ Admitted(s)
ASSUME ClusterPlainAssumption ==
  \A o \in PlainObjects :
    o \in Objects /\ o.annotations[ownedByClusterAnnotation] = None
-----------------------------------------------------------------------------
VARIABLES
  \* the apiserver
  objects,        \* the mirrored resources: Coords -> Objects or Absent
  served,         \* the kinds it serves
  cps,            \* the ClusterProjections: their objects or Absent
  nss,            \* the target namespaces
  \* the manager process
  mapped,         \* the kinds the RESTMapper has resolved
  cpCache,        \* the ClusterProjection informer's copies
  cpCacheFresh,   \* whether they are the stored versions
  cpQueue,        \* keys waiting for a reconcile
  cpDelayed,      \* keys waiting for RequeueAfter or an error backoff
  cpWatched,      \* kinds with a source watch
  cpWatchedDests, \* kinds with a destination watch
  nsCache,        \* the cached Namespace objects; None: informer not started
  nsEvents,       \* per namespace, labels in undelivered metadata events
  run,            \* the reconcile in progress
  \* bounds
  cpIncarnation, userSteps, faults

apiVars == <<objects, served, cps, nss>>
watchVars == <<cpWatched, cpWatchedDests>>
nsVars == <<nsCache, nsEvents>>
boundVars == <<cpIncarnation, userSteps, faults>>
vars == <<apiVars, mapped, cpCache, cpCacheFresh, cpQueue, cpDelayed, watchVars,
          nsVars, run, boundVars>>

Idle ==
  [step    |-> "idle",
   name    |-> None,    \* the key being reconciled
   cp      |-> Absent,  \* its copy of the ClusterProjection
   fresh   |-> FALSE,   \* whether that copy is the stored version
   want    |-> Absent,  \* the destination to write everywhere
   targets |-> {},      \* the resolved namespaces
   at      |-> [n \in Namespaces |-> None], \* what each namespace is at
   current |-> {},      \* namespaces whose destination is still as fetched
   sweep   |-> {},      \* listed destinations still to be deleted
   failed  |-> FALSE,   \* a request of the sweep failed
   outcome |-> None]    \* the reason to be written to the status

Steps == {"idle", "ensureClusterFinalizer", "resolveGVR", "ensureSourceWatch",
          "getSource", "fanOut", "listOwned", "deleteListed",
          "removeFinalizer", "ensureClusterDestWatch", "flush"}

Runs ==
  [step : Steps, name : ClusterProjections \cup {None}, cp : CPs \cup {Absent},
   fresh : BOOLEAN, want : Objects \cup {Absent}, targets : SUBSET Namespaces,
   at : [Namespaces -> {"get", "create", "update", "written", "failed", None}],
   current : SUBSET Namespaces, sweep : SUBSET Coords, failed : BOOLEAN,
   outcome : Reasons \cup {None}]

ApiType ==
  /\ objects \in [Coords -> Objects \cup {Absent}]
  /\ served \subseteq Kinds
  /\ cps \in [ClusterProjections -> CPs \cup {Absent}]
  /\ nss \in [Namespaces -> NamespaceStates]

ManagerType ==
  /\ mapped \subseteq served
  /\ cpCache \in [ClusterProjections -> CPs \cup {Absent}]
  /\ cpCacheFresh \in [ClusterProjections -> BOOLEAN]
  /\ cpQueue \subseteq ClusterProjections
  /\ cpDelayed \subseteq ClusterProjections
  /\ cpWatched \subseteq mapped
  /\ cpWatchedDests \subseteq mapped
  /\ nsCache \in [Namespaces -> NamespaceStates \cup {None}]
  /\ nsEvents \in [Namespaces -> SUBSET BOOLEAN]

BoundType ==
  /\ cpIncarnation \in [ClusterProjections -> 0 .. MaxIncarnations]
  /\ userSteps \in 0 .. MaxUserSteps
  /\ faults \in 0 .. MaxFaults

\* What each request is made with; objects only of a kind that was resolved.
Operands ==
  /\ run.step # "idle" => run.cp \in CPs /\ run.name \in ClusterProjections
  /\ run.step \in {"ensureSourceWatch", "getSource", "fanOut", "listOwned",
                   "deleteListed", "ensureClusterDestWatch"}
       => run.cp.spec.source.kind \in mapped
  /\ run.step = "fanOut" => run.want \in Objects /\ run.targets # {}
  /\ run.step = "flush" => run.outcome \in Reasons

\* Every variable has its type; a reconcile has the operands its step needs.
TypeOK == ApiType /\ ManagerType /\ run \in Runs /\ Operands /\ BoundType
-----------------------------------------------------------------------------
(* The apiserver, and the events its writes cause.                         *)

Live(c) == IF c.kind \in served THEN objects[c] ELSE Absent

Allocate(c, obj) ==
  IF c.kind \in AllocatedKinds THEN [obj EXCEPT !.alloc = c] ELSE obj

\* Objects are created in active namespaces only; those that are not targets
\* stay as they are.
Active(ns) == ns \in Namespaces => nss[ns].phase = "active"

mapSource(c) ==
  {p \in ClusterProjections : cpCache[p] # Absent /\ cpCache[p].spec.source = c}

enqueueByUID(obj) ==
  {p \in ClusterProjections :
     cpCache[p] # Absent /\ cpCache[p].uid = obj.labels[ownedByClusterUIDLabel]}

ensureDestWatchHandler(old, new) ==
  IF new = Absent THEN enqueueByUID(old)
  ELSE IF new.labels[ownedByClusterUIDLabel] = None THEN {}
  ELSE enqueueByUID(new) \cup (IF old = Absent THEN {} ELSE enqueueByUID(old))

Hits(c, old, new) ==
  (IF c.kind \in cpWatched THEN mapSource(c) ELSE {}) \cup
  (IF c.kind \in cpWatchedDests THEN ensureDestWatchHandler(old, new) ELSE {})

\* Adds of the objects that exist when the informer of kind k starts.
Existing(k) == {c \in Coords : c.kind = k /\ Live(c) # Absent}
SourceReplay(k) == UNION {mapSource(c) : c \in Existing(k)}
DestReplay(k) ==
  UNION {ensureDestWatchHandler(Absent, objects[c]) : c \in Existing(k)}

\* A write of the object at c and its events.
Put(c, obj) ==
  /\ objects' = [objects EXCEPT ![c] = obj]
  /\ cpQueue' = cpQueue \cup Hits(c, objects[c], obj)

\* The namespaces whose fetched destination is no longer the stored one after
\* the objects in changed were written.
StillCurrent(changed) ==
  {n \in run.current : DestIn(run.cp.spec, n) \notin changed}

\* A write by somebody else than the reconcile in progress.
PutOutside(c, obj) ==
  Put(c, obj) /\ run' = [run EXCEPT !.current = StillCurrent({c})]

\* The same for a step of another component that changed objects.
Observes ==
  LET changed == {c \in Coords : objects'[c] # objects[c]}
  IN  /\ cpQueue' = cpQueue \cup
                      UNION {Hits(c, objects[c], objects'[c]) : c \in changed}
      /\ run' = [run EXCEPT !.current = StillCurrent(changed)]
      /\ UNCHANGED <<cps, nss, cpCache, cpCacheFresh, cpDelayed, watchVars,
                     nsVars, cpIncarnation>>

PutCP(p, cp) ==
  /\ cps' = [cps EXCEPT ![p] = cp]
  /\ cpCacheFresh' = [cpCacheFresh EXCEPT ![p] = FALSE]

Replies == {"ok", "lost", "applied"}

Fault(kind) ==
  kind \in FaultKinds /\ faults < MaxFaults /\ faults' = faults + 1

ReplyOf(kind, r) == IF r = "ok" THEN faults' = faults ELSE Fault(kind)
Reply(r) == ReplyOf("request", r)
-----------------------------------------------------------------------------
(* The reconcile.                                                          *)

\* The reconcile returns; requeue: with an error or RequeueAfter set.
Return(requeue) ==
  /\ run' = Idle
  /\ cpDelayed' = IF requeue THEN cpDelayed \cup {run.name} ELSE cpDelayed

Goto(step) == run' = [run EXCEPT !.step = step] /\ UNCHANGED cpDelayed

\* The reconcile goes on to write its outcome to the status.
Finish_NoOutcome(outcome) == Goto("flush")
Finish(outcome) ==
  /\ run' = [run EXCEPT !.step = "flush", !.outcome = outcome]
  /\ UNCHANGED cpDelayed

Kind == run.cp.spec.source.kind
Dest(n) == DestIn(run.cp.spec, n)

\* handleClusterDeletion of a ClusterProjection that keeps no finalizer: the
\* reconcile ends, provided that it is being deleted.
Handled_Always(cp) == ~cp.finalizer
Handled(cp) == cp.deleting /\ ~cp.finalizer

\* Get the ClusterProjection from the cache and branch.  A deleted one goes
\* straight to deleteClusterDestination, which resolves the kind first.
Reconcile(p) ==
  /\ run.step = "idle"
  /\ p \in cpQueue
  /\ cpQueue' = cpQueue \ {p}
  /\ LET cp == cpCache[p] IN
       run' = IF cp = Absent THEN run
              ELSE IF Handled(cp) THEN run
              ELSE [Idle EXCEPT !.step = IF cp.finalizer THEN "resolveGVR"
                                         ELSE "ensureClusterFinalizer",
                                !.name = p, !.cp = cp, !.fresh = cpCacheFresh[p]]
  /\ UNCHANGED <<apiVars, mapped, cpCache, cpCacheFresh, cpDelayed, watchVars,
                 nsVars, boundVars>>

CopyAccepted_AnyVersion == cps[run.name] # Absent
CopyAccepted == cps[run.name] # Absent /\ run.fresh

\* An update of the ClusterProjection, answered r.
UpdateCP(accepted, cp) ==
  IF accepted THEN PutCP(run.name, cp) ELSE UNCHANGED <<cps, cpCacheFresh>>

ensureClusterFinalizer(r) ==
  LET accepted == r # "lost" /\ CopyAccepted
      cp == [run.cp EXCEPT !.finalizer = TRUE]
  IN  /\ run.step = "ensureClusterFinalizer"
      /\ Reply(r)
      /\ UpdateCP(accepted, cp)
      /\ IF accepted /\ r = "ok"
         THEN /\ run' = [run EXCEPT !.step = "resolveGVR", !.cp = cp]
              /\ UNCHANGED cpDelayed
         ELSE Return(TRUE)
      /\ UNCHANGED <<objects, served, nss, mapped, cpCache, cpQueue, watchVars,
                     nsVars, cpIncarnation, userSteps>>

\* The kind is resolved, or not: a ClusterProjection being deleted is then let
\* go without any cleanup.
resolveGVR ==
  /\ run.step = "resolveGVR"
  /\ \/ /\ Kind \in mapped \cup served
        /\ mapped' = mapped \cup {Kind}
        /\ Goto(IF run.cp.deleting THEN "listOwned" ELSE "ensureSourceWatch")
        /\ UNCHANGED faults
     \/ /\ Kind \notin mapped
        /\ IF Kind \in served THEN Fault("discovery") ELSE faults' = faults
        /\ IF run.cp.deleting THEN Goto("removeFinalizer")
           ELSE Finish("SourceResolutionFailed")
        /\ UNCHANGED mapped
  /\ UNCHANGED <<apiVars, cpCache, cpCacheFresh, cpQueue, watchVars, nsVars,
                 cpIncarnation, userSteps>>

\* Controller.Watch, once per kind and process; an error is only logged.
Watches(registered, replay) ==
  \/ /\ Kind \in registered
     /\ UNCHANGED <<cpQueue, faults>>
     /\ registered' = registered
  \/ /\ Kind \notin registered
     /\ Fault("watch")
     /\ UNCHANGED cpQueue
     /\ registered' = registered
  \/ /\ Kind \notin registered
     /\ registered' = registered \cup {Kind}
     /\ cpQueue' = cpQueue \cup replay
     /\ UNCHANGED faults

ensureSourceWatch ==
  /\ run.step = "ensureSourceWatch"
  /\ Watches(cpWatched, SourceReplay(Kind))
  /\ Goto("getSource")
  /\ UNCHANGED <<apiVars, mapped, cpCache, cpCacheFresh, cpWatchedDests, nsVars,
                 cpIncarnation, userSteps>>

\* The cached Namespaces: the first List starts the informer and waits for it.
NamespaceList == [n \in Namespaces |-> IF nsCache[n] = None THEN nss[n] ELSE nsCache[n]]

\* The targets of a spec, given the namespaces as listed.
resolveTargetNamespaces(spec, listed) ==
  IF spec.namespaces # {} THEN spec.namespaces
  ELSE {n \in Namespaces : listed[n].phase = "active" /\ listed[n].labelled}

\* The fan-out starts in every target; with none there is nothing to write.
FanOutTo(targets, want) ==
  [run EXCEPT !.step = IF targets = {} THEN "listOwned" ELSE "fanOut",
              !.want = want, !.targets = targets,
              !.at = [n \in Namespaces |-> IF n \in targets THEN "get" ELSE None]]

\* Get the source and decide: fetch error, gone, refused, or fan out to the
\* namespaces that the spec and the namespace cache name.
getSource(r) ==
  LET src == Live(run.cp.spec.source)
      spec == run.cp.spec
      projectable == r = "ok" /\ src # Absent /\ checkProjectable(src) = None
  IN  /\ run.step = "getSource"
      /\ r # "applied"
      /\ Reply(r)
      /\ IF projectable
         THEN /\ IF spec.selector = "refused"
                 THEN run' = [run EXCEPT !.step = "flush",
                                         !.outcome = "TargetResolutionFailed"]
                 ELSE run' = FanOutTo(resolveTargetNamespaces(spec, NamespaceList),
                               buildClusterDestination(Kind, src, run.name, run.cp))
              /\ nsCache' = IF spec.selector = "mirror" THEN NamespaceList
                            ELSE nsCache
         ELSE /\ run' = [run EXCEPT
                !.step = IF r # "ok" THEN "flush" ELSE "listOwned",
                !.outcome = IF r # "ok" THEN "SourceFetchFailed"
                            ELSE IF src # Absent THEN checkProjectable(src)
                            ELSE IF run.cp.status.destinationName # None
                            THEN "SourceDeleted" ELSE "SourceNotFound"]
              /\ UNCHANGED nsCache
      /\ UNCHANGED <<apiVars, mapped, cpCache, cpCacheFresh, cpQueue, cpDelayed,
                     watchVars, nsEvents, cpIncarnation, userSteps>>

\* Namespace n goes on to next in the fan-out; the last one ends it.
Progress(n, next, current) ==
  LET at == [run.at EXCEPT ![n] = next]
  IN  run' = [run EXCEPT
        !.at = at, !.current = current,
        !.step = IF \A m \in run.targets : at[m] \in {"written", "failed"}
                 THEN "listOwned" ELSE "fanOut"]

\* writeClusterDestination in namespace n: Get and compare.
getDest(n, r) ==
  LET existing == Live(Dest(n))
      desired == preserveAPIServerAllocatedFields(Kind, existing, run.want)
  IN  /\ run.step = "fanOut"
      /\ run.at[n] = "get"
      /\ r # "applied"
      /\ Reply(r)
      /\ IF r # "ok" THEN Progress(n, "failed", run.current)
         ELSE IF existing = Absent THEN Progress(n, "create", run.current)
         ELSE IF ~isOwnedByCluster(existing, run.name)
         THEN Progress(n, "failed", run.current)
         ELSE IF needsUpdate(existing, desired)
         THEN Progress(n, "update", run.current \cup {n})
         ELSE Progress(n, "written", run.current)
      /\ UNCHANGED <<apiVars, mapped, cpCache, cpCacheFresh, cpQueue, cpDelayed,
                     watchVars, nsVars, cpIncarnation, userSteps>>

\* What is sent to namespace n: an Update carries the allocated fields over.
Desired(n) ==
  IF run.at[n] = "create" THEN run.want
  ELSE preserveAPIServerAllocatedFields(Kind, Live(Dest(n)), run.want)

\* The Create, or the Update with the resourceVersion that was fetched.
CreateAccepted(n) ==
  /\ Kind \in served /\ Active(n)
  /\ objects[Dest(n)] = Absent
  /\ run.want.alloc \in {None, Dest(n)}
UpdateAccepted_AnyVersion(n) ==
  /\ Live(Dest(n)) # Absent
  /\ Desired(n).alloc = objects[Dest(n)].alloc
UpdateAccepted(n) ==
  /\ n \in run.current
  /\ Live(Dest(n)) # Absent
  /\ Desired(n).alloc = objects[Dest(n)].alloc

writeDest(n, r) ==
  LET accepted == IF run.at[n] = "create" THEN CreateAccepted(n)
                  ELSE UpdateAccepted(n)
  IN  /\ run.step = "fanOut"
      /\ run.at[n] \in {"create", "update"}
      /\ Reply(r)
      /\ IF r # "lost" /\ accepted
         THEN Put(Dest(n), Allocate(Dest(n), Desired(n)))
         ELSE UNCHANGED <<objects, cpQueue>>
      /\ Progress(n, IF r = "ok" /\ accepted THEN "written" ELSE "failed",
                  run.current \ {n})
      /\ UNCHANGED <<served, cps, nss, mapped, cpCache, cpCacheFresh, cpDelayed,
                     watchVars, nsVars, cpIncarnation, userSteps>>

\* The sweep after a fan-out keeps the targets; those of a deletion and of a
\* missing or refused source keep nothing.
StaleSweep == ~run.cp.deleting /\ run.outcome = None
Keep == IF StaleSweep THEN run.targets ELSE {}
SweepReply(r) == ReplyOf(IF StaleSweep THEN "stale" ELSE "request", r)

\* Where the three callers of the sweep go on: only a deletion minds an error.
SweepDone_Ignored(failed) ==
  Goto(IF run.cp.deleting THEN "removeFinalizer"
       ELSE IF StaleSweep THEN "ensureClusterDestWatch" ELSE "flush")
SweepDone(failed) ==
  IF run.cp.deleting /\ failed THEN Return(TRUE)
  ELSE Goto(IF run.cp.deleting THEN "removeFinalizer"
            ELSE IF StaleSweep THEN "ensureClusterDestWatch" ELSE "flush")

\* The List of deleteClusterOwnedDestinations, across all namespaces.
listOwned(r) ==
  LET listed == {c \in Existing(Kind) :
                   /\ objects[c].labels[ownedByClusterUIDLabel] = run.cp.uid
                   /\ isOwnedByCluster(objects[c], run.name)
                   /\ c.ns \notin Keep}
  IN  /\ run.step = "listOwned"
      /\ r # "applied"
      /\ SweepReply(r)
      /\ IF r # "ok" \/ Kind \notin served THEN SweepDone(TRUE)
         ELSE IF listed = {} THEN SweepDone(FALSE)
         ELSE /\ run' = [run EXCEPT !.step = "deleteListed", !.sweep = listed]
              /\ UNCHANGED cpDelayed
      /\ UNCHANGED <<apiVars, mapped, cpCache, cpCacheFresh, cpQueue, watchVars,
                     nsVars, cpIncarnation, userSteps>>

\* One Delete of the sweep; an error is remembered and the sweep goes on.
deleteListed(c, r) ==
  LET failed == run.failed \/ r # "ok"
  IN  /\ run.step = "deleteListed"
      /\ c \in run.sweep
      /\ SweepReply(r)
      /\ IF r # "lost" /\ Live(c) # Absent
         THEN Put(c, Absent)
         ELSE UNCHANGED <<objects, cpQueue>>
      /\ IF run.sweep = {c} THEN SweepDone(failed)
         ELSE /\ run' = [run EXCEPT !.sweep = @ \ {c}, !.failed = failed]
              /\ UNCHANGED cpDelayed
      /\ UNCHANGED <<served, cps, nss, mapped, cpCache, cpCacheFresh, watchVars,
                     nsVars, cpIncarnation, userSteps>>

\* Update without the finalizer: the apiserver then removes the object.
removeFinalizer(r) ==
  LET accepted == r # "lost" /\ CopyAccepted
  IN  /\ run.step = "removeFinalizer"
      /\ Reply(r)
      /\ UpdateCP(accepted, Absent)
      /\ Return(~accepted \/ r # "ok")
      /\ UNCHANGED <<objects, served, nss, mapped, cpCache, cpQueue, watchVars,
                     nsVars, cpIncarnation, userSteps>>

At(phase) == {n \in run.targets : run.at[n] = phase}

\* The destination watch, registered after every fan-out; then the rollup.
ensureClusterDestWatch ==
  /\ run.step = "ensureClusterDestWatch"
  /\ Watches(cpWatchedDests, DestReplay(Kind))
  /\ Finish(IF At("failed") = {} THEN "Projected" ELSE "DestinationWriteFailed")
  /\ UNCHANGED <<apiVars, mapped, cpCache, cpCacheFresh, cpWatched, nsVars,
                 cpIncarnation, userSteps>>

\* The status each outcome stages.  A source failure leaves the counts and the
\* name of an earlier reconcile in place.
failClusterSource(status) == [status EXCEPT !.reason = run.outcome]
failClusterDestination(status) ==
  [status EXCEPT !.reason = run.outcome,
                 !.namespacesWritten = 0, !.namespacesFailed = 0]
rollup(status) ==
  [reason |-> run.outcome,
   destinationName |-> clusterDestinationName(run.cp.spec),
   namespacesWritten |-> Cardinality(At("written")),
   namespacesFailed |-> Cardinality(At("failed"))]

Staged ==
  IF run.outcome \in SourceReasons THEN failClusterSource(run.cp.status)
  ELSE IF run.outcome = "TargetResolutionFailed"
  THEN failClusterDestination(run.cp.status)
  ELSE rollup(run.cp.status)

\* A failure is retried after RequeueInterval; a success waits for an event.
Requeues_ErrorsOnly(accepted, r) == ~accepted \/ r # "ok"
Requeues(accepted, r) == ~accepted \/ r # "ok" \/ run.outcome # "Projected"

\* Status().Update; one that changes nothing is no new version.
flush(r) ==
  LET accepted == r # "lost" /\ CopyAccepted
  IN  /\ run.step = "flush"
      /\ Reply(r)
      /\ UpdateCP(accepted /\ cps[run.name].status # Staged,
                  [cps[run.name] EXCEPT !.status = Staged])
      /\ Return(Requeues(accepted, r))
      /\ UNCHANGED <<objects, served, nss, mapped, cpCache, cpQueue, watchVars,
                     nsVars, cpIncarnation, userSteps>>

ReconcileStep ==
  \/ resolveGVR
  \/ ensureSourceWatch
  \/ ensureClusterDestWatch
  \/ \E r \in Replies :
       \/ ensureClusterFinalizer(r)
       \/ getSource(r)
       \/ \E n \in Namespaces : getDest(n, r) \/ writeDest(n, r)
       \/ listOwned(r)
       \/ \E c \in Coords : deleteListed(c, r)
       \/ removeFinalizer(r)
       \/ flush(r)
-----------------------------------------------------------------------------
(* The manager around the reconcile.                                       *)

CacheSync(p) ==
  /\ ~cpCacheFresh[p]
  /\ cpCache' = [cpCache EXCEPT ![p] = cps[p]]
  /\ cpCacheFresh' = [cpCacheFresh EXCEPT ![p] = TRUE]
  /\ cpQueue' = cpQueue \cup {p}
  /\ UNCHANGED <<apiVars, mapped, cpDelayed, watchVars, nsVars, run, boundVars>>

Requeue(p) ==
  /\ p \in cpDelayed
  /\ cpDelayed' = cpDelayed \ {p}
  /\ cpQueue' = cpQueue \cup {p}
  /\ UNCHANGED <<apiVars, mapped, cpCache, cpCacheFresh, watchVars, nsVars, run,
                 boundVars>>

\* The informer behind the cached List catches up; it has no event handler.
NamespaceSync(n) ==
  /\ nsCache[n] \notin {None, nss[n]}
  /\ nsCache' = [nsCache EXCEPT ![n] = nss[n]]
  /\ UNCHANGED <<apiVars, mapped, cpCache, cpCacheFresh, cpQueue, cpDelayed,
                 watchVars, nsEvents, run, boundVars>>

\* Who is to be reconciled for an event of namespace n with or without the
\* label: the lists that name it, the selectors that match.
matchingClusterProjectionRequests_ListsOnly(n, labelled) ==
  {p \in ClusterProjections :
     cpCache[p] # Absent /\ n \in cpCache[p].spec.namespaces}
matchingClusterProjectionRequests(n, labelled) ==
  {p \in ClusterProjections :
     /\ cpCache[p] # Absent
     /\ \/ n \in cpCache[p].spec.namespaces
        \/ cpCache[p].spec.selector = "mirror" /\ labelled}

\* mapNamespace on the old and on the new object of every pending event.
mapNamespace(n) ==
  /\ nsEvents[n] # {}
  /\ OrderedInformers => nsCache[n] \in {None, nss[n]}
  /\ nsEvents' = [nsEvents EXCEPT ![n] = {}]
  /\ cpQueue' = cpQueue \cup
       UNION {matchingClusterProjectionRequests(n, l) : l \in nsEvents[n]}
  /\ UNCHANGED <<apiVars, mapped, cpCache, cpCacheFresh, cpDelayed, watchVars,
                 nsCache, run, boundVars>>

\* What a new process starts from: synced caches, and every key queued.
Fresh ==
  /\ cpCache' = cps
  /\ cpCacheFresh' = [p \in ClusterProjections |-> TRUE]
  /\ cpQueue' = {p \in ClusterProjections : cps[p] # Absent}
  /\ cpDelayed' = {}
  /\ cpWatched' = {}
  /\ cpWatchedDests' = {}
  /\ nsCache' = [n \in Namespaces |-> None]
  /\ nsEvents' = [n \in Namespaces |-> {}]
  /\ run' = Idle

Restart ==
  /\ Fault("crash")
  /\ mapped' = {}
  /\ Fresh
  /\ UNCHANGED <<apiVars, cpIncarnation, userSteps>>
-----------------------------------------------------------------------------
(* The users of the cluster, and its namespace controller.                 *)

UserStep(act) ==
  act \in UserActs /\ userSteps < MaxUserSteps /\ userSteps' = userSteps + 1

NewCP(p, i, spec) ==
  [uid |-> <<p, i>>, deleting |-> FALSE, finalizer |-> FALSE, spec |-> spec,
   status |-> [reason |-> None, destinationName |-> None,
               namespacesWritten |-> 0, namespacesFailed |-> 0]]

UserOnCP(p, cp) ==
  /\ PutCP(p, cp)
  /\ run' = [run EXCEPT !.fresh = @ /\ run.name # p]
  /\ UNCHANGED <<objects, served, nss, mapped, cpCache, cpQueue, cpDelayed,
                 watchVars, nsVars, faults>>

CreateClusterProjection(p) ==
  /\ UserStep("createCP")
  /\ cps[p] = Absent
  /\ cpIncarnation[p] < MaxIncarnations
  /\ cpIncarnation' = [cpIncarnation EXCEPT ![p] = @ + 1]
  /\ \E s \in ClusterSpecs[p] : UserOnCP(p, NewCP(p, cpIncarnation[p] + 1, s))

EditClusterProjection(p) ==
  /\ UserStep("editCP")
  /\ cps[p] # Absent
  /\ \E s \in ClusterSpecs[p] \ {cps[p].spec} :
       UserOnCP(p, [cps[p] EXCEPT !.spec = s])
  /\ UNCHANGED cpIncarnation

DeleteClusterProjection(p) ==
  /\ UserStep("deleteCP")
  /\ cps[p] # Absent
  /\ ~cps[p].deleting
  /\ UserOnCP(p, IF cps[p].finalizer THEN [cps[p] EXCEPT !.deleting = TRUE]
                 ELSE Absent)
  /\ UNCHANGED cpIncarnation

\* A change of namespace n, and the event with its old and new labels.
PutNamespace(n, state) ==
  /\ nss' = [nss EXCEPT ![n] = state]
  /\ nsEvents' = [nsEvents EXCEPT ![n] = @ \cup {nss[n].labelled, state.labelled}]
  /\ UNCHANGED <<objects, served, cps, mapped, cpCache, cpCacheFresh, cpQueue,
                 cpDelayed, watchVars, nsCache, run, cpIncarnation, faults>>

UserLabelsNamespace(n) ==
  /\ UserStep("label")
  /\ nss[n].phase = "active"
  /\ PutNamespace(n, [nss[n] EXCEPT !.labelled = ~@])

UserDeletesNamespace(n) ==
  /\ UserStep("deleteNamespace")
  /\ nss[n].phase = "active"
  /\ PutNamespace(n, [nss[n] EXCEPT !.phase = "terminating"])

UserCreatesNamespace(n) ==
  /\ UserStep("createNamespace")
  /\ nss[n].phase = "gone"
  /\ PutNamespace(n, [phase |-> "active", labelled |-> TRUE])

\* The namespace controller empties a terminating namespace, then removes it.
Terminate(n) ==
  LET content == {c \in Coords : c.ns = n /\ objects[c] # Absent}
  IN  /\ nss[n].phase = "terminating"
      /\ IF content = {}
         THEN PutNamespace(n, Gone)
         ELSE /\ \E c \in content : PutOutside(c, Absent)
              /\ UNCHANGED <<served, cps, nss, mapped, cpCache, cpCacheFresh,
                             cpDelayed, watchVars, nsVars, cpIncarnation, faults>>
      /\ UNCHANGED userSteps

\* What each kind of edit may make of the object at c.
UserValues(act, c) ==
  LET obj == objects[c]
  IN  CASE act = "create" -> {Allocate(c, o) : o \in PlainObjects}
        [] act = "delete" -> {Absent}
        [] act = "edit" -> {[obj EXCEPT !.body = b] : b \in Bodies}
        [] act = "projectable" -> {[obj EXCEPT !.annotations[projectableAnnotation] = v]
                                     : v \in {"true", "false", None}}
        [] act = "stripAnnotation" ->
             {[obj EXCEPT !.annotations[ownedByClusterAnnotation] = None]}
        [] act = "stripLabel" ->
             {[obj EXCEPT !.labels[ownedByClusterUIDLabel] = None]}

ObjectActs == {"create", "delete", "edit", "projectable", "stripAnnotation",
               "stripLabel"}

UserWrites(act, c) ==
  /\ UserStep(act)
  /\ c.kind \in served
  /\ (act = "create") = (objects[c] = Absent)
  /\ act = "create" => c \in UserCoords /\ Active(c.ns)
  /\ \E obj \in UserValues(act, c) \ {objects[c]} : PutOutside(c, obj)
  /\ UNCHANGED <<served, cps, nss, mapped, cpCache, cpCacheFresh, cpDelayed,
                 watchVars, nsVars, cpIncarnation, faults>>
-----------------------------------------------------------------------------
\* The manager has just started in a cluster that may hold objects, and
\* ClusterProjections it has never reconciled.
Init ==
  /\ objects \in [Coords -> {Absent} \cup
                    {Allocate(c, o) : c \in Coords, o \in PlainObjects}]
  /\ \A c \in Coords : objects[c] # Absent =>
       /\ c \in UserCoords
       /\ \E o \in PlainObjects : objects[c] = Allocate(c, o)
  /\ served \in {Kinds, Kinds \ Unservable}
  /\ cps \in [ClusterProjections -> {Absent} \cup
                {NewCP(p, 1, s) : p \in ClusterProjections,
                                  s \in UNION {ClusterSpecs[q] : q \in ClusterProjections}}]
  /\ \A p \in ClusterProjections : cps[p] # Absent =>
       \E s \in ClusterSpecs[p] : cps[p] = NewCP(p, 1, s)
  /\ nss \in StartNamespaces
  /\ mapped = {}
  /\ cpCache = cps
  /\ cpCacheFresh = [p \in ClusterProjections |-> TRUE]
  /\ cpQueue = {p \in ClusterProjections : cps[p] # Absent}
  /\ cpDelayed = {}
  /\ cpWatched = {}
  /\ cpWatchedDests = {}
  /\ nsCache = [n \in Namespaces |-> None]
  /\ nsEvents = [n \in Namespaces |-> {}]
  /\ run = Idle
  /\ cpIncarnation = [p \in ClusterProjections |-> IF cps[p] = Absent THEN 0 ELSE 1]
  /\ userSteps = 0
  /\ faults = 0

\* The operator and the namespace controller.
Operator ==
  \/ \E p \in ClusterProjections : Reconcile(p) \/ CacheSync(p) \/ Requeue(p)
  \/ ReconcileStep
  \/ \E n \in Namespaces : NamespaceSync(n) \/ mapNamespace(n) \/ Terminate(n)

\* Users on ClusterProjections and namespaces.
ClusterUser ==
  \/ \E p \in ClusterProjections :
       \/ CreateClusterProjection(p) \/ EditClusterProjection(p)
       \/ DeleteClusterProjection(p)
  \/ \E n \in Namespaces :
       \/ UserLabelsNamespace(n) \/ UserDeletesNamespace(n)
       \/ UserCreatesNamespace(n)

Next ==
  \/ Operator
  \/ Restart
  \/ ClusterUser
  \/ \E c \in Coords, act \in ObjectActs : UserWrites(act, c)

\* The process runs, its informers and timers fire, the workqueue serves its
\* keys in turn, and the namespace controller does its work.  Users, faults and
\* crashes are never forced.
Fairness ==
  /\ WF_vars(ReconcileStep)
  /\ \A p \in ClusterProjections :
       SF_vars(Reconcile(p)) /\ WF_vars(CacheSync(p)) /\ WF_vars(Requeue(p))
  /\ \A n \in Namespaces :
       /\ WF_vars(NamespaceSync(n)) /\ WF_vars(mapNamespace(n))
       /\ WF_vars(Terminate(n))

Spec == Init /\ [][Next]_vars
FairSpec == Spec /\ Fairness
-----------------------------------------------------------------------------
(* Properties.                                                             *)

Carries(c, p) == objects[c] # Absent /\ isOwnedByCluster(objects[c], p)

\* The fan-out never overwrites an object that does not carry the stamp of the
\* ClusterProjection when the Update takes effect, although each was fetched and
\* checked in an earlier request and the namespaces are written side by side.
OwnedOverwrite ==
  \A c \in Coords :
    /\ userSteps' = userSteps
    /\ objects[c] # Absent
    /\ objects'[c] \notin {Absent, objects[c]}
    => Carries(c, run.name)
WritesOnlyOwned == [][OwnedOverwrite]_vars

\* The writes of a ClusterProjection (finalizer, status) are whole-object
\* updates of a cached copy; they never undo a user's edit of the spec, revive a
\* deleted ClusterProjection or touch another incarnation.
IntentKept ==
  \A p \in ClusterProjections :
    userSteps' = userSteps /\ cps'[p] # Absent
    => /\ cps[p] # Absent
       /\ cps'[p].spec = cps[p].spec
       /\ cps'[p].uid = cps[p].uid
       /\ cps'[p].deleting = cps[p].deleting
KeepsUserIntent == [][IntentKept]_vars

\* p's copy in namespace n is there and is what the spec makes of the source.
Mirrored(p, n) ==
  LET cp == cps[p]
      d == DestIn(cp.spec, n)
      want == buildClusterDestination(d.kind, Live(cp.spec.source), p, cp)
  IN  Carries(d, p) /\ ~needsUpdate(objects[d],
        preserveAPIServerAllocatedFields(d.kind, objects[d], want))

\* p cannot write to namespace n: it is not there, or a stranger's object is.
Refused(p, n) ==
  LET d == DestIn(cps[p].spec, n)
  IN  IF objects[d] = Absent THEN ~Active(n) ELSE ~Carries(d, p)

\* No copy of p is outside the namespaces in keep.
Swept(p, keep) ==
  ~ \E c \in Existing(cps[p].spec.source.kind) :
      /\ Carries(c, p) /\ objects[c].labels[ownedByClusterUIDLabel] = cps[p].uid
      /\ c.ns \notin keep

\* A stranger's object is where p's copy in namespace n belongs.
Occupied(p, n) == Refused(p, n) /\ objects[DestIn(cps[p].spec, n)] # Absent

\* The reasons that report a refused selector: the first is the code's
\* (cluster_projection_controller.go:153), the second the documentation's
\* (crd-reference.md:289).
ResolutionReasons == {"TargetResolutionFailed", "NamespaceResolutionFailed"}

\* The reasons that report the refused targets bad.  The code has one for all
\* cases (cluster_projection_controller.go:178); the documentation has the
\* reason that the failing namespaces share, if they do (crd-reference.md:287),
\* and another for namespaces that are not there (troubleshooting.md:224).
RollupReasons(p, bad) ==
  {"DestinationWriteFailed"} \cup
  IF \A n \in bad : Occupied(p, n) THEN {"DestinationConflict"}
  ELSE IF \A n \in bad : ~Occupied(p, n)
  THEN {"DestinationCreateFailed", "NamespaceResolutionFailed"}
  ELSE {}

\* The namespaces are as p's spec asks for, and p's status says so, in the words
\* of the code or in those of the documentation.
Settled(p) ==
  LET cp == cps[p]
      src == Live(cp.spec.source)
      targets == resolveTargetNamespaces(cp.spec, nss)
      bad == {n \in targets : Refused(p, n)}
  IN  cp # Absent =>
      /\ ~cp.deleting
      /\ IF cp.spec.source.kind \notin served
         THEN cp.status.reason = "SourceResolutionFailed"
         ELSE IF src = Absent
         THEN /\ cp.status.reason \in {"SourceNotFound", "SourceDeleted"}
              /\ Swept(p, {})
         ELSE IF checkProjectable(src) # None
         THEN cp.status.reason = checkProjectable(src) /\ Swept(p, {})
         ELSE IF cp.spec.selector = "refused"
         THEN cp.status.reason \in ResolutionReasons
         ELSE /\ \A n \in targets \ bad : Mirrored(p, n)
              /\ Swept(p, targets)
              /\ \E r \in IF bad = {} THEN {"Projected"} ELSE RollupReasons(p, bad) :
                   cp.status =
                     [reason |-> r,
                      destinationName |-> clusterDestinationName(cp.spec),
                      namespacesWritten |-> Cardinality(targets \ bad),
                      namespacesFailed |-> Cardinality(bad)]

\* When users and faults come to rest, every target namespace holds its copy,
\* no other namespace does, and reason and counts in the status say so, although
\* labels, namespaces, source and copies changed in the middle of reconciles.
Converges == <>[](\A p \in ClusterProjections : Settled(p))
=============================================================================

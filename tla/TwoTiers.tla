------------------------------- MODULE TwoTiers -------------------------------
(***************************************************************************)
(* Both reconcilers in one manager process, on the same apiserver.  They   *)
(* share the objects, the served kinds and the RESTMapper, and nothing     *)
(* else: each has its own informer, queue, watches and worker, and sees    *)
(* the writes of the other as the events and version conflicts they cause. *)
(***************************************************************************)
EXTENDS Destination, FiniteSets

CONSTANTS
  \* of ProjectionController
  Projections, NamespaceOf, Specs, PromptWatches,
  \* of ClusterProjectionController
  ClusterProjections, Namespaces, StartNamespaces, ClusterSpecs, OrderedInformers,
  \* of both
  Kinds, Coords, Bodies, PlainObjects, UserCoords, UserActs, Unservable,
  FaultKinds, Resync, MaxIncarnations, MaxUserSteps, MaxFaults

VARIABLES
  objects, served, mapped, userSteps, faults,
  crs, cache, cacheFresh, queue, delayed, watched, watchedDests, pc, key, proj,
  projFresh, dst, exFresh, sweep, reason, incarnation,
  cps, nss, cpCache, cpCacheFresh, cpQueue, cpDelayed, cpWatched,
  cpWatchedDests, nsCache, nsEvents, run, cpIncarnation

N == INSTANCE ProjectionController
C == INSTANCE ClusterProjectionController

shared == <<objects, served, mapped, userSteps, faults>>
namespacedVars == <<crs, cache, cacheFresh, queue, delayed, watched, watchedDests,
                    pc, key, proj, projFresh, dst, exFresh, sweep, reason, incarnation>>
clusterVars == <<cps, nss, cpCache, cpCacheFresh, cpQueue, cpDelayed, cpWatched,
                 cpWatchedDests, nsCache, nsEvents, run, cpIncarnation>>
vars == <<shared, namespacedVars, clusterVars>>

\* What a step of the cluster tier is to the namespaced one: events, and a
\* fetched destination that is no longer the stored one.
NamespacedObserves ==
  LET changed == {c \in Coords : objects'[c] # objects[c]}
  IN  /\ queue' = queue \cup
                    UNION {N!Hits(c, objects[c], objects'[c]) : c \in changed}
      /\ exFresh' = (exFresh /\ (pc = "update" => N!Dest \notin changed))
      /\ UNCHANGED <<crs, cache, cacheFresh, delayed, watched, watchedDests, pc,
                     key, proj, projFresh, dst, sweep, reason, incarnation>>

\* A step of one tier or of its users, seen by the other.
NamespacedStep ==
  /\ \/ \E p \in Projections :
          N!Reconcile(p) \/ N!CacheSync(p) \/ N!Requeue(p)
     \/ N!ReconcileStep
     \/ N!User
  /\ C!Observes

ClusterStep == (C!Operator \/ C!ClusterUser) /\ NamespacedObserves

\* The process dies and takes both reconcilers along.
Restart == N!Restart /\ C!Fresh /\ UNCHANGED <<cps, nss, cpIncarnation>>

Init == N!Init /\ C!Init

Next == NamespacedStep \/ ClusterStep \/ Restart

\* The fairness of the two reconcilers, each in its own variables, as what the
\* other one observes of a step never keeps the step from happening.  It is less
\* than each has alone: the worker of a controller goes on, with whichever key.
ofNamespaced == <<shared, namespacedVars>>
ofCluster == <<shared, clusterVars>>

Fairness ==
  /\ WF_ofNamespaced(N!ReconcileStep \/ \E p \in Projections : N!Reconcile(p))
  /\ \A p \in Projections :
       WF_ofNamespaced(N!CacheSync(p)) /\ WF_ofNamespaced(N!Requeue(p))
  /\ WF_ofCluster(C!ReconcileStep \/ \E p \in ClusterProjections : C!Reconcile(p))
  /\ \A p \in ClusterProjections :
       WF_ofCluster(C!CacheSync(p)) /\ WF_ofCluster(C!Requeue(p))
  /\ \A n \in Namespaces :
       WF_ofCluster(C!NamespaceSync(n) \/ C!mapNamespace(n) \/ C!Terminate(n))

Spec == Init /\ [][Next]_vars
FairSpec == Spec /\ Fairness
-----------------------------------------------------------------------------
(* Properties.                                                             *)

\* One destination, two tiers: the annotation of each tier is checked against
\* its own key only, so it is the order of requests that keeps a Projection and
\* a ClusterProjection from holding the same object.  Between them they keep the
\* promise of Mirror: an object of one tier is never overwritten by the other.
Holder(c) ==
  IF objects[c] = Absent THEN Absent
  ELSE LET a == objects[c].annotations
       IN  IF a[ownedByAnnotation] # None THEN a[ownedByAnnotation]
           ELSE a[ownedByClusterAnnotation]

M == INSTANCE Mirror WITH
       Owners <- Projections \cup ClusterProjections,
       Places <- {c \in Coords : c.kind \notin Unservable},
       Free <- Absent, Foreign <- None,
       guarded <- {p \in Projections : crs[p] # Absent /\ crs[p].finalizer} \cup
                  {p \in ClusterProjections : cps[p] # Absent /\ cps[p].finalizer},
       holder <- [c \in {d \in Coords : d.kind \notin Unservable} |-> Holder(c)]

Mirrors == M!Spec

\* When users come to rest each tier settles next to the other: whoever has the
\* destination keeps it and says Projected, the other reports the conflict, and
\* when the first lets go the other takes over.
Converges ==
  <>[](/\ \A p \in Projections : N!Settled(p)
       /\ \A p \in ClusterProjections : C!Settled(p))

\* The comment on the ownership stamps (destination.go): "a destination cannot be
\* co-owned by both, and a cluster-tier reconcile must never delete a
\* namespaced-owned destination (or vice versa)".  The sweep of the cluster tier
\* looks for its own stamps and leaves what carries a Projection's alone.
ClusterStepDeletes(c) ==
  objects[c] # Absent /\ objects'[c] = Absent /\ run.step = "deleteListed" /\ run' # run

TiersApart ==
  [][\A c \in Coords :
       ClusterStepDeletes(c) => objects[c].annotations[ownedByAnnotation] = None]_vars
=============================================================================

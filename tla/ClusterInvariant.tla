--------------------------- MODULE ClusterInvariant ---------------------------
(***************************************************************************)
(* The inductive invariant of the cluster-tier reconciler: what is known,  *)
(* at every request of a reconcile, about its copy of the                  *)
(* ClusterProjection, the copies in the namespaces and the sweep; and who  *)
(* holds a place, for the abstract specification.                          *)
(***************************************************************************)
EXTENDS ClusterProjectionController

\* Edits do not change the kind: the sweeps only look for the current one.
StableKinds ==
  "editCP" \in UserActs =>
    \A p \in ClusterProjections : \A s, t \in ClusterSpecs[p] :
      s.source.kind = t.source.kind

\* What the sweeps rely on to find every copy: the kind stays, the UID label is
\* left alone, and the RESTMapper fails only for kinds that are not served.
Tidy ==
  /\ StableKinds
  /\ "stripLabel" \notin UserActs
  /\ "discovery" \notin FaultKinds

Guarded(cp) == cp # Absent /\ cp.finalizer

\* Two versions of one ClusterProjection; under Tidy they mirror one kind.
SameCP(a, b) ==
  a.uid = b.uid /\ (Tidy => a.spec.source.kind = b.spec.source.kind)

\* With cp stored or cached, nothing is written any more for old, which was
\* found deleting.
Ended(old, cp) ==
  cp = Absent \/ ~cp.finalizer \/ (cp.deleting /\ SameCP(cp, old))

Running == run.step # "idle"
Finalizing == Running /\ run.cp.deleting
Writing == Running /\ run.step # "ensureClusterFinalizer" /\ ~run.cp.deleting

SpecsInv ==
  \A p \in ClusterProjections : cps[p] # Absent => cps[p].spec \in ClusterSpecs[p]

\* A current copy is the stored ClusterProjection.
CopiesInv ==
  /\ \A p \in ClusterProjections : cpCacheFresh[p] => cpCache[p] = cps[p]
  /\ Running /\ run.fresh => run.cp = cps[run.name]
  /\ run.step = "ensureClusterFinalizer" /\ run.fresh => cpCacheFresh[run.name]

\* Deletion and the other reconciles take different steps.
StepInv ==
  /\ Finalizing => run.step \in {"resolveGVR", "listOwned", "deleteListed",
                                 "removeFinalizer"}
  /\ run.step = "removeFinalizer" => run.cp.deleting
  /\ run.step = "ensureClusterFinalizer" => ~run.cp.finalizer

\* What the finalizer of p is at, seen from the cache and from the reconcile.
FinalizerInv ==
  /\ \A p \in ClusterProjections :
       /\ cps[p] # Absent /\ cps[p].deleting => cps[p].finalizer
       /\ cpCache[p] # Absent /\ cpCache[p].finalizer /\ ~cpCache[p].deleting
            => Guarded(cps[p]) /\ SameCP(cps[p], cpCache[p])
       /\ cpCache[p] # Absent /\ cpCache[p].deleting => Ended(cpCache[p], cps[p])
  /\ Writing => Guarded(cps[run.name]) /\ SameCP(cps[run.name], run.cp)
  /\ Finalizing => /\ Ended(run.cp, cps[run.name])
                   /\ Ended(run.cp, cpCache[run.name])

\* What is written everywhere is stamped, and a destination that is still as
\* fetched is ours.
WriteInv ==
  /\ run.step = "fanOut" =>
       /\ isOwnedByCluster(run.want, run.name)
       /\ run.want.labels[ownedByClusterUIDLabel] = run.cp.uid
  /\ run.step \in {"ensureClusterFinalizer", "resolveGVR", "ensureSourceWatch",
                   "getSource", "fanOut"} =>
       \A n \in run.current : Carries(Dest(n), run.name)

\* The destinations that the finalizer has to answer for.
Places == {c \in Coords : c.kind \notin Unservable}

\* Every copy has a guarded owner whose sweep would find it.
ClaimInv ==
  Tidy => \A c \in Places, p \in ClusterProjections :
            Carries(c, p) => /\ Guarded(cps[p])
                             /\ objects[c].labels[ownedByClusterUIDLabel] = cps[p].uid
                             /\ c.kind = cps[p].spec.source.kind

\* The sweep of a deletion has listed every copy that is left, and before the
\* finalizer goes all of them have gone.
SweepInv ==
  Tidy /\ Finalizing => \A c \in Places : Carries(c, run.name) =>
    /\ run.step # "removeFinalizer"
    /\ run.step = "deleteListed" => c \in run.sweep \/ run.failed

ServedInv == Kinds \ Unservable \subseteq served

\* The inductive invariant: what a reconcile assumes of its copies and of what it
\* has listed holds, although each was read earlier and users, caches, crashes
\* and the namespace controller have moved on since.
IInv ==
  /\ SpecsInv
  /\ CopiesInv
  /\ StepInv
  /\ FinalizerInv
  /\ WriteInv
  /\ ClaimInv
  /\ SweepInv
  /\ ServedInv
-----------------------------------------------------------------------------
\* Who holds a destination, for the abstract specification.
Holder(c) ==
  IF objects[c] = Absent THEN Absent
  ELSE IF objects[c].annotations[ownedByClusterAnnotation] \in ClusterProjections
  THEN objects[c].annotations[ownedByClusterAnnotation]
  ELSE None

M == INSTANCE Mirror WITH
       Owners <- ClusterProjections, Free <- Absent, Foreign <- None,
       guarded <- {p \in ClusterProjections : Guarded(cps[p])},
       holder <- [c \in Places |-> Holder(c)]

\* The cluster tier keeps the promise of module Mirror: a ClusterProjection
\* takes only free coordinates and only while its finalizer is stored, never
\* writes over what is not its own when the request lands, and gives up the
\* finalizer only when none of its copies is left in any namespace, through
\* stale caches, half-failed fan-outs, failed sweeps, crashes and re-creation.
\* (Kinds the apiserver may not serve are exempt: the finalizer lets go then.)
Mirrors == M!Spec
=============================================================================

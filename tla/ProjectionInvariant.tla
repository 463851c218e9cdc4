-------------------------- MODULE ProjectionInvariant --------------------------
(***************************************************************************)
(* The inductive invariant behind NoOrphan, WritesOnlyOwned and            *)
(* KeepsUserIntent: what is known, at every request of a reconcile, about  *)
(* the copies it works from.                                               *)
(***************************************************************************)
EXTENDS ProjectionController

\* Every spec users may give p names the same destination.  NoOrphan needs it:
\* deleteDestination only knows the coordinates of the current spec.
StableCoords ==
  \A p \in Projections : \A s, t \in Specs[p] :
    destinationCoords(p, s) = destinationCoords(p, t)

\* The conditions of NoOrphan: no destination is renamed, and the RESTMapper
\* fails only for kinds that are not served.
Tidy == StableCoords /\ "discovery" \notin FaultKinds

\* Requests made for a live Projection, and those of handleDeletion.
LivePCs == {"resolveGVR", "ensureSourceWatch", "getSource", "listOwned",
            "deleteListed", "getDest", "create", "update", "watchDest", "flush"}
CleanupPCs == {"deleteDestination", "deleteOwned"}

Finalizing == pc = "removeFinalizer" \/ (pc \in CleanupPCs /\ proj.deleting)
Writing == pc \in LivePCs \/ (pc \in CleanupPCs /\ ~proj.deleting)

\* A finalizer will not come (back) to this Projection without a new reconcile.
Doomed(cr) == cr = Absent \/ cr.deleting \/ ~cr.finalizer

Guarded(cr) == cr # Absent /\ cr.finalizer

\* All copies of a Projection carry a spec that users gave it.
SpecsInv ==
  /\ \A p \in Projections : /\ crs[p] # Absent => crs[p].spec \in Specs[p]
                            /\ cache[p] # Absent => cache[p].spec \in Specs[p]
  /\ pc # "idle" => proj.spec \in Specs[key]

\* A current copy is the stored Projection.
CopiesInv ==
  /\ \A p \in Projections : cacheFresh[p] => cache[p] = crs[p]
  /\ pc # "idle" /\ projFresh => proj = crs[key]
  /\ pc = "ensureFinalizer" /\ projFresh => cacheFresh[key]

\* The destination being written is stamped, and the one read was ours.
WriteInv ==
  /\ pc \in {"getDest", "create", "update"} => isOwnedBy(dst, key)
  /\ pc = "update" /\ exFresh => Carries(Dest, key)

\* p's stamp is only found where p's specs point to.
HomeInv ==
  \A c \in Coords, p \in Projections :
    Carries(c, p) => \E s \in Specs[p] : destinationCoords(p, s) = c

\* What the finalizer of p is at, seen from the cache and from the reconcile.
FinalizerInv ==
  /\ \A p \in Projections :
       /\ crs[p] # Absent /\ crs[p].deleting => crs[p].finalizer
       /\ cache[p] # Absent /\ cache[p].finalizer /\ ~cache[p].deleting
            => Guarded(crs[p])
       /\ cache[p] # Absent /\ cache[p].deleting => Doomed(crs[p])
  /\ pc = "ensureFinalizer" => ~proj.deleting /\ ~proj.finalizer
  /\ Writing => ~proj.deleting /\ Guarded(crs[key])
  /\ Finalizing => proj.deleting /\ Doomed(crs[key]) /\ Doomed(cache[key])

\* Before the finalizer goes, the destination has gone.
CleanInv ==
  Tidy /\ pc = "removeFinalizer" =>
    \A c \in Coords : Carries(c, key) => c.kind \in Unservable

OrphanInv == Tidy => NoOrphan

ServedInv == Kinds \ Unservable \subseteq served

\* The inductive invariant: the reconcile's copies of the Projection and the
\* destination are what their phase assumes, although each was read earlier.
IInv ==
  /\ SpecsInv
  /\ CopiesInv
  /\ WriteInv
  /\ HomeInv
  /\ FinalizerInv
  /\ CleanInv
  /\ ServedInv
  /\ OrphanInv
-----------------------------------------------------------------------------
\* The destinations, and who holds each, for the abstract specification.
Places == {c \in Coords : c.kind \notin Unservable}

Holder(c) ==
  IF objects[c] = Absent THEN Absent
  ELSE IF objects[c].annotations[ownedByAnnotation] \in Projections
  THEN objects[c].annotations[ownedByAnnotation]
  ELSE None

M == INSTANCE Mirror WITH
       Owners <- Projections, Free <- Absent, Foreign <- None,
       guarded <- {p \in Projections : Guarded(crs[p])},
       holder <- [c \in Places |-> Holder(c)]

\* The namespaced tier keeps the promise of module Mirror: a Projection takes
\* only free coordinates and only while its finalizer is stored, and the
\* finalizer goes only when it holds nothing any more, whatever happens between
\* the requests of its reconciles.  (Under the conditions of Tidy.)
Mirrors == M!Spec
=============================================================================

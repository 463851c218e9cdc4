------------------------------ MODULE MCTwoTiers ------------------------------
(***************************************************************************)
(* Small instances of TwoTiers for TLC.                                    *)
(***************************************************************************)
EXTENDS TwoTiers

CONSTANTS p1, cp1, svc, v1, v2

At(ns) == [kind |-> svc, ns |-> ns, name |-> "cfg"]

Src == At("team")
SourceOnly == {Src}

NoOverlay == [annotations |-> NoAnnotations, labels |-> NoLabels]

OptedIn == {[annotations |-> [NoAnnotations EXCEPT ![projectableAnnotation] = "true"],
             labels |-> NoLabels, body |-> b, alloc |-> None] : b \in Bodies}

Mirroring(source) == [source |-> source, name |-> None, overlay |-> NoOverlay]
FannedOut(namespaces, selector) ==
  [source |-> Src, name |-> None, namespaces |-> namespaces,
   selector |-> selector, overlay |-> NoOverlay]

OneNamespace == {[n \in {"apps"} |-> [phase |-> "active", labelled |-> TRUE]]}

\* Both tiers mirror the same source to the same destination.
InApps == [p \in Projections |-> "apps"]
SameCoords == {Src, At("apps")}
SameSpecs == [p \in Projections |-> {Mirroring(Src)}]
SameClusterSpecs == [p \in ClusterProjections |-> {FannedOut({}, "mirror")}]

\* A chain: the Projection mirrors the copy that the cluster tier makes.
InDev == [p \in Projections |-> "dev"]
ChainCoords == {Src, At("apps"), At("dev")}
ChainSpecs == [p \in Projections |-> {Mirroring(At("apps"))}]
ChainClusterSpecs == [p \in ClusterProjections |-> {FannedOut({"apps"}, None)}]
=============================================================================

----------------------------- MODULE MCProjection -----------------------------
(***************************************************************************)
(* Small instances of ProjectionController for TLC.                        *)
(***************************************************************************)
EXTENDS ProjectionInvariant

CONSTANTS p1, p2, svc, v1, v2

At(ns, name) == [kind |-> svc, ns |-> ns, name |-> name]

Src == At("team", "cfg")     \* the source
Dst == At("apps", "cfg")     \* where both Projections mirror it to
Alt == At("apps", "cfg2")    \* a second destination name

NoOverlay == [annotations |-> NoAnnotations, labels |-> NoLabels]
Overlay == [annotations |-> NoAnnotations,
            labels |-> [NoLabels EXCEPT !["team"] = "user"]]

Mirroring(name, overlay) == [source |-> Src, name |-> name, overlay |-> overlay]

MCNamespaceOf == [p \in Projections |-> "apps"]

Opted(v, b) == [annotations |-> [NoAnnotations EXCEPT
                                   ![projectableAnnotation] = v,
                                   ![lastAppliedAnnotation] = "user"],
                labels |-> NoLabels, body |-> b, alloc |-> None]

\* One source, one destination, specs that differ in the overlay only.
Coords2 == {Src, Dst}
OneSpec == [p \in Projections |-> {Mirroring(None, NoOverlay)}]
TwoOverlays == [p \in Projections |-> {Mirroring(None, NoOverlay),
                                       Mirroring(None, Overlay)}]

\* Two destination names.
Coords3 == {Src, Dst, Alt}
TwoNames == [p \in Projections |-> {Mirroring(None, NoOverlay),
                                    Mirroring("cfg2", NoOverlay)}]

OptedIn == {Opted("true", b) : b \in Bodies}
SourceOnly == {Src}
=============================================================================

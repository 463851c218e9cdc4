------------------------------ MODULE MCCluster ------------------------------
(***************************************************************************)
(* Small instances of ClusterProjectionController for TLC.                 *)
(***************************************************************************)
EXTENDS ClusterInvariant

CONSTANTS cp1, svc, crd, v1, v2

Cfg(kind, ns) == [kind |-> kind, ns |-> ns, name |-> "cfg"]

Src == Cfg(svc, "team")
SourceOnly == {Src}
MCNamespaces == {"n1", "n2"}
MCCoords == {Cfg(k, n) : k \in Kinds, n \in {"team"} \cup MCNamespaces}

\* n1 has the label; n2 has not, or does not exist.
OneLabelled == [n1 |-> [phase |-> "active", labelled |-> TRUE],
                n2 |-> [phase |-> "active", labelled |-> FALSE]]
JustOne == {OneLabelled}
OneOfTwo == {OneLabelled, [OneLabelled EXCEPT !.n2 = Gone]}

NoOverlay == [annotations |-> NoAnnotations, labels |-> NoLabels]
Overlay == [annotations |-> NoAnnotations,
            labels |-> [NoLabels EXCEPT !["team"] = "user"]]

Spread(source, namespaces, selector, overlay) ==
  [source |-> source, name |-> None, namespaces |-> namespaces,
   selector |-> selector, overlay |-> overlay]

BySelector == Spread(Src, {}, "mirror", NoOverlay)
ByList == Spread(Src, {"n1", "n2"}, None, Overlay)
Refusable == Spread(Src, {}, "refused", NoOverlay)
Unserved == Spread(Cfg(crd, "team"), {}, "mirror", NoOverlay)

SelectorOnly == [p \in ClusterProjections |-> {BySelector}]
AllForms == [p \in ClusterProjections |-> {BySelector, ByList, Refusable}]
WithUnserved == [p \in ClusterProjections |-> {BySelector, ByList, Unserved}]

OptedIn == {[annotations |-> [NoAnnotations EXCEPT
                                ![projectableAnnotation] = "true",
                                ![lastAppliedAnnotation] = "user"],
             labels |-> NoLabels, body |-> v1, alloc |-> None]}
=============================================================================

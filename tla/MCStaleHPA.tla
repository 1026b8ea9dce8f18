----------------------------- MODULE MCStaleHPA -----------------------------
(* Two HPAs, and among their targets one that a CRD defines: OpenKruise's    *)
(* StatefulSet, whose kind is that of Kubernetes' own.                       *)
EXTENDS StaleHPA
Ref(group, kind, name) == [group |-> group, kind |-> kind, name |-> name]
MCRefs == {Ref("apps.kruise.io", "StatefulSet", "web"), Ref("apps", "Deployment", "web")}
MCHPAs == {<<"a", "web">>, <<"a", "api">>}

\* Before the List a move leads to another initial state, and after the last Get Scan
\* no longer looks: neither is explored.
MovesThatMatter == err \/ at # "loop" \/ todo = {} => UNCHANGED cluster
=============================================================================

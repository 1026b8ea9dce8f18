------------------------- MODULE MCUnusedNamespace -------------------------
(* A namespace a user made and one of the cluster's own.                     *)
EXTENDS UnusedNamespace
MCNamespaces == {"shop", "default"}
MCExcluded == {"default"}

\* Before the first List a move leads to another initial state, and after the last
\* one Scan no longer looks: neither is explored.
MovesThatMatter == err \/ at \in {0, 5, 6} => UNCHANGED cluster

\* The cluster's own namespace always exists, unlabelled, and runs bare Pods at most.
OwnNamespaceIsQuiet ==
  /\ "default" \in DOMAIN namespaces /\ namespaces["default"] = "false"
  /\ \A kind \in KindSet \ {"pods"} : "default" \notin workloads[kind]
=============================================================================

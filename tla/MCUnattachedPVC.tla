-------------------------- MODULE MCUnattachedPVC --------------------------
(* A claim with an ordinal and its namesake in another namespace, which     *)
(* the StatefulSet does not own; one Pod in each namespace.                 *)
EXTENDS UnattachedPVC
MCPVCs == {<<"a", "data-web-1">>, <<"b", "data-web-1">>}
MCPods == {[ns |-> "a", claims |-> {"data-web-1"}], [ns |-> "b", claims |-> {"data-web-1"}]}
MCStatefulSets == {<<"a", "web">>}
MCTemplatesOf == [s \in MCStatefulSets |-> {"data"}]
MCOrdinal == [t \in {"data"}, n \in {"web"}, p \in {"data-web-1"} |-> 1]

\* Before the first List a move leads to another initial state, and after the last
\* one Scan no longer looks: neither is explored.
MovesThatMatter ==
  err \/ at \in {"pvcs", "storageclasses", "loop", "returned"} => UNCHANGED cluster
=============================================================================

------------------------------ MODULE Cluster ------------------------------
(***************************************************************************)
(* What the models of the detectors share: a collection of the API server  *)
(* is a partial function from the keys of its objects to what matters of   *)
(* their state, and every object may carry the opt-out label.              *)
(***************************************************************************)
EXTENDS Functions

PartialFcns(S, T) == UNION {[D -> T] : D \in SUBSET S}

EmptyFcn == [x \in {} |-> x]

\* Creates x with state y, or gives it that state.
Put(f, x, y) == [z \in DOMAIN f \cup {x} |-> IF z = x THEN y ELSE f[z]]

Delete(f, x) == Restrict(f, DOMAIN f \ {x})

Toggle(S, x) == IF x \in S THEN S \ {x} ELSE S \cup {x}

\* The values of the label k8s-zombie.io/ignore; "false" stands for any other value
\* and for its absence.
Labels == {"true", "false"}

isIgnored(label) == label = "true"
=============================================================================

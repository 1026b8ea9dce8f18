--------------------------- MODULE MCGitHubAction ---------------------------
(* One claim, the Pod that may mount it, and one volume. *)
EXTENDS GitHubAction
MCPVCs == {<<"app", "data">>}
MCPods == {[ns |-> "app", claims |-> {"data"}]}
MCTemplatesOf == EmptyFcn
MCOrdinal == EmptyFcn
Input(ns, exclude, minAge, output, fail) ==
  [namespace |-> ns, exclude |-> exclude, minAge |-> minAge, output |-> output,
   failOnFindings |-> fail]
MCInputs ==
  {Input(AnyNamespace, {}, 1, "json", TRUE), Input(AnyNamespace, {"app"}, 0, "json", TRUE),
   Input(AnyNamespace, {}, 1, "table", FALSE), Input("web", {}, 0, "table", TRUE)}

\* What happened before the first List is in the initial states; what happens once both
\* have read is in those of the second scan.
ClusterMatters ==
  \/ step = "first" /\ Started /\ ~ReadAll
  \/ step = "second" /\ ~Started
  \/ UNCHANGED objects

\* The scan for the report that reads a cluster that has moved is like a first one, and
\* the gate does not look at it: an input "json" goes on from there.
SecondScanMatters == ~(step = "second" /\ Started /\ moved)

\* What a detector does with the Lists it has taken touches nothing but its own locals:
\* it does that at once.
ReadThenReport ==
  /\ pvAt \in {"storageclasses", "loop"} /\ ~pvErr => VolumesScan
  /\ at \in {"statefulsets", "storageclasses", "loop"} /\ ~err => ScanRuns

\* Not the observer of UnattachedPVC's own properties, nor the answers of a detector that
\* is through with them, nor the stamp of a claim that is not there.
WhatMatters ==
  <<objects, at, err, findings, pvAt, pvErr, pvFindings, watch, action, now,
    IF err \/ at = "returned" THEN <<>> ELSE <<gotPVCs, gotPods, gotStatefulSets>>,
    IF pvErr \/ pvAt = "returned" THEN <<>> ELSE <<gotVolumes>>,
    Restrict(born, DOMAIN pvcs), Restrict(listed, DOMAIN gotPVCs)>>
=============================================================================

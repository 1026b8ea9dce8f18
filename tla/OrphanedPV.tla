----------------------------- MODULE OrphanedPV -----------------------------
(***************************************************************************)
(* OrphanedPVDetector.Scan (pkg/detector/pv.go): PersistentVolumes that    *)
(* are Released or Available.  The volumes' own life is module Volumes'.   *)
(***************************************************************************)
EXTENDS Cluster

CONSTANT PVs  \* the names a PersistentVolume may have

VARIABLES
  volumes,     \* the cluster's PersistentVolumes: volumes[v] is v's state
  at,          \* "pvs", "storageclasses", "loop" or "returned"
  err,         \* Scan has returned an error
  gotVolumes,  \* the List's answer, a local of Scan
  findings     \* what Scan returns

scan == <<at, err, gotVolumes, findings>>

Init ==
  /\ at = "pvs"
  /\ err = FALSE
  /\ gotVolumes = EmptyFcn
  /\ findings = {}

ListPVs ==
  /\ ~err /\ at = "pvs"
  /\ gotVolumes' = volumes
  /\ at' = "storageclasses"
  /\ UNCHANGED <<volumes, err, findings>>

\* Every scan is priced (cli.Run builds an estimator), so the types are listed.
ListStorageClasses ==
  /\ ~err /\ at = "storageclasses"
  /\ at' = "loop"
  /\ UNCHANGED <<volumes, err, gotVolumes, findings>>

ListFails ==
  /\ ~err /\ at \in {"pvs", "storageclasses"}
  /\ err' = TRUE
  /\ UNCHANGED <<volumes, at, gotVolumes, findings>>

\* Mutant: a volume that was never bound is not looked for.
isReleased(pv) == pv.phase = "Released"

isLeftOver(pv) == pv.phase \in {"Released", "Available"}

\* Mutant: a volume is reported under the claim it belonged to.
ReturnClaims ==
  /\ ~err /\ at = "loop"
  /\ findings' = {gotVolumes[v].claim : v \in DOMAIN gotVolumes}
  /\ at' = "returned"
  /\ UNCHANGED <<volumes, err, gotVolumes>>

\* The loop over pvs.Items, and the return.
Return ==
  /\ ~err /\ at = "loop"
  /\ findings' = {v \in DOMAIN gotVolumes :
                    isLeftOver(gotVolumes[v]) /\ ~isIgnored(gotVolumes[v].ignore)}
  /\ at' = "returned"
  /\ UNCHANGED <<volumes, err, gotVolumes>>

Scan == ListPVs \/ ListStorageClasses \/ ListFails \/ Return
=============================================================================

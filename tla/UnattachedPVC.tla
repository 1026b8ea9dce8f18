--------------------------- MODULE UnattachedPVC ---------------------------
(***************************************************************************)
(* UnattachedPVCDetector.Scan (pkg/detector/pvc.go, statefulset.go, and    *)
(* storageClassVolumeTypes in ebs.go) over a cluster that moves between    *)
(* its four List calls.                                                    *)
(*                                                                         *)
(* A PVC is its key, <<namespace, name>>; a Pod is the claims it mounts    *)
(* and its namespace; a StatefulSet is its key and spec.replicas.  Names   *)
(* are atomic: what strings.CutPrefix and strconv.Atoi make of a PVC name  *)
(* is the constant Ordinal.  Cost is left to Pricing: the StorageClasses   *)
(* matter here only as a List call that may fail.                          *)
(***************************************************************************)
EXTENDS Integers, Cluster

CONSTANTS
  PVCs,          \* the keys <<namespace, name>> a PVC may have
  Pods,          \* the Pods there may be: [ns |-> ..., claims |-> a set of names]
  StatefulSets,  \* the keys a StatefulSet may have
  TemplatesOf,   \* TemplatesOf[s]: the names of s's volumeClaimTemplates
  Ordinal,       \* Ordinal[<<t, n, p>>]: the number p ends in after the prefix "t-n-"
  NotAnOrdinal,  \* ... when p lacks the prefix or the rest is no number >= 0
  MaxReplicas,   \* bound: StatefulSets are scaled up to MaxReplicas
  Unset,         \* spec.replicas == nil
  Int32Half      \* 2^31

\* A key is a pair.
ASSUME PVCsAssumption == \A p \in PVCs : p = <<p[1], p[2]>>

\* No StatefulSet has come to an ordinal that int32 would truncate.
ASSUME OrdinalsAssumption ==
  /\ Int32Half \in Nat \ {0}
  /\ \A s \in StatefulSets, p \in PVCs : \A t \in TemplatesOf[s] :
       Ordinal[<<t, s[2], p[2]>>] \in {NotAnOrdinal} \cup 0..(Int32Half - 1)

VARIABLES
  pvcs,          \* the cluster's PVCs: pvcs[p] is p's ignore label
  pods,          \* the cluster's Pods
  statefulSets,  \* the cluster's StatefulSets: statefulSets[s] is its spec.replicas
  at,            \* the call Scan is about to make
  err,           \* Scan has returned an error
  gotPVCs, gotPods, gotStatefulSets,  \* the Lists' answers, locals of Scan
  findings,      \* what Scan returns
  hist           \* OrphanScan's observer

cluster == <<pvcs, pods, statefulSets>>
scan == <<at, err, gotPVCs, gotPods, gotStatefulSets, findings>>
vars == <<cluster, scan, hist>>

\* int32(n), as Go converts an int.
Int32(n) == ((n + Int32Half) % (2 * Int32Half)) - Int32Half

-----------------------------------------------------------------------------
(* What the code computes from the answers *)

referencedPVCs(ps) == UNION {{<<pod.ns, c>> : c \in pod.claims} : pod \in ps}

\* Mutant: the namespaces are not compared.
anyNamespace(s, p) == TRUE

sameNamespace(s, p) == s[1] = p[1]

\* Mutant: the first ordinal that is not running counts as running (> for >=).
isBeyondNext(ordinal, replicas) == Int32(ordinal) > replicas

isBeyond(ordinal, replicas) == Int32(ordinal) >= replicas

isStatefulSetScaleDownLeftover(p, stss) ==
  \E s \in DOMAIN stss :
    /\ sameNamespace(s, p)
    /\ \E t \in TemplatesOf[s] :
         LET ordinal == Ordinal[<<t, s[2], p[2]>>]
         IN  ordinal # NotAnOrdinal /\ isBeyond(ordinal, IF stss[s] = Unset THEN 1 ELSE stss[s])

-----------------------------------------------------------------------------
(* What a PVC that is in use means, said without the code *)

eligible == {p \in DOMAIN pvcs : pvcs[p] # "true"}

MountedBy(pod) == {p \in PVCs : p[1] = pod.ns /\ p[2] \in pod.claims}

Replicas(s) == IF statefulSets[s] = Unset THEN 1 ELSE statefulSets[s]

\* p carries an ordinal that s no longer runs, though it would on a scale-up.
RetainedBy(s) ==
  {p \in PVCs : p[1] = s[1] /\ \E t \in TemplatesOf[s] :
                   /\ Ordinal[<<t, s[2], p[2]>>] # NotAnOrdinal
                   /\ Ordinal[<<t, s[2], p[2]>>] >= Replicas(s)}

uses ==
  [pods |-> UNION {MountedBy(pod) : pod \in pods},
   statefulsets |-> UNION {RetainedBy(s) : s \in DOMAIN statefulSets}]

\* How far Scan has come, in OrphanScan's terms.
phase == IF err THEN "failed" ELSE IF at = "pvcs" THEN "start"
         ELSE IF at = "returned" THEN "reported" ELSE "reading"
candidates == {p \in DOMAIN gotPVCs : gotPVCs[p] # "true"}
read == IF at \in {"pvcs", "pods"} THEN {}
        ELSE IF at = "statefulsets" THEN {"pods"} ELSE {"pods", "statefulsets"}
seen ==
  [pods |-> referencedPVCs(gotPods) \cap PVCs,
   statefulsets |-> {p \in PVCs : isStatefulSetScaleDownLeftover(p, gotStatefulSets)}]

Abs == INSTANCE OrphanScan WITH Resources <- PVCs, Sources <- {"pods", "statefulsets"}

-----------------------------------------------------------------------------
(* Scan *)

Init ==
  /\ pvcs \in PartialFcns(PVCs, Labels)
  /\ pods \in SUBSET Pods
  /\ statefulSets \in PartialFcns(StatefulSets, {Unset} \cup 0..MaxReplicas)
  /\ at = "pvcs"
  /\ err = FALSE
  /\ gotPVCs = EmptyFcn
  /\ gotPods = {}
  /\ gotStatefulSets = EmptyFcn
  /\ findings = {}
  /\ hist = Abs!NothingYet

ListPVCs ==
  /\ ~err /\ at = "pvcs"
  /\ gotPVCs' = pvcs
  /\ at' = "pods"
  /\ hist' = Abs!BeginWith(eligible, uses)
  /\ UNCHANGED <<cluster, err, gotPods, gotStatefulSets, findings>>

ListPods ==
  /\ ~err /\ at = "pods"
  /\ gotPods' = pods
  /\ at' = "statefulsets"
  /\ UNCHANGED <<cluster, err, gotPVCs, gotStatefulSets, findings, hist>>

\* Mutant: a failed List is taken for an empty one.
ListStatefulSetsOrNone ==
  /\ ~err /\ at = "statefulsets"
  /\ gotStatefulSets' \in {statefulSets, EmptyFcn}
  /\ at' = "storageclasses"
  /\ UNCHANGED <<cluster, err, gotPVCs, gotPods, findings, hist>>

ListStatefulSets ==
  /\ ~err /\ at = "statefulsets"
  /\ gotStatefulSets' = statefulSets
  /\ at' = "storageclasses"
  /\ UNCHANGED <<cluster, err, gotPVCs, gotPods, findings, hist>>

\* Every scan is priced (cli.Run builds an estimator), so the types are listed.
ListStorageClasses ==
  /\ ~err /\ at = "storageclasses"
  /\ at' = "loop"
  /\ UNCHANGED <<cluster, err, gotPVCs, gotPods, gotStatefulSets, findings, hist>>

\* Any of the Lists fails, for want of permission or otherwise.
ListFails ==
  /\ ~err /\ at \in {"pvcs", "pods", "statefulsets", "storageclasses"}
  /\ err' = TRUE
  /\ UNCHANGED <<cluster, at, gotPVCs, gotPods, gotStatefulSets, findings, hist>>

\* Mutant: a finding loses its namespace, as a cluster-scoped kind's does.
ReturnWithoutNamespace ==
  /\ ~err /\ at = "loop"
  /\ findings' = {<<"", p[2]>> : p \in DOMAIN gotPVCs}
  /\ at' = "returned"
  /\ UNCHANGED <<cluster, err, gotPVCs, gotPods, gotStatefulSets, hist>>

\* Mutant: the ignore label is not looked at.
ReturnIgnoredToo ==
  /\ ~err /\ at = "loop"
  /\ findings' = {p \in DOMAIN gotPVCs :
                    /\ p \notin referencedPVCs(gotPods)
                    /\ ~isStatefulSetScaleDownLeftover(p, gotStatefulSets)}
  /\ at' = "returned"
  /\ UNCHANGED <<cluster, err, gotPVCs, gotPods, gotStatefulSets, hist>>

\* The loop over pvcs.Items, and the return.
Return ==
  /\ ~err /\ at = "loop"
  /\ findings' = {p \in DOMAIN gotPVCs :
                    /\ p \notin referencedPVCs(gotPods)
                    /\ ~isStatefulSetScaleDownLeftover(p, gotStatefulSets)
                    /\ ~isIgnored(gotPVCs[p])}
  /\ at' = "returned"
  /\ UNCHANGED <<cluster, err, gotPVCs, gotPods, gotStatefulSets, hist>>

Scan ==
  \/ ListPVCs \/ ListPods \/ ListStatefulSets \/ ListStorageClasses
  \/ ListFails
  \/ Return

-----------------------------------------------------------------------------
(* The cluster, moved by its users and controllers *)

CreateOrLabelPVC(p, l) ==
  pvcs' = Put(pvcs, p, l) /\ UNCHANGED <<pods, statefulSets>>

\* The pvc-protection finalizer keeps a claim while a Pod mounts it.
DeletePVC(p) ==
  /\ p \in DOMAIN pvcs /\ \A pod \in pods : p \notin MountedBy(pod)
  /\ pvcs' = Delete(pvcs, p)
  /\ UNCHANGED <<pods, statefulSets>>

CreateOrDeletePod(pod) ==
  /\ pods' = Toggle(pods, pod)
  /\ UNCHANGED <<pvcs, statefulSets>>

\* The controller follows later: it creates and deletes Pods in steps of its own.
CreateOrScaleStatefulSet(s, n) ==
  statefulSets' = Put(statefulSets, s, n) /\ UNCHANGED <<pvcs, pods>>

DeleteStatefulSet(s) ==
  /\ s \in DOMAIN statefulSets
  /\ statefulSets' = Delete(statefulSets, s)
  /\ UNCHANGED <<pvcs, pods>>

ClusterMoves ==
  /\ \/ \E p \in PVCs, l \in Labels : CreateOrLabelPVC(p, l)
     \/ \E p \in PVCs : DeletePVC(p)
     \/ \E pod \in Pods : CreateOrDeletePod(pod)
     \/ \E s \in StatefulSets, n \in {Unset} \cup 0..MaxReplicas :
          CreateOrScaleStatefulSet(s, n)
     \/ \E s \in StatefulSets : DeleteStatefulSet(s)
  /\ Abs!Observe(eligible', uses')
  /\ UNCHANGED scan

Next == Scan \/ ClusterMoves

Spec == Init /\ [][Next]_vars

-----------------------------------------------------------------------------
(* Properties *)

TypeOK ==
  /\ pvcs \in PartialFcns(PVCs, Labels) /\ gotPVCs \in PartialFcns(PVCs, Labels)
  /\ pods \subseteq Pods /\ gotPods \subseteq Pods
  /\ statefulSets \in PartialFcns(StatefulSets, {Unset} \cup 0..MaxReplicas)
  /\ gotStatefulSets \in PartialFcns(StatefulSets, {Unset} \cup 0..MaxReplicas)
  /\ at \in {"pvcs", "pods", "statefulsets", "storageclasses", "loop", "returned"}
  /\ err \in BOOLEAN
  /\ findings \subseteq PVCs

\* A PVC that no Pod mounted and no StatefulSet retained while Scan was reading is
\* reported (README "unattached-pvc").
AbandonedClaimIsReported == Abs!StandingOrphanIsReported

\* A PVC that some Pod mounted all along, or that a scale-down retained all along, is
\* not reported, whatever the scale of the StatefulSets did (statefulset.go:10-19).
ClaimInUseIsNotReported == Abs!StandingUseIsNotReported

\* A reported PVC that was in use at every instant is one that a Pod began to mount
\* after the Pods were listed, while a scale-up took it back from the leftovers.
OnlyLateMountMisleads == Abs!OnlyLateUseMisleads

\* Scan implements OrphanScan with the Pods and the StatefulSets as its sources.
ImplementsOrphanScan == Abs!Spec
=============================================================================

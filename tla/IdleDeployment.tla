--------------------------- MODULE IdleDeployment ---------------------------
(***************************************************************************)
(* IdleDeploymentDetector.Scan (pkg/detector/deployment.go): Deployments   *)
(* without a ready replica that no HorizontalPodAutoscaler targets.  The   *)
(* Deployments are listed first and the HPAs after them.                   *)
(*                                                                         *)
(* A Deployment is its key, <<namespace, name>>, its status.readyReplicas  *)
(* (0 or 1: only zero is told apart) and its ignore label; an HPA is its   *)
(* namespace and the kind and name of its scaleTargetRef.                  *)
(***************************************************************************)
EXTENDS Naturals, Cluster

CONSTANTS
  Deployments,  \* the keys a Deployment may have
  HPAs          \* the HPAs there may be: [ns |-> , kind |-> , name |-> ]

States == [ready : 0..1, ignore : Labels]

VARIABLES
  deployments,  \* the cluster's Deployments: deployments[d] is d's state
  hpas,         \* the cluster's HPAs
  at,           \* "deployments", "hpas", "loop" or "returned"
  err,          \* Scan has returned an error
  gotDeployments, gotHPAs,  \* the Lists' answers, locals of Scan
  findings,     \* what Scan returns
  hist          \* OrphanScan's observer

cluster == <<deployments, hpas>>
scan == <<at, err, gotDeployments, gotHPAs, findings>>
vars == <<cluster, scan, hist>>


\* Mutant: the kind is left out of the key.
targetKeysOfAnyKind(hs) == {<<h.ns, "Deployment", h.name>> : h \in hs}

deploymentHPATargetKeys(hs) == {<<h.ns, h.kind, h.name>> : h \in hs}

-----------------------------------------------------------------------------
(* What an idle Deployment means, said without the code *)

Idle(ds) == {d \in DOMAIN ds : ds[d].ready = 0 /\ ds[d].ignore # "true"}

Managed(hs) ==
  {d \in Deployments : \E h \in hs : h.ns = d[1] /\ h.kind = "Deployment" /\ h.name = d[2]}

eligible == Idle(deployments)
uses == [s \in {"hpas"} |-> Managed(hpas)]

\* How far Scan has come, in OrphanScan's terms.
phase == IF err THEN "failed" ELSE IF at = "deployments" THEN "start"
         ELSE IF at = "returned" THEN "reported" ELSE "reading"
candidates == Idle(gotDeployments)
read == IF at \in {"loop", "returned"} THEN {"hpas"} ELSE {}
seen ==
  [s \in {"hpas"} |->
     {d \in Deployments : <<d[1], "Deployment", d[2]>> \in deploymentHPATargetKeys(gotHPAs)}]

Abs == INSTANCE OrphanScan WITH Resources <- Deployments, Sources <- {"hpas"}

-----------------------------------------------------------------------------
(* Scan *)

Init ==
  /\ deployments \in PartialFcns(Deployments, States)
  /\ hpas \in SUBSET HPAs
  /\ at = "deployments"
  /\ err = FALSE
  /\ gotDeployments = EmptyFcn
  /\ gotHPAs = {}
  /\ findings = {}
  /\ hist = Abs!NothingYet

ListDeployments ==
  /\ ~err /\ at = "deployments"
  /\ gotDeployments' = deployments
  /\ at' = "hpas"
  /\ hist' = Abs!BeginWith(eligible, uses)
  /\ UNCHANGED <<cluster, err, gotHPAs, findings>>

\* Mutant: the Deployments are listed again with the HPAs, and the first List is lost.
ListHPAsAndDeployments ==
  /\ ~err /\ at = "hpas"
  /\ gotHPAs' = hpas
  /\ gotDeployments' = deployments
  /\ at' = "loop"
  /\ UNCHANGED <<cluster, err, findings, hist>>

\* Mutant: a failed List of the HPAs is taken for an empty one.
ListHPAsOrNone ==
  /\ ~err /\ at = "hpas"
  /\ gotHPAs' \in {hpas, {}}
  /\ at' = "loop"
  /\ UNCHANGED <<cluster, err, gotDeployments, findings, hist>>

ListHPAs ==
  /\ ~err /\ at = "hpas"
  /\ gotHPAs' = hpas
  /\ at' = "loop"
  /\ UNCHANGED <<cluster, err, gotDeployments, findings, hist>>

ListFails ==
  /\ ~err /\ at \in {"deployments", "hpas"}
  /\ err' = TRUE
  /\ UNCHANGED <<cluster, at, gotDeployments, gotHPAs, findings, hist>>

\* The loop over deployments.Items, and the return.
Return ==
  /\ ~err /\ at = "loop"
  /\ findings' = {d \in DOMAIN gotDeployments :
                    /\ gotDeployments[d].ready = 0
                    /\ <<d[1], "Deployment", d[2]>> \notin deploymentHPATargetKeys(gotHPAs)
                    /\ ~isIgnored(gotDeployments[d].ignore)}
  /\ at' = "returned"
  /\ UNCHANGED <<cluster, err, gotDeployments, gotHPAs, hist>>

Scan == ListDeployments \/ ListHPAs \/ ListFails \/ Return

-----------------------------------------------------------------------------
(* The cluster *)

\* A user creates or labels d, or its controller reports readyReplicas.
CreateOrUpdateDeployment(d, st) ==
  deployments' = Put(deployments, d, st) /\ UNCHANGED hpas

DeleteDeployment(d) ==
  /\ d \in DOMAIN deployments
  /\ deployments' = Delete(deployments, d)
  /\ UNCHANGED hpas

CreateOrDeleteHPA(h) ==
  /\ hpas' = Toggle(hpas, h)
  /\ UNCHANGED deployments

ClusterMoves ==
  /\ \/ \E d \in Deployments, st \in States : CreateOrUpdateDeployment(d, st)
     \/ \E d \in Deployments : DeleteDeployment(d)
     \/ \E h \in HPAs : CreateOrDeleteHPA(h)
  /\ Abs!Observe(eligible', uses')
  /\ UNCHANGED scan

Next == Scan \/ ClusterMoves

Spec == Init /\ [][Next]_vars

-----------------------------------------------------------------------------
(* Properties *)

TypeOK ==
  /\ deployments \in PartialFcns(Deployments, States)
  /\ gotDeployments \in PartialFcns(Deployments, States)
  /\ hpas \subseteq HPAs /\ gotHPAs \subseteq HPAs
  /\ at \in {"deployments", "hpas", "loop", "returned"} /\ err \in BOOLEAN
  /\ findings \subseteq Deployments

\* A Deployment that was idle and that no HPA targeted while Scan was reading is
\* reported.
IdleDeploymentIsReported == Abs!StandingOrphanIsReported

\* The two Lists together are as good as one instant: a reported Deployment that was
\* idle all along was, at some instant of the Scan, idle and the target of no HPA
\* (deployment.go:41-44: an HPA-driven scale-down is no orphan signal).
ManagedDeploymentIsNotReported == Abs!OneSourceIsNeverMisled

\* Scan implements OrphanScan with the HPAs as its only source.
ImplementsOrphanScan == Abs!Spec
=============================================================================

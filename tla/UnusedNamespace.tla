-------------------------- MODULE UnusedNamespace --------------------------
(***************************************************************************)
(* UnusedNamespaceDetector.Scan (pkg/detector/namespace.go): the           *)
(* Namespaces are listed first, then each kind of workload across the      *)
(* whole cluster.  Of a workload only its namespace matters.               *)
(***************************************************************************)
EXTENDS Naturals, Sequences, Cluster

CONSTANTS
  Namespaces,         \* the names a Namespace may have
  excludedNamespaces  \* those of the cluster's own Namespaces

\* The order in which Scan lists the workloads.
Kinds == <<"pods", "deployments", "statefulsets", "cronjobs">>
KindSet == {Kinds[i] : i \in DOMAIN Kinds}

VARIABLES
  namespaces,     \* the cluster's Namespaces: namespaces[n] is n's ignore label
  workloads,      \* workloads[kind]: the namespaces that hold one of that kind
  at,             \* Lists answered: 0..5; 6 once Scan has returned
  err,            \* Scan has returned an error
  gotNamespaces, gotWorkloads,  \* the Lists' answers, locals of Scan
  findings,       \* what Scan returns
  hist            \* OrphanScan's observer

cluster == <<namespaces, workloads>>
scan == <<at, err, gotNamespaces, gotWorkloads, findings>>
vars == <<cluster, scan, hist>>

NoWorkloads == [kind \in KindSet |-> {}]

-----------------------------------------------------------------------------
(* What a Namespace in use means, said without the code *)

eligible == {n \in DOMAIN namespaces \ excludedNamespaces : namespaces[n] # "true"}
uses == workloads

\* How far Scan has come, in OrphanScan's terms.
phase == IF err THEN "failed" ELSE IF at = 0 THEN "start"
         ELSE IF at = 6 THEN "reported" ELSE "reading"
candidates ==
  {n \in DOMAIN gotNamespaces \ excludedNamespaces : gotNamespaces[n] # "true"}
read == {Kinds[i] : i \in {j \in DOMAIN Kinds : j < at}}
seen == gotWorkloads

Abs == INSTANCE OrphanScan WITH Resources <- Namespaces, Sources <- KindSet

-----------------------------------------------------------------------------
(* Scan *)

Init ==
  /\ namespaces \in PartialFcns(Namespaces, Labels)
  /\ workloads \in [KindSet -> SUBSET DOMAIN namespaces]
  /\ at = 0
  /\ err = FALSE
  /\ gotNamespaces = EmptyFcn
  /\ gotWorkloads = NoWorkloads
  /\ findings = {}
  /\ hist = Abs!NothingYet

ListNamespaces ==
  /\ ~err /\ at = 0
  /\ gotNamespaces' = namespaces
  /\ at' = 1
  /\ hist' = Abs!BeginWith(eligible, uses)
  /\ UNCHANGED <<cluster, err, gotWorkloads, findings>>

\* Mutant: the CronJobs are not listed (a namespace of a scheduled job looks empty).
ListAllButCronJobs ==
  /\ ~err /\ at \in DOMAIN Kinds
  /\ gotWorkloads' = IF Kinds[at] = "cronjobs" THEN gotWorkloads
                     ELSE [gotWorkloads EXCEPT ![Kinds[at]] = workloads[Kinds[at]]]
  /\ at' = at + 1
  /\ UNCHANGED <<cluster, err, gotNamespaces, findings, hist>>

\* Pods, Deployments, StatefulSets and CronJobs, one List each.
ListWorkloads ==
  /\ ~err /\ at \in DOMAIN Kinds
  /\ gotWorkloads' = [gotWorkloads EXCEPT ![Kinds[at]] = workloads[Kinds[at]]]
  /\ at' = at + 1
  /\ UNCHANGED <<cluster, err, gotNamespaces, findings, hist>>

ListFails ==
  /\ ~err /\ at \in 0..Len(Kinds)
  /\ err' = TRUE
  /\ UNCHANGED <<cluster, at, gotNamespaces, gotWorkloads, findings, hist>>

\* Mutant: any workload anywhere counts for every namespace.
anyWorkloads == IF \E kind \in KindSet : gotWorkloads[kind] # {} THEN Namespaces ELSE {}

hasWorkloads == UNION {gotWorkloads[kind] : kind \in KindSet}

\* Mutant: the cluster's own namespaces are not excluded.
ReturnExcludedToo ==
  /\ ~err /\ at = 5
  /\ findings' = {n \in DOMAIN gotNamespaces :
                    n \notin hasWorkloads /\ ~isIgnored(gotNamespaces[n])}
  /\ at' = 6
  /\ UNCHANGED <<cluster, err, gotNamespaces, gotWorkloads, hist>>

\* Mutant: a finding carries the namespace's own (empty) namespace for its name.
ReturnWithoutName ==
  /\ ~err /\ at = 5
  /\ findings' = {"" : n \in (DOMAIN gotNamespaces \ excludedNamespaces) \ hasWorkloads}
  /\ at' = 6
  /\ UNCHANGED <<cluster, err, gotNamespaces, gotWorkloads, hist>>

\* The loop over namespaces.Items, and the return.
Return ==
  /\ ~err /\ at = 5
  /\ findings' = {n \in DOMAIN gotNamespaces :
                    /\ n \notin excludedNamespaces
                    /\ n \notin hasWorkloads
                    /\ ~isIgnored(gotNamespaces[n])}
  /\ at' = 6
  /\ UNCHANGED <<cluster, err, gotNamespaces, gotWorkloads, hist>>

Scan == ListNamespaces \/ ListWorkloads \/ ListFails \/ Return

-----------------------------------------------------------------------------
(* The cluster *)

CreateOrLabelNamespace(n, l) ==
  namespaces' = Put(namespaces, n, l) /\ UNCHANGED workloads

\* A Namespace goes only once it has been emptied.
DeleteNamespace(n) ==
  /\ n \in DOMAIN namespaces /\ \A kind \in KindSet : n \notin workloads[kind]
  /\ namespaces' = Delete(namespaces, n)
  /\ UNCHANGED workloads

FirstWorkload(kind, n) ==
  /\ n \in DOMAIN namespaces \ workloads[kind]
  /\ workloads' = [workloads EXCEPT ![kind] = @ \cup {n}]
  /\ UNCHANGED namespaces

LastWorkloadGone(kind, n) ==
  /\ n \in workloads[kind]
  /\ workloads' = [workloads EXCEPT ![kind] = @ \ {n}]
  /\ UNCHANGED namespaces

ClusterMoves ==
  /\ \E n \in Namespaces :
       \/ \E l \in Labels : CreateOrLabelNamespace(n, l)
       \/ DeleteNamespace(n)
       \/ \E kind \in KindSet : FirstWorkload(kind, n) \/ LastWorkloadGone(kind, n)
  /\ Abs!Observe(eligible', uses')
  /\ UNCHANGED scan

Next == Scan \/ ClusterMoves

Spec == Init /\ [][Next]_vars

-----------------------------------------------------------------------------
(* Properties *)

TypeOK ==
  /\ namespaces \in PartialFcns(Namespaces, Labels)
  /\ gotNamespaces \in PartialFcns(Namespaces, Labels)
  /\ workloads \in [KindSet -> SUBSET DOMAIN namespaces]
  /\ gotWorkloads \in [KindSet -> SUBSET Namespaces]
  /\ at \in 0..6 /\ err \in BOOLEAN
  /\ findings \subseteq Namespaces

\* A Namespace that held no workload while Scan was reading is reported.
EmptyNamespaceIsReported == Abs!StandingOrphanIsReported

\* A reported Namespace that held some workload at every instant is one that a kind
\* moved into after it had been listed: Deployments replaced by StatefulSets are
\* always seen, StatefulSets replaced by Deployments may not be.
OnlyLateWorkloadMisleads == Abs!OnlyLateUseMisleads

\* docs/adr/0003: "Every invocation reports whatever is orphaned in that single
\* snapshot."  Here: a reported Namespace that existed all along was, at some instant
\* of the Scan, without workloads.
ReportIsSnapshot == Abs!FindingsHeldAtSomeInstant

\* Scan implements OrphanScan with the four kinds of workload as its sources.
ImplementsOrphanScan == Abs!Spec
=============================================================================

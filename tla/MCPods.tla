------------------------------- MODULE MCPods -------------------------------
(* The two detectors that judge by Pods, over separate parts of a cluster.   *)
(* unused-configmap-secret: a ConfigMap, the one Kubernetes creates, a       *)
(* Secret of the same name, and Pods of two namespaces that mention the      *)
(* name; completed-jobs-and-pods: one Job with two retries, and at most two  *)
(* Pods of it at a time.                                                     *)
EXTENDS Naturals, UnusedConfigMapSecret
CONSTANTS Jobs, BackoffLimit, MaxPods
ASSUME BackoffAssumption == BackoffLimit \in Nat

VARIABLES jobs, jobPods, jobAt, jobErr, jobFindings, podFindings, jobHist

Job == INSTANCE CompletedJobsAndPods WITH
  pods <- jobPods, at <- jobAt, err <- jobErr, hist <- jobHist

MCConfigMaps == {<<"a", "cfg">>, <<"a", "kube-root-ca.crt">>}
MCConfigMapStates ==
  {[ignore |-> "false", hook |-> FALSE], [ignore |-> "false", hook |-> TRUE]}
MCSecrets == {<<"a", "cfg">>}
MCSecretStates ==
  {[type |-> "Opaque", ignore |-> "false", hook |-> FALSE],
   [type |-> "Opaque", ignore |-> "true", hook |-> FALSE],
   [type |-> "helm.sh/release.v1", ignore |-> "false", hook |-> FALSE]}
Ref(via, kind) == [via |-> via, kind |-> kind, name |-> "cfg"]
MCPodSet ==
  {[ns |-> "a", refs |-> {Ref("projected", "ConfigMap"), Ref("imagePullSecrets", "Secret")}],
   [ns |-> "a", refs |-> {Ref("env", "Secret")}],
   [ns |-> "b", refs |-> {Ref("volume", "Secret"), Ref("csi", "ConfigMap")}]}

ConfigScan == <<scan, hists>>
JobScan == <<jobAt, jobErr, jobFindings, podFindings, jobHist>>
JobVars == <<jobs, jobPods, JobScan>>

MCInit == Init /\ Job!Init

\* Kubernetes' own ConfigMap stays what it is.
OwnConfigMapIsQuiet ==
  <<"a", "kube-root-ca.crt">> \in DOMAIN configMaps' =>
    ~configMaps'[<<"a", "kube-root-ca.crt">>].hook
      /\ (at # "configmaps" => <<"a", "kube-root-ca.crt">> \in DOMAIN configMaps)

\* One of the two Scans is followed in each behaviour.
Reading == ~err /\ at \in {"secrets", "pods"}
JobsFollowed == configMaps = EmptyFcn /\ secrets = EmptyFcn /\ pods = {} /\ at = "configmaps" /\ ~err
ConfigsFollowed == jobs = EmptyFcn /\ jobPods = EmptyFcn /\ jobAt = "jobs" /\ ~jobErr

\* The cluster moves while a Scan is reading: before that, a move of the configuration
\* leads to another initial state, and after it no Scan looks.  Jobs and their Pods move
\* from nothing until the Jobs are listed: later moves reach the Pods that are reported,
\* of which the properties say nothing but their type.
MCNext ==
  \/ ConfigsFollowed /\ (Scan \/ (Reading /\ ClusterMoves)) /\ UNCHANGED JobVars
  \/ JobsFollowed /\ Job!Scan /\ UNCHANGED <<cluster, ConfigScan>>
  \/ /\ JobsFollowed /\ jobAt = "jobs" /\ ~jobErr
     /\ Job!ClusterMoves /\ UNCHANGED <<cluster, ConfigScan>>
  \/ ~Reading /\ UNCHANGED <<cluster, ConfigScan, JobVars>>

MCSpec == MCInit /\ [][MCNext]_<<cluster, ConfigScan, JobVars>>

\* The variables of both Scans keep their types.
EveryTypeOK == TypeOK /\ Job!TypeOK

\* CompletedJobsAndPods's properties, under names of this module.
EndedJobIsReported == Job!EndedJobIsReported
OnlyRetryingJobIsReportedEarly == Job!OnlyRetryingJobIsReportedEarly
=============================================================================

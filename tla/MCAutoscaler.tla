---------------------------- MODULE MCAutoscaler ----------------------------
(* The two detectors that read HorizontalPodAutoscalers, each over its own   *)
(* part of a cluster.                                                        *)
(* idle-deployment: one name in two namespaces; HPAs that target the         *)
(* Deployment of one of them and a StatefulSet of that name in the other.    *)
(* stale-hpa: two HPAs of one name in two namespaces, each with a target of  *)
(* one name, a Deployment, a StatefulSet or a ReplicaSet.                    *)
EXTENDS IdleDeployment, TLC
CONSTANTS ScaledHPAs, Refs

VARIABLES scalers, objects, getAt, getErr, gotScalers, todo, found, staleFindings, getHist

HPA == INSTANCE StaleHPA WITH
  HPAs <- ScaledHPAs, hpas <- scalers, at <- getAt, err <- getErr, gotHPAs <- gotScalers,
  findings <- staleFindings, hist <- getHist

MCDeployments == {<<"a", "web">>, <<"b", "web">>}
MCHPAs == {[ns |-> "a", kind |-> "Deployment", name |-> "web"],
           [ns |-> "b", kind |-> "StatefulSet", name |-> "web"]}
Ref(group, kind, name) == [group |-> group, kind |-> kind, name |-> name]
MCRefs == {Ref("apps", kind, "web") : kind \in {"Deployment", "StatefulSet", "ReplicaSet"}}
MCScaledHPAs == {<<"a", "web">>, <<"b", "web">>}

DeploymentScan == <<scan, hist>>
HPAScan == <<getAt, getErr, gotScalers, todo, found, staleFindings, getHist>>
HPAVars == <<scalers, objects, HPAScan>>

\* One of the two Scans is followed in each behaviour.
DeploymentsFollowed == scalers = EmptyFcn /\ objects = {} /\ getAt = "list" /\ ~getErr
HPAsFollowed == deployments = EmptyFcn /\ hpas = {} /\ at = "deployments" /\ ~err

MCInit == Init /\ HPA!Init /\ (DeploymentsFollowed \/ HPAsFollowed)

\* All the HPAs but one are as they were listed: Scan lists them once, so what has become
\* of two of them makes no difference that what has become of one does not make.
OneHPAEdited ==
  \E h \in ScaledHPAs :
    Restrict(scalers, DOMAIN scalers \ {h}) = Restrict(gotScalers, DOMAIN gotScalers \ {h})

\* The cluster moves between a Scan's first read and its last: before that, a move leads
\* to another initial state, and after it Scan no longer looks.
MCNext ==
  \/ DeploymentsFollowed /\ Scan /\ UNCHANGED HPAVars
  \/ /\ DeploymentsFollowed /\ at = "hpas" /\ ~err
     /\ ClusterMoves /\ UNCHANGED HPAVars
  \/ HPAsFollowed /\ HPA!Scan /\ UNCHANGED <<cluster, DeploymentScan>>
  \/ /\ HPAsFollowed /\ getAt = "loop" /\ todo # {} /\ ~getErr
     /\ HPA!ClusterMoves /\ OneHPAEdited' /\ UNCHANGED <<cluster, DeploymentScan>>
  \/ /\ at = "returned" \/ err \/ getAt = "returned" \/ getErr
     /\ UNCHANGED <<cluster, DeploymentScan, HPAVars>>

MCSpec == MCInit /\ [][MCNext]_<<cluster, DeploymentScan, HPAVars>>

\* The variables of both Scans keep their types.
EveryTypeOK == TypeOK /\ HPA!TypeOK

\* StaleHPA's properties, under names of this module.
DanglingHPAIsReported == HPA!DanglingHPAIsReported
ReportedTargetWasGone == HPA!ReportedTargetWasGone
=============================================================================

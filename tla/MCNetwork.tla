----------------------------- MODULE MCNetwork -----------------------------
(* zero-endpoint-service and orphaned-ingress over one cluster: two Services *)
(* of a namespace and a namesake in another, slices for some of them, and an *)
(* Ingress with a default backend, with paths, or with neither.              *)
EXTENDS ZeroEndpointService
CONSTANTS Ingresses, IngressStates, NoBackend
VARIABLES ingresses, ingAt, ingErr, gotIngresses, ingServices, ingSlices, ingFindings, ingHist

Ingress == INSTANCE OrphanedIngress WITH
  at <- ingAt, err <- ingErr, gotServices <- ingServices, gotSlices <- ingSlices,
  findings <- ingFindings, hist <- ingHist

MCServices == {<<"a", "web">>, <<"a", "api">>, <<"b", "web">>}
MCServiceStates ==
  {[type |-> "ClusterIP", ignore |-> "false"], [type |-> "ClusterIP", ignore |-> "true"],
   [type |-> "ExternalName", ignore |-> "false"]}
Slice(service, id) == [ns |-> "a", service |-> service, id |-> id]
MCSlices == {Slice("web", 1), Slice("web", 2), Slice("api", 1), Slice(Unlabelled, 1)}
MCEndpoints == {{"false"}, {"nil", "false"}}
MCIngresses == {<<"a", "site">>}
MCIngressStates ==
  {[default |-> NoBackend, paths |-> {"web", "api", NoBackend}, ignore |-> "false"],
   [default |-> "web", paths |-> {}, ignore |-> "false"],
   [default |-> "web", paths |-> {}, ignore |-> "true"],
   [default |-> NoBackend, paths |-> {NoBackend}, ignore |-> "false"]}

ServiceScan == <<scan, hist>>
IngressScan == <<ingAt, ingErr, gotIngresses, ingServices, ingSlices, ingFindings, ingHist>>

MCInit == Init /\ Ingress!Init

\* Before the first List a move leads to another initial state, and after the last
\* one Scan no longer looks: neither is explored.
Reading == (at = "slices" /\ ~err) \/ (ingAt \in {"services", "slices"} /\ ~ingErr)

\* The cluster moves for both; each Scan's observer sees it.
MCClusterMoves ==
  /\ Reading
  /\ (NetworkMoves /\ UNCHANGED ingresses) \/ Ingress!IngressMoves
  /\ Abs!Observe(eligible', uses') /\ UNCHANGED scan
  /\ Ingress!Observe
  /\ UNCHANGED <<ingAt, ingErr, gotIngresses, ingServices, ingSlices, ingFindings>>

MCRest == ~Reading /\ UNCHANGED <<network, ingresses, ServiceScan, IngressScan>>

MCNext ==
  \/ Scan /\ UNCHANGED <<ingresses, IngressScan>>
  \/ Ingress!Scan /\ UNCHANGED ServiceScan
  \/ MCClusterMoves
  \/ MCRest

MCSpec == MCInit /\ [][MCNext]_<<network, ingresses, ServiceScan, IngressScan>>

\* The Scans share nothing but the cluster, which moves as it likes: one of them is
\* followed in each behaviour, over the objects that can matter to it.
OneScanAtATime ==
  \/ /\ ingAt' = "ingresses" /\ ~ingErr' /\ ingresses' = EmptyFcn
     /\ <<"a", "api">> \notin DOMAIN services' /\ Slice("api", 1) \notin DOMAIN slices'
  \/ /\ at' = "services" /\ ~err' /\ <<"b", "web">> \notin DOMAIN services'
     /\ \A k \in DOMAIN services' : services'[k].ignore = "false"
     /\ {Slice("web", 2), Slice(Unlabelled, 1)} \cap DOMAIN slices' = {}

\* The variables of both Scans keep their types.
EveryTypeOK == TypeOK /\ Ingress!TypeOK

\* OrphanedIngress's properties, under names of this module.
DeadIngressIsReported == Ingress!DeadIngressIsReported
StandingRouteIsNotReported == Ingress!StandingRouteIsNotReported
OnlyHandoverMisleads == Ingress!OnlyHandoverMisleads
=============================================================================

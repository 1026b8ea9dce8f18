------------------------------ MODULE Network ------------------------------
(***************************************************************************)
(* The Services and EndpointSlices that zero-endpoint-service and          *)
(* orphaned-ingress read, and what both detectors make of the slices       *)
(* (pkg/detector/service.go).  A slice is the set of the Ready conditions  *)
(* of its endpoints: the code counts them, and compares the count with 0.  *)
(***************************************************************************)
EXTENDS Cluster

CONSTANTS
  Services,       \* the keys <<namespace, name>> a Service may have
  ServiceStates,  \* what it may be: a set of [type |-> , ignore |-> a label]
  Slices,         \* the EndpointSlices there may be: [ns |-> , service |-> , id |-> ]
  Endpoints,      \* the sets of Ready conditions a slice may hold
  Unlabelled      \* no kubernetes.io/service-name label

\* No Service has the name that stands for the missing label.
ASSUME ServicesAssumption == \A k \in Services : k = <<k[1], k[2]>> /\ k[2] # Unlabelled

VARIABLES
  services,  \* the cluster's Services: services[k] is k's state
  slices     \* the cluster's EndpointSlices

network == <<services, slices>>

\* Mutant: an endpoint without a Ready condition is taken for one that is not ready.
endpointIsReadyIfSaid(condition) == condition = "true"

\* The API's rule: "A nil value should be interpreted as true."
endpointIsReady(condition) == condition \in {"nil", "true"}

\* The keys that readyEndpointCountByService counts more than 0 for.
withReadyEndpoints(sls) ==
  {<<sl.ns, sl.service>> : sl \in {s \in DOMAIN sls :
     s.service # Unlabelled /\ \E condition \in sls[s] : endpointIsReady(condition)}}

\* The Services with a ready endpoint, said without the code.
Serving ==
  {k \in Services : \E sl \in DOMAIN slices :
     /\ sl.ns = k[1] /\ sl.service = k[2]
     /\ slices[sl] \cap {"nil", "true"} # {}}

-----------------------------------------------------------------------------
(* Users create and delete Services; slices follow in steps of their own,    *)
(* or are written by hand.                                                   *)

InitNetwork ==
  /\ services \in PartialFcns(Services, ServiceStates)
  /\ slices \in PartialFcns(Slices, Endpoints)

CreateOrUpdateService(k, st) == services' = Put(services, k, st) /\ UNCHANGED slices

DeleteService(k) ==
  /\ k \in DOMAIN services
  /\ services' = Delete(services, k)
  /\ UNCHANGED slices

CreateOrUpdateSlice(sl, eps) == slices' = Put(slices, sl, eps) /\ UNCHANGED services

DeleteSlice(sl) ==
  /\ sl \in DOMAIN slices
  /\ slices' = Delete(slices, sl)
  /\ UNCHANGED services

NetworkMoves ==
  \/ \E k \in Services : DeleteService(k) \/ \E st \in ServiceStates : CreateOrUpdateService(k, st)
  \/ \E sl \in Slices : DeleteSlice(sl) \/ \E eps \in Endpoints : CreateOrUpdateSlice(sl, eps)

NetworkTypeOK ==
  /\ services \in PartialFcns(Services, ServiceStates)
  /\ slices \in PartialFcns(Slices, Endpoints)
=============================================================================

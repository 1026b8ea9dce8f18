-------------------------- MODULE OrphanedIngress --------------------------
(***************************************************************************)
(* OrphanedIngressDetector.Scan (pkg/detector/ingress.go): Ingresses all   *)
(* of whose backends are dead.  Whether a backend is dead is judged from   *)
(* two Lists taken after that of the Ingresses, the Services' and the      *)
(* EndpointSlices', which have to be joined: this is no OrphanScan.        *)
(***************************************************************************)
EXTENDS Network

CONSTANTS
  Ingresses,   \* the keys <<namespace, name>> an Ingress may have
  IngressStates,  \* what it may be: a set of [default |-> a name or NoBackend,
                  \* paths |-> those its rules' paths refer to, ignore |-> a label]
  NoBackend    \* no default backend, or a backend that is no Service

VARIABLES
  ingresses,  \* the cluster's Ingresses: ingresses[i] is i's state
  at,         \* "ingresses", "services", "slices", "loop" or "returned"
  err,        \* Scan has returned an error
  gotIngresses, gotServices, gotSlices,  \* the Lists' answers, locals of Scan
  findings,   \* what Scan returns
  hist        \* what was true while Scan read: no code, an observer

cluster == <<network, ingresses>>
scan == <<at, err, gotIngresses, gotServices, gotSlices, findings>>
vars == <<cluster, scan, hist>>

-----------------------------------------------------------------------------
(* What the code computes from the answers *)

\* Mutant: the default backend is left out.
pathServiceNames(ing) == ing.paths \ {NoBackend}

backendServiceNames(ing) == ({ing.default} \cup ing.paths) \ {NoBackend}

\* Mutant: an ExternalName Service is expected to have endpoints.
deadIfUnready(k, svcs, sls) == k \notin DOMAIN svcs \/ k \notin withReadyEndpoints(sls)

dead(k, svcs, sls) ==
  \/ k \notin DOMAIN svcs
  \/ svcs[k].type # "ExternalName" /\ k \notin withReadyEndpoints(sls)

allDead(i, ing, svcs, sls) == \A b \in backendServiceNames(ing) : dead(<<i[1], b>>, svcs, sls)

-----------------------------------------------------------------------------
(* What an Ingress that routes nowhere means, said without the code *)

External == {k \in DOMAIN services : services[k].type = "ExternalName"}
Live == External \cup (DOMAIN services \cap Serving)

Routes(i, ing) == {<<i[1], b>> : b \in ({ing.default} \cup ing.paths) \ {NoBackend}}

Dead ==
  {i \in DOMAIN ingresses :
     /\ ingresses[i].ignore # "true"
     /\ Routes(i, ingresses[i]) # {}
     /\ Routes(i, ingresses[i]) \cap Live = {}}

\* same: the Ingresses that have not changed since they were listed.
NothingYet ==
  [same |-> {}, everDead |-> {}, alwaysDead |-> {}, external |-> {}, serving |-> {},
   lateLive |-> {}, lateExternal |-> {}, leftover |-> {},
   listed |-> EmptyFcn]

Begin ==
  [same |-> DOMAIN ingresses, everDead |-> Dead, alwaysDead |-> Dead,
   external |-> External,                  \* ExternalName Services at every instant
   serving |-> DOMAIN services \cap Serving,  \* with a ready endpoint at every instant
   lateLive |-> {}, lateExternal |-> {},   \* those when the slices are listed, and
   leftover |-> {},                        \* what is ready without its Service then
   listed |-> EmptyFcn]                    \* the Services when they are listed

Observe ==
  hist' = IF err \/ at \notin {"services", "slices"} THEN hist
          ELSE [hist EXCEPT
                  !.same = {i \in hist.same \cap DOMAIN ingresses' :
                              ingresses'[i] = gotIngresses[i]},
                  !.everDead = @ \cup Dead',
                  !.alwaysDead = @ \cap Dead',
                  !.external = @ \cap External',
                  !.serving = @ \cap DOMAIN services' \cap Serving']

-----------------------------------------------------------------------------
(* Scan *)

Init ==
  /\ InitNetwork
  /\ ingresses \in PartialFcns(Ingresses, IngressStates)
  /\ at = "ingresses"
  /\ err = FALSE
  /\ gotIngresses = EmptyFcn
  /\ gotServices = EmptyFcn
  /\ gotSlices = EmptyFcn
  /\ findings = {}
  /\ hist = NothingYet

ListIngresses ==
  /\ ~err /\ at = "ingresses"
  /\ gotIngresses' = ingresses
  /\ at' = "services"
  /\ hist' = Begin
  /\ UNCHANGED <<cluster, err, gotServices, gotSlices, findings>>

\* Mutant: a failed List of the Services is taken for an empty one.
ListServicesOrNone ==
  /\ ~err /\ at = "services"
  /\ gotServices' \in {services, EmptyFcn}
  /\ at' = "slices"
  /\ hist' = [hist EXCEPT !.listed = services]
  /\ UNCHANGED <<cluster, err, gotIngresses, gotSlices, findings>>

ListServices ==
  /\ ~err /\ at = "services"
  /\ gotServices' = services
  /\ at' = "slices"
  /\ hist' = [hist EXCEPT !.listed = services]
  /\ UNCHANGED <<cluster, err, gotIngresses, gotSlices, findings>>

ListSlices ==
  /\ ~err /\ at = "slices"
  /\ gotSlices' = slices
  /\ at' = "loop"
  /\ hist' = [hist EXCEPT !.lateLive = Live, !.lateExternal = External,
                         !.leftover = Serving \ DOMAIN services]
  /\ UNCHANGED <<cluster, err, gotIngresses, gotServices, findings>>

ListFails ==
  /\ ~err /\ at \in {"ingresses", "services", "slices"}
  /\ err' = TRUE
  /\ UNCHANGED <<cluster, at, gotIngresses, gotServices, gotSlices, findings, hist>>

\* Mutant: a finding loses its namespace, as a cluster-scoped kind's does.
ReturnWithoutNamespace ==
  /\ ~err /\ at = "loop"
  /\ findings' = {<<"", i[2]>> : i \in DOMAIN gotIngresses}
  /\ at' = "returned"
  /\ UNCHANGED <<cluster, err, gotIngresses, gotServices, gotSlices, hist>>

\* The loop over ingresses.Items, and the return.
Return ==
  /\ ~err /\ at = "loop"
  /\ findings' = {i \in DOMAIN gotIngresses :
                    /\ backendServiceNames(gotIngresses[i]) # {}
                    /\ allDead(i, gotIngresses[i], gotServices, gotSlices)
                    /\ ~isIgnored(gotIngresses[i].ignore)}
  /\ at' = "returned"
  /\ UNCHANGED <<cluster, err, gotIngresses, gotServices, gotSlices, hist>>

Scan == ListIngresses \/ ListServices \/ ListSlices \/ ListFails \/ Return

-----------------------------------------------------------------------------
(* The cluster *)

CreateOrUpdateIngress(i, ing) ==
  ingresses' = Put(ingresses, i, ing) /\ UNCHANGED network

DeleteIngress(i) ==
  /\ i \in DOMAIN ingresses
  /\ ingresses' = Delete(ingresses, i)
  /\ UNCHANGED network

IngressMoves ==
  \E i \in Ingresses :
    DeleteIngress(i) \/ \E ing \in IngressStates : CreateOrUpdateIngress(i, ing)

ClusterMoves ==
  /\ (NetworkMoves /\ UNCHANGED ingresses) \/ IngressMoves
  /\ Observe
  /\ UNCHANGED scan

Next == Scan \/ ClusterMoves

Spec == Init /\ [][Next]_vars

-----------------------------------------------------------------------------
(* Properties *)

TypeOK ==
  /\ NetworkTypeOK
  /\ ingresses \in PartialFcns(Ingresses, IngressStates)
  /\ gotIngresses \in PartialFcns(Ingresses, IngressStates)
  /\ gotServices \in PartialFcns(Services, ServiceStates)
  /\ gotSlices \in PartialFcns(Slices, Endpoints)
  /\ at \in {"ingresses", "services", "slices", "loop", "returned"} /\ err \in BOOLEAN
  /\ findings \subseteq Ingresses

Reported == at = "returned"

\* An Ingress that routed nowhere while Scan was reading, and was not changed meanwhile,
\* is reported (README "orphaned-ingress": backends all missing or dead), unless a
\* Service it refers to went after it had been listed and left ready endpoints behind.
DeadIngressIsReported ==
  Reported => \A i \in (hist.same \cap hist.alwaysDead) \ findings :
    Routes(i, gotIngresses[i]) \cap DOMAIN hist.listed \cap hist.leftover # {}

\* An Ingress with one backend that was live all the time, by its endpoints or as an
\* ExternalName, is not reported whatever the others did (ingress.go:52-59).
StandingRouteIsNotReported ==
  Reported => \A i \in findings \cap hist.same :
    Routes(i, gotIngresses[i]) \cap (hist.external \cup hist.serving) = {}

\* A reported Ingress that was not changed and routed somewhere at every instant was
\* caught in a handover: of its backends that were live when the slices were listed,
\* each was missing, or was not the ExternalName it is, when the Services were.
OnlyHandoverMisleads ==
  Reported => \A i \in (findings \cap hist.same) \ hist.everDead :
    LET late == Routes(i, gotIngresses[i]) \cap hist.lateLive
    IN  /\ late # {}
        /\ \A k \in late \cap DOMAIN hist.listed :
             k \in hist.lateExternal /\ hist.listed[k].type # "ExternalName"
=============================================================================

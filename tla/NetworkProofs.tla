---------------------------- MODULE NetworkProofs ----------------------------
(***************************************************************************)
(* The two detectors that read Services and EndpointSlices.                *)
(*                                                                         *)
(* ZeroEndpointServiceDetector.Scan implements OrphanScan, for any         *)
(* Services, any EndpointSlices and any changes of them; so a Service that *)
(* always had a ready endpoint is not reported, whichever slice holds it.  *)
(*                                                                         *)
(* OrphanedIngressDetector.Scan joins the answers of two later Lists and   *)
(* is no OrphanScan: its promises are proved from an invariant of its own, *)
(* which says after each List how the answer stands to the record.         *)
(***************************************************************************)
EXTENDS MCNetwork, TLAPS

\* The theorems about OrphanScan, read with this module's eligible, uses, phase, ...
P == INSTANCE OrphanScanProofs WITH Resources <- Services, Sources <- {"slices"}

-----------------------------------------------------------------------------
(* Type correctness *)

LEMMA NetworkMovesStayInside ==
  ASSUME NetworkTypeOK, NetworkMoves PROVE NetworkTypeOK'
<1> USE DEF NetworkTypeOK
<1>1. ASSUME NEW k \in Services, NEW st \in ServiceStates, CreateOrUpdateService(k, st)
      PROVE  NetworkTypeOK'
  BY <1>1 DEF CreateOrUpdateService, Put, PartialFcns
<1>2. ASSUME NEW k \in Services, DeleteService(k) PROVE NetworkTypeOK'
  BY <1>2 DEF DeleteService, Delete, Restrict, PartialFcns
<1>3. ASSUME NEW sl \in Slices, NEW eps \in Endpoints, CreateOrUpdateSlice(sl, eps)
      PROVE  NetworkTypeOK'
  BY <1>3 DEF CreateOrUpdateSlice, Put, PartialFcns
<1>4. ASSUME NEW sl \in Slices, DeleteSlice(sl) PROVE NetworkTypeOK'
  BY <1>4 DEF DeleteSlice, Delete, Restrict, PartialFcns
<1> QED BY <1>1, <1>2, <1>3, <1>4 DEF NetworkMoves

LEMMA InitIsTyped == Init => TypeOK
<1>1. ASSUME NEW S, NEW T PROVE EmptyFcn \in PartialFcns(S, T)
  BY DEF EmptyFcn, PartialFcns
<1> QED BY <1>1 DEF Init, InitNetwork, TypeOK, NetworkTypeOK

LEMMA StepKeepsTypeOK == TypeOK /\ [Next]_vars => TypeOK'
<1> SUFFICES ASSUME TypeOK, [Next]_vars PROVE TypeOK'
  OBVIOUS
<1> USE DEF TypeOK
<1>1. CASE ListServices
  BY <1>1 DEF ListServices, network, NetworkTypeOK
<1>2. CASE ListSlices
  BY <1>2 DEF ListSlices, network, NetworkTypeOK
<1>3. CASE ListFails
  BY <1>3 DEF ListFails, network, NetworkTypeOK
<1>4. CASE Return
  <2>1. DOMAIN gotServices \subseteq Services
    BY DEF PartialFcns
  <2> QED BY <1>4, <2>1 DEF Return, network, NetworkTypeOK
<1>5. CASE ClusterMoves
  BY <1>5, NetworkMovesStayInside DEF ClusterMoves, scan
<1>6. CASE UNCHANGED vars
  BY <1>6 DEF vars, network, scan, NetworkTypeOK
<1> QED BY <1>1, <1>2, <1>3, <1>4, <1>5, <1>6 DEF Next, Scan

\* The variables of ZeroEndpointService keep their types.
THEOREM TypeOKHolds == Spec => []TypeOK
BY InitIsTyped, StepKeepsTypeOK, PTL DEF Spec

-----------------------------------------------------------------------------
(* The step simulation *)

LEMMA ViewIsTyped ==
  TypeOK => eligible \subseteq Services /\ uses \in [{"slices"} -> SUBSET Services]
<1> SUFFICES ASSUME TypeOK PROVE eligible \subseteq Services /\ uses \in [{"slices"} -> SUBSET Services]
  OBVIOUS
<1>1. DOMAIN services \subseteq Services
  BY DEF TypeOK, NetworkTypeOK, PartialFcns
<1> QED BY <1>1 DEF eligible, Exposed, uses, Serving

\* What the code counts in any slices is what has a ready endpoint in them.
LEMMA CountedIsReady ==
  ASSUME NEW sls
  PROVE  withReadyEndpoints(sls) \cap Services =
           {k \in Services : \E sl \in DOMAIN sls :
              sl.ns = k[1] /\ sl.service = k[2] /\ sls[sl] \cap {"nil", "true"} # {}}
<1> DEFINE Ready(sl) == sls[sl] \cap {"nil", "true"} # {}
           Counted(sl) == sl.service # Unlabelled /\ \E c \in sls[sl] : endpointIsReady(c)
<1>1. ASSUME NEW sl, sl.service # Unlabelled PROVE Counted(sl) <=> Ready(sl)
  BY <1>1 DEF endpointIsReady
<1>2. ASSUME NEW k \in Services
      PROVE  k \in withReadyEndpoints(sls) <=>
               \E sl \in DOMAIN sls : sl.ns = k[1] /\ sl.service = k[2] /\ Ready(sl)
  <2>1. k = <<k[1], k[2]>> /\ k[2] # Unlabelled
    BY ServicesAssumption
  <2>2. withReadyEndpoints(sls) = {<<sl.ns, sl.service>> : sl \in {s \in DOMAIN sls : Counted(s)}}
    BY DEF withReadyEndpoints
  <2>3. k \in withReadyEndpoints(sls) <=>
          \E sl \in DOMAIN sls : Counted(sl) /\ k = <<sl.ns, sl.service>>
    BY <2>2
  <2>4. ASSUME NEW sl PROVE k = <<sl.ns, sl.service>> <=> sl.ns = k[1] /\ sl.service = k[2]
    BY <2>1
  <2> HIDE DEF Ready, Counted
  <2> QED BY <1>1, <2>1, <2>3, <2>4
<1> QED BY <1>2

LEMMA InitRefines == TypeOK /\ Init => P!Init
<1> SUFFICES ASSUME TypeOK, Init PROVE P!Init
  OBVIOUS
<1>1. candidates = {} /\ seen = [s \in {"slices"} |-> {}]
  BY DEF Init, candidates, Exposed, EmptyFcn, seen, withReadyEndpoints
<1>2. phase = "start" /\ read = {}
  BY DEF Init, phase, read
<1>3. hist = P!NothingYet
  BY DEF Init, Abs!NothingYet, P!NothingYet
<1> QED BY <1>1, <1>2, <1>3, ViewIsTyped DEF P!Init, Init

LEMMA ListServicesRefines == TypeOK /\ ListServices => P!ReadCandidates
<1> SUFFICES ASSUME TypeOK, ListServices PROVE P!ReadCandidates
  OBVIOUS
<1>1. phase = "start" /\ phase' = "reading" /\ UNCHANGED read
  BY DEF ListServices, phase, read
<1>2. candidates' = eligible /\ UNCHANGED <<eligible, uses, seen>>
  BY DEF ListServices, candidates, eligible, uses, seen, network, Serving
<1>3. hist' = P!BeginWith(eligible, uses) /\ UNCHANGED findings
  BY DEF ListServices, Abs!BeginWith, P!BeginWith, Abs!OrphansOf, P!OrphansOf,
         Abs!UsedIn, P!UsedIn
<1> QED BY <1>1, <1>2, <1>3 DEF P!ReadCandidates

LEMMA ListSlicesRefines == TypeOK /\ ListSlices => P!ReadSource("slices")
<1> SUFFICES ASSUME TypeOK, ListSlices PROVE P!ReadSource("slices")
  OBVIOUS
<1>1. phase = "reading" /\ UNCHANGED phase
  BY DEF ListSlices, phase
<1>2. "slices" \notin read /\ read' = read \cup {"slices"}
  BY DEF ListSlices, read
<1>3. withReadyEndpoints(slices) \cap Services = Serving
  BY CountedIsReady DEF Serving
<1>4. seen' = [seen EXCEPT !["slices"] = uses["slices"]]
  BY <1>3 DEF ListSlices, seen, uses
<1>5. UNCHANGED <<eligible, uses, candidates, findings, hist>>
  BY DEF ListSlices, eligible, uses, candidates, network, Serving
<1> QED BY <1>1, <1>2, <1>4, <1>5 DEF P!ReadSource

LEMMA ListFailsRefines == TypeOK /\ ListFails => P!Fail
<1> SUFFICES ASSUME TypeOK, ListFails PROVE P!Fail
  OBVIOUS
<1>1. phase \in {"start", "reading"} /\ phase' = "failed" /\ UNCHANGED read
  BY DEF ListFails, TypeOK, phase, read
<1>2. UNCHANGED <<eligible, uses, candidates, seen, findings, hist>>
  BY DEF ListFails, eligible, uses, candidates, seen, network, Serving
<1> QED BY <1>1, <1>2 DEF P!Fail

LEMMA ReturnRefines == TypeOK /\ Return => P!Report
<1> SUFFICES ASSUME TypeOK, Return PROVE P!Report
  OBVIOUS
<1>1. phase = "reading" /\ read = {"slices"} /\ phase' = "reported" /\ UNCHANGED read
  BY DEF Return, phase, read
<1>2. UNCHANGED <<eligible, uses, candidates, seen, hist>>
  BY DEF Return, eligible, uses, candidates, seen, network, Serving
<1>3. DOMAIN gotServices \subseteq Services
  BY DEF TypeOK, PartialFcns
<1>4. P!UsedIn(seen) = seen["slices"]
  BY DEF P!UsedIn, seen
<1>5. findings' = candidates \ seen["slices"]
  BY <1>3 DEF Return, candidates, Exposed, seen, isIgnored
<1> QED BY <1>1, <1>2, <1>4, <1>5 DEF P!Report, P!OrphansOf

LEMMA ClusterMovesRefines == TypeOK' /\ ClusterMoves => P!ClusterMoves
<1> SUFFICES ASSUME TypeOK', ClusterMoves PROVE P!ClusterMoves
  OBVIOUS
<1>1. eligible' \in SUBSET Services /\ uses' \in [{"slices"} -> SUBSET Services]
  <2>1. DOMAIN services' \subseteq Services
    BY DEF TypeOK, NetworkTypeOK, PartialFcns
  <2> QED BY <2>1 DEF eligible, Exposed, uses, Serving
<1>2. UNCHANGED P!scan
  BY DEF ClusterMoves, scan, P!scan, phase, candidates, read, seen
<1>3. P!Observe(eligible', uses')
  BY DEF ClusterMoves, Abs!Observe, P!Observe, Abs!Reading, P!Reading, Abs!ExtendWith,
         P!ExtendWith, Abs!OrphansOf, P!OrphansOf, Abs!UsedIn, P!UsedIn
<1> QED BY <1>1, <1>2, <1>3 DEF P!ClusterMoves

LEMMA StepRefines == TypeOK /\ TypeOK' /\ [Next]_vars => [P!Next]_P!vars
<1>1. CASE UNCHANGED vars
  BY <1>1 DEF vars, network, scan, P!vars, P!scan, eligible, uses, phase, candidates,
             read, seen, Serving
<1> QED
  BY <1>1, ListServicesRefines, ListSlicesRefines, ListFailsRefines, ReturnRefines,
     ClusterMovesRefines
  DEF Next, Scan, P!Next

LEMMA Refinement == Spec => P!Spec
<1>1. Init => TypeOK
  BY InitIsTyped
<1>2. Init => P!Init
  BY <1>1, InitRefines
<1> QED BY <1>2, StepRefines, TypeOKHolds, PTL DEF Spec, P!Spec

-----------------------------------------------------------------------------
(* The theorems *)

\* Scan implements OrphanScan with the EndpointSlices as its only source.
THEOREM ImplementsOrphanScanHolds == Spec => ImplementsOrphanScan
<1>1. P!Init => Abs!Init
  BY DEF P!Init, Abs!Init, P!NothingYet, Abs!NothingYet
<1>2. [P!Next]_P!vars => [Abs!Next]_Abs!vars
  BY DEF P!Next, Abs!Next, P!vars, Abs!vars, P!scan, Abs!scan,
         P!ReadCandidates, Abs!ReadCandidates, P!ReadSource, Abs!ReadSource,
         P!Report, Abs!Report, P!Fail, Abs!Fail, P!ClusterMoves, Abs!ClusterMoves,
         P!BeginWith, Abs!BeginWith, P!Observe, Abs!Observe, P!Reading, Abs!Reading,
         P!ExtendWith, Abs!ExtendWith, P!OrphansOf, Abs!OrphansOf, P!UsedIn, Abs!UsedIn
<1> QED BY <1>1, <1>2, Refinement, PTL DEF P!Spec, Abs!Spec, ImplementsOrphanScan

\* A reported Service that was exposed all along was, at some instant of the Scan,
\* without a ready endpoint in any slice: a rollout is never reported.
THEOREM RolledServiceIsNotReportedHolds == Spec => []RolledServiceIsNotReported
<1>1. P!OneSourceIsNeverMisled => RolledServiceIsNotReported
  BY DEF P!OneSourceIsNeverMisled, RolledServiceIsNotReported,
         Abs!OneSourceIsNeverMisled, P!Reported, Abs!Reported
<1> QED BY <1>1, Refinement, P!OneSourceIsNeverMisledHolds, PTL

-----------------------------------------------------------------------------
(* OrphanedIngress: the inductive invariant *)

\* What the observer's record holds.
IngressRecord ==
  [same : SUBSET Ingresses, everDead : SUBSET Ingresses, alwaysDead : SUBSET Ingresses,
   external : SUBSET Services, serving : SUBSET Services, lateLive : SUBSET Services,
   lateExternal : SUBSET Services, leftover : SUBSET Services,
   listed : Ingress!PartialFcns(Services, ServiceStates)]

RoutesOf(i) == Ingress!Routes(i, gotIngresses[i])

\* The Ingresses that were dead at each instant so far, and unchanged.
DeadSoFar == ingHist.same \cap ingHist.alwaysDead

\* The record is about the Ingresses that were listed.
IngressListInv ==
  ingAt # "ingresses" =>
    \A i \in ingHist.alwaysDead :
      i \in DOMAIN gotIngresses /\ gotIngresses[i].ignore # "true" /\ RoutesOf(i) # {}

\* Until the last List the record is up to date with the cluster.
IngressCurrentInv ==
  ingAt \in {"services", "slices"} /\ ~ingErr =>
    /\ \A i \in ingHist.same : i \in DOMAIN ingresses /\ ingresses[i] = gotIngresses[i]
    /\ ingHist.alwaysDead \subseteq Ingress!Dead /\ Ingress!Dead \subseteq ingHist.everDead
    /\ ingHist.external \subseteq Ingress!External
    /\ ingHist.serving \subseteq DOMAIN services \cap Ingress!Serving

\* What the Services' List has to do with the record.
ServiceListInv ==
  ingAt \in {"slices", "loop", "returned"} =>
    /\ ingHist.listed = ingServices
    /\ \A k \in ingHist.external : k \in DOMAIN ingServices /\ ingServices[k].type = "ExternalName"
    /\ ingHist.serving \subseteq DOMAIN ingServices
    /\ \A i \in DeadSoFar : \A k \in RoutesOf(i) \cap DOMAIN ingServices :
         ingServices[k].type # "ExternalName"

\* What the slices' List has to do with it.
SliceListInv ==
  ingAt \in {"loop", "returned"} =>
    LET ready == Ingress!withReadyEndpoints(ingSlices) \cap Services
    IN  /\ ingHist.serving \subseteq ready
        /\ ingHist.lateLive \subseteq ingHist.lateExternal \cup ready
        /\ \A i \in DeadSoFar : RoutesOf(i) \cap ready \subseteq ingHist.leftover
        /\ \A i \in ingHist.same \ ingHist.everDead :
             gotIngresses[i].ignore # "true" /\ RoutesOf(i) # {}
               => RoutesOf(i) \cap ingHist.lateLive # {}

IngressJudgedInv ==
  ingAt = "returned" =>
    ingFindings = {i \in DOMAIN gotIngresses :
                  /\ Ingress!backendServiceNames(gotIngresses[i]) # {}
                  /\ Ingress!allDead(i, gotIngresses[i], ingServices, ingSlices)
                  /\ ~Ingress!isIgnored(gotIngresses[i].ignore)}

IngressInv ==
  /\ Ingress!TypeOK /\ ingHist \in IngressRecord
  /\ IngressListInv /\ IngressCurrentInv /\ ServiceListInv /\ SliceListInv /\ IngressJudgedInv

-----------------------------------------------------------------------------
\* The instance's operators on the network are those of this module.
LEMMA SameNetwork ==
  /\ Ingress!Serving = Serving
  /\ \A sls : Ingress!withReadyEndpoints(sls) = withReadyEndpoints(sls)
BY DEF Ingress!Serving, Serving, Ingress!withReadyEndpoints, withReadyEndpoints,
       Ingress!endpointIsReady, endpointIsReady

LEMMA SameNetworkMoves ==
  ASSUME Ingress!NetworkTypeOK, Ingress!NetworkMoves PROVE Ingress!NetworkTypeOK'
<1>1. NetworkTypeOK
  BY DEF Ingress!NetworkTypeOK, NetworkTypeOK, Ingress!PartialFcns, PartialFcns
<1>2. NetworkMoves
  BY DEF Ingress!NetworkMoves, NetworkMoves, Ingress!CreateOrUpdateService,
         CreateOrUpdateService,
         Ingress!DeleteService, DeleteService, Ingress!CreateOrUpdateSlice, CreateOrUpdateSlice,
         Ingress!DeleteSlice, DeleteSlice, Ingress!Put, Put, Ingress!Delete, Delete,
         Ingress!Restrict, Restrict
<1> QED BY <1>1, <1>2, NetworkMovesStayInside
        DEF Ingress!NetworkTypeOK, NetworkTypeOK, Ingress!PartialFcns, PartialFcns

\* What is ready and what is external are Services; what is dead is an Ingress.
LEMMA WhatIsObserved ==
  ASSUME Ingress!TypeOK
  PROVE  /\ Ingress!Dead \subseteq DOMAIN ingresses /\ DOMAIN ingresses \subseteq Ingresses
         /\ Ingress!External \subseteq DOMAIN services /\ DOMAIN services \subseteq Services
         /\ Ingress!Live \subseteq DOMAIN services /\ Ingress!Serving \subseteq Services
BY DEF Ingress!TypeOK, Ingress!NetworkTypeOK, Ingress!PartialFcns, Ingress!Dead,
       Ingress!External, Ingress!Live, Ingress!Serving

LEMMA InitEstablishesIngressInv == Ingress!Init => IngressInv
<1> SUFFICES ASSUME Ingress!Init PROVE IngressInv
  OBVIOUS
<1>1. ASSUME NEW S, NEW T PROVE Ingress!EmptyFcn \in Ingress!PartialFcns(S, T)
  BY DEF Ingress!EmptyFcn, Ingress!PartialFcns
<1>2. Ingress!TypeOK
  BY <1>1 DEF Ingress!Init, Ingress!InitNetwork, Ingress!TypeOK, Ingress!NetworkTypeOK
<1>3. ingHist \in IngressRecord
  BY <1>1 DEF Ingress!Init, Ingress!NothingYet, IngressRecord
<1> QED BY <1>2, <1>3 DEF Ingress!Init, IngressInv, IngressListInv, IngressCurrentInv,
                          ServiceListInv, SliceListInv, IngressJudgedInv

LEMMA ListIngressesKeepsIngressInv == IngressInv /\ Ingress!ListIngresses => IngressInv'
<1> SUFFICES ASSUME IngressInv, Ingress!ListIngresses PROVE IngressInv'
  OBVIOUS
<1> USE DEF IngressInv, Ingress!ListIngresses
<1>1. Ingress!TypeOK'
  BY DEF Ingress!TypeOK, Ingress!NetworkTypeOK, Ingress!cluster, Ingress!network
<1>2. ingHist' \in IngressRecord
  <2>1. Ingress!EmptyFcn \in Ingress!PartialFcns(Services, ServiceStates)
    BY DEF Ingress!EmptyFcn, Ingress!PartialFcns
  <2> QED BY <2>1, WhatIsObserved DEF IngressRecord, Ingress!Begin
<1>3. IngressListInv' /\ IngressCurrentInv'
  <2>1. /\ ingHist'.same = DOMAIN ingresses
        /\ ingHist'.everDead = Ingress!Dead /\ ingHist'.alwaysDead = Ingress!Dead
        /\ ingHist'.external = Ingress!External
        /\ ingHist'.serving = DOMAIN services \cap Ingress!Serving
    BY DEF Ingress!Begin
  <2>2. UNCHANGED <<services, slices, ingresses, Ingress!Dead, Ingress!External, Ingress!Serving>>
    BY DEF Ingress!cluster, Ingress!network, Ingress!Dead, Ingress!External,
           Ingress!Serving, Ingress!Live
  <2>3. IngressListInv'
    BY <2>1 DEF IngressListInv, RoutesOf, Ingress!Dead, Ingress!cluster
  <2>4. IngressCurrentInv'
    BY <2>1, <2>2 DEF IngressCurrentInv
  <2> QED BY <2>3, <2>4
<1>4. ServiceListInv' /\ SliceListInv' /\ IngressJudgedInv'
  BY DEF ServiceListInv, SliceListInv, IngressJudgedInv
<1> QED BY <1>1, <1>2, <1>3, <1>4

LEMMA ListServicesKeepsIngressInv == IngressInv /\ Ingress!ListServices => IngressInv'
<1> SUFFICES ASSUME IngressInv, Ingress!ListServices PROVE IngressInv'
  OBVIOUS
<1> USE DEF IngressInv
<1>1. Ingress!TypeOK'
  BY DEF Ingress!ListServices, Ingress!TypeOK, Ingress!NetworkTypeOK, Ingress!cluster,
         Ingress!network
<1>2. /\ ingHist' = [ingHist EXCEPT !.listed = services] /\ ingServices' = services
      /\ ingAt = "services" /\ ~ingErr /\ ingAt' = "slices"
      /\ UNCHANGED <<services, slices, ingresses, ingErr, gotIngresses, ingSlices, ingFindings>>
  BY DEF Ingress!ListServices, Ingress!cluster, Ingress!network
<1>3. ingHist' \in IngressRecord
  BY <1>2 DEF IngressRecord, Ingress!TypeOK, Ingress!NetworkTypeOK
<1>4. /\ ingHist'.listed = services
      /\ ingHist'.same = ingHist.same /\ ingHist'.everDead = ingHist.everDead
      /\ ingHist'.alwaysDead = ingHist.alwaysDead /\ ingHist'.external = ingHist.external
      /\ ingHist'.serving = ingHist.serving
  BY <1>2 DEF IngressRecord
<1>5. UNCHANGED <<Ingress!Dead, Ingress!External, Ingress!Serving>>
  BY <1>2 DEF Ingress!Dead, Ingress!External, Ingress!Serving, Ingress!Live
<1>6. IngressListInv' /\ IngressCurrentInv'
  BY <1>2, <1>4, <1>5 DEF IngressListInv, IngressCurrentInv, RoutesOf
<1>7. ServiceListInv'
  <2>1. \A k \in ingHist.external : k \in DOMAIN services /\ services[k].type = "ExternalName"
    BY <1>2 DEF IngressCurrentInv, Ingress!External
  <2>2. ingHist.serving \subseteq DOMAIN services
    BY <1>2 DEF IngressCurrentInv
  <2>3. ASSUME NEW i \in DeadSoFar, NEW k \in RoutesOf(i) \cap DOMAIN services
        PROVE  services[k].type # "ExternalName"
    <3>1. i \in Ingress!Dead /\ ingresses[i] = gotIngresses[i]
      BY <1>2 DEF DeadSoFar, IngressCurrentInv
    <3> QED BY <3>1 DEF Ingress!Dead, RoutesOf, Ingress!Live, Ingress!External
  <2> QED BY <1>2, <1>4, <2>1, <2>2, <2>3 DEF ServiceListInv, DeadSoFar, RoutesOf
<1>8. SliceListInv' /\ IngressJudgedInv'
  BY <1>2 DEF SliceListInv, IngressJudgedInv
<1> QED BY <1>1, <1>3, <1>6, <1>7, <1>8

LEMMA ListSlicesKeepsIngressInv == IngressInv /\ Ingress!ListSlices => IngressInv'
<1> SUFFICES ASSUME IngressInv, Ingress!ListSlices PROVE IngressInv'
  OBVIOUS
<1> USE DEF IngressInv
<1>1. Ingress!TypeOK'
  BY DEF Ingress!ListSlices, Ingress!TypeOK, Ingress!NetworkTypeOK, Ingress!cluster,
         Ingress!network
<1>2. /\ ingHist' = [ingHist EXCEPT !.lateLive = Ingress!Live, !.lateExternal = Ingress!External,
                              !.leftover = Ingress!Serving \ DOMAIN services]
      /\ ingSlices' = slices
      /\ ingAt = "slices" /\ ~ingErr /\ ingAt' = "loop"
      /\ UNCHANGED <<services, slices, ingresses, ingErr, gotIngresses, ingServices, ingFindings>>
  BY DEF Ingress!ListSlices, Ingress!cluster, Ingress!network
<1>3. ingHist' \in IngressRecord
  BY <1>2, WhatIsObserved DEF IngressRecord
<1>4. /\ ingHist'.lateLive = Ingress!Live /\ ingHist'.lateExternal = Ingress!External
      /\ ingHist'.leftover = Ingress!Serving \ DOMAIN services /\ ingHist'.listed = ingHist.listed
      /\ ingHist'.same = ingHist.same /\ ingHist'.everDead = ingHist.everDead
      /\ ingHist'.alwaysDead = ingHist.alwaysDead /\ ingHist'.external = ingHist.external
      /\ ingHist'.serving = ingHist.serving
  BY <1>2 DEF IngressRecord
<1>5. IngressListInv' /\ IngressCurrentInv'
  BY <1>2, <1>4 DEF IngressListInv, IngressCurrentInv, RoutesOf
<1>6. ServiceListInv'
  BY <1>2, <1>4 DEF ServiceListInv, DeadSoFar, RoutesOf
<1>7. SliceListInv'
  <2>1. Ingress!withReadyEndpoints(slices) \cap Services = Ingress!Serving
    BY CountedIsReady, SameNetwork DEF Ingress!Serving
  <2>2. /\ ingHist.serving \subseteq Ingress!Serving
        /\ Ingress!Live \subseteq Ingress!External \cup Ingress!Serving
    BY <1>2 DEF IngressCurrentInv, Ingress!Live
  <2>3. ASSUME NEW i \in DeadSoFar
        PROVE  RoutesOf(i) \cap Ingress!Serving \subseteq Ingress!Serving \ DOMAIN services
    <3>1. i \in Ingress!Dead /\ ingresses[i] = gotIngresses[i]
      BY <1>2 DEF DeadSoFar, IngressCurrentInv
    <3> QED BY <3>1 DEF Ingress!Dead, RoutesOf, Ingress!Live
  <2>4. ASSUME NEW i \in ingHist.same \ ingHist.everDead,
               gotIngresses[i].ignore # "true", RoutesOf(i) # {}
        PROVE  RoutesOf(i) \cap Ingress!Live # {}
    <3>1. i \in DOMAIN ingresses \ Ingress!Dead /\ ingresses[i] = gotIngresses[i]
      BY <1>2 DEF IngressCurrentInv
    <3> QED BY <2>4, <3>1 DEF Ingress!Dead, RoutesOf
  <2> QED BY <1>2, <1>4, <2>1, <2>2, <2>3, <2>4 DEF SliceListInv, DeadSoFar, RoutesOf
<1>8. IngressJudgedInv'
  BY <1>2 DEF IngressJudgedInv
<1> QED BY <1>1, <1>3, <1>5, <1>6, <1>7, <1>8

LEMMA ListFailsKeepsIngressInv == IngressInv /\ Ingress!ListFails => IngressInv'
BY DEF IngressInv, Ingress!ListFails, Ingress!TypeOK, Ingress!NetworkTypeOK,
       Ingress!cluster, Ingress!network, IngressListInv, IngressCurrentInv,
       ServiceListInv, SliceListInv, IngressJudgedInv, RoutesOf, DeadSoFar

LEMMA ReturnKeepsIngressInv == IngressInv /\ Ingress!Return => IngressInv'
<1> SUFFICES ASSUME IngressInv, Ingress!Return PROVE IngressInv'
  OBVIOUS
<1> USE DEF IngressInv, Ingress!Return
<1>1. Ingress!TypeOK'
  BY DEF Ingress!TypeOK, Ingress!NetworkTypeOK, Ingress!cluster, Ingress!network,
         Ingress!PartialFcns
<1>2. IngressListInv' /\ IngressCurrentInv' /\ ServiceListInv' /\ SliceListInv'
  BY DEF IngressListInv, IngressCurrentInv, ServiceListInv, SliceListInv, RoutesOf,
         DeadSoFar
<1>3. IngressJudgedInv'
  BY DEF IngressJudgedInv
<1> QED BY <1>1, <1>2, <1>3

\* The cluster moves: until the last List the record follows it.
LEMMA MovesKeepIngressInv == IngressInv /\ Ingress!ClusterMoves => IngressInv'
<1> SUFFICES ASSUME IngressInv, Ingress!ClusterMoves PROVE IngressInv'
  OBVIOUS
<1> USE DEF IngressInv
<1>1. /\ UNCHANGED <<ingAt, ingErr, gotIngresses, ingServices, ingSlices, ingFindings>>
      /\ Ingress!Observe
  BY DEF Ingress!ClusterMoves, Ingress!scan
<1>2. Ingress!TypeOK'
  <2>1. Ingress!NetworkTypeOK'
    BY SameNetworkMoves DEF Ingress!ClusterMoves, Ingress!IngressMoves,
                            Ingress!CreateOrUpdateIngress, Ingress!DeleteIngress,
                            Ingress!network, Ingress!TypeOK, Ingress!NetworkTypeOK
  <2>2. ingresses' \in Ingress!PartialFcns(Ingresses, IngressStates)
    <3>1. ASSUME NEW i \in Ingresses, NEW ing \in IngressStates,
                 Ingress!CreateOrUpdateIngress(i, ing)
          PROVE  ingresses' \in Ingress!PartialFcns(Ingresses, IngressStates)
      BY <3>1 DEF Ingress!CreateOrUpdateIngress, Ingress!TypeOK, Ingress!Put,
                  Ingress!PartialFcns
    <3>2. ASSUME NEW i \in Ingresses, Ingress!DeleteIngress(i)
          PROVE  ingresses' \in Ingress!PartialFcns(Ingresses, IngressStates)
      BY <3>2 DEF Ingress!DeleteIngress, Ingress!TypeOK, Ingress!Delete, Ingress!Restrict,
                  Ingress!PartialFcns
    <3> QED BY <3>1, <3>2 DEF Ingress!ClusterMoves, Ingress!IngressMoves, Ingress!TypeOK
  <2> QED BY <1>1, <2>1, <2>2 DEF Ingress!TypeOK
<1>3. CASE ingErr \/ ingAt \notin {"services", "slices"}
  <2>1. UNCHANGED ingHist
    BY <1>1, <1>3 DEF Ingress!Observe
  <2>2. IngressListInv' /\ IngressCurrentInv' /\ ServiceListInv' /\ SliceListInv' /\ IngressJudgedInv'
    BY <1>1, <1>3, <2>1 DEF IngressListInv, IngressCurrentInv, ServiceListInv, SliceListInv,
                            IngressJudgedInv,
                            RoutesOf, DeadSoFar
  <2> QED BY <1>2, <2>1, <2>2
<1>4. CASE ~ingErr /\ ingAt \in {"services", "slices"}
  <2>1. /\ ingHist' \in IngressRecord
        /\ ingHist'.same = {i \in ingHist.same \cap DOMAIN ingresses' :
                               ingresses'[i] = gotIngresses[i]}
        /\ ingHist'.everDead = ingHist.everDead \cup Ingress!Dead'
        /\ ingHist'.alwaysDead = ingHist.alwaysDead \cap Ingress!Dead'
        /\ ingHist'.external = ingHist.external \cap Ingress!External'
        /\ ingHist'.serving = ingHist.serving \cap DOMAIN services' \cap Ingress!Serving'
        /\ ingHist'.listed = ingHist.listed
    <3>1. Ingress!Dead' \subseteq Ingresses
      BY <1>2 DEF Ingress!TypeOK, Ingress!NetworkTypeOK, Ingress!PartialFcns, Ingress!Dead
    <3>2. ingHist' = [ingHist EXCEPT
                     !.same = {i \in ingHist.same \cap DOMAIN ingresses' :
                                 ingresses'[i] = gotIngresses[i]},
                     !.everDead = @ \cup Ingress!Dead',
                     !.alwaysDead = @ \cap Ingress!Dead',
                     !.external = @ \cap Ingress!External',
                     !.serving = @ \cap DOMAIN services' \cap Ingress!Serving']
      BY <1>1, <1>4 DEF Ingress!Observe
    <3> QED BY <3>1, <3>2 DEF IngressRecord
  <2>2. IngressListInv' /\ IngressCurrentInv'
    BY <1>1, <1>4, <2>1 DEF IngressListInv, IngressCurrentInv, RoutesOf
  <2>3. ServiceListInv'
    BY <1>1, <1>4, <2>1 DEF ServiceListInv, RoutesOf, DeadSoFar
  <2>4. SliceListInv' /\ IngressJudgedInv'
    BY <1>1, <1>4 DEF SliceListInv, IngressJudgedInv
  <2> QED BY <1>2, <2>1, <2>2, <2>3, <2>4
<1> QED BY <1>3, <1>4

\* The invariant holds for any Ingresses, Services, slices and changes of them.
LEMMA IngressInvHolds == Ingress!Spec => []IngressInv
<1>1. IngressInv /\ UNCHANGED Ingress!vars => IngressInv'
  BY DEF IngressInv, Ingress!vars, Ingress!scan, Ingress!cluster, Ingress!network,
         Ingress!TypeOK, Ingress!NetworkTypeOK, IngressListInv, IngressCurrentInv,
         ServiceListInv, SliceListInv, IngressJudgedInv, RoutesOf, DeadSoFar, Ingress!Dead,
         Ingress!External, Ingress!Serving, Ingress!Live
<1>2. IngressInv /\ [Ingress!Next]_Ingress!vars => IngressInv'
  BY <1>1, ListIngressesKeepsIngressInv, ListServicesKeepsIngressInv, ListSlicesKeepsIngressInv,
     ListFailsKeepsIngressInv, ReturnKeepsIngressInv, MovesKeepIngressInv
  DEF Ingress!Next, Ingress!Scan
<1> QED BY <1>2, InitEstablishesIngressInv, PTL DEF Ingress!Spec

-----------------------------------------------------------------------------
(* OrphanedIngress: the theorems *)

\* An unchanged Ingress that routed nowhere from the first List to the last is reported,
\* or one of its Services went after it was listed and left ready endpoints behind.
THEOREM DeadIngressIsReportedHolds == Ingress!Spec => []DeadIngressIsReported
<1>1. IngressInv => DeadIngressIsReported
  <2> SUFFICES ASSUME IngressInv, ingAt = "returned", NEW i \in DeadSoFar, i \notin ingFindings
               PROVE  RoutesOf(i) \cap DOMAIN ingHist.listed \cap ingHist.leftover # {}
    BY DEF DeadIngressIsReported, Ingress!DeadIngressIsReported, Ingress!Reported,
           DeadSoFar, RoutesOf
  <2>1. i \in DOMAIN gotIngresses /\ gotIngresses[i].ignore # "true" /\ RoutesOf(i) # {}
    BY DEF IngressInv, IngressListInv, DeadSoFar
  <2>2. ~Ingress!allDead(i, gotIngresses[i], ingServices, ingSlices)
    BY <2>1 DEF IngressInv, IngressJudgedInv, Ingress!isIgnored, RoutesOf, Ingress!Routes,
                Ingress!backendServiceNames
  <2>3. PICK k \in RoutesOf(i) : ~Ingress!dead(k, ingServices, ingSlices)
    BY <2>2 DEF Ingress!allDead, RoutesOf, Ingress!Routes, Ingress!backendServiceNames
  <2>4. k \in DOMAIN ingServices /\ k \in Ingress!withReadyEndpoints(ingSlices)
    BY <2>3 DEF Ingress!dead, IngressInv, ServiceListInv
  <2>5. k \in Services
    BY <2>4 DEF IngressInv, Ingress!TypeOK, Ingress!PartialFcns
  <2> QED BY <2>4, <2>5 DEF IngressInv, ServiceListInv, SliceListInv
<1> QED BY <1>1, IngressInvHolds, PTL

\* One backend that was live at every instant keeps the Ingress out of the report.
THEOREM StandingRouteIsNotReportedHolds == Ingress!Spec => []StandingRouteIsNotReported
<1>1. IngressInv => StandingRouteIsNotReported
  <2> SUFFICES ASSUME IngressInv, ingAt = "returned", NEW i \in ingFindings, NEW k \in RoutesOf(i),
                      k \in ingHist.external \cup ingHist.serving
               PROVE  FALSE
    BY DEF StandingRouteIsNotReported, Ingress!StandingRouteIsNotReported, Ingress!Reported,
           RoutesOf
  <2>1. Ingress!dead(k, ingServices, ingSlices)
    BY DEF IngressInv, IngressJudgedInv, Ingress!allDead, RoutesOf, Ingress!Routes,
           Ingress!backendServiceNames
  <2> QED BY <2>1 DEF Ingress!dead, IngressInv, ServiceListInv, SliceListInv
<1> QED BY <1>1, IngressInvHolds, PTL

\* A wrong report is always a handover: each backend that was live when the slices were
\* listed was missing, or of another type, when the Services were.
THEOREM OnlyHandoverMisleadsHolds == Ingress!Spec => []OnlyHandoverMisleads
<1>1. IngressInv => OnlyHandoverMisleads
  <2> SUFFICES ASSUME IngressInv, ingAt = "returned",
                      NEW i \in (ingFindings \cap ingHist.same) \ ingHist.everDead
               PROVE  /\ RoutesOf(i) \cap ingHist.lateLive # {}
                      /\ \A k \in RoutesOf(i) \cap ingHist.lateLive \cap DOMAIN ingHist.listed :
                           k \in ingHist.lateExternal /\ ingHist.listed[k].type # "ExternalName"
    BY DEF OnlyHandoverMisleads, Ingress!OnlyHandoverMisleads, Ingress!Reported, RoutesOf
  <2>1. /\ gotIngresses[i].ignore # "true" /\ RoutesOf(i) # {}
        /\ \A k \in RoutesOf(i) : Ingress!dead(k, ingServices, ingSlices)
    BY DEF IngressInv, IngressJudgedInv, Ingress!isIgnored, Ingress!allDead, RoutesOf,
           Ingress!Routes, Ingress!backendServiceNames
  <2>2. RoutesOf(i) \cap ingHist.lateLive # {}
    BY <2>1 DEF IngressInv, SliceListInv
  <2>3. ASSUME NEW k \in RoutesOf(i) \cap ingHist.lateLive \cap DOMAIN ingHist.listed
        PROVE  k \in ingHist.lateExternal /\ ingHist.listed[k].type # "ExternalName"
    BY <2>1 DEF Ingress!dead, IngressInv, ServiceListInv, SliceListInv
  <2> QED BY <2>2, <2>3
<1> QED BY <1>1, IngressInvHolds, PTL

-----------------------------------------------------------------------------
(* Both over one cluster *)

\* A step of zero-endpoint-service leaves the cluster and the other Scan alone, and what
\* moves the cluster moves it for both.
LEMMA IngressRunsInMC == MCSpec => Ingress!Spec
<1>1. MCInit => Ingress!Init
  BY DEF MCInit
<1>2. ASSUME [MCNext]_<<network, ingresses, ServiceScan, IngressScan>>
      PROVE  [Ingress!Next]_Ingress!vars
  <2> USE DEF Ingress!vars, Ingress!cluster, Ingress!network, Ingress!scan, network, IngressScan
  <2>1. CASE Scan /\ UNCHANGED <<ingresses, IngressScan>>
    BY <2>1 DEF Scan, ListServices, ListSlices, ListFails, Return
  <2>2. CASE Ingress!Scan
    BY <2>2 DEF Ingress!Next
  <2>3. CASE MCClusterMoves
    <3>1. NetworkMoves => Ingress!NetworkMoves
      BY DEF Ingress!NetworkMoves, NetworkMoves, Ingress!CreateOrUpdateService,
             CreateOrUpdateService, Ingress!DeleteService, DeleteService,
             Ingress!CreateOrUpdateSlice, CreateOrUpdateSlice, Ingress!DeleteSlice,
             DeleteSlice, Ingress!Put, Put, Ingress!Delete, Delete, Ingress!Restrict, Restrict
    <3> QED BY <2>3, <3>1 DEF MCClusterMoves, Ingress!ClusterMoves, Ingress!Next
  <2>4. CASE MCRest \/ UNCHANGED <<network, ingresses, ServiceScan, IngressScan>>
    BY <2>4 DEF MCRest
  <2> QED BY <1>2, <2>1, <2>2, <2>3, <2>4 DEF MCNext
<1> QED BY <1>1, <1>2, PTL DEF MCSpec, Ingress!Spec

\* Both detectors' variables keep their types, whatever the interleaving of the Scans.
THEOREM EveryTypeOKHolds == MCSpec => []EveryTypeOK
<1>1. MCInit => TypeOK
  BY InitIsTyped DEF MCInit
<1>2. ASSUME TypeOK, [MCNext]_<<network, ingresses, ServiceScan, IngressScan>>
      PROVE  TypeOK'
  <2>1. CASE Scan
    BY <1>2, <2>1, StepKeepsTypeOK DEF Next
  <2>2. CASE NetworkMoves /\ UNCHANGED scan
    BY <1>2, <2>2, NetworkMovesStayInside DEF TypeOK, scan
  <2>3. CASE UNCHANGED <<network, scan>>
    BY <1>2, <2>3 DEF TypeOK, NetworkTypeOK, network, scan
  <2>4. Ingress!Scan \/ Ingress!IngressMoves => UNCHANGED network
    BY DEF Ingress!Scan, Ingress!ListIngresses, Ingress!ListServices, Ingress!ListSlices,
           Ingress!ListFails, Ingress!Return, Ingress!IngressMoves, Ingress!DeleteIngress,
           Ingress!CreateOrUpdateIngress, Ingress!cluster, Ingress!network, network
  <2> QED BY <1>2, <2>1, <2>2, <2>3, <2>4 DEF MCNext, MCClusterMoves, MCRest, ServiceScan
<1>3. IngressInv => Ingress!TypeOK
  BY DEF IngressInv
<1> QED BY <1>1, <1>2, <1>3, IngressRunsInMC, IngressInvHolds, PTL DEF MCSpec, EveryTypeOK
=============================================================================

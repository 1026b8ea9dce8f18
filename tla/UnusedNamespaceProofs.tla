----------------------- MODULE UnusedNamespaceProofs -----------------------
(***************************************************************************)
(* UnusedNamespaceDetector.Scan implements OrphanScan with its four kinds  *)
(* of workload as the sources, for any Namespaces and any changes of them; *)
(* what OrphanScanProofs shows of every such Scan holds of this one.       *)
(***************************************************************************)
EXTENDS UnusedNamespace, TLAPS

\* The theorems about OrphanScan, read with this module's eligible, uses, phase, ...
P == INSTANCE OrphanScanProofs WITH Resources <- Namespaces, Sources <- KindSet

LEMMA FourKinds ==
  /\ DOMAIN Kinds = 1..4 /\ Len(Kinds) = 4
  /\ KindSet = {"pods", "deployments", "statefulsets", "cronjobs"}
  /\ \A i, j \in 1..4 : Kinds[i] = Kinds[j] => i = j
BY DEF Kinds, KindSet

-----------------------------------------------------------------------------
(* Type correctness *)

LEMMA InitIsTyped == Init => TypeOK
<1>1. EmptyFcn \in PartialFcns(Namespaces, Labels)
  BY DEF EmptyFcn, PartialFcns
<1>2. NoWorkloads \in [KindSet -> SUBSET Namespaces]
  BY DEF NoWorkloads
<1>3. 0 \in 0..6
  OBVIOUS
<1> QED BY <1>1, <1>2, <1>3, Zenon DEF Init, TypeOK

LEMMA WorkloadsStayInside ==
  ASSUME TypeOK, NEW n \in Namespaces, NEW kind \in KindSet,
         FirstWorkload(kind, n) \/ LastWorkloadGone(kind, n)
  PROVE  /\ namespaces' \in PartialFcns(Namespaces, Labels)
         /\ workloads' \in [KindSet -> SUBSET DOMAIN namespaces']
BY DEF FirstWorkload, LastWorkloadGone, TypeOK

\* The variables of UnusedNamespace keep their types; in particular no workload is
\* ever in a Namespace that is gone.
THEOREM TypeOKHolds == Spec => []TypeOK
<1>1. TypeOK /\ [Next]_vars => TypeOK'
  <2> SUFFICES ASSUME TypeOK, [Next]_vars PROVE TypeOK'
    OBVIOUS
  <2> USE DEF TypeOK
  <2>1. CASE ListNamespaces
    BY <2>1 DEF ListNamespaces, cluster
  <2>2. CASE ListWorkloads
    <3>1. DOMAIN namespaces \subseteq Namespaces
      BY DEF PartialFcns
    <3>2. Kinds[at] \in KindSet /\ at \in 1..4
      BY <2>2, FourKinds DEF ListWorkloads, KindSet
    <3>3. gotWorkloads' \in [KindSet -> SUBSET Namespaces]
      BY <2>2, <3>1, <3>2 DEF ListWorkloads
    <3> QED BY <2>2, <3>2, <3>3 DEF ListWorkloads, cluster
  <2>3. CASE ListFails
    BY <2>3 DEF ListFails, cluster
  <2>4. CASE Return
    <3>1. DOMAIN gotNamespaces \subseteq Namespaces
      BY DEF PartialFcns
    <3> QED BY <2>4, <3>1 DEF Return, cluster
  <2>5. CASE ClusterMoves
    <3> DEFINE Inside == /\ namespaces' \in PartialFcns(Namespaces, Labels)
                         /\ workloads' \in [KindSet -> SUBSET DOMAIN namespaces']
    <3>1. UNCHANGED <<at, err, gotNamespaces, gotWorkloads, findings>>
      BY <2>5 DEF ClusterMoves, scan
    <3>2. ASSUME NEW n \in Namespaces, NEW l \in Labels, CreateOrLabelNamespace(n, l)
          PROVE  Inside
      <4>1. DOMAIN namespaces \subseteq DOMAIN namespaces'
        BY <3>2 DEF CreateOrLabelNamespace, Put
      <4> QED BY <3>2, <4>1 DEF CreateOrLabelNamespace, Put, PartialFcns
    <3>3. ASSUME NEW n \in Namespaces, DeleteNamespace(n) PROVE Inside
      <4>1. DOMAIN namespaces' = DOMAIN namespaces \ {n}
        BY <3>3 DEF DeleteNamespace, Delete, Restrict
      <4> QED BY <3>3, <4>1 DEF DeleteNamespace, Delete, Restrict, PartialFcns
    <3>4. ASSUME NEW n \in Namespaces, NEW kind \in KindSet,
                 FirstWorkload(kind, n) \/ LastWorkloadGone(kind, n)
          PROVE  Inside
      BY <3>4, WorkloadsStayInside
    <3>5. Inside
      BY <2>5, <3>2, <3>3, <3>4 DEF ClusterMoves
    <3> QED BY <3>1, <3>5
  <2>6. CASE UNCHANGED vars
    BY <2>6 DEF vars, cluster, scan
  <2> QED BY <2>1, <2>2, <2>3, <2>4, <2>5, <2>6 DEF Next, Scan
<1> QED BY <1>1, InitIsTyped, PTL DEF Spec

-----------------------------------------------------------------------------
(* The step simulation *)

LEMMA InitRefines == Init => P!Init
<1> SUFFICES ASSUME Init PROVE P!Init
  OBVIOUS
<1>1. TypeOK /\ DOMAIN namespaces \subseteq Namespaces
  BY InitIsTyped DEF TypeOK, PartialFcns
<1>2. eligible \in SUBSET Namespaces /\ uses \in [KindSet -> SUBSET Namespaces]
  BY <1>1 DEF TypeOK, eligible, uses
<1>3. candidates = {} /\ seen = [s \in KindSet |-> {}] /\ findings = {}
  BY DEF Init, candidates, EmptyFcn, seen, NoWorkloads
<1>4. phase = "start" /\ read = {}
  BY FourKinds DEF Init, phase, read
<1>5. hist = P!NothingYet
  BY DEF Init, Abs!NothingYet, P!NothingYet
<1> QED BY <1>2, <1>3, <1>4, <1>5 DEF P!Init

LEMMA ListNamespacesRefines == TypeOK /\ ListNamespaces => P!ReadCandidates
<1> SUFFICES ASSUME TypeOK, ListNamespaces PROVE P!ReadCandidates
  OBVIOUS
<1>1. phase = "start" /\ phase' = "reading" /\ UNCHANGED read
  BY FourKinds DEF ListNamespaces, phase, read
<1>2. candidates' = eligible /\ UNCHANGED <<eligible, uses, seen, findings>>
  BY DEF ListNamespaces, candidates, eligible, uses, seen, cluster
<1>3. hist' = P!BeginWith(eligible, uses)
  BY DEF ListNamespaces, Abs!BeginWith, P!BeginWith, Abs!OrphansOf, P!OrphansOf,
         Abs!UsedIn, P!UsedIn
<1> QED BY <1>1, <1>2, <1>3 DEF P!ReadCandidates

LEMMA ListWorkloadsRefines == TypeOK /\ ListWorkloads => P!ReadSource(Kinds[at])
<1> SUFFICES ASSUME TypeOK, ListWorkloads PROVE P!ReadSource(Kinds[at])
  OBVIOUS
<1>1. at \in 1..4 /\ at' = at + 1
  BY FourKinds DEF ListWorkloads
<1>2. phase = "reading" /\ UNCHANGED phase
  BY <1>1 DEF ListWorkloads, phase
<1>3. Kinds[at] \notin read /\ read' = read \cup {Kinds[at]}
  BY <1>1, FourKinds DEF read
<1>4. seen' = [seen EXCEPT ![Kinds[at]] = uses[Kinds[at]]]
  BY DEF ListWorkloads, seen, uses
<1>5. UNCHANGED <<eligible, uses, candidates, findings, hist>>
  BY DEF ListWorkloads, eligible, uses, candidates, cluster
<1> QED BY <1>2, <1>3, <1>4, <1>5 DEF P!ReadSource

LEMMA ListFailsRefines == TypeOK /\ ListFails => P!Fail
<1> SUFFICES ASSUME TypeOK, ListFails PROVE P!Fail
  OBVIOUS
<1>1. phase \in {"start", "reading"} /\ phase' = "failed"
  BY FourKinds DEF ListFails, phase, TypeOK
<1>2. UNCHANGED <<eligible, uses, candidates, read, seen, findings, hist>>
  BY DEF ListFails, eligible, uses, candidates, read, seen, cluster
<1> QED BY <1>1, <1>2 DEF P!Fail

LEMMA ReturnRefines == TypeOK /\ Return => P!Report
<1> SUFFICES ASSUME TypeOK, Return PROVE P!Report
  OBVIOUS
<1>1. phase = "reading" /\ phase' = "reported"
  BY DEF Return, phase
<1>2. read = KindSet /\ read' = KindSet
  BY FourKinds DEF Return, read, KindSet
<1>3. UNCHANGED <<eligible, uses, candidates, seen, hist>>
  BY DEF Return, eligible, uses, candidates, seen, cluster
<1>4. P!UsedIn(seen) = hasWorkloads
  BY DEF P!UsedIn, seen, hasWorkloads
<1>5. findings' = candidates \ hasWorkloads
  BY DEF Return, candidates, isIgnored
<1> QED BY <1>1, <1>2, <1>3, <1>4, <1>5 DEF P!Report, P!OrphansOf

LEMMA ClusterMovesRefines == TypeOK' /\ ClusterMoves => P!ClusterMoves
<1> SUFFICES ASSUME TypeOK', ClusterMoves PROVE P!ClusterMoves
  OBVIOUS
<1>1. DOMAIN namespaces' \subseteq Namespaces
  BY DEF TypeOK, PartialFcns
<1>2. eligible' \in SUBSET Namespaces /\ uses' \in [KindSet -> SUBSET Namespaces]
  BY <1>1 DEF TypeOK, eligible, uses
<1>3. UNCHANGED P!scan
  BY DEF ClusterMoves, scan, P!scan, phase, candidates, read, seen
<1>4. P!Observe(eligible', uses')
  BY DEF ClusterMoves, Abs!Observe, P!Observe, Abs!Reading, P!Reading, Abs!ExtendWith,
         P!ExtendWith, Abs!OrphansOf, P!OrphansOf, Abs!UsedIn, P!UsedIn
<1> QED BY <1>2, <1>3, <1>4 DEF P!ClusterMoves

LEMMA StepRefines == TypeOK /\ TypeOK' /\ [Next]_vars => [P!Next]_P!vars
<1>1. CASE UNCHANGED vars
  BY <1>1 DEF vars, cluster, scan, P!vars, P!scan, eligible, uses, phase, candidates,
             read, seen
<1>2. ListWorkloads => Kinds[at] \in KindSet
  BY DEF ListWorkloads, KindSet
<1> QED
  BY <1>1, <1>2, ListNamespacesRefines, ListWorkloadsRefines, ListFailsRefines,
     ReturnRefines, ClusterMovesRefines
  DEF Next, Scan, P!Next

LEMMA Refinement == Spec => P!Spec
BY InitRefines, StepRefines, TypeOKHolds, PTL DEF Spec, P!Spec

-----------------------------------------------------------------------------
(* The theorems *)

\* Scan implements OrphanScan with the four kinds of workload as its sources.
THEOREM ImplementsOrphanScanHolds == Spec => ImplementsOrphanScan
<1>1. P!Init => Abs!Init
  BY DEF P!Init, Abs!Init, P!NothingYet, Abs!NothingYet
<1>2. [P!Next]_P!vars => [Abs!Next]_Abs!vars
  BY DEF P!Next, Abs!Next, P!vars, Abs!vars, P!scan, Abs!scan,
         P!ReadCandidates, Abs!ReadCandidates, P!ReadSource, Abs!ReadSource,
         P!Report, Abs!Report, P!Fail, Abs!Fail, P!ClusterMoves, Abs!ClusterMoves,
         P!BeginWith, Abs!BeginWith, P!Observe, Abs!Observe, P!Reading, Abs!Reading,
         P!ExtendWith, Abs!ExtendWith, P!OrphansOf, Abs!OrphansOf, P!UsedIn, Abs!UsedIn
<1> QED BY <1>1, <1>2, Refinement, PTL DEF P!Spec, Abs!Spec, ImplementsOrphanScan

\* A Namespace without workloads throughout the Scan is reported.
THEOREM EmptyNamespaceIsReportedHolds == Spec => []EmptyNamespaceIsReported
<1>1. P!StandingOrphanIsReported => EmptyNamespaceIsReported
  BY DEF P!StandingOrphanIsReported, EmptyNamespaceIsReported,
         Abs!StandingOrphanIsReported, P!Reported, Abs!Reported
<1> QED BY <1>1, Refinement, P!StandingOrphanIsReportedHolds, PTL

\* A reported Namespace that was never without workloads is one that a kind moved
\* into after that kind had been listed.
THEOREM OnlyLateWorkloadMisleadsHolds == Spec => []OnlyLateWorkloadMisleads
<1>1. P!OnlyLateUseMisleads => OnlyLateWorkloadMisleads
  BY DEF P!OnlyLateUseMisleads, OnlyLateWorkloadMisleads,
         Abs!OnlyLateUseMisleads, P!Reported, Abs!Reported
<1> QED BY <1>1, Refinement, P!OnlyLateUseMisleadsHolds, PTL
=============================================================================

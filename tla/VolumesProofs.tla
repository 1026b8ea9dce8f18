---------------------------- MODULE VolumesProofs ----------------------------
(***************************************************************************)
(* unattached-pvc, alone and in the GitHub Action.                         *)
(*                                                                         *)
(* UnattachedPVCDetector.Scan implements OrphanScan, for any claims, Pods  *)
(* and StatefulSets and any changes of them, as long as no ordinal is too  *)
(* large for the code's int32.                                             *)
(*                                                                         *)
(* Beside orphaned-pv it bills an idle volume once, and the action counts  *)
(* and gates on what both have found, for any finite set of claims and     *)
(* volumes, any Pods and any inputs.                                       *)
(***************************************************************************)
EXTENDS GitHubAction, FiniteSetTheorems, TLAPS

\* The theorems about OrphanScan, read with this module's eligible, uses, phase, ...
P == INSTANCE OrphanScanProofs WITH Resources <- PVCs, Sources <- {"pods", "statefulsets"}

-----------------------------------------------------------------------------
(* UnattachedPVC: what the code computes is what the words say *)

\* Scan's conversion leaves an ordinal as it is.
LEMMA Int32Fits == ASSUME NEW n \in 0..(Int32Half - 1) PROVE Int32(n) = n
<1>1. Int32Half \in Nat /\ Int32Half > 0
  BY OrdinalsAssumption
<1>2. n + Int32Half \in 0..(2 * Int32Half - 1) /\ 2 * Int32Half > 0
  BY <1>1
<1>3. ASSUME NEW a \in Nat, NEW b \in Nat, a < b PROVE a % b = a
  BY <1>3
<1>4. (n + Int32Half) % (2 * Int32Half) = n + Int32Half
  BY <1>1, <1>2, <1>3
<1> QED BY <1>1, <1>4 DEF Int32

LEMMA ReferencedIsMounted ==
  ASSUME NEW ps
  PROVE  referencedPVCs(ps) \cap PVCs = UNION {MountedBy(pod) : pod \in ps}
<1>1. ASSUME NEW p \in PVCs, NEW pod
      PROVE  p \in {<<pod.ns, c>> : c \in pod.claims} <=> p[1] = pod.ns /\ p[2] \in pod.claims
  <2>1. p = <<p[1], p[2]>>
    BY PVCsAssumption
  <2>2. ASSUME NEW c PROVE p = <<pod.ns, c>> <=> p[1] = pod.ns /\ p[2] = c
    BY <2>1
  <2> QED BY <2>2
<1> QED BY <1>1 DEF referencedPVCs, MountedBy

LEMMA LeftoverIsRetained ==
  ASSUME DOMAIN statefulSets \subseteq StatefulSets
  PROVE  {p \in PVCs : isStatefulSetScaleDownLeftover(p, statefulSets)}
           = UNION {RetainedBy(s) : s \in DOMAIN statefulSets}
<1> DEFINE Carries(p, s, t) ==
             /\ Ordinal[<<t, s[2], p[2]>>] # NotAnOrdinal
             /\ Ordinal[<<t, s[2], p[2]>>] >= Replicas(s)
<1>1. ASSUME NEW p \in PVCs, NEW s \in DOMAIN statefulSets, NEW t \in TemplatesOf[s]
      PROVE  (/\ Ordinal[<<t, s[2], p[2]>>] # NotAnOrdinal
              /\ Int32(Ordinal[<<t, s[2], p[2]>>]) >= Replicas(s))
               <=> Carries(p, s, t)
  <2>1. Ordinal[<<t, s[2], p[2]>>] \in {NotAnOrdinal} \cup 0..(Int32Half - 1)
    BY OrdinalsAssumption
  <2>2. CASE Ordinal[<<t, s[2], p[2]>>] = NotAnOrdinal
    BY <2>2
  <2>3. CASE Ordinal[<<t, s[2], p[2]>>] \in 0..(Int32Half - 1)
    BY <2>3, Int32Fits
  <2> QED BY <2>1, <2>2, <2>3
<1>2. ASSUME NEW p \in PVCs, NEW s
      PROVE  p \in RetainedBy(s) <=> p[1] = s[1] /\ \E t \in TemplatesOf[s] : Carries(p, s, t)
  BY DEF RetainedBy
<1> HIDE DEF Carries
<1>3. ASSUME NEW p \in PVCs
      PROVE  isStatefulSetScaleDownLeftover(p, statefulSets) <=>
               \E s \in DOMAIN statefulSets : p \in RetainedBy(s)
  <2>1. isStatefulSetScaleDownLeftover(p, statefulSets) <=>
          \E s \in DOMAIN statefulSets :
            /\ s[1] = p[1]
            /\ \E t \in TemplatesOf[s] :
                 /\ Ordinal[<<t, s[2], p[2]>>] # NotAnOrdinal
                 /\ Int32(Ordinal[<<t, s[2], p[2]>>]) >= Replicas(s)
    BY DEF isStatefulSetScaleDownLeftover, sameNamespace, isBeyond, Replicas
  <2>2. isStatefulSetScaleDownLeftover(p, statefulSets) <=>
          \E s \in DOMAIN statefulSets : s[1] = p[1] /\ \E t \in TemplatesOf[s] : Carries(p, s, t)
    BY <1>1, <2>1
  <2> QED BY <1>2, <2>2
<1>4. ASSUME NEW s PROVE RetainedBy(s) \subseteq PVCs
  BY DEF RetainedBy
<1> QED BY <1>3, <1>4

-----------------------------------------------------------------------------
(* UnattachedPVC: type correctness *)

LEMMA InitIsTyped == Init => TypeOK
<1>1. ASSUME NEW S, NEW T PROVE EmptyFcn \in PartialFcns(S, T)
  BY DEF EmptyFcn, PartialFcns
<1> QED BY <1>1 DEF Init, TypeOK

ClusterOK ==
  /\ pvcs \in PartialFcns(PVCs, Labels) /\ pods \subseteq Pods
  /\ statefulSets \in PartialFcns(StatefulSets, {Unset} \cup 0..MaxReplicas)

LEMMA CreateClaimStaysInside ==
  ASSUME ClusterOK, NEW p \in PVCs, NEW l \in Labels, CreateOrLabelPVC(p, l) PROVE ClusterOK'
BY DEF ClusterOK, CreateOrLabelPVC, Put, PartialFcns

LEMMA DeleteClaimStaysInside == ASSUME ClusterOK, NEW p \in PVCs, DeletePVC(p) PROVE ClusterOK'
BY DEF ClusterOK, DeletePVC, Delete, Restrict, PartialFcns

LEMMA PodStaysInside == ASSUME ClusterOK, NEW pod \in Pods, CreateOrDeletePod(pod) PROVE ClusterOK'
BY DEF ClusterOK, CreateOrDeletePod, Toggle

LEMMA MovesStayInside == ASSUME ClusterOK, ClusterMoves PROVE ClusterOK'
<1>1. ASSUME NEW s \in StatefulSets, NEW n \in {Unset} \cup 0..MaxReplicas,
             CreateOrScaleStatefulSet(s, n)
      PROVE  ClusterOK'
  BY <1>1 DEF ClusterOK, CreateOrScaleStatefulSet, Put, PartialFcns
<1>2. ASSUME NEW s \in StatefulSets, DeleteStatefulSet(s) PROVE ClusterOK'
  BY <1>2 DEF ClusterOK, DeleteStatefulSet, Delete, Restrict, PartialFcns
<1> QED
  BY <1>1, <1>2, CreateClaimStaysInside, DeleteClaimStaysInside, PodStaysInside DEF ClusterMoves

LEMMA ScanKeepsTypeOK == ASSUME TypeOK, Scan PROVE TypeOK'
<1> USE DEF TypeOK
<1>1. CASE ListPVCs
  BY <1>1 DEF ListPVCs, cluster
<1>2. CASE ListPods
  BY <1>2 DEF ListPods, cluster
<1>3. CASE ListStatefulSets
  BY <1>3 DEF ListStatefulSets, cluster
<1>4. CASE ListStorageClasses
  BY <1>4 DEF ListStorageClasses, cluster
<1>5. CASE ListFails
  BY <1>5 DEF ListFails, cluster
<1>6. CASE Return
  <2>1. DOMAIN gotPVCs \subseteq PVCs
    BY DEF PartialFcns
  <2> QED BY <1>6, <2>1 DEF Return, cluster
<1> QED BY <1>1, <1>2, <1>3, <1>4, <1>5, <1>6 DEF Scan

\* The variables of UnattachedPVC keep their types.
THEOREM TypeOKHolds == Spec => []TypeOK
<1>1. TypeOK /\ [Next]_vars => TypeOK'
  <2> SUFFICES ASSUME TypeOK, [Next]_vars PROVE TypeOK'
    OBVIOUS
  <2>1. CASE ClusterMoves
    <3>1. UNCHANGED <<at, err, gotPVCs, gotPods, gotStatefulSets, findings>>
      BY <2>1 DEF ClusterMoves, scan
    <3>2. ClusterOK'
      BY <2>1, MovesStayInside DEF TypeOK, ClusterOK
    <3> QED BY <3>1, <3>2 DEF TypeOK, ClusterOK
  <2>2. CASE UNCHANGED vars
    BY <2>2 DEF TypeOK, vars, cluster, scan
  <2> QED BY <2>1, <2>2, ScanKeepsTypeOK DEF Next
<1> QED BY <1>1, InitIsTyped, PTL DEF Spec

-----------------------------------------------------------------------------
(* UnattachedPVC: the step simulation *)

LEMMA ViewIsTyped ==
  TypeOK => eligible \subseteq PVCs /\ uses \in [{"pods", "statefulsets"} -> SUBSET PVCs]
<1> SUFFICES ASSUME TypeOK
             PROVE  eligible \subseteq PVCs /\ uses \in [{"pods", "statefulsets"} -> SUBSET PVCs]
  OBVIOUS
<1>1. DOMAIN pvcs \subseteq PVCs
  BY DEF TypeOK, PartialFcns
<1> QED BY <1>1 DEF eligible, uses, MountedBy, RetainedBy

\* A record is a function of its fields' names.
LEMMA RecordIsFcn ==
  ASSUME NEW A, NEW B
  PROVE  [pods |-> A, statefulsets |-> B]
           = [source \in {"pods", "statefulsets"} |-> IF source = "pods" THEN A ELSE B]
<1> DEFINE r == [pods |-> A, statefulsets |-> B]
<1>1. r = [source \in DOMAIN r |-> r[source]] /\ DOMAIN r = {"pods", "statefulsets"}
  OBVIOUS
<1>2. r["pods"] = A /\ r["statefulsets"] = B
  OBVIOUS
<1> HIDE DEF r
<1>3. r = [source \in {"pods", "statefulsets"} |-> IF source = "pods" THEN A ELSE B]
  BY <1>1, <1>2
<1> QED BY <1>3 DEF r

\* Reading a source changes its field.
LEMMA RecordExcept ==
  ASSUME NEW A, NEW B, NEW C
  PROVE  /\ [[pods |-> A, statefulsets |-> B] EXCEPT !["pods"] = C]
              = [pods |-> C, statefulsets |-> B]
         /\ [[pods |-> A, statefulsets |-> B] EXCEPT !["statefulsets"] = C]
              = [pods |-> A, statefulsets |-> C]
<1> DEFINE Fcn(X, Y) ==
             [source \in {"pods", "statefulsets"} |-> IF source = "pods" THEN X ELSE Y]
<1>1. [pods |-> A, statefulsets |-> B] = Fcn(A, B) /\ [pods |-> C, statefulsets |-> B] = Fcn(C, B)
        /\ [pods |-> A, statefulsets |-> C] = Fcn(A, C)
  BY RecordIsFcn
<1>2. [Fcn(A, B) EXCEPT !["pods"] = C] = Fcn(C, B)
  OBVIOUS
<1>3. [Fcn(A, B) EXCEPT !["statefulsets"] = C] = Fcn(A, C)
  OBVIOUS
<1> HIDE DEF Fcn
<1>4. [[pods |-> A, statefulsets |-> B] EXCEPT !["pods"] = C] = [Fcn(A, B) EXCEPT !["pods"] = C]
  BY <1>1
<1>5. [[pods |-> A, statefulsets |-> B] EXCEPT !["statefulsets"] = C]
        = [Fcn(A, B) EXCEPT !["statefulsets"] = C]
  BY <1>1
<1> QED BY <1>1, <1>2, <1>3, <1>4, <1>5, Zenon

LEMMA InitRefines == TypeOK /\ Init => P!Init
<1> SUFFICES ASSUME TypeOK, Init PROVE P!Init
  OBVIOUS
<1>1. candidates = {}
  BY DEF Init, candidates, EmptyFcn
<1>2. seen = [source \in {"pods", "statefulsets"} |-> {}]
  <2>1. referencedPVCs(gotPods) = {}
    BY DEF Init, referencedPVCs
  <2>2. {p \in PVCs : isStatefulSetScaleDownLeftover(p, gotStatefulSets)} = {}
    BY DEF Init, EmptyFcn, isStatefulSetScaleDownLeftover
  <2>3. seen = [source \in {"pods", "statefulsets"} |-> IF source = "pods" THEN {} ELSE {}]
    BY <2>1, <2>2, RecordIsFcn DEF seen
  <2> QED BY <2>3
<1>3. phase = "start" /\ read = {}
  BY DEF Init, phase, read
<1>4. hist = P!NothingYet
  BY DEF Init, Abs!NothingYet, P!NothingYet
<1> QED BY <1>1, <1>2, <1>3, <1>4, ViewIsTyped DEF P!Init, Init

LEMMA ListPVCsRefines == TypeOK /\ ListPVCs => P!ReadCandidates
<1> SUFFICES ASSUME TypeOK, ListPVCs PROVE P!ReadCandidates
  OBVIOUS
<1>1. phase = "start" /\ phase' = "reading" /\ UNCHANGED read
  BY DEF ListPVCs, phase, read
<1>2. candidates' = eligible
  BY DEF ListPVCs, candidates, eligible
<1>3. UNCHANGED <<eligible, uses, seen, findings>>
  BY DEF ListPVCs, eligible, uses, seen, cluster, RetainedBy, Replicas
<1>4. hist' = P!BeginWith(eligible, uses)
  BY DEF ListPVCs, Abs!BeginWith, P!BeginWith, Abs!OrphansOf, P!OrphansOf,
         Abs!UsedIn, P!UsedIn
<1> QED BY <1>1, <1>2, <1>3, <1>4 DEF P!ReadCandidates

LEMMA ListPodsRefines == TypeOK /\ ListPods => P!ReadSource("pods")
<1> SUFFICES ASSUME TypeOK, ListPods PROVE P!ReadSource("pods")
  OBVIOUS
<1>1. phase = "reading" /\ UNCHANGED phase
  BY DEF ListPods, phase
<1>2. "pods" \notin read /\ read' = read \cup {"pods"}
  BY DEF ListPods, read
<1>3. referencedPVCs(pods) \cap PVCs = uses["pods"]
  BY ReferencedIsMounted DEF uses
<1>4. seen' = [seen EXCEPT !["pods"] = uses["pods"]]
  <2> DEFINE ScaledDown == {p \in PVCs : isStatefulSetScaleDownLeftover(p, gotStatefulSets)}
  <2>1. seen = [pods |-> referencedPVCs(gotPods) \cap PVCs, statefulsets |-> ScaledDown]
    BY DEF seen
  <2>2. ScaledDown' = ScaledDown
    BY DEF ListPods
  <2>3. seen' = [pods |-> referencedPVCs(pods) \cap PVCs, statefulsets |-> ScaledDown]
    BY <2>2 DEF ListPods, seen
  <2> HIDE DEF ScaledDown
  <2> QED BY <2>1, <2>3, <1>3, RecordExcept
<1>5. UNCHANGED <<eligible, uses, candidates, findings, hist>>
  BY DEF ListPods, eligible, uses, candidates, cluster, RetainedBy, Replicas
<1> QED BY <1>1, <1>2, <1>4, <1>5 DEF P!ReadSource

LEMMA ListStatefulSetsRefines == TypeOK /\ ListStatefulSets => P!ReadSource("statefulsets")
<1> SUFFICES ASSUME TypeOK, ListStatefulSets PROVE P!ReadSource("statefulsets")
  OBVIOUS
<1>1. phase = "reading" /\ UNCHANGED phase
  BY DEF ListStatefulSets, phase
<1>2. "statefulsets" \notin read /\ read' = read \cup {"statefulsets"}
  BY DEF ListStatefulSets, read
<1>3. DOMAIN statefulSets \subseteq StatefulSets
  BY DEF TypeOK, PartialFcns
<1>4. {p \in PVCs : isStatefulSetScaleDownLeftover(p, statefulSets)} = uses["statefulsets"]
  BY <1>3, LeftoverIsRetained DEF uses
<1>5. seen' = [seen EXCEPT !["statefulsets"] = uses["statefulsets"]]
  <2> DEFINE MountedClaims == referencedPVCs(gotPods) \cap PVCs
             ScaledDown(ss) == {p \in PVCs : isStatefulSetScaleDownLeftover(p, ss)}
  <2>1. seen = [pods |-> MountedClaims, statefulsets |-> ScaledDown(gotStatefulSets)]
    BY DEF seen
  <2>2. seen' = [pods |-> MountedClaims, statefulsets |-> ScaledDown(statefulSets)]
    BY DEF ListStatefulSets, seen
  <2>3. ScaledDown(statefulSets) = uses["statefulsets"]
    BY <1>4
  <2> HIDE DEF MountedClaims, ScaledDown
  <2> QED BY <2>1, <2>2, <2>3, RecordExcept
<1>6. UNCHANGED <<eligible, uses, candidates, findings, hist>>
  BY DEF ListStatefulSets, eligible, uses, candidates, cluster, RetainedBy, Replicas
<1> QED BY <1>1, <1>2, <1>5, <1>6 DEF P!ReadSource

\* The StorageClasses are no source: OrphanScan does not take a step.
LEMMA ListStorageClassesRefines == TypeOK /\ ListStorageClasses => UNCHANGED P!vars
BY DEF ListStorageClasses, P!vars, P!scan, phase, read, eligible, uses, candidates, seen,
       cluster, RetainedBy, Replicas

LEMMA ListFailsRefines == TypeOK /\ ListFails => P!Fail
<1> SUFFICES ASSUME TypeOK, ListFails PROVE P!Fail
  OBVIOUS
<1>1. phase \in {"start", "reading"} /\ phase' = "failed" /\ UNCHANGED read
  BY DEF ListFails, TypeOK, phase, read
<1>2. UNCHANGED <<eligible, uses, candidates, seen, findings, hist>>
  BY DEF ListFails, eligible, uses, candidates, seen, cluster, RetainedBy, Replicas
<1> QED BY <1>1, <1>2 DEF P!Fail

LEMMA ReturnRefines == TypeOK /\ Return => P!Report
<1> SUFFICES ASSUME TypeOK, Return PROVE P!Report
  OBVIOUS
<1>1. phase = "reading" /\ phase' = "reported"
  BY DEF Return, phase
<1>2. read = {"pods", "statefulsets"} /\ UNCHANGED read
  BY DEF Return, read
<1>3. UNCHANGED <<eligible, uses, candidates, seen, hist>>
  BY DEF Return, eligible, uses, candidates, seen, cluster, RetainedBy, Replicas
<1>4. DOMAIN gotPVCs \subseteq PVCs
  BY DEF TypeOK, PartialFcns
<1>5. P!UsedIn(seen) = seen["pods"] \cup seen["statefulsets"]
  BY DEF P!UsedIn
<1>6. findings' = candidates \ (seen["pods"] \cup seen["statefulsets"])
  BY <1>4 DEF Return, candidates, seen, isIgnored
<1> QED BY <1>1, <1>2, <1>3, <1>5, <1>6 DEF P!Report, P!OrphansOf

LEMMA ClusterMovesRefines == TypeOK' /\ ClusterMoves => P!ClusterMoves
<1> SUFFICES ASSUME TypeOK', ClusterMoves PROVE P!ClusterMoves
  OBVIOUS
<1>1. eligible' \in SUBSET PVCs /\ uses' \in [{"pods", "statefulsets"} -> SUBSET PVCs]
  <2>1. DOMAIN pvcs' \subseteq PVCs
    BY DEF TypeOK, PartialFcns
  <2> QED BY <2>1 DEF eligible, uses, MountedBy, RetainedBy
<1>2. UNCHANGED P!scan
  BY DEF ClusterMoves, scan, P!scan, phase, candidates, read, seen
<1>3. P!Observe(eligible', uses')
  BY DEF ClusterMoves, Abs!Observe, P!Observe, Abs!Reading, P!Reading, Abs!ExtendWith,
         P!ExtendWith, Abs!OrphansOf, P!OrphansOf, Abs!UsedIn, P!UsedIn
<1> QED BY <1>1, <1>2, <1>3 DEF P!ClusterMoves

LEMMA StepRefines == TypeOK /\ TypeOK' /\ [Next]_vars => [P!Next]_P!vars
<1>1. CASE UNCHANGED vars
  BY <1>1 DEF vars, cluster, scan, P!vars, P!scan, eligible, uses, phase, candidates,
             read, seen, RetainedBy, Replicas
<1> QED
  BY <1>1, ListPVCsRefines, ListPodsRefines, ListStatefulSetsRefines,
     ListStorageClassesRefines, ListFailsRefines, ReturnRefines, ClusterMovesRefines
  DEF Next, Scan, P!Next

LEMMA Refinement == Spec => P!Spec
<1>1. Init => TypeOK
  BY InitIsTyped
<1>2. Init => P!Init
  BY <1>1, InitRefines
<1> QED BY <1>2, StepRefines, TypeOKHolds, PTL DEF Spec, P!Spec

-----------------------------------------------------------------------------
(* UnattachedPVC: the theorems *)

\* Scan implements OrphanScan with the Pods and the StatefulSets as its sources.
THEOREM ImplementsOrphanScanHolds == Spec => ImplementsOrphanScan
<1>1. P!Init => Abs!Init
  BY DEF P!Init, Abs!Init, P!NothingYet, Abs!NothingYet
<1>2. [P!Next]_P!vars => [Abs!Next]_Abs!vars
  BY DEF P!Next, Abs!Next, P!vars, Abs!vars, P!scan, Abs!scan,
         P!ReadCandidates, Abs!ReadCandidates, P!ReadSource, Abs!ReadSource,
         P!Report, Abs!Report, P!Fail, Abs!Fail, P!ClusterMoves, Abs!ClusterMoves,
         P!BeginWith, Abs!BeginWith, P!Observe, Abs!Observe, P!Reading, Abs!Reading,
         P!ExtendWith, Abs!ExtendWith, P!OrphansOf, Abs!OrphansOf, P!UsedIn, Abs!UsedIn
<1> QED BY <1>1, <1>2, Refinement, PTL DEF P!Spec, Abs!Spec, ImplementsOrphanScan

\* A claim that no Pod mounted and no StatefulSet retained throughout the Scan is reported.
THEOREM AbandonedClaimIsReportedHolds == Spec => []AbandonedClaimIsReported
<1>1. P!StandingOrphanIsReported => AbandonedClaimIsReported
  BY DEF P!StandingOrphanIsReported, AbandonedClaimIsReported,
         Abs!StandingOrphanIsReported, P!Reported, Abs!Reported
<1> QED BY <1>1, Refinement, P!StandingOrphanIsReportedHolds, PTL

\* A claim that Pods mounted throughout the Scan, or that a scale-down retained
\* throughout, is not reported.
THEOREM ClaimInUseIsNotReportedHolds == Spec => []ClaimInUseIsNotReported
<1>1. P!StandingUseIsNotReported => ClaimInUseIsNotReported
  BY DEF P!StandingUseIsNotReported, ClaimInUseIsNotReported,
         Abs!StandingUseIsNotReported, P!Reported, Abs!Reported
<1> QED BY <1>1, Refinement, P!StandingUseIsNotReportedHolds, PTL

\* A reported claim that was in use at every instant is one that Pods began to mount
\* after they had been listed.
THEOREM OnlyLateMountMisleadsHolds == Spec => []OnlyLateMountMisleads
<1>1. P!OnlyLateUseMisleads => OnlyLateMountMisleads
  BY DEF P!OnlyLateUseMisleads, OnlyLateMountMisleads,
         Abs!OnlyLateUseMisleads, P!Reported, Abs!Reported
<1> QED BY <1>1, Refinement, P!OnlyLateUseMisleadsHolds, PTL

-----------------------------------------------------------------------------
(* Volumes: the inductive invariant *)

WatchRecord ==
  [idle : SUBSET PVs, steady : SUBSET (PVs \X Phases \X (PVCs \cup {NoClaim, OldClaim})),
   owned : SUBSET (PVCs \X PVs)]

\* The idle ones of the volumes that have stayed in the same hands.
IdleSteady == {h \in watch.steady : h[1] \in watch.idle}

\* The observer is in step with the cluster while it follows it, and with the claims as
\* they were listed from then on.
WatchInv ==
  /\ Started /\ ~ReadAll => watch.idle \subseteq Idle /\ watch.steady \subseteq Hands
  /\ at # "pvcs" => \A h \in watch.steady, c \in PVCs : <<c, h[1]>> \in watch.owned <=> h[3] = c
  /\ \A x, y \in watch.owned : x[2] = y[2] => x = y

\* What unattached-pvc has read of the claims that own an idle volume.
ClaimsInv ==
  /\ err => at # "returned"
  /\ at # "pvcs" => \A h \in IdleSteady, c \in PVCs :
       <<c, h[1]>> \in watch.owned => c \in DOMAIN gotPVCs /\ gotPVCs[c] # "true"
  /\ at \notin {"pvcs", "pods"} => \A h \in IdleSteady, c \in PVCs :
       <<c, h[1]>> \in watch.owned => c \notin referencedPVCs(gotPods)
  /\ findings = IF at = "returned"
                THEN {p \in DOMAIN gotPVCs : p \notin referencedPVCs(gotPods) /\ gotPVCs[p] # "true"}
                ELSE {}

\* What orphaned-pv reports of volumes as vs has them.
LeftOvers(vs) ==
  {v \in DOMAIN vs : vs[v].phase \in {"Released", "Available"} /\ vs[v].ignore # "true"}

\* What orphaned-pv has read of the volumes.
LeftoversInv ==
  /\ pvErr => pvAt # "returned"
  /\ pvAt # "pvs" =>
       /\ ClaimedAreTaken(gotVolumes)
       /\ \A h \in watch.steady :
            /\ h[1] \in DOMAIN gotVolumes
            /\ h[2] = gotVolumes[h[1]].phase /\ h[3] = gotVolumes[h[1]].claim
       /\ \A h \in IdleSteady : h[3] \in PVCs \/ gotVolumes[h[1]].ignore # "true"
  /\ pvFindings = IF pvAt = "returned" THEN LeftOvers(gotVolumes) ELSE {}

VolumesInv ==
  /\ VolumesTypeOK /\ watch \in WatchRecord
  /\ statefulSets = EmptyFcn /\ gotStatefulSets = EmptyFcn
  /\ ClaimedAreTaken(volumes)
  /\ WatchInv /\ ClaimsInv /\ LeftoversInv

-----------------------------------------------------------------------------
(* Volumes: what moves the objects *)

LEMMA VolumeIsTyped ==
  ASSUME VolumesTypeOK, NEW v \in DOMAIN volumes
  PROVE  /\ v \in PVs /\ volumes[v] \in VolumeStates
         /\ volumes[v].phase \in Phases
         /\ volumes[v].claim \in PVCs \cup {NoClaim, OldClaim} /\ volumes[v].ignore \in Labels
<1>1. v \in PVs /\ volumes[v] \in VolumeStates
  BY DEF VolumesTypeOK, PartialFcns
<1> QED BY <1>1 DEF VolumeStates

VolumesOK == volumes \in PartialFcns(PVs, VolumeStates) /\ ClaimedAreTaken(volumes)

Taken(st) == st.claim \in PVCs => st.phase \in {"Pending", "Available", "Bound"}

\* A step that changes one volume, to a state that keeps what the controller keeps.
LEMMA OneVolumeChanges ==
  ASSUME VolumesTypeOK, ClaimedAreTaken(volumes), NEW v \in DOMAIN volumes, NEW st \in VolumeStates,
         Taken(st), volumes' = [volumes EXCEPT ![v] = st]
  PROVE  VolumesOK'
<1>1. DOMAIN volumes' = DOMAIN volumes /\ \A w \in DOMAIN volumes : w # v => volumes'[w] = volumes[w]
  OBVIOUS
<1>2. volumes'[v] = st
  OBVIOUS
<1>3. volumes' \in PartialFcns(PVs, VolumeStates)
  BY DEF VolumesTypeOK, PartialFcns
<1> QED BY <1>1, <1>2, <1>3 DEF VolumesOK, ClaimedAreTaken, Taken

LEMMA DeleteClaimKeepsVolumes ==
  ASSUME VolumesTypeOK, ClaimedAreTaken(volumes), NEW c \in PVCs, DeleteClaim(c)
  PROVE  VolumesOK'
<1> DEFINE left(v) == [volumes[v] EXCEPT !.claim = IF @ = c THEN OldClaim ELSE @]
<1>1. volumes' = [v \in DOMAIN volumes |-> left(v)]
  BY DEF DeleteClaim
<1>2. ASSUME NEW v \in DOMAIN volumes
      PROVE  left(v) \in VolumeStates /\ Taken(left(v))
  <2>1. volumes[v] \in VolumeStates /\ OldClaim \in PVCs \cup {NoClaim, OldClaim}
    BY VolumeIsTyped
  <2>2. left(v) \in VolumeStates
    BY <2>1 DEF VolumeStates
  <2>3. left(v).claim = (IF volumes[v].claim = c THEN OldClaim ELSE volumes[v].claim)
        /\ left(v).phase = volumes[v].phase
    BY <2>1 DEF VolumeStates
  <2> HIDE DEF left
  <2> QED BY <2>2, <2>3, NoClaimAssumption DEF ClaimedAreTaken, Taken
<1> HIDE DEF left
<1>3. volumes' \in [DOMAIN volumes -> VolumeStates] /\ DOMAIN volumes \subseteq PVs
  BY <1>1, <1>2 DEF VolumesTypeOK, PartialFcns
<1>4. volumes' \in PartialFcns(PVs, VolumeStates)
  BY <1>3 DEF PartialFcns
<1> QED BY <1>1, <1>2, <1>4 DEF VolumesOK, ClaimedAreTaken, Taken

LEMMA ProvisionKeepsVolumes ==
  ASSUME VolumesTypeOK, ClaimedAreTaken(volumes), NEW v \in PVs, NEW c \in PVCs \cup {NoClaim},
         ProvisionVolume(v, c)
  PROVE  VolumesOK'
<1> DEFINE st == [phase |-> "Pending", claim |-> c, ignore |-> "false"]
<1>1. v \notin DOMAIN volumes /\ volumes' = Put(volumes, v, st)
  BY DEF ProvisionVolume
<1>2. st \in VolumeStates /\ Taken(st)
  BY DEF VolumeStates, Labels, Phases, Taken
<1> HIDE DEF st
<1>3. volumes' \in PartialFcns(PVs, VolumeStates)
  BY <1>1, <1>2 DEF VolumesTypeOK, Put, PartialFcns
<1> QED BY <1>1, <1>2, <1>3 DEF VolumesOK, ClaimedAreTaken, Put, Taken

LEMMA SetPhaseKeepsVolumes ==
  ASSUME VolumesTypeOK, ClaimedAreTaken(volumes), NEW v \in DOMAIN volumes, NEW ph \in Phases,
         SetPhase(v, ph), volumes[v].claim \in PVCs => ph \in {"Pending", "Available", "Bound"}
  PROVE  VolumesOK'
<1> DEFINE st == [volumes[v] EXCEPT !.phase = ph]
<1>1. volumes' = [volumes EXCEPT ![v] = st]
  <2>1. volumes' = [volumes EXCEPT ![v].phase = ph]
    BY DEF SetPhase
  <2> QED BY <2>1
<1>2. st \in VolumeStates /\ st.claim = volumes[v].claim /\ st.phase = ph
  BY VolumeIsTyped DEF VolumeStates
<1> HIDE DEF st
<1>3. Taken(st)
  BY <1>2 DEF Taken
<1> QED BY <1>1, <1>2, <1>3, OneVolumeChanges

LEMMA SetClaimRefKeepsVolumes ==
  ASSUME VolumesTypeOK, ClaimedAreTaken(volumes), NEW v \in DOMAIN volumes,
         NEW c \in PVCs \cup {NoClaim}, SetClaimRef(v, c),
         c \in PVCs => volumes[v].phase = "Available"
  PROVE  VolumesOK'
<1> DEFINE st == [volumes[v] EXCEPT !.claim = c]
<1>1. volumes' = [volumes EXCEPT ![v] = st]
  <2>1. volumes' = [volumes EXCEPT ![v].claim = c]
    BY DEF SetClaimRef
  <2> QED BY <2>1
<1>2. st \in VolumeStates /\ st.claim = c /\ st.phase = volumes[v].phase
  BY VolumeIsTyped DEF VolumeStates
<1> HIDE DEF st
<1>3. Taken(st)
  BY <1>2 DEF Taken
<1> QED BY <1>1, <1>2, <1>3, OneVolumeChanges

\* What happens to one volume.
VolumeMoves(v) ==
  \/ FreeVolume(v) \/ BindVolume(v) \/ ReleaseVolume(v) \/ FailVolume(v)
  \/ ClearClaimRef(v) \/ DeleteVolume(v)
  \/ \E c \in PVCs : ReserveVolume(v, c)
  \/ \E l \in Labels : LabelVolume(v, l)

LEMMA ControllerKeepsVolumes ==
  ASSUME VolumesTypeOK, ClaimedAreTaken(volumes), NEW v \in DOMAIN volumes, VolumeMoves(v)
  PROVE  VolumesOK'
<1>0. volumes[v] \in VolumeStates /\ Taken(volumes[v])
  BY VolumeIsTyped DEF ClaimedAreTaken, Taken
<1>1. CASE FreeVolume(v) \/ BindVolume(v) \/ ReleaseVolume(v) \/ FailVolume(v)
  BY <1>1, SetPhaseKeepsVolumes, NoClaimAssumption
     DEF FreeVolume, BindVolume, ReleaseVolume, FailVolume, Phases
<1>2. CASE ClearClaimRef(v) \/ \E c \in PVCs : ReserveVolume(v, c)
  BY <1>2, SetClaimRefKeepsVolumes, NoClaimAssumption DEF ClearClaimRef, ReserveVolume
<1>3. CASE DeleteVolume(v)
  <2>1. volumes' = [w \in DOMAIN volumes \ {v} |-> volumes[w]]
    BY <1>3 DEF DeleteVolume, Delete, Restrict
  <2>2. volumes' \in PartialFcns(PVs, VolumeStates)
    BY <2>1 DEF VolumesTypeOK, PartialFcns
  <2> QED BY <2>1, <2>2 DEF VolumesOK, ClaimedAreTaken
<1>4. ASSUME NEW l \in Labels, LabelVolume(v, l) PROVE VolumesOK'
  <2> DEFINE st == [volumes[v] EXCEPT !.ignore = l]
  <2>1. volumes' = [volumes EXCEPT ![v] = st]
    BY <1>4 DEF LabelVolume
  <2>2. st \in VolumeStates /\ st.claim = volumes[v].claim /\ st.phase = volumes[v].phase
    BY <1>0 DEF VolumeStates
  <2> HIDE DEF st
  <2>3. Taken(st)
    BY <1>0, <2>2 DEF Taken
  <2> QED BY <2>1, <2>2, <2>3, OneVolumeChanges
<1> QED BY <1>1, <1>2, <1>3, <1>4 DEF VolumeMoves

LEMMA ObjectsMoveKeepTypes ==
  ASSUME VolumesTypeOK, ClaimedAreTaken(volumes), ObjectsMove
  PROVE  VolumesTypeOK' /\ ClaimedAreTaken(volumes') /\ UNCHANGED <<statefulSets, scans>>
<1>0. ClusterOK /\ VolumesOK /\ UNCHANGED scans
  BY DEF ObjectsMove, VolumesTypeOK, TypeOK, ClusterOK, VolumesOK
<1>1. CASE ClaimsMove
  <2>1. ClusterOK' /\ UNCHANGED <<statefulSets, volumes>>
    BY <1>0, <1>1, CreateClaimStaysInside, PodStaysInside
       DEF ClaimsMove, CreateOrLabelPVC, CreateOrDeletePod
  <2> QED BY <1>0, <2>1 DEF VolumesTypeOK, TypeOK, ClusterOK, scans, scan, volumeScan
<1>2. ASSUME NEW c \in PVCs, DeleteClaim(c)
      PROVE  ClusterOK' /\ VolumesOK' /\ UNCHANGED statefulSets
  BY <1>0, <1>2, DeleteClaimStaysInside, DeleteClaimKeepsVolumes DEF DeleteClaim, DeletePVC
<1>3. ASSUME NEW v \in PVs, NEW c \in PVCs \cup {NoClaim}, ProvisionVolume(v, c)
      PROVE  ClusterOK' /\ VolumesOK' /\ UNCHANGED statefulSets
  BY <1>0, <1>3, ProvisionKeepsVolumes DEF ProvisionVolume, cluster, ClusterOK
<1>4. ASSUME NEW v \in DOMAIN volumes, VolumeMoves(v)
      PROVE  ClusterOK' /\ VolumesOK' /\ UNCHANGED statefulSets
  <2>1. UNCHANGED cluster
    BY <1>4 DEF VolumeMoves, FreeVolume, BindVolume, ReleaseVolume, FailVolume, ClearClaimRef,
                DeleteVolume, ReserveVolume, LabelVolume, SetPhase, SetClaimRef
  <2> QED BY <1>0, <1>4, <2>1, ControllerKeepsVolumes DEF cluster, ClusterOK
<1>5. ClusterOK' /\ VolumesOK' /\ UNCHANGED statefulSets
         => VolumesTypeOK' /\ ClaimedAreTaken(volumes') /\ UNCHANGED <<statefulSets, scans>>
  BY <1>0 DEF VolumesTypeOK, TypeOK, ClusterOK, VolumesOK, scans, scan, volumeScan
<1> QED BY <1>1, <1>2, <1>3, <1>4, <1>5 DEF ObjectsMove, VolumeMoves

-----------------------------------------------------------------------------
(* Volumes: every step keeps the invariant *)

\* What the observer has of the cluster when it begins, and when the claims are listed.
LEMMA WhatIsThere ==
  ASSUME VolumesTypeOK
  PROVE  /\ Begin \in WatchRecord
         /\ Begin.idle = Idle /\ Begin.steady = Hands /\ Begin.owned = {}
         /\ Bindings \subseteq PVCs \X PVs
         /\ \A x, y \in Bindings : x[2] = y[2] => x = y
         /\ \A h \in Hands : /\ h[1] \in DOMAIN volumes
                             /\ h[2] = volumes[h[1]].phase /\ h[3] = volumes[h[1]].claim
         /\ \A h \in Hands : \A c \in PVCs : <<c, h[1]>> \in Bindings <=> h[3] = c
<1>1. DOMAIN volumes \subseteq PVs /\ Idle \subseteq DOMAIN volumes
  BY DEF VolumesTypeOK, PartialFcns, Idle
<1>2. Bindings \subseteq PVCs \X PVs
  BY <1>1 DEF Bindings
<1>3. \A x, y \in Bindings : x[2] = y[2] => x = y
  BY DEF Bindings
<1>4. \A h \in Hands : /\ h[1] \in DOMAIN volumes
                       /\ h[2] = volumes[h[1]].phase /\ h[3] = volumes[h[1]].claim
  BY DEF Hands
<1>5. \A h \in Hands : \A c \in PVCs : <<c, h[1]>> \in Bindings <=> h[3] = c
  BY <1>4 DEF Bindings
<1>6. Hands \subseteq PVs \X Phases \X (PVCs \cup {NoClaim, OldClaim})
  BY VolumeIsTyped DEF Hands
<1> QED BY <1>1, <1>2, <1>3, <1>4, <1>5, <1>6 DEF Begin, WatchRecord

\* An idle volume's claim is eligible, and no Pod that is there mounts it.
LEMMA IdleClaimIsLoose ==
  ASSUME NEW v \in Idle, NEW c \in PVCs, volumes[v].claim = c
  PROVE  c \in DOMAIN pvcs /\ pvcs[c] # "true" /\ c \notin referencedPVCs(pods)
<1>1. c \in eligible \ Mounted
  BY DEF Idle
<1> QED BY <1>1, ReferencedIsMounted DEF eligible, Mounted

LEMMA MoveKeepsVolumesInv == ASSUME VolumesInv, ObjectsMove PROVE VolumesInv'
<1>0. /\ VolumesTypeOK /\ watch \in WatchRecord /\ ClaimedAreTaken(volumes)
      /\ statefulSets = EmptyFcn /\ gotStatefulSets = EmptyFcn
      /\ WatchInv /\ ClaimsInv /\ LeftoversInv
  BY DEF VolumesInv
<1>1. /\ VolumesTypeOK' /\ ClaimedAreTaken(volumes') /\ statefulSets' = statefulSets
      /\ UNCHANGED <<at, err, gotPVCs, gotPods, gotStatefulSets, findings>>
      /\ UNCHANGED <<pvAt, pvErr, gotVolumes, pvFindings>>
  BY <1>0, ObjectsMoveKeepTypes DEF scans, scan, volumeScan
<1>2. (Started' <=> Started) /\ (ReadAll' <=> ReadAll)
  BY <1>1 DEF Started, ReadAll
<1>3. /\ watch'.idle \subseteq watch.idle /\ watch'.steady \subseteq watch.steady
      /\ watch'.owned = watch.owned /\ (watch \in WatchRecord)'
      /\ Started /\ ~ReadAll => watch'.idle \subseteq Idle' /\ watch'.steady \subseteq Hands'
  <2>1. CASE ~Started \/ ReadAll
    <3>1. watch' = watch
      BY <2>1 DEF ObjectsMove, Observe
    <3> QED BY <1>0, <2>1, <3>1 DEF WatchRecord
  <2>2. CASE Started /\ ~ReadAll
    <3>1. watch' = [watch EXCEPT !.idle = @ \cap Idle', !.steady = @ \cap Hands']
      BY <2>2 DEF ObjectsMove, Observe
    <3> QED BY <1>0, <3>1 DEF WatchRecord
  <2> QED BY <2>1, <2>2
<1>4. IdleSteady' \subseteq IdleSteady
  BY <1>3 DEF IdleSteady
<1>5. WatchInv'
  BY <1>0, <1>1, <1>2, <1>3 DEF WatchInv
<1>6. ClaimsInv'
  BY <1>0, <1>1, <1>3, <1>4 DEF ClaimsInv
<1>7. LeftoversInv'
  BY <1>0, <1>1, <1>3, <1>4 DEF LeftoversInv
<1> QED BY <1>0, <1>1, <1>3, <1>5, <1>6, <1>7 DEF VolumesInv

LEMMA ListClaimsKeepsVolumesInv == ASSUME VolumesInv, ClaimsScan, ListPVCs PROVE VolumesInv'
<1>0. /\ VolumesTypeOK /\ watch \in WatchRecord /\ ClaimedAreTaken(volumes)
      /\ statefulSets = EmptyFcn /\ gotStatefulSets = EmptyFcn
      /\ WatchInv /\ ClaimsInv /\ LeftoversInv
  BY DEF VolumesInv
<1>1. /\ ~err /\ at = "pvcs" /\ at' = "pods" /\ gotPVCs' = pvcs
      /\ UNCHANGED <<pvcs, pods, statefulSets, err, gotPods, gotStatefulSets, findings>>
      /\ UNCHANGED <<volumes, pvAt, pvErr, gotVolumes, pvFindings>>
  BY DEF ClaimsScan, ListPVCs, cluster, volumeScan
<1>2. watch' = [(IF Started THEN watch ELSE Begin) EXCEPT !.owned = Bindings]
  BY <1>1 DEF ClaimsScan
<1>3. ~ReadAll /\ ~ReadAll'
  BY <1>1 DEF ReadAll
<1>4. /\ watch'.owned = Bindings /\ (watch \in WatchRecord)'
      /\ watch'.idle \subseteq Idle /\ watch'.steady \subseteq Hands
      /\ Started => watch'.idle = watch.idle /\ watch'.steady = watch.steady
  <2>1. CASE Started
    <3>1. watch' = [watch EXCEPT !.owned = Bindings]
      BY <1>2, <2>1
    <3>2. watch.idle \subseteq Idle /\ watch.steady \subseteq Hands
      BY <1>0, <1>3, <2>1 DEF WatchInv
    <3> QED BY <1>0, <3>1, <3>2, WhatIsThere DEF WatchRecord
  <2>2. CASE ~Started
    <3>1. watch' = [Begin EXCEPT !.owned = Bindings]
      BY <1>2, <2>2
    <3> QED BY <1>0, <2>2, <3>1, WhatIsThere DEF WatchRecord
  <2> QED BY <2>1, <2>2
<1>5. UNCHANGED <<Idle, Hands>>
  BY <1>1 DEF Idle, eligible, Mounted, Hands
<1>6. VolumesTypeOK'
  BY <1>0, <1>1, ScanKeepsTypeOK DEF VolumesTypeOK, Scan
<1>7. ASSUME NEW h \in watch'.steady, NEW c \in PVCs
      PROVE  <<c, h[1]>> \in watch'.owned <=> h[3] = c
  <2>1. h \in Hands /\ watch'.owned = Bindings
    BY <1>4
  <2>2. <<c, h[1]>> \in Bindings <=> h[3] = c
    BY <1>0, <2>1, WhatIsThere
  <2> QED BY <2>1, <2>2
<1>8. WatchInv'
  BY <1>0, <1>1, <1>4, <1>5, <1>7, WhatIsThere DEF WatchInv
<1>9. ClaimsInv'
  <2>1. ASSUME NEW h \in IdleSteady', NEW c \in PVCs, <<c, h[1]>> \in watch'.owned
        PROVE  c \in DOMAIN pvcs /\ pvcs[c] # "true"
    <3>1. h \in watch'.steady /\ h[1] \in watch'.idle
      BY DEF IdleSteady
    <3>2. h[1] \in Idle /\ volumes[h[1]].claim = c
      BY <1>0, <1>4, <1>7, <2>1, <3>1, WhatIsThere
    <3> QED BY <3>2, IdleClaimIsLoose
  <2> QED BY <1>0, <1>1, <2>1 DEF ClaimsInv
<1>10. LeftoversInv'
  <2>1. pvAt # "pvs" => Started
    BY DEF Started
  <2>2. Started => IdleSteady' = IdleSteady
    BY <1>4 DEF IdleSteady
  <2> QED BY <1>0, <1>1, <1>4, <2>1, <2>2 DEF LeftoversInv
<1> QED BY <1>0, <1>1, <1>4, <1>6, <1>8, <1>9, <1>10 DEF VolumesInv

LEMMA ListPodsKeepsVolumesInv == ASSUME VolumesInv, ClaimsScan, ListPods PROVE VolumesInv'
<1>0. /\ VolumesTypeOK /\ watch \in WatchRecord /\ ClaimedAreTaken(volumes)
      /\ statefulSets = EmptyFcn /\ gotStatefulSets = EmptyFcn
      /\ WatchInv /\ ClaimsInv /\ LeftoversInv
  BY DEF VolumesInv
<1>1. /\ ~err /\ at = "pods" /\ at' = "statefulsets" /\ gotPods' = pods
      /\ UNCHANGED <<pvcs, pods, statefulSets, err, gotPVCs, gotStatefulSets, findings>>
      /\ UNCHANGED <<volumes, pvAt, pvErr, gotVolumes, pvFindings>>
  BY DEF ClaimsScan, ListPods, cluster, volumeScan
<1>2. watch' = watch /\ IdleSteady' = IdleSteady
  BY <1>1 DEF ClaimsScan, IdleSteady
<1>3. ~ReadAll /\ Started
  BY <1>1 DEF ReadAll, Started
<1>4. VolumesTypeOK'
  BY <1>0, <1>1, ScanKeepsTypeOK DEF VolumesTypeOK, Scan
<1>5. UNCHANGED <<Idle, Hands>>
  BY <1>1 DEF Idle, eligible, Mounted, Hands
<1>6. WatchInv'
  BY <1>0, <1>1, <1>2, <1>3, <1>5 DEF WatchInv
<1>7. ClaimsInv'
  <2>1. ASSUME NEW h \in IdleSteady, NEW c \in PVCs, <<c, h[1]>> \in watch.owned
        PROVE  c \notin referencedPVCs(pods)
    <3>1. h[1] \in Idle /\ h \in Hands /\ h[3] = c
      BY <1>0, <1>1, <1>3, <2>1 DEF WatchInv, IdleSteady
    <3>2. volumes[h[1]].claim = c
      BY <1>0, <3>1, WhatIsThere
    <3> QED BY <3>1, <3>2, IdleClaimIsLoose
  <2> QED BY <1>0, <1>1, <1>2, <2>1 DEF ClaimsInv
<1>8. LeftoversInv'
  BY <1>0, <1>1, <1>2 DEF LeftoversInv
<1> QED BY <1>0, <1>1, <1>2, <1>4, <1>6, <1>7, <1>8 DEF VolumesInv

\* The other steps of unattached-pvc take no answer that it judges by.
LEMMA ClaimsScanKeepsVolumesInv == ASSUME VolumesInv, ClaimsScan PROVE VolumesInv'
<1>0. /\ VolumesTypeOK /\ watch \in WatchRecord /\ ClaimedAreTaken(volumes)
      /\ statefulSets = EmptyFcn /\ gotStatefulSets = EmptyFcn
      /\ WatchInv /\ ClaimsInv /\ LeftoversInv
  BY DEF VolumesInv
<1>1. VolumesTypeOK' /\ UNCHANGED <<volumes, pvAt, pvErr, gotVolumes, pvFindings>>
  BY <1>0, ScanKeepsTypeOK DEF ClaimsScan, VolumesTypeOK, volumeScan
<1>2. ASSUME /\ UNCHANGED <<pvcs, pods, statefulSets, gotPVCs, gotPods, gotStatefulSets, watch>>
             /\ (ReadAll => ReadAll') /\ (Started' <=> Started)
             /\ at' = "pvcs" <=> at = "pvcs"
             /\ ClaimsInv'
      PROVE  VolumesInv'
  <2>1. UNCHANGED <<Idle, Hands, IdleSteady>>
    BY <1>1, <1>2 DEF Idle, eligible, Mounted, Hands, IdleSteady
  <2>2. WatchInv'
    BY <1>0, <1>1, <1>2, <2>1 DEF WatchInv
  <2>3. LeftoversInv'
    BY <1>0, <1>1, <1>2, <2>1 DEF LeftoversInv
  <2> QED BY <1>0, <1>1, <1>2, <2>2, <2>3 DEF VolumesInv
<1>3. CASE ListStatefulSets
  <2>1. /\ at = "statefulsets" /\ at' = "storageclasses" /\ gotStatefulSets' = statefulSets
        /\ UNCHANGED <<pvcs, pods, statefulSets, err, gotPVCs, gotPods, findings>>
    BY <1>3 DEF ListStatefulSets, cluster
  <2>2. watch' = watch /\ IdleSteady' = IdleSteady
    BY <2>1 DEF ClaimsScan, IdleSteady
  <2>3. ClaimsInv'
    BY <1>0, <2>1, <2>2 DEF ClaimsInv
  <2>4. (ReadAll => ReadAll') /\ (Started' <=> Started)
    BY <1>1, <2>1 DEF ReadAll, Started
  <2> QED BY <1>0, <1>2, <2>1, <2>2, <2>3, <2>4
<1>4. CASE ListStorageClasses
  <2>1. /\ at = "storageclasses" /\ at' = "loop"
        /\ UNCHANGED <<pvcs, pods, statefulSets, err, gotPVCs, gotPods, gotStatefulSets, findings>>
    BY <1>4 DEF ListStorageClasses, cluster
  <2>2. watch' = watch /\ IdleSteady' = IdleSteady
    BY <2>1 DEF ClaimsScan, IdleSteady
  <2>3. ClaimsInv'
    BY <1>0, <2>1, <2>2 DEF ClaimsInv
  <2>4. (ReadAll => ReadAll') /\ (Started' <=> Started)
    BY <1>1, <2>1 DEF ReadAll, Started
  <2> QED BY <1>2, <2>1, <2>2, <2>3, <2>4
<1>5. CASE ListFails
  <2>1. /\ err' /\ at' = at /\ at # "returned"
        /\ UNCHANGED <<pvcs, pods, statefulSets, gotPVCs, gotPods, gotStatefulSets, findings>>
    BY <1>5 DEF ListFails, cluster
  <2>2. watch' = watch /\ IdleSteady' = IdleSteady
    BY <2>1 DEF ClaimsScan, IdleSteady
  <2>3. ClaimsInv'
    BY <1>0, <2>1, <2>2 DEF ClaimsInv
  <2>4. (ReadAll => ReadAll') /\ (Started' <=> Started)
    BY <1>1, <2>1 DEF ReadAll, Started
  <2> QED BY <1>2, <2>1, <2>2, <2>3, <2>4
<1>6. CASE Return
  <2>1. /\ ~err /\ at = "loop" /\ at' = "returned"
        /\ UNCHANGED <<pvcs, pods, statefulSets, err, gotPVCs, gotPods, gotStatefulSets>>
    BY <1>6 DEF Return, cluster
  <2>2. watch' = watch /\ IdleSteady' = IdleSteady
    BY <2>1 DEF ClaimsScan, IdleSteady
  <2>3. \A p : ~isStatefulSetScaleDownLeftover(p, gotStatefulSets)
    BY <1>0 DEF isStatefulSetScaleDownLeftover, EmptyFcn
  <2>4. findings' = {p \in DOMAIN gotPVCs : p \notin referencedPVCs(gotPods) /\ gotPVCs[p] # "true"}
    BY <1>6, <2>3 DEF Return, isIgnored
  <2>5. ClaimsInv'
    BY <1>0, <2>1, <2>2, <2>4 DEF ClaimsInv
  <2>6. (ReadAll => ReadAll') /\ (Started' <=> Started)
    BY <1>1, <2>1 DEF ReadAll, Started
  <2> QED BY <1>2, <2>1, <2>2, <2>5, <2>6
<1> QED
  BY <1>3, <1>4, <1>5, <1>6, ListClaimsKeepsVolumesInv, ListPodsKeepsVolumesInv DEF ClaimsScan, Scan

LEMMA ListVolumesKeepsVolumesInv ==
  ASSUME VolumesInv, VolumesScan, Leftovers!ListPVs PROVE VolumesInv'
<1>0. /\ VolumesTypeOK /\ watch \in WatchRecord /\ ClaimedAreTaken(volumes)
      /\ statefulSets = EmptyFcn /\ gotStatefulSets = EmptyFcn
      /\ WatchInv /\ ClaimsInv /\ LeftoversInv
  BY DEF VolumesInv
<1>1. /\ ~pvErr /\ pvAt = "pvs" /\ pvAt' = "storageclasses" /\ gotVolumes' = volumes
      /\ UNCHANGED <<volumes, pvErr, pvFindings>>
      /\ UNCHANGED <<pvcs, pods, statefulSets>>
      /\ UNCHANGED <<at, err, gotPVCs, gotPods, gotStatefulSets, findings>>
  BY DEF VolumesScan, Leftovers!ListPVs, cluster, scan
<1>2. watch' = IF Started THEN watch ELSE Begin
  BY <1>1 DEF VolumesScan
<1>3. ~ReadAll
  BY <1>1 DEF ReadAll
<1>4. /\ (watch \in WatchRecord)'
      /\ watch'.idle \subseteq Idle /\ watch'.steady \subseteq Hands
      /\ at # "pvcs" => watch' = watch
      /\ \A x, y \in watch'.owned : x[2] = y[2] => x = y
  <2>1. CASE Started
    BY <1>0, <1>2, <1>3, <2>1 DEF WatchInv
  <2>2. CASE ~Started
    BY <1>0, <1>2, <2>2, WhatIsThere DEF Started
  <2> QED BY <2>1, <2>2
<1>5. UNCHANGED <<Idle, Hands>>
  BY <1>1 DEF Idle, eligible, Mounted, Hands
<1>6. VolumesTypeOK'
  BY <1>0, <1>1 DEF VolumesTypeOK, TypeOK
<1>7. WatchInv'
  BY <1>0, <1>1, <1>4, <1>5 DEF WatchInv
<1>8. ClaimsInv'
  BY <1>0, <1>1, <1>4 DEF ClaimsInv, IdleSteady
<1>9. LeftoversInv'
  <2>1. ASSUME NEW h \in IdleSteady'
        PROVE  h[3] \in PVCs \/ volumes[h[1]].ignore # "true"
    <3>1. h \in Hands /\ h[1] \in Idle
      BY <1>4, <2>1 DEF IdleSteady
    <3>2. h[3] = volumes[h[1]].claim
      BY <1>0, <3>1, WhatIsThere
    <3> QED BY <3>1, <3>2 DEF Idle
  <2>2. \A h \in watch'.steady : /\ h[1] \in DOMAIN volumes
                                 /\ h[2] = volumes[h[1]].phase /\ h[3] = volumes[h[1]].claim
    BY <1>0, <1>4, WhatIsThere
  <2>3. pvFindings' = {} /\ pvAt' # "returned"
    BY <1>0, <1>1 DEF LeftoversInv
  <2> QED BY <1>0, <1>1, <2>1, <2>2, <2>3 DEF LeftoversInv
<1> QED BY <1>0, <1>1, <1>4, <1>6, <1>7, <1>8, <1>9 DEF VolumesInv

LEMMA VolumesScanKeepsVolumesInv == ASSUME VolumesInv, VolumesScan PROVE VolumesInv'
<1>0. /\ VolumesTypeOK /\ watch \in WatchRecord /\ ClaimedAreTaken(volumes)
      /\ statefulSets = EmptyFcn /\ gotStatefulSets = EmptyFcn
      /\ WatchInv /\ ClaimsInv /\ LeftoversInv
  BY DEF VolumesInv
<1>1. /\ UNCHANGED <<pvcs, pods, statefulSets>>
      /\ UNCHANGED <<at, err, gotPVCs, gotPods, gotStatefulSets, findings>>
  BY DEF VolumesScan, cluster, scan
<1>2. ASSUME /\ UNCHANGED <<volumes, gotVolumes, watch>>
             /\ (ReadAll => ReadAll') /\ (Started' <=> Started)
             /\ pvAt' = "pvs" <=> pvAt = "pvs"
             /\ pvErr' => pvAt' # "returned"
             /\ pvAt' \in {"pvs", "storageclasses", "loop", "returned"} /\ pvErr' \in BOOLEAN
             /\ pvFindings' = IF pvAt' = "returned" THEN LeftOvers(gotVolumes) ELSE {}
      PROVE  VolumesInv'
  <2>1. UNCHANGED <<Idle, Hands, IdleSteady>>
    BY <1>1, <1>2 DEF Idle, eligible, Mounted, Hands, IdleSteady
  <2>2. WatchInv'
    BY <1>0, <1>1, <1>2, <2>1 DEF WatchInv
  <2>3. ClaimsInv'
    BY <1>0, <1>1, <1>2, <2>1 DEF ClaimsInv
  <2>4. LeftoversInv'
    BY <1>0, <1>1, <1>2, <2>1 DEF LeftoversInv
  <2>5. pvFindings' \subseteq PVs
    BY <1>0, <1>2 DEF VolumesTypeOK, PartialFcns, LeftOvers
  <2>6. VolumesTypeOK'
    BY <1>0, <1>1, <1>2, <2>5 DEF VolumesTypeOK, TypeOK
  <2> QED BY <1>0, <1>1, <1>2, <2>2, <2>3, <2>4, <2>6 DEF VolumesInv
<1>3. CASE Leftovers!ListStorageClasses
  <2>1. /\ pvAt = "storageclasses" /\ pvAt' = "loop"
        /\ UNCHANGED <<volumes, pvErr, gotVolumes, pvFindings>>
    BY <1>3 DEF Leftovers!ListStorageClasses
  <2>2. watch' = watch
    BY <2>1 DEF VolumesScan, Started
  <2>3. (ReadAll => ReadAll') /\ (Started' <=> Started)
    BY <1>1, <2>1 DEF ReadAll, Started
  <2> QED BY <1>0, <1>2, <2>1, <2>2, <2>3 DEF LeftoversInv, VolumesTypeOK
<1>4. CASE Leftovers!ListFails
  <2>1. /\ pvErr' = TRUE /\ pvAt' = pvAt /\ pvAt # "returned"
        /\ UNCHANGED <<volumes, gotVolumes, pvFindings>>
    BY <1>4 DEF Leftovers!ListFails
  <2>2. watch' = watch
    BY <2>1 DEF VolumesScan
  <2>3. (ReadAll => ReadAll') /\ (Started' <=> Started)
    BY <1>1, <2>1 DEF ReadAll, Started
  <2> QED BY <1>0, <1>2, <2>1, <2>2, <2>3 DEF LeftoversInv, VolumesTypeOK
<1>5. CASE Leftovers!Return
  <2>1. /\ ~pvErr /\ pvAt = "loop" /\ pvAt' = "returned" /\ UNCHANGED <<volumes, pvErr, gotVolumes>>
        /\ pvFindings' = {v \in DOMAIN gotVolumes :
             Leftovers!isLeftOver(gotVolumes[v]) /\ ~Leftovers!isIgnored(gotVolumes[v].ignore)}
    BY <1>5 DEF Leftovers!Return
  <2>2. watch' = watch
    BY <2>1 DEF VolumesScan, Started
  <2>3. (ReadAll => ReadAll') /\ (Started' <=> Started)
    BY <1>1, <2>1 DEF ReadAll, Started
  <2>4. pvFindings' = LeftOvers(gotVolumes)
    BY <2>1 DEF LeftOvers, Leftovers!isLeftOver, Leftovers!isIgnored
  <2>5. pvErr' \in BOOLEAN
    BY <1>0, <2>1 DEF VolumesTypeOK
  <2> QED BY <1>2, <2>1, <2>2, <2>3, <2>4, <2>5
<1> QED
  BY <1>3, <1>4, <1>5, ListVolumesKeepsVolumesInv DEF VolumesScan, Leftovers!Scan

LEMMA NextScanKeepsVolumesInv ==
  ASSUME VolumesInv, NextScan, UNCHANGED objects PROVE VolumesInv'
<1>1. /\ at' = "pvcs" /\ err' = FALSE /\ gotPVCs' = EmptyFcn /\ gotPods' = {}
      /\ gotStatefulSets' = EmptyFcn /\ findings' = {}
      /\ pvAt' = "pvs" /\ pvErr' = FALSE /\ gotVolumes' = EmptyFcn /\ pvFindings' = {}
      /\ watch' = NothingYet /\ UNCHANGED <<pvcs, pods, statefulSets, volumes>>
  BY DEF NextScan, objects, cluster
<1>2. \A S, T : EmptyFcn \in PartialFcns(S, T)
  BY DEF EmptyFcn, PartialFcns
<1>3. VolumesTypeOK'
  BY <1>1, <1>2 DEF VolumesInv, VolumesTypeOK, TypeOK
<1>4. (watch \in WatchRecord)' /\ watch'.owned = {} /\ ~Started'
  BY <1>1 DEF NothingYet, WatchRecord, Started
<1>5. WatchInv' /\ ClaimsInv' /\ LeftoversInv'
  BY <1>1, <1>4 DEF WatchInv, ClaimsInv, LeftoversInv
<1> QED BY <1>1, <1>3, <1>4, <1>5 DEF VolumesInv

LEMMA InitEstablishesVolumesInv == ASSUME InitCluster, InitScan PROVE VolumesInv
<1>1. /\ at = "pvcs" /\ err = FALSE /\ gotPVCs = EmptyFcn /\ gotPods = {}
      /\ gotStatefulSets = EmptyFcn /\ findings = {}
      /\ pvAt = "pvs" /\ pvErr = FALSE /\ gotVolumes = EmptyFcn /\ pvFindings = {}
      /\ watch = NothingYet /\ statefulSets = EmptyFcn
  BY DEF InitScan, InitCluster, Leftovers!Init, Leftovers!EmptyFcn, EmptyFcn
<1>2. \A S, T : EmptyFcn \in PartialFcns(S, T)
  BY DEF EmptyFcn, PartialFcns
<1>3. VolumesTypeOK /\ ClaimedAreTaken(volumes)
  <2>1. volumes \in PartialFcns(PVs, VolumeStates) /\ ClaimedAreTaken(volumes)
    BY DEF InitCluster
  <2>2. pvcs \in PartialFcns(PVCs, Labels) /\ pods \subseteq Pods
    BY DEF InitCluster
  <2> QED BY <1>1, <1>2, <2>1, <2>2 DEF VolumesTypeOK, TypeOK
<1>4. watch \in WatchRecord /\ watch.owned = {} /\ ~Started
  BY <1>1 DEF NothingYet, WatchRecord, Started
<1>5. WatchInv /\ ClaimsInv /\ LeftoversInv
  BY <1>1, <1>4 DEF WatchInv, ClaimsInv, LeftoversInv
<1> QED BY <1>1, <1>3, <1>4, <1>5 DEF VolumesInv

LEMMA SameStateKeepsVolumesInv ==
  ASSUME VolumesInv, UNCHANGED <<pvcs, pods, statefulSets, volumes>>,
         UNCHANGED <<at, err, gotPVCs, gotPods, gotStatefulSets, findings>>,
         UNCHANGED <<pvAt, pvErr, gotVolumes, pvFindings, watch>>
  PROVE  VolumesInv'
<1>1. VolumesTypeOK'
  BY DEF VolumesInv, VolumesTypeOK, TypeOK
<1>2. (ReadAll' <=> ReadAll) /\ (Started' <=> Started) /\ UNCHANGED <<Idle, Hands, IdleSteady>>
  BY DEF ReadAll, Started, Idle, eligible, Mounted, Hands, IdleSteady
<1>3. WatchInv'
  BY <1>2 DEF VolumesInv, WatchInv
<1>4. ClaimsInv'
  BY <1>2 DEF VolumesInv, ClaimsInv
<1>5. LeftoversInv'
  BY <1>2 DEF VolumesInv, LeftoversInv
<1> QED BY <1>1, <1>3, <1>4, <1>5 DEF VolumesInv

-----------------------------------------------------------------------------
(* Volumes: what a finished scan bills *)

\* The findings are finite sets, so their numbers are numbers.
LEMMA FindingsAreFinite ==
  ASSUME VolumesInv PROVE IsFiniteSet(findings) /\ IsFiniteSet(pvFindings)
<1>1. findings \subseteq PVCs /\ pvFindings \subseteq PVs
  BY DEF VolumesInv, VolumesTypeOK, TypeOK
<1> QED BY <1>1, FiniteAssumption, FS_Subset

\* How often a volume is billed: at most once under a claim, and at most once by itself.
LEMMA BilledAtMostOnceByEach ==
  ASSUME VolumesInv, NEW v
  PROVE  Billed(v) = (IF \E c \in findings : <<c, v>> \in watch.owned THEN 1 ELSE 0)
                       + (IF v \in pvFindings THEN 1 ELSE 0)
<1> DEFINE byClaim == {c \in findings : <<c, v>> \in watch.owned}
           byItself == {w \in pvFindings : w = v}
<1>1. Cardinality({}) = 0 /\ \A x : Cardinality({x}) = 1
  BY FS_EmptySet, FS_Singleton
<1>2. \A c, d \in byClaim : c = d
  BY DEF VolumesInv, WatchInv
<1>3. byClaim = {} \/ \E c : byClaim = {c}
  <2> HIDE DEF byClaim
  <2> QED BY <1>2
<1>4. byItself = IF v \in pvFindings THEN {v} ELSE {}
  OBVIOUS
<1>5. (\E c \in findings : <<c, v>> \in watch.owned) <=> byClaim # {}
  OBVIOUS
<1>6. Billed(v) = Cardinality(byClaim) + Cardinality(byItself)
  BY DEF Billed
<1> HIDE DEF byClaim, byItself
<1>7. Cardinality(byClaim) = IF byClaim # {} THEN 1 ELSE 0
  BY <1>1, <1>3
<1>8. Cardinality(byItself) = IF v \in pvFindings THEN 1 ELSE 0
  BY <1>1, <1>4
<1> QED BY <1>5, <1>6, <1>7, <1>8

\* A volume that stayed in the same hands is reported under its claim or by itself, not
\* both, unless it is in the middle of a binding; and it is reported if it was idle, unless
\* it is Unseen.
LEMMA WhoReportsAVolume ==
  ASSUME VolumesInv, at = "returned", pvAt = "returned", NEW h \in watch.steady
  PROVE  /\ h[1] \in pvFindings /\ ~Binding(h) =>
              \A c \in findings : <<c, h[1]>> \notin watch.owned
         /\ h[1] \in watch.idle /\ ~Unseen(h) =>
              h[1] \in pvFindings \/ \E c \in findings : <<c, h[1]>> \in watch.owned
<1>1. /\ findings = {p \in DOMAIN gotPVCs : p \notin referencedPVCs(gotPods) /\ gotPVCs[p] # "true"}
      /\ pvFindings = LeftOvers(gotVolumes)
      /\ h[1] \in DOMAIN gotVolumes
      /\ h[2] = gotVolumes[h[1]].phase /\ h[3] = gotVolumes[h[1]].claim
      /\ findings \subseteq PVCs
      /\ \A c \in PVCs : <<c, h[1]>> \in watch.owned <=> h[3] = c
      /\ h[2] \in Phases
  BY DEF VolumesInv, ClaimsInv, LeftoversInv, WatchInv, WatchRecord, VolumesTypeOK, TypeOK
<1>2. h[3] \in PVCs => h[2] \in {"Pending", "Available", "Bound"}
  BY <1>1 DEF VolumesInv, LeftoversInv, ClaimedAreTaken
<1>3. ASSUME h[1] \in pvFindings, ~Binding(h), NEW c \in findings
      PROVE  <<c, h[1]>> \notin watch.owned
  <2>1. h[2] \in {"Released", "Available"} /\ c \in PVCs
    BY <1>1, <1>3 DEF LeftOvers
  <2>2. h[3] \notin PVCs
    BY <1>2, <1>3, <2>1 DEF Binding
  <2> QED BY <1>1, <2>1, <2>2
<1>4. ASSUME h[1] \in watch.idle, ~Unseen(h)
      PROVE  h[1] \in pvFindings \/ \E c \in findings : <<c, h[1]>> \in watch.owned
  <2>1. h \in IdleSteady
    BY <1>4 DEF IdleSteady
  <2>2. CASE h[3] \in PVCs
    <3>1. <<h[3], h[1]>> \in watch.owned
      BY <1>1, <2>2
    <3>2. h[3] \in DOMAIN gotPVCs /\ gotPVCs[h[3]] # "true" /\ h[3] \notin referencedPVCs(gotPods)
      BY <2>1, <2>2, <3>1 DEF VolumesInv, ClaimsInv
    <3> QED BY <1>1, <3>1, <3>2
  <2>3. CASE h[3] \notin PVCs
    <3>1. gotVolumes[h[1]].ignore # "true"
      BY <2>1, <2>3 DEF VolumesInv, LeftoversInv
    <3>2. h[2] \in {"Released", "Available"}
      BY <1>1, <1>4, <2>3 DEF Unseen, Phases
    <3> QED BY <1>1, <3>1, <3>2 DEF LeftOvers
  <2> QED BY <2>2, <2>3
<1> QED BY <1>3, <1>4

LEMMA VolumesInvBillsOnce == VolumesInv => IdleVolumeIsBilledOnce
<1> SUFFICES ASSUME VolumesInv, at = "returned", pvAt = "returned", NEW h \in watch.steady
             PROVE  /\ h[1] \in watch.idle /\ ~Binding(h) /\ ~Unseen(h) => Billed(h[1]) = 1
                    /\ Billed(h[1]) = 2 => Binding(h)
                    /\ h[1] \in watch.idle /\ Billed(h[1]) = 0 => Unseen(h)
  BY DEF IdleVolumeIsBilledOnce
<1> DEFINE owned == \E c \in findings : <<c, h[1]>> \in watch.owned
           left == h[1] \in pvFindings
<1>1. Billed(h[1]) = (IF owned THEN 1 ELSE 0) + (IF left THEN 1 ELSE 0)
  BY BilledAtMostOnceByEach
<1>2. /\ left /\ ~Binding(h) => ~owned
      /\ h[1] \in watch.idle /\ ~Unseen(h) => left \/ owned
  BY WhoReportsAVolume
<1> HIDE DEF owned, left
<1> QED BY <1>1, <1>2

-----------------------------------------------------------------------------
(* GitHubAction: the inductive invariant *)

\* What a scan of the cluster as it is would find, but for the detectors that fail: the
\* claims in scope, of any age, the volumes, and the claims that are too young by now.
IdleClaims == {p \in DOMAIN pvcs : p \notin referencedPVCs(pods) /\ pvcs[p] # "true"}

ClaimsDue(skipped) ==
  IF "unattached-pvc" \in skipped THEN {} ELSE {c \in IdleClaims : ~outOfScope(c)}
VolumesDue(skipped) == IF "orphaned-pv" \in skipped THEN {} ELSE LeftOvers(volumes)
Due(skipped) == Cardinality(ClaimsDue(skipped)) + Cardinality(VolumesDue(skipped))
YoungDue(skipped) == {c \in ClaimsDue(skipped) : now - born[c] < inputs.minAge}

\* Nothing is left out of o but for its age.
Complete(o) == o.orphaned + Cardinality(o.young) = Due(o.skipped)

\* Until the cluster moves, what was read and counted is what there is, and only the clock
\* can take a claim from those that were too young.
QuietInv ==
  ~moved =>
    /\ at # "pvcs" => gotPVCs = pvcs /\ listed = born
    /\ at \notin {"pvcs", "pods"} => gotPods = pods
    /\ pvAt # "pvs" => gotVolumes = volumes
    /\ step \in {"second", "gate"} =>
         Complete(count) /\ YoungDue(count.skipped) \subseteq count.young
    /\ step = "gate" =>
         Complete(report) /\ (report.skipped = count.skipped => report.young \subseteq count.young)

\* What stood idle throughout the first scan was counted, unless a detector was skipped.
GateInv ==
  /\ standing # {} /\ count.skipped = {} => count.orphaned > 0
  /\ exit = 0 /\ inputs.failOnFindings => ~(count.orphaned > 0)

ActionInv == ActionTypeOK /\ VolumesInv /\ QuietInv /\ GateInv
-----------------------------------------------------------------------------
(* GitHubAction: every step keeps the invariant *)

\* The claims a scan found in scope are those it counts and those it leaves out as too
\* young.
LEMMA FilteredIsAnOutcome ==
  ASSUME VolumesInv
  PROVE  /\ filtered \in Outcomes
         /\ filtered.young = young
         /\ filtered.orphaned + Cardinality(young)
              = Cardinality({c \in findings : ~outOfScope(c)}) + Cardinality(pvFindings)
         /\ "unattached-pvc" \in filtered.skipped <=> err
         /\ "orphaned-pv" \in filtered.skipped <=> pvErr
<1> DEFINE inScope == {c \in findings : ~outOfScope(c)}
           old == {c \in findings : ~outOfScope(c) /\ ~tooYoung(c)}
           skipped == {d \in {"unattached-pvc", "orphaned-pv"} :
                         IF d = "orphaned-pv" THEN pvErr ELSE err}
<1>1. findings \subseteq PVCs /\ young \subseteq inScope /\ old = inScope \ young
  BY DEF VolumesInv, VolumesTypeOK, TypeOK, young
<1>2. IsFiniteSet(inScope) /\ IsFiniteSet(pvFindings) /\ IsFiniteSet(young) /\ IsFiniteSet(old)
  BY <1>1, FindingsAreFinite, FS_Subset
<1>3. /\ Cardinality(inScope) \in Nat /\ Cardinality(pvFindings) \in Nat
      /\ Cardinality(young) \in Nat /\ Cardinality(old) \in Nat
  BY <1>2, FS_CardinalityType
<1>4. Cardinality(old) = Cardinality(inScope) - Cardinality(young)
  <2>1. inScope \cap young = young
    BY <1>1
  <2> HIDE DEF inScope, old
  <2>2. Cardinality(inScope \ young) = Cardinality(inScope) - Cardinality(inScope \cap young)
    BY <1>2, FS_Difference
  <2> QED BY <1>1, <2>1, <2>2
<1>5. filtered = [orphaned |-> Cardinality(old) + Cardinality(pvFindings), young |-> young,
                  skipped |-> skipped]
  BY DEF filtered
<1>6. /\ skipped \subseteq {"unattached-pvc", "orphaned-pv"} /\ young \subseteq PVCs
      /\ "unattached-pvc" \in skipped <=> err
      /\ "orphaned-pv" \in skipped <=> pvErr
  BY <1>1
<1> HIDE DEF inScope, old, skipped
<1>7. filtered \in Outcomes
  BY <1>3, <1>5, <1>6 DEF Outcomes
<1>8. filtered.orphaned + Cardinality(young) = Cardinality(inScope) + Cardinality(pvFindings)
  BY <1>3, <1>4, <1>5
<1> QED BY <1>5, <1>6, <1>7, <1>8 DEF inScope

\* What a finished scan found is due if nothing has moved.
LEMMA FilteredIsDue ==
  ASSUME VolumesInv, Scanned,
         at # "pvcs" => gotPVCs = pvcs /\ listed = born,
         at \notin {"pvcs", "pods"} => gotPods = pods,
         pvAt # "pvs" => gotVolumes = volumes
  PROVE  Complete(filtered) /\ filtered.young = YoungDue(filtered.skipped)
<1> DEFINE inScope == {c \in findings : ~outOfScope(c)}
<1>1. inScope = ClaimsDue(filtered.skipped)
  <2>1. CASE err
    <3>1. findings = {}
      BY <2>1 DEF VolumesInv, ClaimsInv
    <3> QED BY <2>1, <3>1, FilteredIsAnOutcome DEF ClaimsDue
  <2>2. CASE ~err
    <3>1. at = "returned" /\ gotPVCs = pvcs /\ gotPods = pods
      BY <2>2 DEF Scanned
    <3>2. findings = IdleClaims
      BY <3>1 DEF VolumesInv, ClaimsInv, IdleClaims
    <3> QED BY <2>2, <3>2, FilteredIsAnOutcome DEF ClaimsDue
  <2> QED BY <2>1, <2>2
<1>2. young = YoungDue(filtered.skipped)
  <2>1. CASE err
    <3>1. findings = {}
      BY <2>1 DEF VolumesInv, ClaimsInv
    <3> QED BY <1>1, <3>1 DEF young, YoungDue
  <2>2. CASE ~err
    <3>1. listed = born
      BY <2>2 DEF Scanned
    <3>2. young = {c \in inScope : now - born[c] < inputs.minAge}
      BY <3>1 DEF young, tooYoung
    <3> QED BY <1>1, <3>2 DEF YoungDue
  <2> QED BY <2>1, <2>2
<1>3. pvFindings = VolumesDue(filtered.skipped)
  <2>1. CASE pvErr
    BY <2>1, FilteredIsAnOutcome DEF VolumesInv, LeftoversInv, VolumesDue
  <2>2. CASE ~pvErr
    <3>1. pvAt = "returned" /\ gotVolumes = volumes
      BY <2>2 DEF Scanned
    <3> QED BY <2>2, <3>1, FilteredIsAnOutcome DEF VolumesInv, LeftoversInv, VolumesDue
  <2> QED BY <2>1, <2>2
<1>4. /\ filtered.young = young
      /\ filtered.orphaned + Cardinality(young) = Cardinality(inScope) + Cardinality(pvFindings)
  BY FilteredIsAnOutcome
<1> HIDE DEF inScope
<1> QED BY <1>1, <1>2, <1>3, <1>4 DEF Due, Complete

LEMMA ActionInitIsSound == ActionInit => ActionInv
<1> SUFFICES ASSUME ActionInit PROVE ActionInv
  OBVIOUS
<1>1. VolumesInv
  BY InitEstablishesVolumesInv DEF ActionInit
<1>2. /\ step = "first" /\ exit = 2 /\ count = Nothing /\ report = Nothing
      /\ moved = FALSE /\ standing = {} /\ inputs \in Inputs /\ at = "pvcs" /\ pvAt = "pvs"
      /\ now = 0 /\ born = [c \in PVCs |-> 0] /\ listed = born
  BY DEF ActionInit, InitScan, Leftovers!Init
<1>3. ActionTypeOK
  <2>1. now \in 0..MaxTime /\ born \in [PVCs -> 0..MaxTime] /\ listed \in [PVCs -> 0..MaxTime]
    BY <1>2, MaxTimeAssumption
  <2>2. Nothing \in Outcomes
    BY DEF Nothing, Outcomes
  <2> QED BY <1>1, <1>2, <2>1, <2>2 DEF VolumesInv, ActionTypeOK
<1>4. QuietInv /\ GateInv
  BY <1>2 DEF QuietInv, GateInv
<1> QED BY <1>1, <1>3, <1>4 DEF ActionInv

\* What is due depends on the cluster, the inputs and the detectors that fail.
LEMMA DueStays ==
  ASSUME UNCHANGED <<pvcs, pods, volumes, inputs>>
  PROVE  /\ \A skipped : ClaimsDue(skipped)' = ClaimsDue(skipped) /\ Due(skipped)' = Due(skipped)
         /\ UNCHANGED <<now, born>> => \A skipped : YoungDue(skipped)' = YoungDue(skipped)
<1>1. IdleClaims' = IdleClaims /\ LeftOvers(volumes)' = LeftOvers(volumes)
  BY DEF IdleClaims, LeftOvers, referencedPVCs
<1>2. ASSUME NEW skipped
      PROVE  ClaimsDue(skipped)' = ClaimsDue(skipped) /\ VolumesDue(skipped)' = VolumesDue(skipped)
  BY <1>1 DEF ClaimsDue, VolumesDue, outOfScope
<1>3. ASSUME NEW skipped PROVE Due(skipped)' = Due(skipped)
  BY <1>2 DEF Due
<1>4. ASSUME UNCHANGED <<now, born>>, NEW skipped PROVE YoungDue(skipped)' = YoungDue(skipped)
  BY <1>2, <1>4 DEF YoungDue
<1> QED BY <1>2, <1>3, <1>4

\* A step of the script that leaves the cluster, the clock and the counts as they are.
LEMMA CountsStayTrue ==
  ASSUME QuietInv, UNCHANGED <<pvcs, pods, volumes, inputs, now, born, step, count, report, moved>>,
         ~moved => /\ at' # "pvcs" => gotPVCs' = pvcs' /\ listed' = born'
                   /\ at' \notin {"pvcs", "pods"} => gotPods' = pods'
                   /\ pvAt' # "pvs" => gotVolumes' = volumes'
  PROVE  QuietInv'
<1>1. /\ Complete(count)' <=> Complete(count)
      /\ Complete(report)' <=> Complete(report)
      /\ YoungDue(count.skipped)' = YoungDue(count.skipped)
  BY DueStays DEF Complete
<1> QED BY <1>1 DEF QuietInv

LEMMA ScanRunsKeepsActionInv == ASSUME ActionInv, ScanRuns PROVE ActionInv'
<1>1. /\ VolumesInv'
      /\ UNCHANGED <<now, born, inputs, step, exit, count, report, moved, standing>>
      /\ listed' = IF at = "pvcs" THEN born ELSE listed
  BY ClaimsScanKeepsVolumesInv, VolumesScanKeepsVolumesInv DEF ActionInv, ScanRuns, action
<1>2. UNCHANGED <<pvcs, pods, volumes>>
  BY DEF ScanRuns, ClaimsScan, Scan, ListPVCs, ListPods, ListStatefulSets, ListStorageClasses,
         ListFails, Return, VolumesScan, Leftovers!Scan, Leftovers!ListPVs,
         Leftovers!ListStorageClasses, Leftovers!ListFails, Leftovers!Return, cluster
<1>3. ~moved =>
        /\ at' # "pvcs" => gotPVCs' = pvcs /\ listed' = born
        /\ at' \notin {"pvcs", "pods"} => gotPods' = pods
        /\ pvAt' # "pvs" => gotVolumes' = volumes
  <2>1. ~moved => /\ at # "pvcs" => gotPVCs = pvcs /\ listed = born
                  /\ at \notin {"pvcs", "pods"} => gotPods = pods
                  /\ pvAt # "pvs" => gotVolumes = volumes
    BY DEF ActionInv, QuietInv
  <2>2. CASE ClaimsScan
    <3>1. UNCHANGED <<pvAt, gotVolumes>>
      BY <2>2 DEF ClaimsScan, volumeScan
    <3>2. \/ at = "pvcs" /\ at' = "pods" /\ gotPVCs' = pvcs /\ gotPods' = gotPods
          \/ at = "pods" /\ at' = "statefulsets" /\ gotPVCs' = gotPVCs /\ gotPods' = pods
          \/ at \notin {"pvcs", "pods"} /\ UNCHANGED <<gotPVCs, gotPods>>
          \/ UNCHANGED <<at, gotPVCs, gotPods>>
      BY <2>2 DEF ClaimsScan, Scan, ListPVCs, ListPods, ListStatefulSets, ListStorageClasses,
                  ListFails, Return
    <3> QED BY <1>1, <2>1, <3>1, <3>2
  <2>3. CASE VolumesScan
    <3>1. UNCHANGED <<at, gotPVCs, gotPods>>
      BY <2>3 DEF VolumesScan, scan
    <3>2. \/ pvAt = "pvs" /\ gotVolumes' = volumes
          \/ pvAt # "pvs" /\ gotVolumes' = gotVolumes
          \/ UNCHANGED <<pvAt, gotVolumes>>
      BY <2>3 DEF VolumesScan, Leftovers!Scan, Leftovers!ListPVs, Leftovers!ListStorageClasses,
                  Leftovers!ListFails, Leftovers!Return
    <3> QED BY <1>1, <2>1, <3>1, <3>2
  <2> QED BY <2>2, <2>3 DEF ScanRuns
<1>4. QuietInv'
  BY <1>1, <1>2, <1>3, CountsStayTrue DEF ActionInv
<1>5. listed' \in [PVCs -> 0..MaxTime]
  BY <1>1 DEF ActionInv, ActionTypeOK
<1>6. GateInv' /\ ActionTypeOK'
  BY <1>1, <1>5 DEF ActionInv, GateInv, ActionTypeOK, VolumesInv
<1> QED BY <1>1, <1>4, <1>6 DEF ActionInv

\* A volume that stood idle, in scope and of age, throughout a scan that no detector failed
\* is counted.
LEMMA StandingIsCounted ==
  ASSUME VolumesInv, Scanned, filtered.skipped = {}, NEW h \in watch.steady,
         h[1] \in watch.idle, ~Unseen(h), ~Spared(h[1])
  PROVE  filtered.orphaned > 0
<1> DEFINE old == {c \in findings : ~outOfScope(c) /\ ~tooYoung(c)}
<1>1. filtered.orphaned = Cardinality(old) + Cardinality(pvFindings)
  BY DEF filtered
<1>2. ~err /\ ~pvErr
  BY FilteredIsAnOutcome
<1>3. at = "returned" /\ pvAt = "returned"
  BY <1>2 DEF Scanned
<1>4. old # {} \/ pvFindings # {}
  <2>1. findings \subseteq PVCs
    BY DEF VolumesInv, VolumesTypeOK, TypeOK
  <2>2. h[1] \in pvFindings \/ \E c \in findings : <<c, h[1]>> \in watch.owned
    BY <1>3, WhoReportsAVolume
  <2> QED BY <2>1, <2>2 DEF Spared
<1>5. IsFiniteSet(old) /\ IsFiniteSet(pvFindings)
  BY FindingsAreFinite, FS_Subset
<1> HIDE DEF old
<1>6. /\ Cardinality(old) \in Nat /\ Cardinality(pvFindings) \in Nat
      /\ Cardinality(old) # 0 \/ Cardinality(pvFindings) # 0
  BY <1>4, <1>5, FS_CardinalityType, FS_EmptySet
<1> QED BY <1>1, <1>6

LEMMA FirstScanEndsKeepsActionInv == ASSUME ActionInv, FirstScanEnds PROVE ActionInv'
<1>0. /\ ActionTypeOK /\ VolumesInv /\ QuietInv /\ GateInv
      /\ step = "first" /\ Scanned /\ count' = filtered /\ report' = filtered
      /\ standing' = {h[1] : h \in {x \in watch.steady :
                                      x[1] \in watch.idle /\ ~Unseen(x) /\ ~Spared(x[1])}}
      /\ step' = IF inputs.output # "json" THEN "second" ELSE "gate"
      /\ NextScan /\ UNCHANGED <<objects, now, born, listed, inputs, exit, moved>>
  BY DEF ActionInv, FirstScanEnds, clock
<1>1. VolumesInv'
  BY <1>0, NextScanKeepsVolumesInv
<1>2. at' = "pvcs" /\ pvAt' = "pvs"
  BY <1>0 DEF NextScan
<1>3. UNCHANGED <<pvcs, pods, volumes, inputs, now, born>>
  BY <1>0 DEF objects, cluster
<1>4. ~moved => Complete(filtered) /\ filtered.young = YoungDue(filtered.skipped)
  BY <1>0, FilteredIsDue DEF QuietInv
<1>5. QuietInv'
  <2>1. ~moved => /\ count'.orphaned + Cardinality(count'.young) = Due(count'.skipped)
                  /\ count'.young = YoungDue(count'.skipped) /\ report' = count'
    BY <1>0, <1>4 DEF Complete
  <2>2. ~moved' => /\ Complete(count)' /\ Complete(report)'
                   /\ YoungDue(count.skipped)' \subseteq count'.young /\ report' = count'
    BY <1>0, <1>3, <2>1, DueStays DEF Complete
  <2> QED BY <1>2, <2>2 DEF QuietInv
<1>6. standing' \subseteq PVs
  BY <1>0 DEF VolumesInv, WatchRecord
<1>7. ActionTypeOK'
  BY <1>0, <1>1, <1>6, FilteredIsAnOutcome DEF ActionTypeOK, VolumesInv
<1>8. GateInv'
  <2>1. exit # 0
    BY <1>0 DEF ActionTypeOK
  <2>2. standing' # {} /\ filtered.skipped = {} => filtered.orphaned > 0
    BY <1>0, StandingIsCounted
  <2> QED BY <1>0, <2>1, <2>2 DEF GateInv
<1> QED BY <1>1, <1>5, <1>7, <1>8 DEF ActionInv

LEMMA SecondScanEndsKeepsActionInv == ASSUME ActionInv, SecondScanEnds PROVE ActionInv'
<1>0. /\ ActionTypeOK /\ VolumesInv /\ QuietInv /\ GateInv
      /\ step = "second" /\ Scanned /\ report' = filtered /\ step' = "gate"
      /\ NextScan /\ UNCHANGED <<objects, now, born, listed, inputs, exit, count, moved, standing>>
  BY DEF ActionInv, SecondScanEnds, secondReport, clock
<1>1. VolumesInv'
  BY <1>0, NextScanKeepsVolumesInv
<1>2. at' = "pvcs" /\ pvAt' = "pvs"
  BY <1>0 DEF NextScan
<1>3. UNCHANGED <<pvcs, pods, volumes, inputs, now, born>>
  BY <1>0 DEF objects, cluster
<1>4. ~moved => /\ Complete(filtered) /\ filtered.young = YoungDue(filtered.skipped)
                /\ Complete(count) /\ YoungDue(count.skipped) \subseteq count.young
  BY <1>0, FilteredIsDue DEF QuietInv
<1>5. QuietInv'
  <2>1. ~moved => /\ report'.orphaned + Cardinality(report'.young) = Due(report'.skipped)
                  /\ report'.young = YoungDue(report'.skipped)
    BY <1>0, <1>4 DEF Complete
  <2>2. ~moved' => /\ Complete(report)' /\ Complete(count)'
                   /\ YoungDue(count.skipped)' \subseteq count'.young
                   /\ report'.skipped = count'.skipped => report'.young \subseteq count'.young
    BY <1>0, <1>3, <1>4, <2>1, DueStays DEF Complete
  <2> QED BY <1>2, <2>2 DEF QuietInv
<1>6. ActionTypeOK'
  BY <1>0, <1>1, FilteredIsAnOutcome DEF ActionTypeOK, VolumesInv
<1>7. GateInv'
  BY <1>0 DEF GateInv
<1> QED BY <1>1, <1>5, <1>6, <1>7 DEF ActionInv

\* What only moves the script on.
LEMMA ExitKeepsActionInv == ASSUME ActionInv, ScanFails \/ Gate PROVE ActionInv'
<1>0. /\ ActionTypeOK /\ VolumesInv /\ QuietInv /\ GateInv
      /\ step' = "exited" /\ exit' \in {0, 1}
      /\ exit' = 0 /\ inputs.failOnFindings => ~(count.orphaned > 0)
      /\ UNCHANGED <<objects, scans, hist, watch, now, born, listed>>
      /\ UNCHANGED <<inputs, count, report, moved, standing>>
  BY DEF ActionInv, ScanFails, Gate, gateExit, clock
<1>1. /\ UNCHANGED <<pvcs, pods, statefulSets, volumes>>
      /\ UNCHANGED <<at, err, gotPVCs, gotPods, gotStatefulSets, findings>>
      /\ UNCHANGED <<pvAt, pvErr, gotVolumes, pvFindings>>
  BY <1>0 DEF objects, cluster, scans, scan, volumeScan
<1>2. VolumesInv'
  BY <1>0, <1>1, SameStateKeepsVolumesInv
<1>3. QuietInv'
  BY <1>0, <1>1 DEF QuietInv
<1>4. ActionTypeOK' /\ GateInv'
  BY <1>0, <1>2 DEF ActionTypeOK, GateInv, VolumesInv
<1> QED BY <1>2, <1>3, <1>4 DEF ActionInv

LEMMA MoveKeepsActionInv == ASSUME ActionInv, ClusterMovesOn PROVE ActionInv'
<1>0. /\ ActionTypeOK /\ VolumesInv /\ QuietInv /\ GateInv
      /\ ObjectsMove /\ moved' = (moved \/ step # "first" \/ Started)
      /\ born' = [c \in PVCs |-> IF c \notin DOMAIN pvcs THEN now ELSE born[c]]
      /\ UNCHANGED <<now, listed, inputs, step, exit, count, report, standing>>
  BY DEF ActionInv, ClusterMovesOn
<1>1. VolumesInv'
  BY <1>0, MoveKeepsVolumesInv
<1>2. UNCHANGED <<at, pvAt>>
  BY <1>0 DEF ObjectsMove, scans, scan, volumeScan
<1>3. QuietInv'
  BY <1>0, <1>2 DEF QuietInv, Started
<1>4. born' \in [PVCs -> 0..MaxTime]
  BY <1>0 DEF ActionTypeOK
<1>5. ActionTypeOK' /\ GateInv'
  BY <1>0, <1>1, <1>4 DEF ActionTypeOK, GateInv, VolumesInv
<1> QED BY <1>1, <1>3, <1>5 DEF ActionInv

\* Who is too young later was too young before.
LEMMA TickKeepsActionInv == ASSUME ActionInv, Tick PROVE ActionInv'
<1>0. /\ ActionTypeOK /\ VolumesInv /\ QuietInv /\ GateInv
      /\ now < MaxTime /\ now' = now + 1
      /\ UNCHANGED <<objects, scans, hist, watch, born, listed>>
      /\ UNCHANGED <<inputs, step, exit, count, report, moved, standing>>
  BY DEF ActionInv, Tick, action
<1>1. /\ UNCHANGED <<pvcs, pods, statefulSets, volumes>>
      /\ UNCHANGED <<at, err, gotPVCs, gotPods, gotStatefulSets, findings>>
      /\ UNCHANGED <<pvAt, pvErr, gotVolumes, pvFindings>>
  BY <1>0 DEF objects, cluster, scans, scan, volumeScan
<1>2. VolumesInv'
  BY <1>0, <1>1, SameStateKeepsVolumesInv
<1>3. ASSUME NEW skipped PROVE YoungDue(skipped)' \subseteq YoungDue(skipped)
  <2>1. ASSUME NEW c \in ClaimsDue(skipped), now' - born[c] < inputs.minAge
        PROVE  now - born[c] < inputs.minAge
    <3>1. c \in PVCs
      BY <1>0 DEF ClaimsDue, IdleClaims, ActionTypeOK, VolumesTypeOK, TypeOK, PartialFcns
    <3>2. now \in Nat /\ born[c] \in Nat /\ inputs.minAge \in Nat
      BY <1>0, <3>1, MaxTimeAssumption, InputsAssumption DEF ActionTypeOK
    <3> QED BY <1>0, <2>1, <3>2
  <2>2. ClaimsDue(skipped)' = ClaimsDue(skipped)
    BY <1>0, <1>1, DueStays
  <2> QED BY <1>0, <2>1, <2>2 DEF YoungDue
<1>4. QuietInv'
  <2>1. /\ Complete(count)' <=> Complete(count)
        /\ Complete(report)' <=> Complete(report)
    BY <1>0, <1>1, DueStays DEF Complete
  <2>2. YoungDue(count.skipped)' \subseteq YoungDue(count.skipped)
    BY <1>0, <1>3
  <2> QED BY <1>0, <1>1, <2>1, <2>2 DEF QuietInv
<1>5. now' \in 0..MaxTime
  BY <1>0, MaxTimeAssumption DEF ActionTypeOK
<1>6. ActionTypeOK' /\ GateInv'
  BY <1>0, <1>2, <1>5 DEF ActionTypeOK, GateInv, VolumesInv
<1> QED BY <1>2, <1>4, <1>6 DEF ActionInv

LEMMA ActionInvHolds == ActionSpec => []ActionInv
<1>1. ActionInv /\ [ActionNext]_actionVars => ActionInv'
  <2> SUFFICES ASSUME ActionInv, [ActionNext]_actionVars PROVE ActionInv'
    OBVIOUS
  <2>1. CASE UNCHANGED actionVars
    <3>1. /\ UNCHANGED <<pvcs, pods, statefulSets, volumes>>
          /\ UNCHANGED <<at, err, gotPVCs, gotPods, gotStatefulSets, findings>>
          /\ UNCHANGED <<pvAt, pvErr, gotVolumes, pvFindings, watch>>
          /\ UNCHANGED <<now, born, listed>>
          /\ UNCHANGED <<inputs, step, exit, count, report, moved, standing>>
      BY <2>1 DEF actionVars, objects, cluster, scans, scan, volumeScan, action, clock
    <3>2. VolumesInv'
      BY <3>1, SameStateKeepsVolumesInv DEF ActionInv
    <3>3. QuietInv'
      BY <3>1, CountsStayTrue DEF ActionInv, QuietInv
    <3> QED BY <3>1, <3>2, <3>3 DEF ActionInv, ActionTypeOK, GateInv, VolumesInv
  <2> QED
    BY <2>1, ScanRunsKeepsActionInv, FirstScanEndsKeepsActionInv, SecondScanEndsKeepsActionInv,
       ExitKeepsActionInv, MoveKeepsActionInv, TickKeepsActionInv DEF ActionNext, Exited
<1> QED BY <1>1, ActionInitIsSound, PTL DEF ActionSpec

-----------------------------------------------------------------------------
(* GitHubAction: the theorems *)

\* The action's variables, and those of the two detectors it runs, keep their types; a
\* count is a number, because what is listed is finite.
THEOREM ActionTypeOKHolds == ActionSpec => []ActionTypeOK
BY ActionInvHolds, PTL DEF ActionInv

\* An idle volume that stays in the same hands while both detectors read is billed in one
\* line, but for one that a binding is half done with, and one in a phase nobody looks for.
THEOREM IdleVolumeIsBilledOnceHolds == ActionSpec => []IdleVolumeIsBilledOnce
<1>1. ActionInv => IdleVolumeIsBilledOnce
  BY VolumesInvBillsOnce DEF ActionInv
<1> QED BY <1>1, ActionInvHolds, PTL

\* Only the live cluster, a detector that failed once and not again, or a claim that came
\* of age can make the count and the report of two scans differ.
THEOREM QuietScansAgreeHolds == ActionSpec => []QuietScansAgree
<1>1. ASSUME ActionInv, step = "gate", ~moved, count.skipped = report.skipped
      PROVE  /\ report.young \subseteq count.young
             /\ report.orphaned = count.orphaned + Cardinality(count.young \ report.young)
  <2>1. /\ report.orphaned + Cardinality(report.young) = count.orphaned + Cardinality(count.young)
        /\ report.young \subseteq count.young
    BY <1>1 DEF ActionInv, QuietInv, Complete
  <2>2. /\ count.orphaned \in Nat /\ report.orphaned \in Nat
        /\ IsFiniteSet(count.young) /\ IsFiniteSet(report.young)
    <3>1. count.young \subseteq PVCs /\ report.young \subseteq PVCs
          /\ count.orphaned \in Nat /\ report.orphaned \in Nat
      BY <1>1 DEF ActionInv, ActionTypeOK, Outcomes
    <3> QED BY <3>1, FiniteAssumption, FS_Subset
  <2>3. Cardinality(count.young \ report.young)
          = Cardinality(count.young) - Cardinality(report.young)
    <3>1. count.young \cap report.young = report.young
      BY <2>1
    <3> QED BY <2>2, <3>1, FS_Difference
  <2>4. Cardinality(count.young) \in Nat /\ Cardinality(report.young) \in Nat
    BY <2>2, FS_CardinalityType
  <2> QED BY <2>1, <2>2, <2>3, <2>4
<1>2. ActionInv => QuietScansAgree
  BY <1>1 DEF QuietScansAgree
<1> QED BY <1>2, ActionInvHolds, PTL

\* A green gate is no promise about a detector that was skipped, a claim out of scope or
\* too young, or a volume in a phase nobody looks for; it is one about everything else that
\* stood idle while the first scan read.
THEOREM GreenGateHidesOnlySkipsHolds == ActionSpec => []GreenGateHidesOnlySkips
<1>1. ActionInv => GreenGateHidesOnlySkips
  BY DEF ActionInv, GateInv, GreenGateHidesOnlySkips
<1> QED BY <1>1, ActionInvHolds, PTL
=============================================================================

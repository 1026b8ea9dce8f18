-------------------------- MODULE AutoscalerProofs --------------------------
(***************************************************************************)
(* The two detectors that read HorizontalPodAutoscalers.                   *)
(*                                                                         *)
(* IdleDeploymentDetector.Scan implements OrphanScan, for any Deployments, *)
(* any HPAs and any changes of them; what OrphanScanProofs shows of every  *)
(* such Scan is therefore true of this one.                                *)
(*                                                                         *)
(* StaleHPADetector.Scan, for any HPAs, any targets and any changes of     *)
(* them and of an HPA's scaleTargetRef, gets the targets one by one and is *)
(* no OrphanScan: the invariant follows the loop, and relates what it has  *)
(* judged to what the observer has seen since the List.                    *)
(***************************************************************************)
EXTENDS MCAutoscaler, TLAPS

\* The theorems about OrphanScan, read with this module's eligible, uses, phase, ...
P == INSTANCE OrphanScanProofs WITH Resources <- Deployments, Sources <- {"hpas"}

-----------------------------------------------------------------------------
(* IdleDeployment: type correctness *)

LEMMA InitIsTyped == Init => TypeOK
<1>1. ASSUME NEW S, NEW T PROVE EmptyFcn \in PartialFcns(S, T)
  BY DEF EmptyFcn, PartialFcns
<1> QED BY <1>1 DEF Init, TypeOK

\* The variables of IdleDeployment keep their types.
THEOREM TypeOKHolds == Spec => []TypeOK
<1>1. Init => TypeOK
  BY InitIsTyped
<1>2. TypeOK /\ [Next]_vars => TypeOK'
  <2> SUFFICES ASSUME TypeOK, [Next]_vars PROVE TypeOK'
    OBVIOUS
  <2> USE DEF TypeOK
  <2>1. CASE ListDeployments
    BY <2>1 DEF ListDeployments, cluster
  <2>2. CASE ListHPAs
    BY <2>2 DEF ListHPAs, cluster
  <2>3. CASE ListFails
    BY <2>3 DEF ListFails, cluster
  <2>4. CASE Return
    <3>1. DOMAIN gotDeployments \subseteq Deployments
      BY DEF PartialFcns
    <3> QED BY <2>4, <3>1 DEF Return, cluster
  <2>5. CASE ClusterMoves
    <3>1. UNCHANGED <<at, err, gotDeployments, gotHPAs, findings>>
      BY <2>5 DEF ClusterMoves, scan
    <3>2. ASSUME NEW d \in Deployments, NEW st \in States, CreateOrUpdateDeployment(d, st)
          PROVE  deployments' \in PartialFcns(Deployments, States) /\ hpas' \subseteq HPAs
      BY <3>2 DEF CreateOrUpdateDeployment, Put, PartialFcns
    <3>3. ASSUME NEW d \in Deployments, DeleteDeployment(d)
          PROVE  deployments' \in PartialFcns(Deployments, States) /\ hpas' \subseteq HPAs
      BY <3>3 DEF DeleteDeployment, Delete, Restrict, PartialFcns
    <3>4. ASSUME NEW h \in HPAs, CreateOrDeleteHPA(h)
          PROVE  deployments' \in PartialFcns(Deployments, States) /\ hpas' \subseteq HPAs
      BY <3>4 DEF CreateOrDeleteHPA, Toggle
    <3> QED BY <2>5, <3>1, <3>2, <3>3, <3>4 DEF ClusterMoves
  <2>6. CASE UNCHANGED vars
    BY <2>6 DEF vars, cluster, scan
  <2> QED BY <2>1, <2>2, <2>3, <2>4, <2>5, <2>6 DEF Next, Scan
<1> QED BY <1>1, <1>2, PTL DEF Spec

-----------------------------------------------------------------------------
(* IdleDeployment: the step simulation *)

LEMMA ViewIsTyped ==
  TypeOK => eligible \subseteq Deployments /\ uses \in [{"hpas"} -> SUBSET Deployments]
<1> SUFFICES ASSUME TypeOK PROVE eligible \subseteq Deployments /\ uses \in [{"hpas"} -> SUBSET Deployments]
  OBVIOUS
<1>1. DOMAIN deployments \subseteq Deployments
  BY DEF TypeOK, PartialFcns
<1> QED BY <1>1 DEF eligible, Idle, uses, Managed

\* What the keys find is what the HPAs manage.
LEMMA KeysFindTheManaged ==
  ASSUME NEW hs
  PROVE  {d \in Deployments : <<d[1], "Deployment", d[2]>> \in deploymentHPATargetKeys(hs)}
           = Managed(hs)
BY DEF deploymentHPATargetKeys, Managed

LEMMA InitRefines == TypeOK /\ Init => P!Init
<1> SUFFICES ASSUME TypeOK, Init PROVE P!Init
  OBVIOUS
<1>1. candidates = {} /\ seen = [s \in {"hpas"} |-> {}]
  BY DEF Init, candidates, Idle, EmptyFcn, seen, deploymentHPATargetKeys
<1>2. phase = "start" /\ read = {}
  BY DEF Init, phase, read
<1>3. hist = P!NothingYet
  BY DEF Init, Abs!NothingYet, P!NothingYet
<1> QED BY <1>1, <1>2, <1>3, ViewIsTyped DEF P!Init, Init

LEMMA ListDeploymentsRefines == TypeOK /\ ListDeployments => P!ReadCandidates
<1> SUFFICES ASSUME TypeOK, ListDeployments PROVE P!ReadCandidates
  OBVIOUS
<1>1. phase = "start" /\ phase' = "reading" /\ UNCHANGED read
  BY DEF ListDeployments, phase, read
<1>2. candidates' = eligible /\ UNCHANGED <<eligible, uses, seen>>
  BY DEF ListDeployments, candidates, eligible, uses, seen, cluster
<1>3. hist' = P!BeginWith(eligible, uses) /\ UNCHANGED findings
  BY DEF ListDeployments, Abs!BeginWith, P!BeginWith, Abs!OrphansOf, P!OrphansOf,
         Abs!UsedIn, P!UsedIn
<1> QED BY <1>1, <1>2, <1>3 DEF P!ReadCandidates

LEMMA ListHPAsRefines == TypeOK /\ ListHPAs => P!ReadSource("hpas")
<1> SUFFICES ASSUME TypeOK, ListHPAs PROVE P!ReadSource("hpas")
  OBVIOUS
<1>1. phase = "reading" /\ UNCHANGED phase
  BY DEF ListHPAs, phase
<1>2. "hpas" \notin read /\ read' = read \cup {"hpas"}
  BY DEF ListHPAs, read
<1>3. seen' = [seen EXCEPT !["hpas"] = uses["hpas"]]
  BY KeysFindTheManaged DEF ListHPAs, seen, uses
<1>4. UNCHANGED <<eligible, uses, candidates, findings, hist>>
  BY DEF ListHPAs, eligible, uses, candidates, cluster
<1> QED BY <1>1, <1>2, <1>3, <1>4 DEF P!ReadSource

LEMMA ListFailsRefines == TypeOK /\ ListFails => P!Fail
BY DEF ListFails, P!Fail, TypeOK, phase, read, eligible, uses, candidates, seen, cluster

LEMMA ReturnRefines == TypeOK /\ Return => P!Report
<1> SUFFICES ASSUME TypeOK, Return PROVE P!Report
  OBVIOUS
<1>1. phase = "reading" /\ read = {"hpas"} /\ phase' = "reported" /\ UNCHANGED read
  BY DEF Return, phase, read
<1>2. UNCHANGED <<eligible, uses, candidates, seen, hist>>
  BY DEF Return, eligible, uses, candidates, seen, cluster
<1>3. DOMAIN gotDeployments \subseteq Deployments
  BY DEF TypeOK, PartialFcns
<1>4. P!UsedIn(seen) = seen["hpas"]
  BY DEF P!UsedIn, seen
<1>5. findings' = candidates \ seen["hpas"]
  BY <1>3 DEF Return, candidates, Idle, seen, isIgnored
<1> QED BY <1>1, <1>2, <1>4, <1>5 DEF P!Report, P!OrphansOf

LEMMA ClusterMovesRefines == TypeOK' /\ ClusterMoves => P!ClusterMoves
<1> SUFFICES ASSUME TypeOK', ClusterMoves PROVE P!ClusterMoves
  OBVIOUS
<1>1. eligible' \in SUBSET Deployments /\ uses' \in [{"hpas"} -> SUBSET Deployments]
  <2>1. DOMAIN deployments' \subseteq Deployments
    BY DEF TypeOK, PartialFcns
  <2> QED BY <2>1 DEF eligible, Idle, uses, Managed
<1>2. UNCHANGED P!scan
  BY DEF ClusterMoves, scan, P!scan, phase, candidates, read, seen
<1>3. P!Observe(eligible', uses')
  BY DEF ClusterMoves, Abs!Observe, P!Observe, Abs!Reading, P!Reading, Abs!ExtendWith,
         P!ExtendWith, Abs!OrphansOf, P!OrphansOf, Abs!UsedIn, P!UsedIn
<1> QED BY <1>1, <1>2, <1>3 DEF P!ClusterMoves

LEMMA StepRefines == TypeOK /\ TypeOK' /\ [Next]_vars => [P!Next]_P!vars
<1>1. CASE UNCHANGED vars
  BY <1>1 DEF vars, cluster, scan, P!vars, P!scan, eligible, uses, phase, candidates,
             read, seen
<1> QED
  BY <1>1, ListDeploymentsRefines, ListHPAsRefines, ListFailsRefines, ReturnRefines,
     ClusterMovesRefines
  DEF Next, Scan, P!Next

LEMMA Refinement == Spec => P!Spec
<1>1. Init => TypeOK
  BY InitIsTyped
<1>2. Init => P!Init
  BY <1>1, InitRefines
<1> QED BY <1>2, StepRefines, TypeOKHolds, PTL DEF Spec, P!Spec

-----------------------------------------------------------------------------
(* IdleDeployment: the theorems *)

\* Scan implements OrphanScan with the HPAs as its only source.
THEOREM ImplementsOrphanScanHolds == Spec => ImplementsOrphanScan
<1>1. P!Init => Abs!Init
  BY DEF P!Init, Abs!Init, P!NothingYet, Abs!NothingYet
<1>2. [P!Next]_P!vars => [Abs!Next]_Abs!vars
  BY DEF P!Next, Abs!Next, P!vars, Abs!vars, P!scan, Abs!scan,
         P!ReadCandidates, Abs!ReadCandidates, P!ReadSource, Abs!ReadSource,
         P!Report, Abs!Report, P!Fail, Abs!Fail, P!ClusterMoves, Abs!ClusterMoves,
         P!BeginWith, Abs!BeginWith, P!Observe, Abs!Observe, P!Reading, Abs!Reading,
         P!ExtendWith, Abs!ExtendWith, P!OrphansOf, Abs!OrphansOf, P!UsedIn, Abs!UsedIn
<1> QED BY <1>1, <1>2, Refinement, PTL DEF P!Spec, Abs!Spec, ImplementsOrphanScan

\* A Deployment that was idle and unmanaged throughout the Scan is reported.
THEOREM IdleDeploymentIsReportedHolds == Spec => []IdleDeploymentIsReported
<1>1. P!StandingOrphanIsReported => IdleDeploymentIsReported
  BY DEF P!StandingOrphanIsReported, IdleDeploymentIsReported,
         Abs!StandingOrphanIsReported, P!Reported, Abs!Reported
<1> QED BY <1>1, Refinement, P!StandingOrphanIsReportedHolds, PTL

\* A reported Deployment that was idle all along was unmanaged at some instant.
THEOREM ManagedDeploymentIsNotReportedHolds == Spec => []ManagedDeploymentIsNotReported
<1>1. P!OneSourceIsNeverMisled => ManagedDeploymentIsNotReported
  BY DEF P!OneSourceIsNeverMisled, ManagedDeploymentIsNotReported,
         Abs!OneSourceIsNeverMisled, P!Reported, Abs!Reported
<1> QED BY <1>1, Refinement, P!OneSourceIsNeverMisledHolds, PTL


-----------------------------------------------------------------------------
(* StaleHPA: the inductive invariant *)

\* What Scan can be sure of: the group of each target it gets is the one it gets it from.
OwnKinds == \A r \in Refs : r.kind \in {"Deployment", "StatefulSet"} => r.group = "apps"

\* Nothing has been read, or the locals are what is left of the one List.
HPAShape ==
  /\ getAt = "list" => gotScalers = HPA!EmptyFcn
  /\ getAt = "returned" => todo = {} /\ staleFindings = found

\* While a Get is still to come the record is up to date with the cluster.
HPACurrent ==
  getAt = "loop" /\ todo # {} =>
    HPA!Stale \subseteq getHist.everStale /\ getHist.alwaysStale \subseteq HPA!Stale

\* What the loop has passed it has judged as the record does.
HPAJudged ==
  getAt \in {"loop", "returned"} =>
    /\ {h \in getHist.alwaysStale \ todo : HPA!Verifiable(h)} \subseteq found
    /\ {h \in found : HPA!Verifiable(h)} \subseteq getHist.everStale
    /\ \A h \in found : HPA!supported(h)

HPAInv == HPA!TypeOK /\ HPAShape /\ HPACurrent /\ HPAJudged

LEMMA InitEstablishesHPAInv == HPA!Init => HPAInv
<1> SUFFICES ASSUME HPA!Init PROVE HPAInv
  OBVIOUS
<1>1. HPA!TypeOK
  <2>1. HPA!EmptyFcn \in HPA!PartialFcns(ScaledHPAs, HPA!States)
    BY DEF HPA!EmptyFcn, HPA!PartialFcns
  <2> QED BY <2>1 DEF HPA!Init, HPA!TypeOK
<1> QED BY <1>1 DEF HPA!Init, HPAInv, HPAShape, HPACurrent, HPAJudged

LEMMA ListKeepsHPAInv == HPAInv /\ HPA!ListHPAs => HPAInv'
<1> SUFFICES ASSUME HPAInv, HPA!ListHPAs PROVE HPAInv'
  OBVIOUS
<1> USE DEF HPAInv, HPA!ListHPAs
<1>1. found = {} /\ staleFindings = {}
  BY DEF HPA!TypeOK, HPAShape, HPA!EmptyFcn
<1>2. HPA!TypeOK'
  BY <1>1 DEF HPA!TypeOK, HPA!cluster
<1>3. HPAShape'
  BY DEF HPAShape
<1>4. HPACurrent'
  BY DEF HPACurrent
<1>5. HPAJudged'
  BY <1>1 DEF HPAJudged, HPA!Stale
<1> QED BY <1>2, <1>3, <1>4, <1>5

LEMMA GetFailureKeepsHPAInv ==
  HPAInv /\ (HPA!ListFails \/ \E h \in ScaledHPAs : HPA!GetFails(h)) => HPAInv'
BY DEF HPAInv, HPA!ListFails, HPA!GetFails, HPA!TypeOK, HPAShape, HPACurrent, HPAJudged,
       HPA!Stale, HPA!Verifiable, HPA!supported, HPA!target, HPA!cluster

LEMMA ReturnKeepsHPAInv == HPAInv /\ HPA!Return => HPAInv'
BY DEF HPAInv, HPA!Return, HPA!TypeOK, HPAShape, HPACurrent, HPAJudged,
       HPA!Verifiable, HPA!supported, HPA!target, HPA!cluster

\* A target kind that is passed over is none that Scan undertakes to verify.
LEMMA SkipKeepsHPAInv ==
  ASSUME NEW h \in ScaledHPAs PROVE HPAInv /\ HPA!SkipHPA(h) => HPAInv'
<1> SUFFICES ASSUME HPAInv, HPA!SkipHPA(h) PROVE HPAInv'
  OBVIOUS
<1> USE DEF HPAInv, HPA!SkipHPA
<1>1. HPA!TypeOK' /\ HPAShape'
  BY DEF HPA!TypeOK, HPAShape, HPA!cluster
<1>2. HPACurrent'
  BY DEF HPACurrent, HPA!Stale, HPA!cluster
<1>3. ~HPA!Verifiable(h)
  BY DEF HPA!supported, HPA!Verifiable, HPA!target
<1>4. HPAJudged'
  BY <1>3 DEF HPAJudged, HPA!Verifiable, HPA!supported, HPA!target
<1> QED BY <1>1, <1>2, <1>4

\* The Get looks where the target is, if the target is one of Kubernetes' own.
LEMMA GetLooksAtTarget ==
  ASSUME NEW h, HPA!Verifiable(h)
  PROVE  HPA!isNotFound(h) <=> HPA!TargetObject(h, gotScalers[h].target) \notin objects
BY DEF HPA!Verifiable, HPA!isNotFound, HPA!TargetObject, HPA!target

LEMMA GetKeepsHPAInv ==
  ASSUME NEW h \in ScaledHPAs PROVE HPAInv /\ HPA!GetTarget(h) => HPAInv'
<1> SUFFICES ASSUME HPAInv, HPA!GetTarget(h) PROVE HPAInv'
  OBVIOUS
<1> USE DEF HPAInv, HPA!GetTarget
<1>1. HPA!TypeOK' /\ HPAShape'
  BY DEF HPA!TypeOK, HPAShape, HPA!cluster
<1>2. HPACurrent'
  BY DEF HPACurrent, HPA!Stale, HPA!cluster
<1>3. \A g : (HPA!Verifiable(g) <=> HPA!Verifiable(g)')
             /\ (HPA!supported(g) <=> HPA!supported(g)')
  BY DEF HPA!Verifiable, HPA!supported, HPA!target
<1>4. HPA!Verifiable(h) /\ h \in getHist.alwaysStale => h \in found'
  <2> SUFFICES ASSUME h \in getHist.alwaysStale, HPA!Verifiable(h) PROVE h \in found'
    OBVIOUS
  <2>1. h \in HPA!Stale
    BY DEF HPACurrent
  <2>2. HPA!isNotFound(h) /\ ~HPA!isIgnored(gotScalers[h].label)
    BY <2>1, GetLooksAtTarget DEF HPA!Stale, HPA!isIgnored
  <2> QED BY <2>2
<1>5. h \in found' \ found /\ HPA!Verifiable(h) => h \in getHist.everStale
  <2> SUFFICES ASSUME h \in found', h \notin found, HPA!Verifiable(h)
               PROVE  h \in getHist.everStale
    OBVIOUS
  <2>1. HPA!isNotFound(h) /\ gotScalers[h].label # "true" /\ h \in DOMAIN gotScalers
    BY DEF HPA!isIgnored, HPA!TypeOK
  <2>2. h \in HPA!Stale
    BY <2>1, GetLooksAtTarget DEF HPA!Stale
  <2> QED BY <2>2 DEF HPACurrent
<1>6. HPAJudged'
  BY <1>3, <1>4, <1>5 DEF HPAJudged
<1> QED BY <1>1, <1>2, <1>6

\* The cluster moves: while a Get is to come the record grows with it.
LEMMA MovesKeepHPAInv == HPAInv /\ HPA!ClusterMoves => HPAInv'
<1> SUFFICES ASSUME HPAInv, HPA!ClusterMoves PROVE HPAInv'
  OBVIOUS
<1> USE DEF HPAInv
<1>1. UNCHANGED HPA!scan /\ HPA!Observe
  BY DEF HPA!ClusterMoves
<1>2. scalers' \in HPA!PartialFcns(ScaledHPAs, HPA!States) /\ objects' \subseteq HPA!Objects
  <2>1. ASSUME NEW h \in ScaledHPAs, NEW st \in HPA!States, HPA!CreateOrEditHPA(h, st)
        PROVE  scalers' \in HPA!PartialFcns(ScaledHPAs, HPA!States) /\ objects' \subseteq HPA!Objects
    BY <2>1 DEF HPA!CreateOrEditHPA, HPA!TypeOK, HPA!Put, HPA!PartialFcns
  <2>2. ASSUME NEW h \in ScaledHPAs, HPA!DeleteHPA(h)
        PROVE  scalers' \in HPA!PartialFcns(ScaledHPAs, HPA!States) /\ objects' \subseteq HPA!Objects
    BY <2>2 DEF HPA!DeleteHPA, HPA!TypeOK, HPA!Delete, HPA!Restrict, HPA!PartialFcns
  <2>3. ASSUME NEW o \in HPA!Objects, HPA!CreateOrDeleteObject(o)
        PROVE  scalers' \in HPA!PartialFcns(ScaledHPAs, HPA!States) /\ objects' \subseteq HPA!Objects
    BY <2>3 DEF HPA!CreateOrDeleteObject, HPA!TypeOK, HPA!Toggle
  <2> QED BY <2>1, <2>2, <2>3 DEF HPA!ClusterMoves
<1>3. HPA!TypeOK'
  BY <1>1, <1>2 DEF HPA!TypeOK, HPA!scan
<1>4. \A h : (HPA!Verifiable(h) <=> HPA!Verifiable(h)')
             /\ (HPA!supported(h) <=> HPA!supported(h)')
  BY <1>1 DEF HPA!Verifiable, HPA!supported, HPA!target, HPA!scan
<1>5. CASE getAt = "loop" /\ todo # {}
  <2>1. getHist' = [everStale   |-> getHist.everStale \cup HPA!Stale',
                      alwaysStale |-> getHist.alwaysStale \cap HPA!Stale']
    BY <1>1, <1>5 DEF HPA!Observe
  <2>2. HPAShape'
    BY <1>1, <1>5, <2>1 DEF HPAShape, HPA!scan
  <2>3. HPACurrent'
    BY <1>5, <2>1 DEF HPACurrent
  <2>4. HPAJudged'
    BY <1>1, <1>4, <1>5, <2>1 DEF HPAJudged, HPA!scan
  <2> QED BY <1>3, <2>2, <2>3, <2>4
<1>6. CASE ~(getAt = "loop" /\ todo # {})
  <2>1. UNCHANGED getHist
    BY <1>1, <1>6 DEF HPA!Observe
  <2>2. HPAShape' /\ HPACurrent'
    BY <1>1, <1>6, <2>1 DEF HPAShape, HPACurrent, HPA!scan
  <2>3. HPAJudged'
    BY <1>1, <1>4, <2>1 DEF HPAJudged, HPA!scan
  <2> QED BY <1>3, <2>2, <2>3
<1> QED BY <1>5, <1>6

LEMMA HPAInvHolds == HPA!Spec => []HPAInv
<1>1. HPAInv /\ UNCHANGED HPA!vars => HPAInv'
  BY DEF HPAInv, HPA!vars, HPA!scan, HPA!cluster, HPA!TypeOK, HPAShape, HPACurrent,
         HPAJudged, HPA!Stale, HPA!Verifiable, HPA!supported, HPA!target
<1>2. HPAInv /\ HPA!Scan => HPAInv'
  <2> SUFFICES ASSUME HPAInv, HPA!Scan PROVE HPAInv'
    OBVIOUS
  <2>1. CASE HPA!ListHPAs
    BY <2>1, ListKeepsHPAInv
  <2>2. CASE HPA!ListFails
    BY <2>2, GetFailureKeepsHPAInv
  <2>3. CASE HPA!Return
    BY <2>3, ReturnKeepsHPAInv
  <2>4. CASE \E h \in ScaledHPAs : HPA!SkipHPA(h) \/ HPA!GetTarget(h) \/ HPA!GetFails(h)
    BY <2>4, SkipKeepsHPAInv, GetKeepsHPAInv, GetFailureKeepsHPAInv
  <2> QED BY <2>1, <2>2, <2>3, <2>4 DEF HPA!Scan
<1>3. HPAInv /\ [HPA!Next]_HPA!vars => HPAInv'
  BY <1>1, <1>2, MovesKeepHPAInv DEF HPA!Next
<1> QED BY <1>3, InitEstablishesHPAInv, PTL DEF HPA!Spec

-----------------------------------------------------------------------------
(* StaleHPA: the theorems *)

\* An HPA that was listed without the ignore label, and whose target of that instant, one
\* Scan can verify, was missing from the List to the last Get, is reported by a Scan that
\* returns no error, whatever becomes of the HPA meanwhile (hpa.go:30-66), for any HPAs
\* and any scaleTargetRefs.
THEOREM DanglingHPAIsReportedHolds == HPA!Spec => []DanglingHPAIsReported
<1>1. HPAInv => DanglingHPAIsReported
  BY DEF HPAInv, HPAShape, HPAJudged, DanglingHPAIsReported, HPA!DanglingHPAIsReported
<1> QED BY <1>1, HPAInvHolds, PTL

\* What Scan reports of the targets it can verify is true even when others have a
\* target in a group that Scan does not look at: the omission of hpa.go:41 harms only them.
THEOREM VerifiableReportIsTrueHolds ==
  HPA!Spec =>
    [](getAt = "returned" =>
         {h \in staleFindings : HPA!Verifiable(h)} \subseteq getHist.everStale)
<1>1. HPAInv =>
        (getAt = "returned" =>
           {h \in staleFindings : HPA!Verifiable(h)} \subseteq getHist.everStale)
  BY DEF HPAInv, HPAShape, HPAJudged
<1> QED BY <1>1, HPAInvHolds, PTL

\* An HPA that is reported was listed without the ignore label, and the target it had then
\* was missing at some instant from the List to the last Get (hpa.go:14-19), as long as no
\* CRD shares the kind of a target with Kubernetes' own.
THEOREM ReportedTargetWasGoneHolds ==
  ASSUME OwnKinds PROVE HPA!Spec => []ReportedTargetWasGone
<1>1. HPAInv => ReportedTargetWasGone
  <2> SUFFICES ASSUME HPAInv, getAt = "returned", NEW h \in staleFindings
               PROVE  h \in getHist.everStale
    BY DEF ReportedTargetWasGone, HPA!ReportedTargetWasGone
  <2>1. h \in found /\ HPA!supported(h) /\ h \in DOMAIN gotScalers
    BY DEF HPAInv, HPAShape, HPAJudged, HPA!TypeOK
  <2>2. gotScalers[h].target \in Refs
    BY <2>1 DEF HPAInv, HPA!TypeOK, HPA!PartialFcns, HPA!States
  <2>3. HPA!Verifiable(h)
    BY <2>1, <2>2, OwnKinds DEF OwnKinds, HPA!Verifiable, HPA!supported, HPA!target
  <2> QED BY <2>1, <2>3 DEF HPAInv, HPAJudged
<1> QED BY <1>1, HPAInvHolds, PTL

-----------------------------------------------------------------------------
(* The run that follows both Scans *)

LEMMA ScansRunInMC == MCSpec => Spec /\ HPA!Spec
<1>1. MCInit => Init /\ HPA!Init
  BY DEF MCInit
<1>2. ASSUME [MCNext]_<<cluster, DeploymentScan, HPAVars>>
      PROVE  [Next]_vars /\ [HPA!Next]_HPA!vars
  BY <1>2 DEF MCNext, Next, HPA!Next, DeploymentScan, HPAScan, HPAVars, vars, HPA!vars,
              HPA!cluster, HPA!scan
<1> QED BY <1>1, <1>2, PTL DEF MCSpec, Spec, HPA!Spec

\* Both detectors' variables keep their types.
THEOREM EveryTypeOKHolds == MCSpec => []EveryTypeOK
<1>1. HPAInv => HPA!TypeOK
  BY DEF HPAInv
<1> QED BY <1>1, ScansRunInMC, TypeOKHolds, HPAInvHolds, PTL DEF EveryTypeOK
=============================================================================

------------------------------ MODULE PodsProofs ------------------------------
(***************************************************************************)
(* The two detectors that judge by Pods.                                   *)
(*                                                                         *)
(* UnusedConfigMapSecretDetector.Scan implements OrphanScan twice over one *)
(* List of the Pods: for the ConfigMaps, whose List is the first, and for  *)
(* the Secrets, whose List is the second; for any objects, any Pods and    *)
(* any changes of them.                                                    *)
(*                                                                         *)
(* CompletedJobsAndPodsDetector.Scan judges a Job by counters of which the *)
(* Job controller keeps an invariant: that, and what the Lists record of   *)
(* it, is what its promises follow from, for any Jobs and any backoffLimit *)
(***************************************************************************)
EXTENDS MCPods, TLAPS

\* The theorems about OrphanScan, read with each kind's eligible, uses, phase, ...
CM == INSTANCE OrphanScanProofs WITH
  Resources <- ConfigMaps, Sources <- {"pods"},
  eligible <- LooseConfigMaps(configMaps), uses <- UsedConfigMaps,
  phase <- phaseFrom({"configmaps"}), candidates <- LooseConfigMaps(gotConfigMaps),
  seen <- seenOf("ConfigMap", ConfigMaps), findings <- foundOf("ConfigMap"), hist <- configMapHist

SE == INSTANCE OrphanScanProofs WITH
  Resources <- Secrets, Sources <- {"pods"},
  eligible <- LooseSecrets(secrets), uses <- UsedSecrets,
  phase <- phaseFrom({"configmaps", "secrets"}), candidates <- LooseSecrets(gotSecrets),
  seen <- seenOf("Secret", Secrets), findings <- foundOf("Secret"), hist <- secretHist

-----------------------------------------------------------------------------
(* Type correctness *)

ClusterOK ==
  /\ configMaps \in PartialFcns(ConfigMaps, ConfigMapStates)
  /\ secrets \in PartialFcns(Secrets, SecretStates)
  /\ pods \subseteq Pods

LEMMA MovesStayInside == ASSUME ClusterOK, ClusterMoves PROVE ClusterOK'
<1> USE DEF ClusterOK
<1>1. ASSUME NEW k \in ConfigMaps, DeleteConfigMap(k) PROVE ClusterOK'
  BY <1>1 DEF DeleteConfigMap, Delete, Restrict, PartialFcns
<1>2. ASSUME NEW k \in ConfigMaps, NEW st \in ConfigMapStates, CreateOrLabelConfigMap(k, st)
      PROVE  ClusterOK'
  BY <1>2 DEF CreateOrLabelConfigMap, Put, PartialFcns
<1>3. ASSUME NEW k \in Secrets, DeleteSecret(k) PROVE ClusterOK'
  BY <1>3 DEF DeleteSecret, Delete, Restrict, PartialFcns
<1>4. ASSUME NEW k \in Secrets, NEW st \in SecretStates, CreateOrLabelSecret(k, st)
      PROVE  ClusterOK'
  BY <1>4 DEF CreateOrLabelSecret, Put, PartialFcns
<1>5. ASSUME NEW pod \in Pods, CreateOrDeletePod(pod) PROVE ClusterOK'
  BY <1>5 DEF CreateOrDeletePod, Toggle
<1> QED BY <1>1, <1>2, <1>3, <1>4, <1>5 DEF ClusterMoves

\* Return's findings are the remaining objects of either kind.
LEMMA ReturnIsByKind ==
  ASSUME Return
  PROVE  \E C \in SUBSET DOMAIN gotConfigMaps, S \in SUBSET DOMAIN gotSecrets :
           findings' = {<<"ConfigMap", k>> : k \in C} \cup {<<"Secret", k>> : k \in S}
<1> DEFINE referenced == referencedConfigMapsAndSecrets(gotPods)
           loose(object) == ~isIgnored(object.ignore) /\ ~isHelmHook(object)
           C == {c \in DOMAIN gotConfigMaps :
                   /\ c[2] # kubeRootCAConfigMapName
                   /\ <<"ConfigMap", c>> \notin referenced
                   /\ loose(gotConfigMaps[c])}
           S == {s \in DOMAIN gotSecrets :
                   /\ gotSecrets[s].type \notin excludedTypes
                   /\ <<"Secret", s>> \notin referenced
                   /\ loose(gotSecrets[s])}
<1>1. findings' = {<<"ConfigMap", k>> : k \in C} \cup {<<"Secret", k>> : k \in S}
  BY DEF Return
<1>2. C \in SUBSET DOMAIN gotConfigMaps /\ S \in SUBSET DOMAIN gotSecrets
  OBVIOUS
<1> HIDE DEF C, S
<1> QED BY <1>1, <1>2

LEMMA InitIsTyped == Init => TypeOK
<1>1. ASSUME NEW S, NEW T PROVE EmptyFcn \in PartialFcns(S, T)
  BY DEF EmptyFcn, PartialFcns
<1> QED BY <1>1 DEF Init, TypeOK

LEMMA StepKeepsTypeOK == TypeOK /\ [Next]_vars => TypeOK'
<1> SUFFICES ASSUME TypeOK, [Next]_vars PROVE TypeOK'
  OBVIOUS
<1> USE DEF TypeOK
<1>1. CASE ListConfigMaps
  BY <1>1 DEF ListConfigMaps, cluster
<1>2. CASE ListSecrets
  BY <1>2 DEF ListSecrets, cluster
<1>3. CASE ListPods
  BY <1>3 DEF ListPods, cluster
<1>4. CASE ListFails
  BY <1>4 DEF ListFails, cluster
<1>5. CASE Return
  <2>1. DOMAIN gotConfigMaps \subseteq ConfigMaps /\ DOMAIN gotSecrets \subseteq Secrets
    BY DEF PartialFcns
  <2>2. PICK C \in SUBSET DOMAIN gotConfigMaps, S \in SUBSET DOMAIN gotSecrets :
          findings' = {<<"ConfigMap", k>> : k \in C} \cup {<<"Secret", k>> : k \in S}
    BY <1>5, ReturnIsByKind
  <2>3. findings' \subseteq ({"ConfigMap"} \X ConfigMaps) \cup ({"Secret"} \X Secrets)
    BY <2>1, <2>2
  <2>4. UNCHANGED <<configMaps, secrets, pods, err, gotConfigMaps, gotSecrets, gotPods>>
          /\ at' = "returned"
    BY <1>5 DEF Return, cluster
  <2> QED BY <2>3, <2>4
<1>6. CASE ClusterMoves
  <2>1. ClusterOK'
    BY <1>6, MovesStayInside DEF ClusterOK
  <2> QED BY <1>6, <2>1 DEF ClusterMoves, scan, ClusterOK
<1>7. CASE UNCHANGED vars
  BY <1>7 DEF vars, cluster, scan
<1> QED BY <1>1, <1>2, <1>3, <1>4, <1>5, <1>6, <1>7 DEF Next, Scan

\* The variables of UnusedConfigMapSecret keep their types.
THEOREM TypeOKHolds == Spec => []TypeOK
BY InitIsTyped, StepKeepsTypeOK, PTL DEF Spec

-----------------------------------------------------------------------------
(* What the code collects from the Pods is what refers to an object *)

LEMMA CollectedIsReferenced ==
  ASSUME NEW kind, NEW keys, \A k \in keys : k = <<k[1], k[2]>>
  PROVE  {k \in keys : <<kind, k>> \in referencedConfigMapsAndSecrets(pods)}
           = Referenced(kind, keys)
<1> DEFINE Refs(pod) == {r \in pod.refs : r.via \in Documented}
<1>1. ASSUME NEW pod
      PROVE  addVolumeRefs(pod) \cup addImagePullSecretRefs(pod) \cup addContainerRefs(pod)
               = Refs(pod)
  BY DEF addVolumeRefs, addImagePullSecretRefs, addContainerRefs, Documented
<1>2. referencedConfigMapsAndSecrets(pods)
        = UNION {{<<r.kind, <<pod.ns, r.name>>>> : r \in Refs(pod)} : pod \in pods}
  BY <1>1 DEF referencedConfigMapsAndSecrets
<1>3. ASSUME NEW k \in keys
      PROVE  <<kind, k>> \in referencedConfigMapsAndSecrets(pods) <=>
               \E pod \in pods : \E r \in Refs(pod) :
                 r.kind = kind /\ pod.ns = k[1] /\ r.name = k[2]
  <2>1. <<kind, k>> \in referencedConfigMapsAndSecrets(pods) <=>
          \E pod \in pods : \E r \in Refs(pod) : <<kind, k>> = <<r.kind, <<pod.ns, r.name>>>>
    <3> HIDE DEF Refs
    <3> QED BY <1>2
  <2>2. ASSUME NEW pod, NEW r
        PROVE  <<kind, k>> = <<r.kind, <<pod.ns, r.name>>>> <=>
                 r.kind = kind /\ pod.ns = k[1] /\ r.name = k[2]
    <3>1. k = <<k[1], k[2]>>
      OBVIOUS
    <3>2. k = <<pod.ns, r.name>> <=> pod.ns = k[1] /\ r.name = k[2]
      BY <3>1
    <3> QED BY <3>2
  <2> HIDE DEF Refs
  <2> QED BY <2>1, <2>2
<1> QED BY <1>3 DEF Referenced

-----------------------------------------------------------------------------
(* The ConfigMaps *)

LEMMA ConfigMapViewIsTyped ==
  TypeOK => /\ LooseConfigMaps(configMaps) \subseteq ConfigMaps
            /\ UsedConfigMaps \in [{"pods"} -> SUBSET ConfigMaps]
<1> SUFFICES ASSUME TypeOK
             PROVE  LooseConfigMaps(configMaps) \subseteq ConfigMaps /\ UsedConfigMaps \in [{"pods"} -> SUBSET ConfigMaps]
  OBVIOUS
<1>1. DOMAIN configMaps \subseteq ConfigMaps
  BY DEF TypeOK, PartialFcns
<1> QED BY <1>1 DEF LooseConfigMaps, UsedConfigMaps, Referenced

LEMMA ConfigMapInitRefines == TypeOK /\ Init => CM!Init
<1> SUFFICES ASSUME TypeOK, Init PROVE CM!Init
  OBVIOUS
<1>1. LooseConfigMaps(gotConfigMaps) = {} /\ foundOf("ConfigMap") = {}
  BY DEF Init, LooseConfigMaps, EmptyFcn, foundOf
<1>2. seenOf("ConfigMap", ConfigMaps) = [s \in {"pods"} |-> {}]
  BY DEF Init, seenOf, referencedConfigMapsAndSecrets
<1>3. phaseFrom({"configmaps"}) = "start" /\ read = {}
  BY DEF Init, phaseFrom, read
<1>4. configMapHist = CM!NothingYet
  BY DEF Init, ConfigMapScan!NothingYet, CM!NothingYet
<1> QED BY <1>1, <1>2, <1>3, <1>4, ConfigMapViewIsTyped DEF CM!Init

LEMMA ConfigMapListRefines == TypeOK /\ ListConfigMaps => CM!ReadCandidates
<1> SUFFICES ASSUME TypeOK, ListConfigMaps PROVE CM!ReadCandidates
  OBVIOUS
<1>1. phaseFrom({"configmaps"}) = "start" /\ phaseFrom({"configmaps"})' = "reading" /\ UNCHANGED read
  BY DEF ListConfigMaps, phaseFrom, read
<1>2. LooseConfigMaps(gotConfigMaps)' = LooseConfigMaps(configMaps)
  BY DEF ListConfigMaps, LooseConfigMaps
<1>3. UNCHANGED <<LooseConfigMaps(configMaps), UsedConfigMaps, seenOf("ConfigMap", ConfigMaps), foundOf("ConfigMap")>>
  BY DEF ListConfigMaps, cluster, LooseConfigMaps, UsedConfigMaps, Referenced, seenOf,
         foundOf
<1>4. configMapHist' = CM!BeginWith(LooseConfigMaps(configMaps), UsedConfigMaps)
  BY DEF ListConfigMaps, ConfigMapScan!BeginWith, CM!BeginWith, ConfigMapScan!OrphansOf,
         CM!OrphansOf, ConfigMapScan!UsedIn, CM!UsedIn
<1> QED BY <1>1, <1>2, <1>3, <1>4 DEF CM!ReadCandidates

\* The other kind's List is none of this one's business.
LEMMA ConfigMapOtherListRefines == TypeOK /\ ListSecrets => UNCHANGED CM!vars
BY DEF ListSecrets, CM!vars, CM!scan, phaseFrom, read, cluster, LooseConfigMaps,
       UsedConfigMaps, Referenced, seenOf, foundOf

LEMMA ConfigMapListPodsRefines == TypeOK /\ ListPods => CM!ReadSource("pods")
<1> SUFFICES ASSUME TypeOK, ListPods PROVE CM!ReadSource("pods")
  OBVIOUS
<1>1. phaseFrom({"configmaps"}) = "reading" /\ UNCHANGED phaseFrom({"configmaps"})
  BY DEF ListPods, phaseFrom
<1>2. "pods" \notin read /\ read' = read \cup {"pods"}
  BY DEF ListPods, read
<1>3. {k \in ConfigMaps : <<"ConfigMap", k>> \in referencedConfigMapsAndSecrets(pods)}
        = Referenced("ConfigMap", ConfigMaps)
  BY KeysAssumption, CollectedIsReferenced
<1>4. seenOf("ConfigMap", ConfigMaps)'
        = [seenOf("ConfigMap", ConfigMaps) EXCEPT !["pods"] = UsedConfigMaps["pods"]]
  BY <1>3 DEF ListPods, seenOf, UsedConfigMaps
<1>5. UNCHANGED <<LooseConfigMaps(configMaps), UsedConfigMaps, LooseConfigMaps(gotConfigMaps), foundOf("ConfigMap"), configMapHist>>
  BY DEF ListPods, cluster, hists, LooseConfigMaps, UsedConfigMaps, Referenced, foundOf
<1> QED BY <1>1, <1>2, <1>4, <1>5 DEF CM!ReadSource

LEMMA ConfigMapListFailsRefines == TypeOK /\ ListFails => CM!Fail
<1> SUFFICES ASSUME TypeOK, ListFails PROVE CM!Fail
  OBVIOUS
<1>1. phaseFrom({"configmaps"}) \in {"start", "reading"} /\ phaseFrom({"configmaps"})' = "failed"
  BY DEF ListFails, TypeOK, phaseFrom
<1>2. UNCHANGED <<read, LooseConfigMaps(configMaps), UsedConfigMaps, LooseConfigMaps(gotConfigMaps)>>
  BY DEF ListFails, cluster, LooseConfigMaps, UsedConfigMaps, Referenced, read
<1>3. UNCHANGED <<seenOf("ConfigMap", ConfigMaps), foundOf("ConfigMap"), configMapHist>>
  BY DEF ListFails, hists, seenOf, foundOf
<1> QED BY <1>1, <1>2, <1>3 DEF CM!Fail

LEMMA ConfigMapReturnRefines == TypeOK /\ Return => CM!Report
<1> SUFFICES ASSUME TypeOK, Return PROVE CM!Report
  OBVIOUS
<1>1. phaseFrom({"configmaps"}) = "reading" /\ phaseFrom({"configmaps"})' = "reported"
  BY DEF Return, phaseFrom
<1>2. read = {"pods"} /\ UNCHANGED read
  BY DEF Return, read
<1>3. UNCHANGED <<LooseConfigMaps(configMaps), UsedConfigMaps, LooseConfigMaps(gotConfigMaps)>>
  BY DEF Return, cluster, LooseConfigMaps, UsedConfigMaps, Referenced
<1>4. UNCHANGED <<seenOf("ConfigMap", ConfigMaps), configMapHist>>
  BY DEF Return, hists, seenOf
<1>5. DOMAIN gotConfigMaps \subseteq ConfigMaps
  BY DEF TypeOK, PartialFcns
<1>6. CM!UsedIn(seenOf("ConfigMap", ConfigMaps))
        = {k \in ConfigMaps : <<"ConfigMap", k>> \in referencedConfigMapsAndSecrets(gotPods)}
  BY DEF CM!UsedIn, seenOf
<1>7. foundOf("ConfigMap")'
        = {k \in LooseConfigMaps(gotConfigMaps) :
             <<"ConfigMap", k>> \notin referencedConfigMapsAndSecrets(gotPods)}
  <2>1. foundOf("ConfigMap")' = {f[2] : f \in {g \in findings' : g[1] = "ConfigMap"}}
    BY DEF foundOf
  <2>2. ASSUME NEW k
        PROVE  k \in foundOf("ConfigMap")' <=> <<"ConfigMap", k>> \in findings'
    <3>1. \A f \in findings' : f = <<f[1], f[2]>>
      BY ReturnIsByKind
    <3> QED BY <2>1, <3>1
  <2>3. ASSUME NEW k
        PROVE  <<"ConfigMap", k>> \in findings' <=>
                 k \in LooseConfigMaps(gotConfigMaps)
                   /\ <<"ConfigMap", k>> \notin referencedConfigMapsAndSecrets(gotPods)
    BY DEF Return, LooseConfigMaps, isIgnored, isHelmHook, kubeRootCAConfigMapName
  <2> QED BY <2>2, <2>3
<1>8. LooseConfigMaps(gotConfigMaps) \subseteq ConfigMaps
  BY <1>5 DEF LooseConfigMaps
<1> QED BY <1>1, <1>2, <1>3, <1>4, <1>6, <1>7, <1>8 DEF CM!Report, CM!OrphansOf

LEMMA ConfigMapMovesRefine == TypeOK' /\ ClusterMoves => CM!ClusterMoves
<1> SUFFICES ASSUME TypeOK', ClusterMoves PROVE CM!ClusterMoves
  OBVIOUS
<1>1. LooseConfigMaps(configMaps)' \in SUBSET ConfigMaps /\ UsedConfigMaps' \in [{"pods"} -> SUBSET ConfigMaps]
  <2>1. DOMAIN configMaps' \subseteq ConfigMaps
    BY DEF TypeOK, PartialFcns
  <2> QED BY <2>1 DEF LooseConfigMaps, UsedConfigMaps, Referenced
<1>2. UNCHANGED CM!scan
  BY DEF ClusterMoves, scan, CM!scan, phaseFrom, LooseConfigMaps, read, seenOf, foundOf
<1>3. CM!Observe(LooseConfigMaps(configMaps)', UsedConfigMaps')
  BY DEF ClusterMoves, ConfigMapScan!Observe, CM!Observe, ConfigMapScan!Reading, CM!Reading,
         ConfigMapScan!ExtendWith, CM!ExtendWith, ConfigMapScan!OrphansOf, CM!OrphansOf,
         ConfigMapScan!UsedIn, CM!UsedIn, LooseConfigMaps
<1> QED BY <1>1, <1>2, <1>3 DEF CM!ClusterMoves

LEMMA ConfigMapRefinement == Spec => CM!Spec
<1>1. Init => TypeOK
  BY InitIsTyped
<1>2. Init => CM!Init
  BY <1>1, ConfigMapInitRefines
<1>3. TypeOK /\ TypeOK' /\ [Next]_vars => [CM!Next]_CM!vars
  <2>1. CASE UNCHANGED vars
    BY <2>1 DEF vars, cluster, scan, hists, CM!vars, CM!scan, phaseFrom, read,
                LooseConfigMaps, UsedConfigMaps, Referenced, seenOf, foundOf
  <2> QED
    BY <2>1, ConfigMapListRefines, ConfigMapOtherListRefines, ConfigMapListPodsRefines,
       ConfigMapListFailsRefines, ConfigMapReturnRefines, ConfigMapMovesRefine
    DEF Next, Scan, CM!Next
<1> QED BY <1>2, <1>3, TypeOKHolds, PTL DEF Spec, CM!Spec

-----------------------------------------------------------------------------
(* The Secrets *)

LEMMA SecretViewIsTyped ==
  TypeOK => /\ LooseSecrets(secrets) \subseteq Secrets
            /\ UsedSecrets \in [{"pods"} -> SUBSET Secrets]
<1> SUFFICES ASSUME TypeOK
             PROVE  LooseSecrets(secrets) \subseteq Secrets /\ UsedSecrets \in [{"pods"} -> SUBSET Secrets]
  OBVIOUS
<1>1. DOMAIN secrets \subseteq Secrets
  BY DEF TypeOK, PartialFcns
<1> QED BY <1>1 DEF LooseSecrets, UsedSecrets, Referenced

LEMMA SecretInitRefines == TypeOK /\ Init => SE!Init
<1> SUFFICES ASSUME TypeOK, Init PROVE SE!Init
  OBVIOUS
<1>1. LooseSecrets(gotSecrets) = {} /\ foundOf("Secret") = {}
  BY DEF Init, LooseSecrets, EmptyFcn, foundOf
<1>2. seenOf("Secret", Secrets) = [s \in {"pods"} |-> {}]
  BY DEF Init, seenOf, referencedConfigMapsAndSecrets
<1>3. phaseFrom({"configmaps", "secrets"}) = "start" /\ read = {}
  BY DEF Init, phaseFrom, read
<1>4. secretHist = SE!NothingYet
  BY DEF Init, SecretScan!NothingYet, SE!NothingYet
<1> QED BY <1>1, <1>2, <1>3, <1>4, SecretViewIsTyped DEF SE!Init

LEMMA SecretListRefines == TypeOK /\ ListSecrets => SE!ReadCandidates
<1> SUFFICES ASSUME TypeOK, ListSecrets PROVE SE!ReadCandidates
  OBVIOUS
<1>1. phaseFrom({"configmaps", "secrets"}) = "start" /\ phaseFrom({"configmaps", "secrets"})' = "reading" /\ UNCHANGED read
  BY DEF ListSecrets, phaseFrom, read
<1>2. LooseSecrets(gotSecrets)' = LooseSecrets(secrets)
  BY DEF ListSecrets, LooseSecrets
<1>3. UNCHANGED <<LooseSecrets(secrets), UsedSecrets, seenOf("Secret", Secrets), foundOf("Secret")>>
  BY DEF ListSecrets, cluster, LooseSecrets, UsedSecrets, Referenced, seenOf, foundOf
<1>4. secretHist' = SE!BeginWith(LooseSecrets(secrets), UsedSecrets)
  BY DEF ListSecrets, SecretScan!BeginWith, SE!BeginWith, SecretScan!OrphansOf,
         SE!OrphansOf, SecretScan!UsedIn, SE!UsedIn
<1> QED BY <1>1, <1>2, <1>3, <1>4 DEF SE!ReadCandidates

\* The other kind's List is none of this one's business.
LEMMA SecretOtherListRefines == TypeOK /\ ListConfigMaps => UNCHANGED SE!vars
BY DEF ListConfigMaps, SE!vars, SE!scan, phaseFrom, read, cluster, LooseSecrets,
       UsedSecrets, Referenced, seenOf, foundOf

LEMMA SecretListPodsRefines == TypeOK /\ ListPods => SE!ReadSource("pods")
<1> SUFFICES ASSUME TypeOK, ListPods PROVE SE!ReadSource("pods")
  OBVIOUS
<1>1. phaseFrom({"configmaps", "secrets"}) = "reading" /\ UNCHANGED phaseFrom({"configmaps", "secrets"})
  BY DEF ListPods, phaseFrom
<1>2. "pods" \notin read /\ read' = read \cup {"pods"}
  BY DEF ListPods, read
<1>3. {k \in Secrets : <<"Secret", k>> \in referencedConfigMapsAndSecrets(pods)}
        = Referenced("Secret", Secrets)
  BY KeysAssumption, CollectedIsReferenced
<1>4. seenOf("Secret", Secrets)'
        = [seenOf("Secret", Secrets) EXCEPT !["pods"] = UsedSecrets["pods"]]
  BY <1>3 DEF ListPods, seenOf, UsedSecrets
<1>5. UNCHANGED <<LooseSecrets(secrets), UsedSecrets, LooseSecrets(gotSecrets), foundOf("Secret"), secretHist>>
  BY DEF ListPods, cluster, hists, LooseSecrets, UsedSecrets, Referenced, foundOf
<1> QED BY <1>1, <1>2, <1>4, <1>5 DEF SE!ReadSource

LEMMA SecretListFailsRefines == TypeOK /\ ListFails => SE!Fail
<1> SUFFICES ASSUME TypeOK, ListFails PROVE SE!Fail
  OBVIOUS
<1>1. phaseFrom({"configmaps", "secrets"}) \in {"start", "reading"} /\ phaseFrom({"configmaps", "secrets"})' = "failed"
  BY DEF ListFails, TypeOK, phaseFrom
<1>2. UNCHANGED <<read, LooseSecrets(secrets), UsedSecrets, LooseSecrets(gotSecrets)>>
  BY DEF ListFails, cluster, LooseSecrets, UsedSecrets, Referenced, read
<1>3. UNCHANGED <<seenOf("Secret", Secrets), foundOf("Secret"), secretHist>>
  BY DEF ListFails, hists, seenOf, foundOf
<1> QED BY <1>1, <1>2, <1>3 DEF SE!Fail

LEMMA SecretReturnRefines == TypeOK /\ Return => SE!Report
<1> SUFFICES ASSUME TypeOK, Return PROVE SE!Report
  OBVIOUS
<1>1. phaseFrom({"configmaps", "secrets"}) = "reading" /\ phaseFrom({"configmaps", "secrets"})' = "reported"
  BY DEF Return, phaseFrom
<1>2. read = {"pods"} /\ UNCHANGED read
  BY DEF Return, read
<1>3. UNCHANGED <<LooseSecrets(secrets), UsedSecrets, LooseSecrets(gotSecrets)>>
  BY DEF Return, cluster, LooseSecrets, UsedSecrets, Referenced
<1>4. UNCHANGED <<seenOf("Secret", Secrets), secretHist>>
  BY DEF Return, hists, seenOf
<1>5. DOMAIN gotSecrets \subseteq Secrets
  BY DEF TypeOK, PartialFcns
<1>6. SE!UsedIn(seenOf("Secret", Secrets))
        = {k \in Secrets : <<"Secret", k>> \in referencedConfigMapsAndSecrets(gotPods)}
  BY DEF SE!UsedIn, seenOf
<1>7. foundOf("Secret")'
        = {k \in LooseSecrets(gotSecrets) :
             <<"Secret", k>> \notin referencedConfigMapsAndSecrets(gotPods)}
  <2>1. foundOf("Secret")' = {f[2] : f \in {g \in findings' : g[1] = "Secret"}}
    BY DEF foundOf
  <2>2. ASSUME NEW k
        PROVE  k \in foundOf("Secret")' <=> <<"Secret", k>> \in findings'
    <3>1. \A f \in findings' : f = <<f[1], f[2]>>
      BY ReturnIsByKind
    <3> QED BY <2>1, <3>1
  <2>3. ASSUME NEW k
        PROVE  <<"Secret", k>> \in findings' <=>
                 k \in LooseSecrets(gotSecrets)
                   /\ <<"Secret", k>> \notin referencedConfigMapsAndSecrets(gotPods)
    BY DEF Return, LooseSecrets, isIgnored, isHelmHook, kubeRootCAConfigMapName
  <2> QED BY <2>2, <2>3
<1>8. LooseSecrets(gotSecrets) \subseteq Secrets
  BY <1>5 DEF LooseSecrets
<1> QED BY <1>1, <1>2, <1>3, <1>4, <1>6, <1>7, <1>8 DEF SE!Report, SE!OrphansOf

LEMMA SecretMovesRefine == TypeOK' /\ ClusterMoves => SE!ClusterMoves
<1> SUFFICES ASSUME TypeOK', ClusterMoves PROVE SE!ClusterMoves
  OBVIOUS
<1>1. LooseSecrets(secrets)' \in SUBSET Secrets /\ UsedSecrets' \in [{"pods"} -> SUBSET Secrets]
  <2>1. DOMAIN secrets' \subseteq Secrets
    BY DEF TypeOK, PartialFcns
  <2> QED BY <2>1 DEF LooseSecrets, UsedSecrets, Referenced
<1>2. UNCHANGED SE!scan
  BY DEF ClusterMoves, scan, SE!scan, phaseFrom, LooseSecrets, read, seenOf, foundOf
<1>3. SE!Observe(LooseSecrets(secrets)', UsedSecrets')
  BY DEF ClusterMoves, SecretScan!Observe, SE!Observe, SecretScan!Reading, SE!Reading,
         SecretScan!ExtendWith, SE!ExtendWith, SecretScan!OrphansOf, SE!OrphansOf,
         SecretScan!UsedIn, SE!UsedIn, LooseSecrets
<1> QED BY <1>1, <1>2, <1>3 DEF SE!ClusterMoves

LEMMA SecretRefinement == Spec => SE!Spec
<1>1. Init => TypeOK
  BY InitIsTyped
<1>2. Init => SE!Init
  BY <1>1, SecretInitRefines
<1>3. TypeOK /\ TypeOK' /\ [Next]_vars => [SE!Next]_SE!vars
  <2>1. CASE UNCHANGED vars
    BY <2>1 DEF vars, cluster, scan, hists, SE!vars, SE!scan, phaseFrom, read, LooseSecrets,
                UsedSecrets, Referenced, seenOf, foundOf
  <2> QED
    BY <2>1, SecretListRefines, SecretOtherListRefines, SecretListPodsRefines,
       SecretListFailsRefines, SecretReturnRefines, SecretMovesRefine
    DEF Next, Scan, SE!Next
<1> QED BY <1>2, <1>3, TypeOKHolds, PTL DEF Spec, SE!Spec

-----------------------------------------------------------------------------
(* The theorems *)

\* Scan implements OrphanScan twice, for the ConfigMaps and for the Secrets, though it
\* reads the Pods once for both.
THEOREM ImplementsOrphanScanHolds == Spec => ImplementsOrphanScan
<1>1. (CM!Init => ConfigMapScan!Init) /\ ([CM!Next]_CM!vars => [ConfigMapScan!Next]_ConfigMapScan!vars)
  BY DEF CM!Init, ConfigMapScan!Init, CM!NothingYet, ConfigMapScan!NothingYet, CM!Next,
         ConfigMapScan!Next, CM!vars, ConfigMapScan!vars, CM!scan, ConfigMapScan!scan,
         CM!ReadCandidates, ConfigMapScan!ReadCandidates, CM!ReadSource,
         ConfigMapScan!ReadSource, CM!Report, ConfigMapScan!Report, CM!Fail,
         ConfigMapScan!Fail, CM!ClusterMoves, ConfigMapScan!ClusterMoves, CM!BeginWith,
         ConfigMapScan!BeginWith, CM!Observe, ConfigMapScan!Observe, CM!Reading,
         ConfigMapScan!Reading, CM!ExtendWith, ConfigMapScan!ExtendWith, CM!OrphansOf,
         ConfigMapScan!OrphansOf, CM!UsedIn, ConfigMapScan!UsedIn
<1>2. (SE!Init => SecretScan!Init) /\ ([SE!Next]_SE!vars => [SecretScan!Next]_SecretScan!vars)
  BY DEF SE!Init, SecretScan!Init, SE!NothingYet, SecretScan!NothingYet, SE!Next,
         SecretScan!Next, SE!vars, SecretScan!vars, SE!scan, SecretScan!scan,
         SE!ReadCandidates, SecretScan!ReadCandidates, SE!ReadSource, SecretScan!ReadSource,
         SE!Report, SecretScan!Report, SE!Fail, SecretScan!Fail, SE!ClusterMoves,
         SecretScan!ClusterMoves, SE!BeginWith, SecretScan!BeginWith, SE!Observe,
         SecretScan!Observe, SE!Reading, SecretScan!Reading, SE!ExtendWith,
         SecretScan!ExtendWith, SE!OrphansOf, SecretScan!OrphansOf, SE!UsedIn,
         SecretScan!UsedIn
<1>3. Spec => ConfigMapScan!Spec
  BY <1>1, ConfigMapRefinement, PTL DEF CM!Spec, ConfigMapScan!Spec
<1>4. Spec => SecretScan!Spec
  BY <1>2, SecretRefinement, PTL DEF SE!Spec, SecretScan!Spec
<1> QED BY <1>3, <1>4 DEF ImplementsOrphanScan

\* A reported ConfigMap or Secret that was there all along was, at some instant of the
\* Scan, referred to by no Pod: a rollout is never reported.
THEOREM RolledOutIsNotReportedHolds == Spec => []RolledOutIsNotReported
<1>1. CM!OneSourceIsNeverMisled /\ SE!OneSourceIsNeverMisled => RolledOutIsNotReported
  BY DEF CM!OneSourceIsNeverMisled, SE!OneSourceIsNeverMisled, RolledOutIsNotReported,
         ConfigMapScan!OneSourceIsNeverMisled, SecretScan!OneSourceIsNeverMisled,
         CM!Reported, ConfigMapScan!Reported, SE!Reported, SecretScan!Reported
<1> QED
  BY <1>1, ConfigMapRefinement, SecretRefinement, CM!OneSourceIsNeverMisledHolds,
     SE!OneSourceIsNeverMisledHolds, PTL

-----------------------------------------------------------------------------
(* CompletedJobsAndPods: the inductive invariant *)

\* What the Job controller keeps true of a Job j, which is as job says, and its Pods ps.
\* One Pod at most is still to be counted, and none of a Job that has ended; the status
\* calls none active that is not; and a Pod that is counted has ended or is being deleted.
JobInv(j, job, ps) ==
  /\ ~job.ended => job.succeeded = 0 /\ job.failed <= BackoffLimit
  /\ job.ended => job.active = 0
  /\ \A p \in DOMAIN ps : p[1] = j =>
       /\ job.ended => ps[p].tally = "done"
       /\ job.active = 0 => ps[p].tally # "active"
       /\ ps[p].tally = "done" => ps[p].phase # "Running" \/ ps[p].deleted
  /\ \A p, q \in DOMAIN ps :
       p[1] = j /\ q[1] = j /\ ps[p].tally # "done" /\ ps[q].tally # "done" => p = q

ControllerInv(js, ps) == \A j \in DOMAIN js : JobInv(j, js[j], ps)

JobsTyped(js) == js \in Job!PartialFcns(Jobs, Job!JobStates)
PodsTyped(ps) == ps \in Job!PartialFcns(Job!PodNames, Job!PodStates)

JobRecord ==
  [jobs : Job!PartialFcns(Jobs, Job!JobStates), pods : Job!PartialFcns(Job!PodNames, Job!PodStates)]

\* The answer the findings about Jobs are made of, and the state the observer has of that
\* instant.
JobScanInv ==
  jobAt # "jobs" =>
    /\ ControllerInv(jobHist.jobs, jobHist.pods)
    /\ jobFindings = {j \in DOMAIN jobHist.jobs :
                        Job!completed(jobHist.jobs[j]) /\ ~Job!isIgnored(jobHist.jobs[j].ignore)}

JobsInv == Job!TypeOK /\ jobHist \in JobRecord /\ ControllerInv(jobs, jobPods) /\ JobScanInv

-----------------------------------------------------------------------------
(* What the steps of the controller and of the kubelet have in common *)

\* A Job's state, field by field.
LEMMA JobIsTyped ==
  ASSUME Job!TypeOK, NEW j \in DOMAIN jobs
  PROVE  /\ j \in Jobs /\ jobs[j] \in Job!JobStates
         /\ jobs[j].active \in 0..1 /\ jobs[j].succeeded \in 0..1
         /\ jobs[j].failed \in 0..(BackoffLimit + 1)
         /\ jobs[j].ended \in BOOLEAN /\ jobs[j].suspended \in BOOLEAN
         /\ jobs[j].ignore \in Job!Labels
<1>1. j \in Jobs /\ jobs[j] \in Job!JobStates
  BY DEF Job!TypeOK, Job!PartialFcns
<1> QED BY <1>1 DEF Job!JobStates

\* A Pod's state, field by field.
LEMMA PodIsTyped ==
  ASSUME Job!TypeOK, NEW p \in DOMAIN jobPods
  PROVE  /\ p \in Job!PodNames /\ jobPods[p] \in Job!PodStates
         /\ jobPods[p].phase \in {"Running", "Succeeded", "Failed"}
         /\ jobPods[p].deleted \in BOOLEAN /\ jobPods[p].tally \in {"none", "active", "done"}
         /\ jobPods[p].ignore \in Job!Labels
<1>1. p \in Job!PodNames /\ jobPods[p] \in Job!PodStates
  BY DEF Job!TypeOK, Job!PartialFcns
<1> QED BY <1>1 DEF Job!PodStates

\* A step that changes one Pod.
LEMMA OnePodChanges ==
  ASSUME Job!TypeOK, NEW p \in DOMAIN jobPods, NEW pod \in Job!PodStates,
         jobPods' = [jobPods EXCEPT ![p] = pod]
  PROVE  /\ PodsTyped(jobPods') /\ DOMAIN jobPods' = DOMAIN jobPods /\ jobPods'[p] = pod
         /\ \A q \in DOMAIN jobPods : q # p => jobPods'[q] = jobPods[q]
BY DEF Job!TypeOK, PodsTyped, Job!PartialFcns

\* What a step leaves alone of a Job's Pods leaves what it keeps of the Job alone.
LEMMA SamePodsKeepJobInv ==
  ASSUME NEW k, NEW job, NEW ps, NEW qs, JobInv(k, job, ps),
         \A p : p[1] = k => /\ p \in DOMAIN qs <=> p \in DOMAIN ps
                            /\ p \in DOMAIN ps => qs[p] = ps[p]
  PROVE  JobInv(k, job, qs)
BY DEF JobInv

\* A step that changes the Job j and its Pods only.
LEMMA OneJobChanges ==
  ASSUME Job!TypeOK, ControllerInv(jobs, jobPods), NEW j \in DOMAIN jobs, NEW job \in Job!JobStates,
         Job!Update(j, job), JobInv(j, job, jobPods'),
         \A p : p[1] # j => /\ p \in DOMAIN jobPods' <=> p \in DOMAIN jobPods
                            /\ p \in DOMAIN jobPods => jobPods'[p] = jobPods[p]
  PROVE  JobsTyped(jobs') /\ ControllerInv(jobs', jobPods')
<1>1. jobs' = [jobs EXCEPT ![j] = job] /\ DOMAIN jobs' = DOMAIN jobs
  BY DEF Job!Update
<1>2. JobsTyped(jobs')
  BY <1>1 DEF Job!TypeOK, JobsTyped, Job!PartialFcns
<1>3. ASSUME NEW k \in DOMAIN jobs PROVE JobInv(k, jobs'[k], jobPods')
  <2>1. CASE k = j
    BY <1>1, <2>1
  <2>2. CASE k # j
    <3>1. jobs'[k] = jobs[k] /\ JobInv(k, jobs[k], jobPods)
      BY <1>1, <2>2 DEF ControllerInv
    <3> QED BY <2>2, <3>1, SamePodsKeepJobInv
  <2> QED BY <2>1, <2>2
<1> QED BY <1>1, <1>2, <1>3 DEF ControllerInv

\* A step of the Pods alone, which takes none back from what is counted.
LEMMA OnlyPodsChange ==
  ASSUME ControllerInv(jobs, jobPods), jobs' = jobs,
         \A p \in DOMAIN jobPods' :
           /\ p \in DOMAIN jobPods /\ jobPods'[p].tally = jobPods[p].tally
           /\ jobPods[p].phase # "Running" => jobPods'[p].phase # "Running"
           /\ jobPods[p].deleted => jobPods'[p].deleted
  PROVE  ControllerInv(jobs', jobPods')
<1>1. ASSUME NEW j \in DOMAIN jobs PROVE JobInv(j, jobs[j], jobPods')
  <2>1. JobInv(j, jobs[j], jobPods)
    BY DEF ControllerInv
  <2> QED BY <2>1 DEF JobInv
<1> QED BY <1>1 DEF ControllerInv

-----------------------------------------------------------------------------
(* The steps of users, the controller and the kubelet *)

LEMMA CreateKeepsController ==
  ASSUME Job!TypeOK, ControllerInv(jobs, jobPods), NEW j \in Jobs, NEW suspended \in BOOLEAN,
         NEW label \in Job!Labels, Job!CreateJob(j, suspended, label)
  PROVE  JobsTyped(jobs') /\ PodsTyped(jobPods') /\ ControllerInv(jobs', jobPods')
<1> DEFINE job == [active |-> 0, succeeded |-> 0, failed |-> 0, ended |-> FALSE,
                   suspended |-> suspended, ignore |-> label]
<1>1. job \in Job!JobStates
  BY BackoffAssumption DEF Job!JobStates
<1>2. JobInv(j, job, jobPods)
  BY BackoffAssumption DEF JobInv, Job!CreateJob, Job!PodsOf
<1>3. jobs' = Job!Put(jobs, j, job) /\ jobPods' = jobPods /\ j \notin DOMAIN jobs
  BY DEF Job!CreateJob
<1> HIDE DEF job
<1>4. JobsTyped(jobs') /\ PodsTyped(jobPods')
  BY <1>1, <1>3 DEF Job!TypeOK, JobsTyped, PodsTyped, Job!Put, Job!PartialFcns
<1>5. ControllerInv(jobs', jobPods')
  BY <1>2, <1>3 DEF ControllerInv, Job!Put
<1> QED BY <1>4, <1>5

LEMMA StartKeepsController ==
  ASSUME Job!TypeOK, ControllerInv(jobs, jobPods), NEW p \in Job!PodNames, Job!StartPod(p)
  PROVE  JobsTyped(jobs') /\ PodsTyped(jobPods') /\ ControllerInv(jobs', jobPods')
<1> DEFINE j == p[1]
           pod == [phase |-> "Running", deleted |-> FALSE, tally |-> "none",
                   ignore |-> jobs[j].ignore]
<1>1. /\ j \in DOMAIN jobs /\ ~jobs[j].ended /\ Job!Uncounted(j) = {} /\ p \notin DOMAIN jobPods
      /\ jobPods' = Job!Put(jobPods, p, pod) /\ jobs' = jobs
  BY DEF Job!StartPod
<1>2. pod \in Job!PodStates
  BY <1>1, JobIsTyped DEF Job!PodStates
<1>3. /\ DOMAIN jobPods' = DOMAIN jobPods \cup {p} /\ jobPods'[p] = pod
      /\ \A q \in DOMAIN jobPods : jobPods'[q] = jobPods[q]
  BY <1>1 DEF Job!Put
<1>4. JobsTyped(jobs') /\ PodsTyped(jobPods')
  BY <1>1, <1>2, <1>3 DEF Job!TypeOK, JobsTyped, PodsTyped, Job!Put, Job!PartialFcns
<1>5. \A q \in DOMAIN jobPods : q[1] = j => jobPods[q].tally = "done"
  BY <1>1 DEF Job!Uncounted, Job!PodsOf
<1>6. pod.tally = "none"
  OBVIOUS
<1> HIDE DEF pod
<1>7. ASSUME NEW k \in DOMAIN jobs PROVE JobInv(k, jobs[k], jobPods')
  <2>1. JobInv(k, jobs[k], jobPods)
    BY DEF ControllerInv
  <2>2. CASE k # j
    <3>1. \A q : q[1] = k => /\ q \in DOMAIN jobPods' <=> q \in DOMAIN jobPods
                             /\ q \in DOMAIN jobPods => jobPods'[q] = jobPods[q]
      BY <1>3, <2>2
    <3> QED BY <2>1, <3>1, SamePodsKeepJobInv
  <2>3. CASE k = j
    BY <1>1, <1>3, <1>5, <1>6, <2>1, <2>3 DEF JobInv
  <2> QED BY <2>2, <2>3
<1> QED BY <1>1, <1>4, <1>7 DEF ControllerInv

LEMMA WriteKeepsController ==
  ASSUME Job!TypeOK, ControllerInv(jobs, jobPods), NEW j \in DOMAIN jobs, NEW p \in Job!PodsOf(j),
         Job!WriteActive(j, p)
  PROVE  JobsTyped(jobs') /\ PodsTyped(jobPods') /\ ControllerInv(jobs', jobPods')
<1> DEFINE job == [jobs[j] EXCEPT !.active = 1]
           pod == [jobPods[p] EXCEPT !.tally = "active"]
<1>1. /\ p \in DOMAIN jobPods /\ p[1] = j /\ jobPods[p].tally = "none" /\ Job!Update(j, job)
      /\ jobPods' = [jobPods EXCEPT ![p] = pod]
  BY DEF Job!WriteActive, Job!PodsOf
<1>2. pod \in Job!PodStates /\ pod.tally = "active"
  BY <1>1, PodIsTyped DEF Job!PodStates
<1>3. /\ job \in Job!JobStates /\ job.active = 1 /\ job.ended = jobs[j].ended
      /\ job.succeeded = jobs[j].succeeded /\ job.failed = jobs[j].failed
  BY JobIsTyped DEF Job!JobStates
<1> HIDE DEF pod, job
<1>4. /\ PodsTyped(jobPods') /\ DOMAIN jobPods' = DOMAIN jobPods /\ jobPods'[p] = pod
      /\ \A q \in DOMAIN jobPods : q # p => jobPods'[q] = jobPods[q]
  BY <1>1, <1>2, OnePodChanges
<1>5. JobInv(j, jobs[j], jobPods)
  BY DEF ControllerInv
<1>6. JobInv(j, job, jobPods')
  BY <1>1, <1>2, <1>3, <1>4, <1>5 DEF JobInv
<1> QED BY <1>1, <1>3, <1>4, <1>6, OneJobChanges

LEMMA CountKeepsController ==
  ASSUME Job!TypeOK, ControllerInv(jobs, jobPods), NEW j \in DOMAIN jobs, NEW p \in Job!PodsOf(j),
         Job!CountPod(j, p)
  PROVE  JobsTyped(jobs') /\ PodsTyped(jobPods') /\ ControllerInv(jobs', jobPods')
<1> DEFINE succeeded == jobPods[p].phase = "Succeeded"
           failures == jobs[j].failed + (IF succeeded THEN 0 ELSE 1)
           job == [jobs[j] EXCEPT
                     !.active = 0, !.succeeded = IF succeeded THEN 1 ELSE 0,
                     !.failed = failures, !.ended = succeeded \/ failures > BackoffLimit]
           pod == [jobPods[p] EXCEPT !.tally = "done"]
<1>1. /\ p \in DOMAIN jobPods /\ p[1] = j /\ jobPods[p].tally # "done" /\ ~Job!Active(p)
      /\ Job!Update(j, job) /\ jobPods' = [jobPods EXCEPT ![p] = pod]
  BY DEF Job!CountPod, Job!PodsOf
<1>2. /\ pod \in Job!PodStates /\ pod.tally = "done"
      /\ pod.phase = jobPods[p].phase /\ pod.deleted = jobPods[p].deleted
  BY <1>1, PodIsTyped DEF Job!PodStates
<1>3. JobInv(j, jobs[j], jobPods)
  BY DEF ControllerInv
<1>4. ~jobs[j].ended /\ jobs[j].failed <= BackoffLimit
  BY <1>1, <1>3 DEF JobInv
<1>5. failures \in 0..(BackoffLimit + 1) /\ (succeeded \in BOOLEAN)
  BY <1>4, JobIsTyped, BackoffAssumption
<1>6. /\ job \in Job!JobStates
      /\ job.active = 0 /\ job.failed = failures
      /\ job.succeeded = (IF succeeded THEN 1 ELSE 0)
      /\ job.ended = (succeeded \/ failures > BackoffLimit)
  <2>1. jobs[j] \in Job!JobStates
    BY JobIsTyped
  <2>2. (succeeded \/ failures > BackoffLimit) \in BOOLEAN
    OBVIOUS
  <2>3. 0 \in 0..1 /\ (IF succeeded THEN 1 ELSE 0) \in 0..1
    OBVIOUS
  <2> HIDE DEF succeeded, failures
  <2>4. job \in Job!JobStates
    BY <1>5, <2>1, <2>2, <2>3 DEF Job!JobStates
  <2>5. job.active = 0 /\ job.failed = failures /\ job.succeeded = (IF succeeded THEN 1 ELSE 0)
    BY <2>1 DEF Job!JobStates
  <2>6. job.ended = (succeeded \/ failures > BackoffLimit)
    BY <2>1 DEF Job!JobStates
  <2> QED BY <2>4, <2>5, <2>6
<1>7. ~job.ended => job.succeeded = 0 /\ job.failed <= BackoffLimit
  <2> HIDE DEF job, succeeded, failures
  <2>1. ASSUME ~job.ended PROVE ~succeeded /\ ~(failures > BackoffLimit)
    BY <1>6, <2>1
  <2>2. failures \in Int /\ BackoffLimit \in Int
    BY <1>5, BackoffAssumption
  <2> QED BY <1>6, <2>1, <2>2
<1> HIDE DEF job, pod
<1>8. /\ PodsTyped(jobPods') /\ DOMAIN jobPods' = DOMAIN jobPods /\ jobPods'[p] = pod
      /\ \A q \in DOMAIN jobPods : q # p => jobPods'[q] = jobPods[q]
  BY <1>1, <1>2, OnePodChanges
<1>9. \A q \in DOMAIN jobPods' : q[1] = j => jobPods'[q].tally = "done"
  BY <1>1, <1>2, <1>3, <1>8 DEF JobInv
<1>10. \A q \in DOMAIN jobPods' : q[1] = j => jobPods'[q].phase # "Running" \/ jobPods'[q].deleted
  BY <1>1, <1>2, <1>3, <1>8, <1>9 DEF JobInv, Job!Active
<1>11. JobInv(j, job, jobPods')
  BY <1>6, <1>7, <1>9, <1>10 DEF JobInv
<1> QED BY <1>1, <1>6, <1>8, <1>11, OneJobChanges

\* The controller lets go of the Pod that is left of a Job.
LEMMA StopLeavesNothingToCount ==
  ASSUME Job!TypeOK, NEW j \in DOMAIN jobs, ControllerInv(jobs, jobPods), Job!StopActive(j)
  PROVE  /\ PodsTyped(jobPods') /\ DOMAIN jobPods' = DOMAIN jobPods
         /\ \A p \in DOMAIN jobPods : p[1] = j =>
              /\ jobPods'[p].tally = "done"
              /\ jobPods'[p].phase # "Running" \/ jobPods'[p].deleted
         /\ \A p \in DOMAIN jobPods : p[1] # j => jobPods'[p] = jobPods[p]
<1>1. /\ DOMAIN jobPods' = DOMAIN jobPods
      /\ \A p \in DOMAIN jobPods :
           jobPods'[p] = IF p \in Job!Uncounted(j)
                           THEN [jobPods[p] EXCEPT !.deleted = TRUE, !.tally = "done"]
                           ELSE jobPods[p]
  BY DEF Job!StopActive
<1>2. ASSUME NEW p \in DOMAIN jobPods
      PROVE  LET pod == [jobPods[p] EXCEPT !.deleted = TRUE, !.tally = "done"]
             IN  pod \in Job!PodStates /\ pod.deleted /\ pod.tally = "done"
  BY PodIsTyped DEF Job!PodStates
<1>3. PodsTyped(jobPods')
  <2>1. \A p \in DOMAIN jobPods : jobPods'[p] \in Job!PodStates
    BY <1>1, <1>2, PodIsTyped
  <2>2. jobPods' = [p \in DOMAIN jobPods |-> jobPods'[p]] /\ DOMAIN jobPods \subseteq Job!PodNames
    BY <1>1, PodIsTyped DEF Job!StopActive
  <2>3. jobPods' \in [DOMAIN jobPods -> Job!PodStates]
    BY <2>1, <2>2
  <2> QED BY <2>2, <2>3 DEF PodsTyped, Job!PartialFcns
<1>4. JobInv(j, jobs[j], jobPods)
  BY DEF ControllerInv
<1> QED BY <1>1, <1>2, <1>3, <1>4 DEF JobInv, Job!Uncounted, Job!PodsOf

LEMMA DeadlineKeepsController ==
  ASSUME Job!TypeOK, ControllerInv(jobs, jobPods), NEW j \in DOMAIN jobs, Job!PassDeadline(j)
  PROVE  JobsTyped(jobs') /\ PodsTyped(jobPods') /\ ControllerInv(jobs', jobPods')
<1> DEFINE failures == IF Job!Uncounted(j) = {} THEN jobs[j].failed ELSE jobs[j].failed + 1
           job == [jobs[j] EXCEPT !.ended = TRUE, !.active = 0, !.failed = failures]
<1>1. ~jobs[j].ended /\ Job!Update(j, job) /\ Job!StopActive(j)
  BY JobIsTyped DEF Job!PassDeadline, Job!JobStates
<1>2. JobInv(j, jobs[j], jobPods)
  BY DEF ControllerInv
<1>3. failures \in 0..(BackoffLimit + 1)
  BY <1>1, <1>2, JobIsTyped, BackoffAssumption DEF JobInv
<1>4. job \in Job!JobStates /\ job.ended /\ job.active = 0
  <2>1. jobs[j] \in Job!JobStates
    BY JobIsTyped
  <2>2. 0 \in 0..1
    OBVIOUS
  <2> HIDE DEF failures
  <2>3. job \in Job!JobStates
    BY <1>3, <2>1, <2>2 DEF Job!JobStates
  <2>4. job.ended /\ job.active = 0
    BY <2>1 DEF Job!JobStates
  <2> QED BY <2>3, <2>4
<1> HIDE DEF job
<1>5. JobInv(j, job, jobPods')
  BY <1>1, <1>4, StopLeavesNothingToCount DEF JobInv
<1> QED BY <1>1, <1>4, <1>5, StopLeavesNothingToCount, OneJobChanges

LEMMA SuspendOrResumeKeepsController ==
  ASSUME Job!TypeOK, ControllerInv(jobs, jobPods), NEW j \in DOMAIN jobs, Job!SuspendOrResume(j)
  PROVE  JobsTyped(jobs') /\ PodsTyped(jobPods') /\ ControllerInv(jobs', jobPods')
<1> DEFINE job == [jobs[j] EXCEPT !.suspended = ~@]
<1>1. Job!Update(j, job) /\ jobPods' = jobPods
  BY DEF Job!SuspendOrResume
<1>2. /\ job \in Job!JobStates /\ job.active = jobs[j].active /\ job.ended = jobs[j].ended
      /\ job.succeeded = jobs[j].succeeded /\ job.failed = jobs[j].failed
  <2>1. jobs[j] \in Job!JobStates /\ (~jobs[j].suspended) \in BOOLEAN
    BY JobIsTyped
  <2> QED BY <2>1 DEF Job!JobStates
<1> HIDE DEF job
<1>3. JobInv(j, job, jobPods)
  BY <1>2 DEF ControllerInv, JobInv
<1> QED BY <1>1, <1>2, <1>3, OneJobChanges DEF Job!TypeOK, PodsTyped

LEMMA StopKeepsController ==
  ASSUME Job!TypeOK, ControllerInv(jobs, jobPods), NEW j \in DOMAIN jobs, Job!StopSuspended(j)
  PROVE  JobsTyped(jobs') /\ PodsTyped(jobPods') /\ ControllerInv(jobs', jobPods')
<1> DEFINE job == [jobs[j] EXCEPT !.active = 0]
<1>1. Job!Update(j, job) /\ Job!StopActive(j)
  BY DEF Job!StopSuspended
<1>2. /\ job \in Job!JobStates /\ job.active = 0 /\ job.ended = jobs[j].ended
      /\ job.succeeded = jobs[j].succeeded /\ job.failed = jobs[j].failed
  BY JobIsTyped DEF Job!JobStates
<1> HIDE DEF job
<1>3. JobInv(j, jobs[j], jobPods)
  BY DEF ControllerInv
<1>4. JobInv(j, job, jobPods')
  BY <1>1, <1>2, <1>3, StopLeavesNothingToCount DEF JobInv
<1> QED BY <1>1, <1>2, <1>4, StopLeavesNothingToCount, OneJobChanges

LEMMA DeleteKeepsController ==
  ASSUME Job!TypeOK, ControllerInv(jobs, jobPods), NEW j \in DOMAIN jobs, Job!DeleteJob(j)
  PROVE  JobsTyped(jobs') /\ PodsTyped(jobPods') /\ ControllerInv(jobs', jobPods')
<1>1. jobs' = [k \in DOMAIN jobs \ {j} |-> jobs[k]] /\ jobPods' = jobPods
  BY DEF Job!DeleteJob, Job!Delete, Job!Restrict
<1> QED BY <1>1 DEF Job!TypeOK, JobsTyped, PodsTyped, ControllerInv, Job!PartialFcns

LEMMA PodEndKeepsController ==
  ASSUME Job!TypeOK, ControllerInv(jobs, jobPods), NEW p \in DOMAIN jobPods,
         NEW phase \in {"Succeeded", "Failed"}, Job!PodEnds(p, phase)
  PROVE  JobsTyped(jobs') /\ PodsTyped(jobPods') /\ ControllerInv(jobs', jobPods')
<1> DEFINE pod == [jobPods[p] EXCEPT !.phase = phase]
<1>1. jobPods' = [jobPods EXCEPT ![p] = pod] /\ jobs' = jobs
  BY DEF Job!PodEnds
<1>2. /\ pod \in Job!PodStates /\ pod.phase # "Running"
      /\ pod.tally = jobPods[p].tally /\ pod.deleted = jobPods[p].deleted
  BY PodIsTyped DEF Job!PodStates
<1> HIDE DEF pod
<1>3. /\ PodsTyped(jobPods') /\ DOMAIN jobPods' = DOMAIN jobPods /\ jobPods'[p] = pod
      /\ \A q \in DOMAIN jobPods : q # p => jobPods'[q] = jobPods[q]
  BY <1>1, <1>2, OnePodChanges
<1>4. ControllerInv(jobs', jobPods')
  BY <1>1, <1>2, <1>3, OnlyPodsChange
<1> QED BY <1>1, <1>3, <1>4 DEF Job!TypeOK, JobsTyped

LEMMA DeletePodKeepsController ==
  ASSUME Job!TypeOK, ControllerInv(jobs, jobPods), NEW p \in DOMAIN jobPods, Job!DeletePod(p)
  PROVE  JobsTyped(jobs') /\ PodsTyped(jobPods') /\ ControllerInv(jobs', jobPods')
<1> DEFINE pod == [jobPods[p] EXCEPT !.deleted = TRUE]
<1>1. jobPods' = [jobPods EXCEPT ![p] = pod] /\ jobs' = jobs
  BY DEF Job!DeletePod
<1>2. /\ pod \in Job!PodStates /\ pod.deleted
      /\ pod.tally = jobPods[p].tally /\ pod.phase = jobPods[p].phase
  BY PodIsTyped DEF Job!PodStates
<1> HIDE DEF pod
<1>3. /\ PodsTyped(jobPods') /\ DOMAIN jobPods' = DOMAIN jobPods /\ jobPods'[p] = pod
      /\ \A q \in DOMAIN jobPods : q # p => jobPods'[q] = jobPods[q]
  BY <1>1, <1>2, OnePodChanges
<1>4. ControllerInv(jobs', jobPods')
  BY <1>1, <1>2, <1>3, OnlyPodsChange
<1> QED BY <1>1, <1>3, <1>4 DEF Job!TypeOK, JobsTyped

LEMMA RemovePodKeepsController ==
  ASSUME Job!TypeOK, ControllerInv(jobs, jobPods), NEW p \in DOMAIN jobPods, Job!RemovePod(p)
  PROVE  JobsTyped(jobs') /\ PodsTyped(jobPods') /\ ControllerInv(jobs', jobPods')
<1>1. jobPods' = [q \in DOMAIN jobPods \ {p} |-> jobPods[q]] /\ jobs' = jobs
  BY DEF Job!RemovePod, Job!Delete, Job!Restrict
<1>2. ControllerInv(jobs', jobPods')
  BY <1>1, OnlyPodsChange
<1> QED BY <1>1, <1>2 DEF Job!TypeOK, JobsTyped, PodsTyped, Job!PartialFcns

LEMMA ClusterMovesKeepController ==
  ASSUME Job!TypeOK, ControllerInv(jobs, jobPods), Job!ClusterMoves
  PROVE  JobsTyped(jobs') /\ PodsTyped(jobPods') /\ ControllerInv(jobs', jobPods')
<1>1. CASE \E j \in Jobs, suspended \in BOOLEAN, label \in Job!Labels : Job!CreateJob(j, suspended, label)
  BY <1>1, CreateKeepsController
<1>2. CASE \E p \in Job!PodNames : Job!StartPod(p)
  BY <1>2, StartKeepsController
<1>3. CASE \E j \in DOMAIN jobs : \E p \in Job!PodsOf(j) : Job!WriteActive(j, p) \/ Job!CountPod(j, p)
  BY <1>3, WriteKeepsController, CountKeepsController
<1>4. CASE \E j \in DOMAIN jobs : \/ Job!PassDeadline(j) \/ Job!SuspendOrResume(j)
                                  \/ Job!StopSuspended(j) \/ Job!DeleteJob(j)
  BY <1>4, DeadlineKeepsController, SuspendOrResumeKeepsController, StopKeepsController,
     DeleteKeepsController
<1>5. CASE \E p \in DOMAIN jobPods, phase \in {"Succeeded", "Failed"} : Job!PodEnds(p, phase)
  BY <1>5, PodEndKeepsController
<1>6. CASE \E p \in DOMAIN jobPods : Job!DeletePod(p) \/ Job!RemovePod(p)
  BY <1>6, DeletePodKeepsController, RemovePodKeepsController
<1> QED BY <1>1, <1>2, <1>3, <1>4, <1>5, <1>6 DEF Job!ClusterMoves

-----------------------------------------------------------------------------
(* The Scan's steps, and the theorems *)

LEMMA InitEstablishesJobsInv == Job!Init => JobsInv
<1> SUFFICES ASSUME Job!Init PROVE JobsInv
  OBVIOUS
<1>1. \A S, T : Job!EmptyFcn \in Job!PartialFcns(S, T)
  BY DEF Job!EmptyFcn, Job!PartialFcns
<1>2. Job!TypeOK /\ jobHist \in JobRecord
  BY <1>1 DEF Job!Init, Job!TypeOK, JobRecord
<1> QED BY <1>2 DEF Job!Init, JobsInv, ControllerInv, JobScanInv, Job!EmptyFcn

LEMMA StepKeepsJobsInv == JobsInv /\ [Job!Next]_Job!vars => JobsInv'
<1> SUFFICES ASSUME JobsInv, [Job!Next]_Job!vars PROVE JobsInv'
  OBVIOUS
<1>0. Job!TypeOK /\ jobHist \in JobRecord /\ ControllerInv(jobs, jobPods) /\ JobScanInv
  BY DEF JobsInv
<1>1. CASE Job!ListJobs
  <2>1. /\ UNCHANGED <<jobs, jobPods, jobErr, podFindings>> /\ jobAt' = "pods"
        /\ jobHist' = [jobs |-> jobs, pods |-> jobPods]
        /\ jobFindings' = {j \in DOMAIN jobs : Job!completed(jobs[j]) /\ ~Job!isIgnored(jobs[j].ignore)}
    BY <1>1 DEF Job!ListJobs, Job!cluster
  <2>2. Job!TypeOK' /\ (jobHist \in JobRecord)'
    <3>1. jobFindings' \subseteq Jobs
      BY <1>0, <2>1 DEF Job!TypeOK, Job!PartialFcns
    <3> QED BY <1>0, <2>1, <3>1 DEF Job!TypeOK, JobRecord
  <2>3. JobScanInv'
    BY <1>0, <2>1 DEF JobScanInv
  <2> QED BY <1>0, <2>1, <2>2, <2>3 DEF JobsInv
<1>2. CASE Job!ListPods
  <2>1. /\ UNCHANGED <<jobs, jobPods, jobErr, jobFindings, jobHist>>
        /\ jobAt = "pods" /\ jobAt' = "returned"
        /\ podFindings' = {p \in DOMAIN jobPods :
             jobPods[p].phase \in {"Succeeded", "Failed"} /\ ~Job!isIgnored(jobPods[p].ignore)}
    BY <1>2 DEF Job!ListPods, Job!cluster
  <2>2. Job!TypeOK'
    BY <1>0, <2>1 DEF Job!TypeOK, Job!PartialFcns
  <2> QED BY <1>0, <2>1, <2>2 DEF JobsInv, JobScanInv
<1>3. CASE Job!ListFails
  BY <1>0, <1>3 DEF Job!ListFails, Job!cluster, JobsInv, Job!TypeOK, JobScanInv
<1>4. CASE Job!ClusterMoves
  <2>1. UNCHANGED <<jobAt, jobErr, jobFindings, podFindings, jobHist>>
    BY <1>4 DEF Job!ClusterMoves
  <2>2. JobsTyped(jobs') /\ PodsTyped(jobPods') /\ ControllerInv(jobs', jobPods')
    BY <1>0, <1>4, ClusterMovesKeepController
  <2> QED BY <1>0, <2>1, <2>2 DEF JobsInv, Job!TypeOK, JobScanInv, JobsTyped, PodsTyped
<1>5. CASE UNCHANGED Job!vars
  BY <1>0, <1>5 DEF Job!vars, Job!cluster, JobsInv, Job!TypeOK, JobScanInv
<1> QED BY <1>1, <1>2, <1>3, <1>4, <1>5 DEF Job!Next, Job!Scan

LEMMA JobsInvHolds == Job!Spec => []JobsInv
BY InitEstablishesJobsInv, StepKeepsJobsInv, PTL DEF Job!Spec

\* What the observer has of the Jobs and the Pods is typed.
LEMMA JobRecordIsTyped ==
  ASSUME JobsInv
  PROVE  /\ \A j \in DOMAIN jobHist.jobs :
              /\ j \in Jobs /\ jobHist.jobs[j] \in Job!JobStates
              /\ jobHist.jobs[j].active \in 0..1 /\ jobHist.jobs[j].succeeded \in 0..1
              /\ jobHist.jobs[j].failed \in 0..(BackoffLimit + 1)
         /\ \A p \in DOMAIN jobHist.pods : jobHist.pods[p] \in Job!PodStates
<1>1. /\ jobHist.jobs \in Job!PartialFcns(Jobs, Job!JobStates)
      /\ jobHist.pods \in Job!PartialFcns(Job!PodNames, Job!PodStates)
  BY DEF JobsInv, JobRecord
<1>2. \A j \in DOMAIN jobHist.jobs : j \in Jobs /\ jobHist.jobs[j] \in Job!JobStates
  BY <1>1 DEF Job!PartialFcns
<1>3. \A p \in DOMAIN jobHist.pods : jobHist.pods[p] \in Job!PodStates
  BY <1>1 DEF Job!PartialFcns
<1> QED BY <1>2, <1>3 DEF Job!JobStates

\* A Job that had ended when the Jobs were listed, with a Pod counted as succeeded or as
\* failed, is reported, unless it is labelled to be ignored.
THEOREM EndedJobIsReportedHolds == Job!Spec => []EndedJobIsReported
<1>1. JobsInv => EndedJobIsReported
  <2> SUFFICES ASSUME JobsInv, Job!Reported, NEW j \in DOMAIN jobHist.jobs, jobHist.jobs[j].ended,
                      jobHist.jobs[j].ignore # "true",
                      jobHist.jobs[j].succeeded + jobHist.jobs[j].failed # 0
               PROVE  j \in jobFindings
    BY DEF EndedJobIsReported, Job!EndedJobIsReported, Job!Reported
  <2>1. /\ ControllerInv(jobHist.jobs, jobHist.pods)
        /\ jobFindings = {k \in DOMAIN jobHist.jobs :
                            Job!completed(jobHist.jobs[k]) /\ ~Job!isIgnored(jobHist.jobs[k].ignore)}
    BY DEF JobsInv, JobScanInv, Job!Reported
  <2>2. jobHist.jobs[j].active = 0
    <3>1. JobInv(j, jobHist.jobs[j], jobHist.pods)
      BY <2>1 DEF ControllerInv
    <3>2. jobHist.jobs[j].active \in 0..1
      BY JobRecordIsTyped
    <3> QED BY <3>1, <3>2 DEF JobInv
  <2>3. Job!completed(jobHist.jobs[j])
    BY <2>2, JobRecordIsTyped, BackoffAssumption DEF Job!completed
  <2> QED BY <2>1, <2>3 DEF Job!isIgnored
<1> QED BY <1>1, JobsInvHolds, PTL

\* A reported Job that had ended had no Pod running but one that was being deleted; one
\* that had not ended was between two attempts, with no Pod running besides but the next
\* attempt, of which its status did not know yet.
THEOREM OnlyRetryingJobIsReportedEarlyHolds == Job!Spec => []OnlyRetryingJobIsReportedEarly
<1>1. JobsInv => OnlyRetryingJobIsReportedEarly
  <2> SUFFICES ASSUME JobsInv, Job!Reported, NEW j \in jobFindings
               PROVE  LET job == jobHist.jobs[j]
                          running == {p \in DOMAIN jobHist.pods :
                                        /\ p[1] = j
                                        /\ jobHist.pods[p].phase = "Running"
                                        /\ ~jobHist.pods[p].deleted}
                      IN  IF job.ended
                          THEN running = {}
                          ELSE /\ job.succeeded = 0 /\ job.failed \in 1..BackoffLimit
                               /\ \A p \in running : jobHist.pods[p].tally = "none"
                               /\ \A p, q \in running : p = q
    BY DEF OnlyRetryingJobIsReportedEarly, Job!OnlyRetryingJobIsReportedEarly, Job!Reported
  <2> DEFINE job == jobHist.jobs[j]
             running == {p \in DOMAIN jobHist.pods :
                           /\ p[1] = j
                           /\ jobHist.pods[p].phase = "Running" /\ ~jobHist.pods[p].deleted}
  <2>1. /\ j \in DOMAIN jobHist.jobs /\ JobInv(j, job, jobHist.pods) /\ Job!completed(job)
    BY DEF JobsInv, JobScanInv, Job!Reported, ControllerInv
  <2>2. \A p \in running : jobHist.pods[p].tally \in {"none", "active"}
    BY <2>1, JobRecordIsTyped DEF JobInv, Job!PodStates
  <2>3. CASE job.ended
    <3>1. running = {}
      BY <2>1, <2>2, <2>3 DEF JobInv
    <3> QED BY <2>3, <3>1
  <2>4. CASE ~job.ended
    <3>1. job.succeeded = 0 /\ job.failed \in 1..BackoffLimit
      BY <2>1, <2>4, JobRecordIsTyped, BackoffAssumption DEF JobInv, Job!completed
    <3>2. \A p \in running : jobHist.pods[p].tally = "none"
      BY <2>1, <2>2 DEF JobInv, Job!completed
    <3>3. \A p, q \in running : p = q
      BY <2>1, <3>2 DEF JobInv
    <3> QED BY <2>4, <3>1, <3>2, <3>3
  <2> QED BY <2>3, <2>4
<1> QED BY <1>1, JobsInvHolds, PTL

-----------------------------------------------------------------------------
(* Both in one module's specification *)

\* A step that follows the one Scan leaves the other and its objects alone.
LEMMA ScansRunInMC == MCSpec => Spec /\ Job!Spec
<1>1. MCInit => Init /\ Job!Init
  BY DEF MCInit
<1>2. ASSUME [MCNext]_<<cluster, ConfigScan, JobVars>> PROVE [Next]_vars /\ [Job!Next]_Job!vars
  BY <1>2 DEF MCNext, Next, Job!Next, ConfigScan, JobVars, JobScan, vars, Job!vars,
              Job!cluster
<1> QED BY <1>1, <1>2, PTL DEF MCSpec, Spec, Job!Spec

\* Both detectors' variables keep their types.
THEOREM EveryTypeOKHolds == MCSpec => []EveryTypeOK
<1>1. JobsInv => Job!TypeOK
  BY DEF JobsInv
<1> QED BY <1>1, ScansRunInMC, TypeOKHolds, JobsInvHolds, PTL DEF EveryTypeOK
=============================================================================

----------------------- MODULE UnusedConfigMapSecret -----------------------
(***************************************************************************)
(* UnusedConfigMapSecretDetector.Scan (pkg/detector/configmap_secret.go,   *)
(* helm.go): ConfigMaps, then Secrets, then the Pods that may refer to     *)
(* either.  It is two OrphanScans over one List of the Pods.               *)
(*                                                                         *)
(* A Pod is its namespace and its references, [via |-> the field of the    *)
(* Pod, kind |-> , name |-> ]; a Pod's specification does not change.      *)
(***************************************************************************)
EXTENDS Cluster

CONSTANTS
  ConfigMaps, ConfigMapStates,  \* keys <<namespace, name>>; sets of [ignore |-> , hook |-> ]
  Secrets, SecretStates,        \* the same, with [type |-> ]
  Pods                          \* the Pods there may be: [ns |-> , refs |-> ]

\* A key is a pair.
ASSUME KeysAssumption == \A k \in ConfigMaps \cup Secrets : k = <<k[1], k[2]>>

kubeRootCAConfigMapName == "kube-root-ca.crt"
excludedTypes == {"kubernetes.io/service-account-token", "helm.sh/release.v1"}

VARIABLES
  configMaps, secrets, pods,  \* the cluster
  at,        \* "configmaps", "secrets", "pods", "loop" or "returned"
  err,       \* Scan has returned an error
  gotConfigMaps, gotSecrets, gotPods,  \* the Lists' answers, locals of Scan
  findings,  \* what Scan returns: pairs of a kind and a key
  configMapHist, secretHist  \* OrphanScan's observer, once for each kind

cluster == <<configMaps, secrets, pods>>
scan == <<at, err, gotConfigMaps, gotSecrets, gotPods, findings>>
hists == <<configMapHist, secretHist>>
vars == <<cluster, scan, hists>>

-----------------------------------------------------------------------------
(* What the code computes from the answers *)

isHelmHook(object) == object.hook

\* Mutant: only plain volumes are looked through.
addPlainVolumeRefs(pod) == {r \in pod.refs : r.via = "volume"}

addVolumeRefs(pod) == {r \in pod.refs : r.via \in {"volume", "projected"}}

addImagePullSecretRefs(pod) == {r \in pod.refs : r.via = "imagePullSecrets"}

\* Of the containers and the init containers.
addContainerRefs(pod) == {r \in pod.refs : r.via \in {"envFrom", "env"}}

referencedConfigMapsAndSecrets(ps) ==
  UNION {{<<r.kind, <<pod.ns, r.name>>>> :
            r \in addVolumeRefs(pod) \cup addImagePullSecretRefs(pod) \cup addContainerRefs(pod)}
         : pod \in ps}

-----------------------------------------------------------------------------
(* What a use is, said without the code: README "not referenced by any Pod's env,  *)
(* volume, projected volume, or image pull secrets"                                *)

Documented == {"volume", "projected", "imagePullSecrets", "envFrom", "env"}

Referenced(kind, keys) ==
  {k \in keys : \E pod \in pods : \E r \in pod.refs :
     r.via \in Documented /\ r.kind = kind /\ pod.ns = k[1] /\ r.name = k[2]}

LooseConfigMaps(cms) ==
  {k \in DOMAIN cms : k[2] # "kube-root-ca.crt" /\ cms[k].ignore # "true" /\ ~cms[k].hook}
LooseSecrets(ss) ==
  {k \in DOMAIN ss : ss[k].type \notin excludedTypes /\ ss[k].ignore # "true" /\ ~ss[k].hook}

UsedConfigMaps == [s \in {"pods"} |-> Referenced("ConfigMap", ConfigMaps)]
UsedSecrets == [s \in {"pods"} |-> Referenced("Secret", Secrets)]

\* How far Scan has come, in OrphanScan's terms, with the kind whose List is the first.
phaseFrom(first) ==
  IF err THEN "failed" ELSE IF at \in first THEN "start"
  ELSE IF at = "returned" THEN "reported" ELSE "reading"
read == IF at \in {"loop", "returned"} THEN {"pods"} ELSE {}
seenOf(kind, keys) ==
  [s \in {"pods"} |-> {k \in keys : <<kind, k>> \in referencedConfigMapsAndSecrets(gotPods)}]
foundOf(kind) == {f[2] : f \in {g \in findings : g[1] = kind}}

ConfigMapScan == INSTANCE OrphanScan WITH
  Resources <- ConfigMaps, Sources <- {"pods"},
  eligible <- LooseConfigMaps(configMaps), uses <- UsedConfigMaps,
  phase <- phaseFrom({"configmaps"}), candidates <- LooseConfigMaps(gotConfigMaps),
  seen <- seenOf("ConfigMap", ConfigMaps), findings <- foundOf("ConfigMap"), hist <- configMapHist

SecretScan == INSTANCE OrphanScan WITH
  Resources <- Secrets, Sources <- {"pods"},
  eligible <- LooseSecrets(secrets), uses <- UsedSecrets,
  phase <- phaseFrom({"configmaps", "secrets"}), candidates <- LooseSecrets(gotSecrets),
  seen <- seenOf("Secret", Secrets), findings <- foundOf("Secret"), hist <- secretHist

-----------------------------------------------------------------------------
(* Scan *)

Init ==
  /\ configMaps \in PartialFcns(ConfigMaps, ConfigMapStates)
  /\ secrets \in PartialFcns(Secrets, SecretStates)
  /\ pods \in SUBSET Pods
  /\ at = "configmaps"
  /\ err = FALSE
  /\ gotConfigMaps = EmptyFcn
  /\ gotSecrets = EmptyFcn
  /\ gotPods = {}
  /\ findings = {}
  /\ configMapHist = ConfigMapScan!NothingYet
  /\ secretHist = SecretScan!NothingYet

ListConfigMaps ==
  /\ ~err /\ at = "configmaps"
  /\ gotConfigMaps' = configMaps
  /\ at' = "secrets"
  /\ configMapHist' = ConfigMapScan!BeginWith(LooseConfigMaps(configMaps), UsedConfigMaps)
  /\ UNCHANGED <<cluster, err, gotSecrets, gotPods, findings, secretHist>>

ListSecrets ==
  /\ ~err /\ at = "secrets"
  /\ gotSecrets' = secrets
  /\ at' = "pods"
  /\ secretHist' = SecretScan!BeginWith(LooseSecrets(secrets), UsedSecrets)
  /\ UNCHANGED <<cluster, err, gotConfigMaps, gotPods, findings, configMapHist>>

ListPods ==
  /\ ~err /\ at = "pods"
  /\ gotPods' = pods
  /\ at' = "loop"
  /\ UNCHANGED <<cluster, err, gotConfigMaps, gotSecrets, findings, hists>>

ListFails ==
  /\ ~err /\ at \in {"configmaps", "secrets", "pods"}
  /\ err' = TRUE
  /\ UNCHANGED <<cluster, at, gotConfigMaps, gotSecrets, gotPods, findings, hists>>

\* The loops over configMaps.Items and secrets.Items, and the return.
Return ==
  /\ ~err /\ at = "loop"
  /\ LET referenced == referencedConfigMapsAndSecrets(gotPods)
         loose(object) == ~isIgnored(object.ignore) /\ ~isHelmHook(object)
     IN  findings' =
           {<<"ConfigMap", k>> : k \in {c \in DOMAIN gotConfigMaps :
              /\ c[2] # kubeRootCAConfigMapName
              /\ <<"ConfigMap", c>> \notin referenced
              /\ loose(gotConfigMaps[c])}}
           \cup
           {<<"Secret", k>> : k \in {s \in DOMAIN gotSecrets :
              /\ gotSecrets[s].type \notin excludedTypes
              /\ <<"Secret", s>> \notin referenced
              /\ loose(gotSecrets[s])}}
  /\ at' = "returned"
  /\ UNCHANGED <<cluster, err, gotConfigMaps, gotSecrets, gotPods, hists>>

Scan == ListConfigMaps \/ ListSecrets \/ ListPods \/ ListFails \/ Return

-----------------------------------------------------------------------------
(* The cluster: nothing keeps a ConfigMap or a Secret from being deleted *)

CreateOrLabelConfigMap(k, st) ==
  configMaps' = Put(configMaps, k, st) /\ UNCHANGED <<secrets, pods>>

CreateOrLabelSecret(k, st) ==
  secrets' = Put(secrets, k, st) /\ UNCHANGED <<configMaps, pods>>

DeleteConfigMap(k) ==
  k \in DOMAIN configMaps /\ configMaps' = Delete(configMaps, k) /\ UNCHANGED <<secrets, pods>>

DeleteSecret(k) ==
  k \in DOMAIN secrets /\ secrets' = Delete(secrets, k) /\ UNCHANGED <<configMaps, pods>>

CreateOrDeletePod(pod) == pods' = Toggle(pods, pod) /\ UNCHANGED <<configMaps, secrets>>

ClusterMoves ==
  /\ \/ \E k \in ConfigMaps :
          DeleteConfigMap(k) \/ \E st \in ConfigMapStates : CreateOrLabelConfigMap(k, st)
     \/ \E k \in Secrets :
          DeleteSecret(k) \/ \E st \in SecretStates : CreateOrLabelSecret(k, st)
     \/ \E pod \in Pods : CreateOrDeletePod(pod)
  /\ ConfigMapScan!Observe(LooseConfigMaps(configMaps'), UsedConfigMaps')
  /\ SecretScan!Observe(LooseSecrets(secrets'), UsedSecrets')
  /\ UNCHANGED scan

Next == Scan \/ ClusterMoves

Spec == Init /\ [][Next]_vars

-----------------------------------------------------------------------------
(* Properties *)

TypeOK ==
  /\ configMaps \in PartialFcns(ConfigMaps, ConfigMapStates)
  /\ gotConfigMaps \in PartialFcns(ConfigMaps, ConfigMapStates)
  /\ secrets \in PartialFcns(Secrets, SecretStates)
  /\ gotSecrets \in PartialFcns(Secrets, SecretStates)
  /\ pods \subseteq Pods /\ gotPods \subseteq Pods
  /\ at \in {"configmaps", "secrets", "pods", "loop", "returned"} /\ err \in BOOLEAN
  /\ findings \subseteq ({"ConfigMap"} \X ConfigMaps) \cup ({"Secret"} \X Secrets)

\* Rollouts do not confuse it: a reported ConfigMap or Secret that was there all along
\* was, at some instant after its own List, referred to by no Pod, because the Pods
\* are listed after both.
RolledOutIsNotReported ==
  ConfigMapScan!OneSourceIsNeverMisled /\ SecretScan!OneSourceIsNeverMisled

\* Scan implements OrphanScan twice, for the ConfigMaps and for the Secrets, with the
\* Pods as the only source of each.
ImplementsOrphanScan == ConfigMapScan!Spec /\ SecretScan!Spec
=============================================================================

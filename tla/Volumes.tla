------------------------------ MODULE Volumes ------------------------------
(***************************************************************************)
(* unattached-pvc (UnattachedPVC's Scan, whose claims belong to Pods at    *)
(* most: there is no StatefulSet) and orphaned-pv in one scan.  A claim    *)
(* and the volume it is bound to are two objects, and one line of the      *)
(* bill: an idle claim is reported by one detector, and its volume, once   *)
(* the claim is deleted, by the other.  RunAll runs both at once, and each *)
(* Lists at its own time.                                                  *)
(***************************************************************************)
EXTENDS FiniteSets, UnattachedPVC

CONSTANTS
  PVs,      \* the names a PersistentVolume may have
  NoClaim,  \* a volume without a claimRef
  OldClaim  \* a claimRef with the UID of a claim that is gone

ASSUME FiniteAssumption == IsFiniteSet(PVCs) /\ IsFiniteSet(PVs)
ASSUME NoClaimAssumption == NoClaim \notin PVCs /\ OldClaim \notin PVCs /\ NoClaim # OldClaim

VARIABLES
  volumes,                              \* the cluster's PersistentVolumes
  pvAt, pvErr, gotVolumes, pvFindings,  \* OrphanedPV's Scan
  watch    \* what was true while the two were reading: no code, an observer

Phases == {"Pending", "Available", "Bound", "Released", "Failed"}

\* claim is spec.claimRef, and phase status.phase: the volume controller writes them in
\* two calls, the claimRef first.
VolumeStates == [phase : Phases, claim : PVCs \cup {NoClaim, OldClaim}, ignore : Labels]

\* The volumes that a claim has, or is about to have.
ClaimedAreTaken(vs) ==
  \A v \in DOMAIN vs : vs[v].claim \in PVCs => vs[v].phase \in {"Pending", "Available", "Bound"}

objects == <<cluster, volumes>>
volumeScan == <<pvAt, pvErr, gotVolumes, pvFindings>>
scans == <<scan, volumeScan>>

Leftovers == INSTANCE OrphanedPV WITH at <- pvAt, err <- pvErr, findings <- pvFindings

-----------------------------------------------------------------------------
(* What was true while the two were reading *)

Mounted == UNION {MountedBy(pod) : pod \in pods}

\* A volume that no Pod uses and nobody has labelled: it goes by its claim if it has one.
Idle ==
  {v \in DOMAIN volumes :
     IF volumes[v].claim \in PVCs
     THEN volumes[v].claim \in eligible \ Mounted
     ELSE volumes[v].ignore # "true"}

\* Which volume each claim has.
Bindings == {x \in PVCs \X DOMAIN volumes : volumes[x[2]].claim = x[1]}

\* The state of every volume, but for its label.
Hands == {<<v, volumes[v].phase, volumes[v].claim>> : v \in DOMAIN volumes}

NothingYet == [idle |-> {}, steady |-> {}, owned |-> {}]

\* idle, and in the same hands, at every instant; owned when the claims were listed.
Begin == [idle |-> Idle, steady |-> Hands, owned |-> {}]

Started == at # "pvcs" \/ pvAt # "pvs"

\* Both have taken the Lists they judge by, or given up.
ReadAll ==
  /\ err \/ at \notin {"pvcs", "pods"}
  /\ pvErr \/ pvAt # "pvs"

Observe ==
  watch' = IF ~Started \/ ReadAll THEN watch
           ELSE [watch EXCEPT !.idle = @ \cap Idle', !.steady = @ \cap Hands']

-----------------------------------------------------------------------------
(* One scan *)

InitCluster ==
  /\ pvcs \in PartialFcns(PVCs, Labels)
  /\ pods \in SUBSET Pods
  /\ statefulSets = EmptyFcn
  /\ volumes \in
       {f \in PartialFcns(PVs, VolumeStates) :
          /\ ClaimedAreTaken(f)
          /\ \A v \in DOMAIN f : f[v].claim \in PVCs =>
               /\ f[v].claim \in DOMAIN pvcs
               /\ \A w \in DOMAIN f : f[w].claim = f[v].claim => w = v}

InitScan ==
  /\ at = "pvcs" /\ err = FALSE /\ gotPVCs = EmptyFcn /\ gotPods = {}
  /\ gotStatefulSets = EmptyFcn
  /\ findings = {}
  /\ hist = Abs!NothingYet
  /\ Leftovers!Init
  /\ watch = NothingYet

\* The process is gone, and another one starts.
NextScan ==
  /\ at' = "pvcs" /\ err' = FALSE /\ gotPVCs' = EmptyFcn /\ gotPods' = {}
  /\ gotStatefulSets' = EmptyFcn
  /\ findings' = {}
  /\ hist' = Abs!NothingYet
  /\ pvAt' = "pvs" /\ pvErr' = FALSE /\ gotVolumes' = EmptyFcn /\ pvFindings' = {}
  /\ watch' = NothingYet

ClaimsScan ==
  /\ Scan
  /\ watch' = IF at # "pvcs" \/ err' THEN watch
              ELSE [(IF Started THEN watch ELSE Begin) EXCEPT !.owned = Bindings]
  /\ UNCHANGED <<volumes, volumeScan>>

VolumesScan ==
  /\ Leftovers!Scan
  /\ watch' = IF Started \/ pvErr' THEN watch ELSE Begin
  /\ UNCHANGED <<cluster, scan, hist>>

\* Both detectors are through, with findings or an error.
Scanned ==
  /\ err \/ at = "returned"
  /\ pvErr \/ pvAt = "returned"

-----------------------------------------------------------------------------
(* Users, the volume controller and the provisioner *)

Unbound(c) == \A v \in DOMAIN volumes : volumes[v].claim # c

\* What leaves the volumes as they are.
ClaimsMove ==
  /\ \/ \E c \in PVCs, l \in Labels : CreateOrLabelPVC(c, l)
     \/ \E pod \in Pods : CreateOrDeletePod(pod)
  /\ UNCHANGED volumes

\* Its volume keeps its phase, and the claimRef, until the controller looks.
DeleteClaim(c) ==
  /\ DeletePVC(c)
  /\ volumes' = [v \in DOMAIN volumes |->
                   [volumes[v] EXCEPT !.claim = IF @ = c THEN OldClaim ELSE @]]

\* A volume is made for a claim, or by hand, for claims to come.
ProvisionVolume(v, c) ==
  /\ v \notin DOMAIN volumes
  /\ c = NoClaim \/ (c \in DOMAIN pvcs /\ Unbound(c))
  /\ volumes' = Put(volumes, v, [phase |-> "Pending", claim |-> c, ignore |-> "false"])
  /\ UNCHANGED cluster

SetPhase(v, ph) ==
  volumes' = [volumes EXCEPT ![v].phase = ph] /\ UNCHANGED cluster

SetClaimRef(v, c) ==
  volumes' = [volumes EXCEPT ![v].claim = c] /\ UNCHANGED cluster

\* The controller finds no claimRef.
FreeVolume(v) == volumes[v].claim = NoClaim /\ SetPhase(v, "Available")

\* A claim gets the volume: first the claimRef, then the phase.
ReserveVolume(v, c) ==
  /\ volumes[v].phase = "Available" /\ volumes[v].claim = NoClaim
  /\ c \in DOMAIN pvcs /\ Unbound(c)
  /\ SetClaimRef(v, c)

BindVolume(v) == volumes[v].claim \in PVCs /\ SetPhase(v, "Bound")

\* The controller finds the claim gone, and what the reclaim policy asks for may fail.
ReleaseVolume(v) ==
  volumes[v].claim = OldClaim /\ volumes[v].phase # "Failed" /\ SetPhase(v, "Released")

FailVolume(v) ==
  volumes[v].claim = OldClaim /\ volumes[v].phase = "Released" /\ SetPhase(v, "Failed")

\* By hand, so that it can be bound again.
ClearClaimRef(v) == volumes[v].claim = OldClaim /\ SetClaimRef(v, NoClaim)

\* By hand, or by the provisioner if the reclaim policy is Delete; a finalizer keeps a
\* volume that is Bound.
DeleteVolume(v) ==
  /\ volumes[v].phase # "Bound"
  /\ volumes' = Delete(volumes, v)
  /\ UNCHANGED cluster

LabelVolume(v, l) ==
  /\ volumes' = [volumes EXCEPT ![v].ignore = l]
  /\ UNCHANGED cluster

ObjectsMove ==
  /\ \/ ClaimsMove
     \/ \E c \in PVCs : DeleteClaim(c)
     \/ \E v \in PVs, c \in PVCs \cup {NoClaim} : ProvisionVolume(v, c)
     \/ \E v \in DOMAIN volumes :
          \/ FreeVolume(v) \/ BindVolume(v) \/ ReleaseVolume(v) \/ FailVolume(v)
          \/ ClearClaimRef(v) \/ DeleteVolume(v)
          \/ \E c \in PVCs : ReserveVolume(v, c)
          \/ \E l \in Labels : LabelVolume(v, l)
  /\ Abs!Observe(eligible', uses')
  /\ Observe
  /\ UNCHANGED scans

-----------------------------------------------------------------------------
(* Properties *)

VolumesTypeOK ==
  /\ TypeOK
  /\ volumes \in PartialFcns(PVs, VolumeStates) /\ gotVolumes \in PartialFcns(PVs, VolumeStates)
  /\ pvAt \in {"pvs", "storageclasses", "loop", "returned"} /\ pvErr \in BOOLEAN
  /\ pvFindings \subseteq PVs

Billed(v) ==
  Cardinality({f \in findings : <<f, v>> \in watch.owned})
    + Cardinality({f \in pvFindings : f = v})

\* Between the two writes of a binding: a claim has the volume, which is still Available.
Binding(h) == h[2] = "Available" /\ h[3] \in PVCs

\* No claim has it, and its phase is none that orphaned-pv looks for.
Unseen(h) == h[2] \in {"Pending", "Bound", "Failed"} /\ h[3] \notin PVCs

\* A volume that was idle, and in the same hands, while the two detectors were reading
\* is billed in one line of the report, with two exceptions that pv.go:46 makes by looking
\* at the phase alone: one caught in the middle of a binding may be billed twice, as its
\* claim and by itself, and one that is Pending, Failed or not yet Released in none.
IdleVolumeIsBilledOnce ==
  at = "returned" /\ pvAt = "returned" =>
    \A h \in watch.steady :
      /\ h[1] \in watch.idle /\ ~Binding(h) /\ ~Unseen(h) => Billed(h[1]) = 1
      /\ Billed(h[1]) = 2 => Binding(h)
      /\ h[1] \in watch.idle /\ Billed(h[1]) = 0 => Unseen(h)
=============================================================================

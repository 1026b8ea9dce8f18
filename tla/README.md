# k8s-zombie in TLA+

`k8s-zombie` is a command-line tool, also packaged as a GitHub Action. It reads a Kubernetes cluster, reports the
resources that nothing uses any more with an estimate of what some of them cost, and changes nothing.
This directory holds TLA+ models of its own logic, the TLC configurations that check them on small instances, and
proofs, checked by TLAPS, that the most important properties hold for every value of the constants.

The program keeps no state between runs and has no users inside it, so what is hard about it is elsewhere:

* **It reads a cluster that does not stand still.** Each detector makes several List (or Get) calls, at instants of
  their own, and combines the answers as if they were one snapshot.
* **It runs its detectors concurrently** and has to turn errors and panics of each into a line of the report, without
  losing or disturbing the others.
* **Its answer is a report that people act on**: something missing from it, or an exit code 0 for a report that is
  cut off, is as wrong as a false finding.

## 1. Inventory

Paths are relative to `src/`. "Modelled" means that every operation that changes state is an action.

| Component | Code | State it keeps | Operations | Modelled in |
|---|---|---|---|---|
| Detector registry | `pkg/detector/registry.go`, `detector.go` | `results` (one slot per detector), the WaitGroup, the goroutines | `RunAll`: spawn, wait, collect; per goroutine: Scan, store, recover, Done | `Registry`; promise: `Gather` |
| unattached-pvc | `pvc.go`, `statefulset.go`, `ebs.go` | answers of 4 Lists | List PVCs, Pods, StatefulSets, StorageClasses; loop | `UnattachedPVC` |
| unused-namespace | `namespace.go` | answers of 5 Lists | List Namespaces, Pods, Deployments, StatefulSets, CronJobs; loop | `UnusedNamespace` |
| stale-hpa | `hpa.go` | one List, findings so far | List HPAs; per HPA a Get of its target | `StaleHPA` |
| idle-deployment | `deployment.go` | answers of 2 Lists | List Deployments, HPAs; loop | `IdleDeployment` |
| What the list-based detectors have in common | `detector.go`, `ignore.go` | | | `OrphanScan`, `Cluster` |
| Scan command | `cmd/k8s-zombie/main.go`, `pkg/cli/run.go`, `pkg/finding/finding.go` | flags, findings, `out` of the filter, stdout, exit code | client, prices, renderer, RunAll, filter, render, exit | `ScanCommand` |
| Renderers | `pkg/render/*.go` | the sorted findings | sort, group, summarise, total the costs, write | `Report` (order, completeness and sums; not layout) |
| zero-endpoint-service | `service.go` | answers of 2 Lists | List Services, EndpointSlices; count ready endpoints; loop | `ZeroEndpointService` over `Network` |
| orphaned-ingress | `ingress.go` | answers of 3 Lists | List Ingresses, Services, EndpointSlices; loop over backends | `OrphanedIngress` over `Network` |
| unused-configmap-secret | `configmap_secret.go`, `helm.go` | answers of 3 Lists | List ConfigMaps, Secrets, Pods; collect references; two loops | `UnusedConfigMapSecret` |
| completed-jobs-and-pods | `job_pod.go` | answers of 2 Lists | List Jobs, loop; List Pods, loop | `CompletedJobsAndPods`, with the Job controller |
| orphaned-pv | `pv.go` | answers of 2 Lists | List PersistentVolumes, StorageClasses; loop | `OrphanedPV`; with unattached-pvc in `Volumes` |
| Cost estimator, pricing table | `pkg/cost/*.go`, `ebs.go` | rates | `LoadPricingTable`, `EBSMonthlyCost`, `LoadBalancerMonthlyCost` | `Pricing`, used by `ScanCommand` |
| GitHub Action | `action.yml` | two scans, a count, a report, a gate | step *Run scan*: scan and count, scan again for another format, gate | `GitHubAction` over `Volumes` (not the step that installs the binary) |
| Age suffixes | `age.go` | none | formatting | no: wording only |
| Integration test, CI, release | `test/`, `.github/` | | | no: not part of the program |

**How they interact.** `main` parses flags, builds a client and the pricing table, and calls `cli.Run`, which picks the
renderer, registers the detectors, calls `RunAll`, filters what comes back and renders it. `RunAll` is the only
concurrent part: one goroutine per detector, a slice with one slot for each, and a `sync.WaitGroup`. Detectors share
nothing but the client; the API server is the shared state they all read, and it is moved by others meanwhile.

**What makes each of them hard, and what makes each correct.**

* *Registry.* Hard: every interleaving of the goroutines with each other and with the main loop; deferred calls in the
  right order; panics. Correct: each detector's findings, or exactly one Skipped finding for its error or panic, are in
  the report in registration order; no slot is written twice or after `Wait`; `RunAll` returns if every Scan does.
* *List-based detectors.* Hard: objects that come, go, scale or change kind between two Lists. Correct: what nothing
  used the whole time is reported; what one source used the whole time is not; and whatever else is reported wrongly can
  be traced to one cause, a use that began after its source had been read.
* *stale-hpa.* Hard: a Get per HPA, each at its own instant, over an HPA that may be edited or recreated since it was
  listed and a target that may come and go; what NotFound means for a reference to an API group the detector does not know.
  Correct: a listed HPA whose target of that instant was missing all the time is reported; the target a reported one was
  listed with was missing at some instant.
* *Scan command.* Hard: filters that see Skipped findings as if they were resources; a clock that is read once per
  finding, after the scan; a report written piece by piece to an output that may fail. Correct: nothing that was skipped
  is hidden; `--min-age` keeps its promise at the boundary; exit code 0 means a whole report.
* *Renderers.* Hard: grouping merges neighbours only, so it depends on the sort. Correct: one section per Kind, every
  finding in exactly one, totals that agree with the sections.
* *Services and Ingresses.* Hard: torn reads again, over a chain of references (Ingress, Service, EndpointSlice); slices
  that outlive their Service, or are written by hand; conditions that are not set. Correct: a rollout is never taken for an
  outage; an Ingress is reported only if every backend is dead, and a live backend protects it.
* *ConfigMaps and Secrets.* Hard: two candidate Lists and one List of users for both. Correct: each kind as if it were
  scanned alone.
* *Jobs.* Hard: the detector judges by counters, not by conditions, so a Job between two attempts looks like one that
  has ended, and the counters follow the Pods later. Correct: what has ended is reported; what is reported and has not
  ended is a Job between two attempts, at most the next of which has begun.
* *Volumes.* Hard: two detectors that see a claim and its volume at two instants, with one bill, and a volume whose phase
  and claimRef are written separately. Correct: a volume that idles in the same hands is billed once, unless it was caught
  in the middle of a binding or is in a phase that nobody looks for.
* *Prices.* Hard: Go's map lookup answers 0 for a missing rate, and the fallback is a lookup too. Correct: an estimate of
  $0 is never a guess.
* *GitHub Action.* Hard: it scans twice and shows the report of one scan with the count of the other; a skipped detector
  counts for nothing; `--min-age` is measured twice. Correct: on a quiet cluster the two differ by what came of age in
  between; a green gate hides nothing but what was skipped, out of scope, too young, or in a phase nobody looks for.

`PROJECT.json` lists the hazards one by one, each at its line and with the properties that cover it, or the reason why
none does.

## 2. Modules

| Module | Lines up with | Notes |
|---|---|---|
| `Gather` | the promise of `RunAll` | abstract: every detector is resolved once, in any order; one report, in registration order |
| `Registry` | `registry.go` | one action per statement of the main goroutine (`Spawn` ... `Return`) and per step of a detector's goroutine (`ScanEnds`, `Store`, `Recover`, `Done`) |
| `RegistryProofs` | | theorems about `Registry` |
| `Cluster` | `ignore.go` | shared by the detectors: a collection is a partial function from keys to states; the ignore label |
| `OrphanScan` | the promise of a list-based Scan | abstract: candidates are read, then each source once; observer `hist` |
| `OrphanScanProofs` | | theorems about every such Scan |
| `UnattachedPVC`, `UnusedNamespace`, `IdleDeployment` | `pvc.go` + `statefulset.go`, `namespace.go`, `deployment.go` | each implements `OrphanScan` |
| `Network` | `service.go` (ready endpoints) | the Services and EndpointSlices, and the count both detectors share |
| `ZeroEndpointService` | `service.go` | implements `OrphanScan` with one source |
| `OrphanedIngress` | `ingress.go` | two Lists to be joined: not of `OrphanScan`'s shape, so with an observer of its own |
| `UnusedConfigMapSecret` | `configmap_secret.go`, `helm.go` | implements `OrphanScan` twice |
| `CompletedJobsAndPods` | `job_pod.go` | against a model of the Job controller |
| `OrphanedPV` | `pv.go` | a judgement on the object's own phase: no source |
| `Volumes` | `run.go`, `pvc.go`, `pv.go` | extends `UnattachedPVC` and composes it with `OrphanedPV` over one cluster of claims and volumes |
| `GitHubAction` | `action.yml` | extends `Volumes`: two scans and the gate |
| `UnusedNamespaceProofs` | | the refinement of that detector, and the theorems it carries over |
| `AutoscalerProofs` | | extends `MCAutoscaler`: the refinement of `IdleDeployment`, the theorems about `StaleHPA` |
| `NetworkProofs` | | extends `MCNetwork`: the refinement of `ZeroEndpointService`, the theorems about `OrphanedIngress` |
| `PodsProofs` | | extends `MCPods`: the refinement of `UnusedConfigMapSecret`, the theorems about `CompletedJobsAndPods` and the Job controller |
| `VolumesProofs` | | extends `GitHubAction`: the refinement of `UnattachedPVC`, the theorems about `Volumes` and `GitHubAction` |
| `StaleHPA` | `hpa.go` | a List and a Get per object: not of `OrphanScan`'s shape, so with an observer of its own |
| `Pricing` | `pkg/cost`, `ebs.go` | operators only: which price files are accepted, the lookups, the estimate |
| `Report` | `pkg/render` | operators only: sort, group, summary, and the pieces each format writes, in order |
| `ScanCommand` | `main.go`, `run.go` | composes `Gather` (as `RunAll`), `Pricing` and `Report` |
| `ScanCommandProofs` | | theorems about `ScanCommand`, and the lemmas about sequences, the sort, the groups and the sums they need |
| `MC*` | | values for the constants and the constraints of the runs |

### 2.1 Registry

`main` is the statement the main goroutine is at, `k` its loop index, `wg` the WaitGroup's counter, and `gpc[d]` the
place of detector d's goroutine: *unborn*, *scanning* (inside `Scan`), *scanned* (it returned), *panicking*, *deferred*
(its slot is written and `wg.Done` is still to run), *exited*. `call[d]` is how the Scan ended, `results[d]` the slot,
`all` the slice being collected. A Scan is a nondeterministic choice of findings, error or panic: what it does inside
is the subject of the detector modules. `wg.Add` belongs to `Spawn`; the write of the slot and `wg.Done` are two steps,
because a reader could come between them.

`ImplementsGather` maps a slot to a verdict as soon as it is written and the report to `all` once `RunAll` has returned.
`ScanCommand` then uses `Gather` in place of `Registry`, and what is checked there holds of the real `RunAll`.

### 2.2 OrphanScan and the detectors that implement it

In `OrphanScan` the cluster is two variables: the set `eligible` of resources that exist and qualify by their own fields,
and `uses[s]`, what each *source* (Pods, StatefulSets, HPAs, ...) uses. A Scan reads `eligible`, then every source once
in any order, and reports the candidates no source was *seen* to use. Between any two reads `ClusterMoves` may change
everything. `hist` is an observer (the program has nothing like it): it records what was true at some, or at every,
instant from the first read to the last. Against it are stated

* `StandingOrphanIsReported`: an orphan the whole time is reported;
* `StandingUseIsNotReported`: what one source used the whole time is not, whatever else changed;
* `OnlyLateUseMisleads`: a finding that was never an orphan, although it was eligible all along, is one that a source
  began to use after that source had been read. Nothing else can mislead a Scan;
* `OneSourceIsNeverMisled`: with a single source even that cannot happen, so two Lists, in the order of the code, are
  as good as a snapshot;
* `FindingsHeldAtSomeInstant`: the snapshot property itself, which two sources break (finding 2 below).

A detector module models the code's own data (`gotPods`, `gotStatefulSets`, ...; `at` is the call it will make next) and
the API objects the code looks at. What *in use* means is defined twice, on purpose: once as the code computes it
(`referencedPVCs`, `isStatefulSetScaleDownLeftover`, `deploymentHPATargetKeys`, `hasWorkloads`, `withReadyEndpoints`,
`referencedConfigMapsAndSecrets`) and once from the objects, without the code (`MountedBy`, `RetainedBy`, `Managed`,
`Serving`, `Referenced`). The refinement mapping, given by operators named
`eligible`, `uses`, `phase`, `candidates`, `read` and `seen`, feeds the first into what the Scan saw and the second into
what the cluster is; `ImplementsOrphanScan == Abs!Spec` fails if the two disagree, if a List is taken in the wrong order,
if an error does not discard the findings, or if the loop drops a condition.

The cluster's actions are those of users and controllers as far as the API server allows them: a claim that a Pod mounts
is not deleted (its finalizer prevents it), a Namespace goes only when it is empty, and a StatefulSet's scale and its
Pods change in separate steps because its controller follows later.

Abstractions: names are atomic, and what `strings.CutPrefix` and `strconv.Atoi` make of a claim's name is the constant
`Ordinal`; the conversion to `int32` keeps its width (`Int32`, with 2^31 as the constant `Int32Half`). The StorageClasses
matter only as a List that may fail. `readyReplicas` is 0 or 1, as only zero is told apart.

### 2.3 StaleHPA

The API server holds an object under group, kind, namespace and name; the detector's typed clients look for the
`apps` group only. `supported` is the switch on the kind, `isNotFound` the answer of the Get, `SkipHPA` a target kind
that is passed over, `GetTarget` one iteration with its Get, and `GetFails` an error other than NotFound, which makes
Scan return the error and no findings.

An HPA's `scaleTargetRef` is state, like its label: `CreateOrEditHPA` may give it another target at any time. The loop works on
the List's answer, so an HPA is judged by the target it was listed with (`target`), and so do the properties judge it: `Stale` is
the set of listed HPAs whose target *of that instant* is missing, `hist.everStale` and `hist.alwaysStale` what was so at some, and
at every, instant up to the last Get, and `Verifiable` the ones whose target Scan can get. What that means for an HPA that is
retargeted while Scan reads is said by the properties' comments and is not hidden by them: from A to B, with A then deleted, it
is reported though it never lacked a target; from a missing A to a missing B, with A then created, it is not.

### 2.4 Network, ZeroEndpointService, OrphanedIngress

An EndpointSlice is the set of the Ready conditions of its endpoints (`"true"`, `"false"` or `"nil"` for a condition that is
not set): the code counts them per Service and compares the count with 0. A slice belongs to the Service its label names, and
lives on when that is deleted, until the controller comes by. `endpointIsReady` is the API's rule that nil means ready;
`dead` is the join of two Lists that orphaned-ingress makes. Its observer keeps which Ingresses are unchanged since they
were listed, which were dead at some and at every instant, which Services had an endpoint (or were an ExternalName)
throughout, and what the cluster looked like when each of the two Lists was taken, so that `OnlyHandoverMisleads` can name
the only two ways in which an Ingress that always had a live backend is reported: a backend that was live at the end was
missing when the Services were listed, or had another type then. `DeadIngressIsReported` names the only way in which a dead
one is missed.

### 2.5 UnusedConfigMapSecret and CompletedJobsAndPods

A Pod is its namespace and its references, each with the field (`via`) it stands in; the code walks three groups of
fields (`addVolumeRefs`, `addImagePullSecretRefs`, `addContainerRefs`), and a reference through any other field (`"csi"` in
the run) is in the model so that it is seen not to count. One Scan implements `OrphanScan` twice, with the ConfigMaps' List as
the first instant of one and the Secrets' as the first of the other.

In `CompletedJobsAndPods` the cluster's moves are the Job controller's, the kubelet's and anybody's. The controller creates one
Pod at a time (`StartPod`) and writes `status.active` later (`WriteActive`); the kubelet ends the Pod (`PodEnds`), or somebody
deletes it (`DeletePod`: a drain, an eviction, the garbage collector, a user), and the controller comes to know of either later
(`CountPod`). A Pod's `tally` says whether the status counts it not yet, as active, or no longer. At a deadline or a
suspension the controller deletes the Pod that is left (`StopActive`) and writes `active = 0` at once: the Pod is *deleted* but goes
on running through its grace period until `RemovePod`. So a Job with `active = 0` may have a Pod running that is terminating, and,
before it has ended, one more that the status does not know yet. `completed` is the code's test on the counters.
`OnlyRetryingJobIsReportedEarly` states how far "no active Pods left" (job_pod.go:14) is from "ended" and from "nothing runs".

### 2.6 Volumes, OrphanedPV, GitHubAction

`Volumes` extends `UnattachedPVC`, which it runs without StatefulSets, and runs `OrphanedPV` beside it (`pvAt`, `pvErr`,
`pvFindings`) over one cluster. A volume has one of the five phases and a `claim`: a claim that is there, `NoClaim` (no
claimRef), or `OldClaim` (a claimRef whose UID belongs to a claim that is gone, which `DeleteClaim` makes of it). The volume
controller writes the two in separate calls: `ReserveVolume` the claimRef and `BindVolume` the phase, in that order;
`FreeVolume`, `ReleaseVolume` and `FailVolume` the other phases. `ProvisionVolume` makes a volume, still Pending, for a claim or
by hand; `ClearClaimRef` and `DeleteVolume` are an administrator's, or the provisioner's.

`watch` is an observer: which volumes idled at every instant, which kept their phase and claim throughout (`steady`), and
which claim each belonged to when the claims were listed. `IdleVolumeIsBilledOnce` says *once* of all that idled and kept both,
with the two exceptions that pv.go:46 makes by looking at the phase alone: `Binding`, between the two writes, where a volume is
billed by itself and through its claim, and `Unseen`, a volume that no claim has and that is Pending, Failed or not yet Released,
which nothing bills.

`GitHubAction` extends it: its `ActionSpec` runs that scan once to count, once more when another format than JSON is asked
for, and gates on the count. Both scans are given the same `base_args` (action.yml:127-136), as the filter of run.go:79-89
applies them: `outOfScope` for the inputs `namespace` and `exclude-namespace`, `tooYoung` for `min-age`, neither of which
touches a volume, whose finding has no namespace and no `CreatedAt`. `now` is the clock, `born` the claims' creation times,
and `listed` what the List said of them. The record of a scan keeps, for the properties, which claims were left out for their
age alone (`young`). A scan that cannot start or write ends the step (`set -e`); a detector that fails in it does not.

### 2.7 ScanCommand, Pricing and Report

`pc` walks through *clientset*, *pricing*, *renderer*, *scanning*, *filtering*, *rendering* and *exited*; each of the
first three may end the process with exit code 1. The price file is one of `PricingFiles`; `LoadPricingTable` says whether
it is accepted, and each finding carries the estimate made from it. During *scanning* `RunAll` is `Gather`, with contributions
that existed by the time their detector was through. The filter takes one finding per step and `Tick` may advance the clock
between any two, because `time.Since` reads it anew. `Report` computes the pieces that the chosen format writes, with the sums
at their head; `writePiece` writes one and `writeFails` ends the run with exit code 1. Names, kinds and namespaces are ranks
(their order is what the sort needs), 0 being the empty string; rates are whole cents and sizes whole GB.

## 3. What the runs check

| Run | Question | Instance |
|---|---|---|
| `registry` | Is the report complete and in order, are the slots free of races, does `RunAll` return, does it implement `Gather`? | 3 detectors, each ending in findings, none, an error or a panic |
| `registry_hung` (violation) | Does a detector that hangs leave the rest of the scan alone? | the same |
| `unattached_pvc` | Is a claim in use ever reported, an abandoned one ever missed? | one claim name in two namespaces, two Pods, one StatefulSet scaled unset, 0, 1, 2 |
| `unused_namespace` | The same of Namespaces | a user's Namespace and one of the cluster's own, 4 kinds of workload |
| `unused_namespace_torn` (violation) | Is the report true of a snapshot? | the same |
| `stale_hpa_crd` (violation) | The same when a target is a CRD of the kind StatefulSet | 2 HPAs, one with such a target |
| `autoscaler` | Can anything that happens between the two Lists of idle-deployment mislead it? Is a dangling HPA ever missed, a reported target ever present throughout? | a Deployment name in two namespaces, HPAs of the right and of the wrong kind; 2 HPAs of a name in two namespaces, each with a Deployment, a StatefulSet or (skipped) a ReplicaSet for a target, which may be edited |
| `scan_command` | Skips, grace period, sections, sums, prices, exit code | unattached-pvc, orphaned-pv (cluster-scoped, undated) and zero-endpoint-service with 5 resources; 4 formats and an unknown one, all filters, 5 price files |
| `network` | Is a rolled Service ever reported, an Ingress with a live backend, or a dead one missed? | two Services of a namespace and a namesake in another, 4 slices (one unlabelled), an Ingress in 4 states |
| `pods` | Is a referenced ConfigMap or Secret reported? Is a Job that has not ended? | a ConfigMap, the cluster's own, a Secret of the same name, 3 Pods; one Job with two retries and at most two Pods at a time |
| `github_action` | Is a volume billed once? Do the two scans agree? What does a green gate hide? | a claim, a Pod that may mount it, a volume in every phase; four sets of inputs, with a namespace, an exclusion and an age; one tick of the clock |

**Bounds, and why they are enough.** In the registry, three goroutines let one succeed, one fail and one panic in the same
run, in every order; the proofs remove the bound. For the detectors, two resources of one name in different namespaces are the
smallest instance in which keys can be confused, and one source object of each kind is enough to use each of them, to stop,
and to use it again; replica counts 0, 1, 2 and unset lie below, at and above the ordinal 1. In the command, births lie
before, at and after the grace period's boundary when the command starts, and the clock moves once while it runs; the price
files are two good ones, one without the rate that others fall back to, one without a price for load balancers, and one that
is none. Of an Ingress, no backend, one and two are told apart. A Job with two retries has a first attempt, a middle one and a
last; two Pods let one terminate while the next attempt runs. One claim and one volume are enough for a volume to be left by
one claim and taken by the same or by none, and for two detectors to bill it; one tick is enough for a claim to come of age
before, in or between the two scans. The named bounds are `MaxReplicas`, `BackoffLimit`, `MaxPods` and the two `MaxTime`s;
nothing else is unbounded.

**Constraints.** `MovesThatMatter` (an `ACTION_CONSTRAINT` of the detector runs) leaves out moves of the cluster before the
first read, which lead to what is another initial state anyway, and after the last one, when Scan no longer looks; `MCNetwork`
and `MCPods` do the same in their `Reading`, and `MCAutoscaler` in its `MCNext`; Jobs start from nothing, and they and their Pods
move until they are listed. `OwnNamespaceIsQuiet` and
`OwnConfigMapIsQuiet` keep the cluster's own Namespace and its own ConfigMap existing and unlabelled, which it takes to see
that they are excluded. `ClockMatters` lets the clock stand outside the scan and the filter, the only places where time is
read or recorded. `MCNetwork`, `MCPods` and `MCAutoscaler` each hold two Scans that share nothing (but, in `MCNetwork`, a
cluster that moves as it likes): one of the two is followed in each behaviour, which `OneScanAtATime` and `MCNext` say,
together with the objects that cannot matter to it. In `MCAutoscaler` at most one HPA is other than it was listed at a time:
what the loop does and what the properties say of an HPA depends on the answer and on the objects, and not on what has become
of the HPAs. In `MCGitHubAction`,

* `ClusterMatters` lets the cluster move while the first scan reads it and before the second one does; what happened before
  the first List is in the initial states;
* `SecondScanMatters` does not follow a second scan over a cluster that has moved: to such a scan no more can happen than to
  the first, `QuietScansAgree` does not speak of it, and what the gate then looks at is already decided (the inputs with JSON
  go on from there);
* `ReadThenReport` has a detector that has taken its last List go on at once, as the rest of its steps touch only its own locals;
* the `VIEW` leaves out what no property and no later step reads: the observer of `UnattachedPVC`'s own properties, the
  answers of a detector that is through with them, and the creation time of a claim that is not there.

No other part of the specifications is restricted by a run, and the proofs assume none of this.

**Size.** The largest runs are `github_action` (1.8 million distinct states, about 90 seconds) and `autoscaler` (0.7 million,
40 seconds).

**Fairness.** Safety runs assume none. `RunAllReturns` is checked under `FairSpec`: weak fairness of each goroutine's own
steps and of the main goroutine's (the Go scheduler runs every runnable goroutine), and of `ScanEnds`: every API call is
answered. The code guarantees the first but not the second, since no context is ever cancelled; that is what
`registry_hung` shows, under `CodeFairSpec`, which has only the first. The cluster is never assumed to do anything.

**Deadlock** is checked in all runs: a finished `RunAll` and an exited process are explicit stuttering actions
(`Returned`, `Exited`), and the cluster can always move.

Every property of a passing run has a mutant: an operator, next to the definition it replaces and marked *Mutant:* in
its comment, that changes the code the way a plausible bug would and makes TLC find the property violated.

### Disagreements between the code and its texts

1. `registry_hung`: README.md:211, "A misbehaving detector can't take down the scan." A detector whose API call is
   never answered does: `wg.Wait` (registry.go:49) has no deadline, so the findings of all others are never shown.
2. `unused_namespace_torn`: docs/adr/0003:14-15, "Every invocation reports whatever is orphaned in that single snapshot."
   There is no snapshot: a Namespace whose StatefulSet, without a Pod running, is replaced by a Deployment between the List of
   Deployments and that of StatefulSets held a workload at every instant and is reported. `OnlyLateWorkloadMisleads` says, and
   is proved to say, exactly how far this goes.
3. `stale_hpa_crd`: hpa.go:17-19 says that a CRD-backed target "is skipped rather than reported". The code looks at
   `kind` and not at `apiVersion`, so an HPA that scales an `apps.kruise.io` StatefulSet is reported as stale.

## 4. What is proved

All theorems are checked by TLAPS, for every value of the constants. The assumptions on constants are

* `NumDetectors \in Nat`, the length of a slice, `BackoffLimit \in Nat`, the limit of a Job, `MaxTime \in Nat`, the end of the
  clock, and a `minAge` in `Nat` for all inputs;
* `PVCsAssumption`, `KeysAssumption` and part of `ServicesAssumption`: a key is a pair, `<<namespace, name>>`;
* the rest of `ServicesAssumption`: no Service has the name that stands for a missing label (the code skips the empty name,
  which no object can have); and likewise `NoClaimAssumption`: what stands for a missing
  claimRef, or for that of a claim that is gone, is no claim;
* `FiniteAssumption`: there are finitely many claims and volumes, so that findings can be counted;
* `FindsAssumption`, `TimesAssumption`, `PricesAssumption`: what a detector appends is a finite list with names that have an
  order; ages and the clock are numbers, and the clock starts within its bound; a price file can be named and, once accepted,
  has numbers for rates, of which the mark of a missing estimate is none;
* `OrdinalsAssumption`: no claim's name ends in an ordinal of 2^31 or more after a StatefulSet's prefix. Without it
  `int32(ordinal)` truncates and the refinement fails; no StatefulSet comes to such an ordinal.

TLC evaluates each of them in the runs. One theorem has a hypothesis of its own: `ReportedTargetWasGoneHolds` assumes
`OwnKinds`, that no CRD shares the kind of a target with Kubernetes' own, which is exactly what `stale_hpa_crd` violates.

| Module | Theorems about a property of a run | Other theorems |
|---|---|---|
| `RegistryProofs` | `TypeOK`, `ReportIsComplete`, `SlotsAreNotRaced`, `ImplementsGather` | |
| `OrphanScanProofs` | | the four promises of `OrphanScan` |
| `UnusedNamespaceProofs` | `TypeOK`, `ImplementsOrphanScan`, `EmptyNamespaceIsReported`, `OnlyLateWorkloadMisleads` | |
| `AutoscalerProofs` | `EveryTypeOK`, `ImplementsOrphanScan`, `IdleDeploymentIsReported`, `ManagedDeploymentIsNotReported`, `DanglingHPAIsReported`, `ReportedTargetWasGone` | `IdleDeployment`'s `TypeOK`; `VerifiableReportIsTrueHolds` |
| `NetworkProofs` | `EveryTypeOK`, `ImplementsOrphanScan`, `DeadIngressIsReported`, `StandingRouteIsNotReported`, `OnlyHandoverMisleads` | `ZeroEndpointService`'s `TypeOK`; `RolledServiceIsNotReportedHolds` |
| `PodsProofs` | `EveryTypeOK`, `ImplementsOrphanScan`, `EndedJobIsReported`, `OnlyRetryingJobIsReportedEarly` | `UnusedConfigMapSecret`'s `TypeOK`; `RolledOutIsNotReportedHolds` |
| `VolumesProofs` | `TypeOK`, `ImplementsOrphanScan`, `AbandonedClaimIsReported`, `ClaimInUseIsNotReported`, `OnlyLateMountMisleads`; `ActionTypeOK`, `IdleVolumeIsBilledOnce`, `QuietScansAgree`, `GreenGateHidesOnlySkips` | |
| `ScanCommandProofs` | `TypeOK`, `EverySkipIsShown`, `GracePeriodIsKept`, `SectionsAreComplete`, `ExitZeroIsWholeReport`, `ZeroIsNeverAGuess` | `CommandInvHolds`, the inductive invariant |

**Registry** (`RegistryProofs`). Neither `ReportIsComplete` nor `SlotsAreNotRaced` is inductive: whether a slot may still
be written depends on the goroutine's place, and whether the main goroutine may go on depends on the counter. `IInv` ties
them together:

* `CounterCounts`: `wg` is the number of goroutines that were started and have not run `Done`;
* `StartedInOrder`: exactly the goroutines below `k` have been started while `main` is spawning, and all after that;
* `AllExitedAfterWait`: once past `Wait`, every goroutine has exited (from the two above: a finite set of cardinality 0
  is empty);
* `CallMatchesPc`, `SlotMatchesPc`: the call of a goroutine past its Scan is recorded, and that of a panicking one is
  a panic; a slot is empty up to *deferred* and is the
  contribution of its call from then on;
* `CollectedPrefix`: `all` is the contributions of the detectors below `k`.

From it follow `TypeOKHolds`, `ReportIsCompleteHolds`, `SlotsAreNotRacedHolds` (an action property) and
`ImplementsGatherHolds` (a step simulation).

**OrphanScan** (`OrphanScanProofs`). The invariant relates the observer's record to what has been read: while instants
still count, the record is up to date with the cluster (`CurrentInv`); what was read agrees with it from its instant on
(`ReadInv`); what a source has come to use since it was read is in the record of late uses (`LateUseInv`); once every
source is read, whatever was eligible throughout and not seen in use was an orphan at some instant or was used late
(`ClosedInv`); the
findings are the orphans of what was seen (`ReportInv`). The four theorems are the four properties above.

**The detectors that implement it** (`UnusedNamespaceProofs`, and the first parts of `AutoscalerProofs`, `VolumesProofs`,
`NetworkProofs` and `PodsProofs`). Type correctness, then one lemma per action: each is a step of `OrphanScan`, or a stutter,
under the mapping. The heart of each is the lemma that what the code computes is what the words say: the keys it builds find
exactly the Deployments an HPA manages; `ReferencedIsMounted` and `LeftoverIsRetained` for claims, the latter through
`Int32Fits`; `CountedIsReady` for endpoints; `CollectedIsReferenced` for references. The theorems of `OrphanScanProofs` are
instantiated with the same mapping and carried over, so that they hold of these detectors for any objects and any changes of
them. For the detectors with one source (`IdleDeployment`, `ZeroEndpointService`, and each kind of `UnusedConfigMapSecret`)
that is `OneSourceIsNeverMisled`: no change of the cluster can mislead them.

**StaleHPA** (`AutoscalerProofs`). The loop and the cluster alternate, so the invariant follows the loop: while a Get is still
to come the record is up to date (`HPACurrent`), and what the loop has passed it has judged as the record does (`HPAJudged`),
among the HPAs whose target Scan can verify. Neither the loop nor the record looks at what an HPA has become since the List,
and so no edit of one, a retarget included, disturbs them. What is reported of those is true whatever the others are, which is
`VerifiableReportIsTrueHolds`.

**OrphanedIngress** (`NetworkProofs`). Its two later answers are joined, which no `OrphanScan` does, so its invariant says after
each List how the answer stands to the record: `ServiceListInv` (what was an ExternalName throughout is one in the answer, and no
backend of an Ingress that was dead throughout is), `SliceListInv` (what served throughout is ready in the answer; what
is ready and not dead is left over; an Ingress never dead has a backend that was live when the slices were listed), with
`IngressCurrentInv` until the last List and `IngressJudgedInv` after the loop. Services that are deleted while slices live on are
why `leftover` is in it.

**CompletedJobsAndPods** (`PodsProofs`). What a Scan sees of a Job is two counters; what makes them mean something is the Job
controller's own invariant, `JobInv`: a Job that has not ended has no success and has failed no more often than it may; at
most one of its Pods is still to be counted, and none once it has ended; a status with `active = 0` calls no Pod active; and a
Pod that is counted has ended or is being deleted. `JobScanInv` has it of the instant at which the Jobs were listed too, from
which `OnlyRetryingJobIsReportedEarly` follows by cases on whether the Job had ended.

**Volumes and GitHubAction** (`VolumesProofs`). `VolumesInv` says, at each place either detector may be at, what it has read
of a volume that idles in the same hands: the claim that owns it is in the List of claims, unused (`ClaimsInv`), the volume is
in the List of volumes, with the phase and the claim it has kept (`LeftoversInv`), and the observer is in step with the
cluster (`WatchInv`). It rests on `ClaimedAreTaken`: a volume that a claim has is Pending, Available or Bound, never Released
or Failed. Counting the lines that bill a volume is then counting a set with one member, or with the two of a binding.
`ActionInv` adds `QuietInv`, that until the cluster moves what was read is what there is, that a scan's count and what it left
out for its age come to a number the clock does not change (`Complete`, `Due`), and that the clock only ever takes claims from
those that are too young (`YoungDue`); and `GateInv`, that what stood idle was counted.

`NetworkProofs`, `PodsProofs` and `AutoscalerProofs` prove theorems about each detector under its own specification, in which
its cluster moves as it likes; `EveryTypeOKHolds` is about the specification of the run, which follows one of the two Scans in
each behaviour.

**ScanCommand** (`ScanCommandProofs`). `CommandInv`, which was first model-checked on the instance of `scan_command`, says of each
stage what the next one relies on:

* `Priced`: past the pricing, the table is one `LoadPricingTable` accepts;
* `Resolved`: each contribution that is there is the detector's own (`Contributed`): a Skipped finding or some of its resources,
  created by now and priced by that table; and the report joins them all;
* `Filtered`: what is kept comes from the findings passed so far and is old enough by now, and whatever of those is in scope and was
  old enough at the start is kept; the filter ends at the end of the list;
* `Written`: what is written is a prefix of the output, and all of it when the exit code is 0.

The last is about the finished text, so the properties follow from lemmas about the pure functions, for sequences of any length.
Their inductions are proved from a least counterexample (`LeastNumber`, from which `Induction` over a bounded set of
numbers), because the library's induction theorems cannot be instantiated:

* `FlattenElements`: what `RunAll` joins has the members of its parts and no others; `FlattenPieces`: a sequence that is cut up and
  joined is the same;
* `Ranking`, `SortedFindings`: to send each finding to the place given by the number of those before it is a permutation that puts
  Kinds in increasing order, since `Less` with the position as tie-breaker is a strict total order (`LessOrders`);
* `GroupedByKind`: in a list sorted by Kind, the sections that begin wherever the Kind changes have different Kinds and, put
  together, are the list;
* `TotalIsOfAll`, `SortedTotals`: the sum of the estimates does not depend on their order, nor do the two counts;
* `EstimateCost`: an estimate of 0 has one of the causes that `ZeroIsNeverAGuess` names.

**Only model-checked.** `RunAllReturns`: liveness under fairness is out of the prover's reach. Every invariant and every other
property of a passing run is proved.

## 5. What is not modelled

* *Text*: reasons, ages, columns, escaping, the HTML page's filter box. Nothing depends on them.
* *The Action's install step*: it downloads a release, checks its sum and hands on nothing but the binary.
* *Jobs*: those that run several Pods at once, or have a `podFailurePolicy` or `successPolicy`, which let a Job end in more
  ways; a Job that is deleted in the foreground, and one created under the name of another whose Pods are still there.
* *Volumes*: one that is bound to a claim by hand before the controller does it, or whose claimRef is cleared while the claim
  is there.
* *The clock inside the Action's scans*: `GitHubAction` reads it once per filter, and `ScanCommand` once per finding, as the
  code does. Which cluster is scanned (`context`) and which prices are used (`pricing-file`) are the same for both scans.
* *The API server's own races*: a List is answered atomically and never from a stale cache, and paging is not used by the
  code. Clock skew between the API server and the client is left out: the model has one clock.
* *Fractions*: rates and sizes are whole, so that sums are exact; the code's are floating-point, and rounded when shown.
* *Whether a StorageClass's List succeeds* is modelled where it matters, as a List that fails the Scan; which classes exist is
  a constant of `Pricing`, as nothing compares the List of one instant with that of another.
* *What the properties except*: an HPA that is retargeted while it is read, and an idle volume that is Pending, Failed or in the
  middle of a binding, are in the models, and the properties say what the code does with them; that it should do otherwise no
  text of the repository says.
* *StatefulSets with `spec.ordinals.start`*, and *generic ephemeral volumes*: the code does not look at them; the models
  have no such objects (listed as hazards).
* *Flag parsing, kubeconfig loading*: cobra's and client-go's. Their failure is modelled, as the exit of the first steps.

## 6. Plan

Done, in this order: `Gather`, `Registry` and its proofs; `OrphanScan` and its proofs; the first four detectors;
`ScanCommand`; the refinement proofs of two detectors; then `Network` with its two detectors, `UnusedConfigMapSecret` and
`CompletedJobsAndPods`, `Volumes` and `GitHubAction`, `Pricing`, and the refinement proofs of three more detectors; then the
proofs about `StaleHPA`, `OrphanedIngress`, `CompletedJobsAndPods`, `Volumes` and `GitHubAction`; then those about
`ScanCommand`; then what the models of the HPAs' targets, the Job controller, the volumes' phases and the Action's inputs had
left out. Left:

1. That `Volumes` refines two `OrphanScan`s over one cluster, and that `ScanCommand` may be run with `Registry` in place of
   `Gather`; both are argued for in this file and stated nowhere.
2. A `StatefulSet` with `spec.ordinals.start`, if the code comes to read it.

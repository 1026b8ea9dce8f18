---------------------------- MODULE GitHubAction ----------------------------
(***************************************************************************)
(* The step "Run scan" of action.yml, over module Volumes: one scan in     *)
(* JSON to count what is Orphaned, a second one when another format is     *)
(* asked for, and the gate.  The cluster moves during either and between,  *)
(* and the clock runs, so that a claim may come of age for --min-age.  The *)
(* filter reads it once here; ScanCommand reads it anew for each finding.  *)
(***************************************************************************)
EXTENDS Integers, Volumes

CONSTANTS
  AnyNamespace, \* the input namespace is empty
  Inputs,       \* [namespace |->, exclude |-> namespaces, minAge |->, output |->,
                \*  failOnFindings |-> BOOLEAN]
  MaxTime       \* bound: the clock stops at MaxTime

ASSUME MaxTimeAssumption == MaxTime \in Nat
ASSUME InputsAssumption == \A i \in Inputs : i.minAge \in Nat

VARIABLES
  now,     \* the clock
  born,    \* born[c]: the creationTimestamp of claim c, if it is there
  listed,  \* the same, as unattached-pvc's List of the claims had it: CreatedAt
  inputs,  \* the inputs of this run
  step,    \* "first", "second", "gate" or "exited"
  exit,    \* the step's exit code; 2 while it runs
  count,   \* findings-count, the detectors that count as skipped, and, an observer, the
           \* claims it leaves out for their age alone
  report,  \* the report at report-path, likewise
  moved,   \* an observer: the cluster has moved since the first List
  standing \* an observer: the volumes that idled throughout the first scan

clock == <<now, born, listed>>
action == <<inputs, step, exit, count, report, moved, standing>>
actionVars == <<objects, scans, hist, watch, clock, action>>

Nothing == [orphaned |-> 0, skipped |-> {}, young |-> {}]

ActionInit ==
  /\ InitCluster
  /\ InitScan
  /\ now = 0 /\ born = [c \in PVCs |-> 0] /\ listed = born
  /\ inputs \in Inputs
  /\ step = "first"
  /\ exit = 2
  /\ count = Nothing
  /\ report = Nothing
  /\ moved = FALSE
  /\ standing = {}

-----------------------------------------------------------------------------
(* The script *)

ScanRuns ==
  /\ step \in {"first", "second"}
  /\ ClaimsScan \/ VolumesScan
  /\ listed' = IF at = "pvcs" THEN born ELSE listed
  /\ UNCHANGED <<now, born, action>>

outOfScope(c) ==
  \/ inputs.namespace \notin {AnyNamespace, c[1]}
  \/ c[1] \in inputs.exclude

tooYoung(c) == now - listed[c] < inputs.minAge

\* Only claims: a volume's finding has neither a namespace nor a CreatedAt.
young == {c \in findings : ~outOfScope(c) /\ tooYoung(c)}

\* What a scan with base_args reports: the findings in scope and of age, and one Skipped
\* finding for each detector that failed.
filtered ==
  [orphaned |-> Cardinality({c \in findings : ~outOfScope(c) /\ ~tooYoung(c)})
                  + Cardinality(pvFindings),
   young    |-> young,
   skipped  |-> {d \in {"unattached-pvc", "orphaned-pv"} :
                   IF d = "orphaned-pv" THEN pvErr ELSE err}]

\* Mutant: the scan for the report is not given base_args.
unfiltered ==
  [filtered EXCEPT !.orphaned = Cardinality(findings) + Cardinality(pvFindings), !.young = {}]

\* Its claim is out of scope, or too young.
Spared(v) == \E c \in PVCs : <<c, v>> \in watch.owned /\ (outOfScope(c) \/ tooYoung(c))

\* k8s-zombie scan "${base_args[@]}" --output json, and jq.
FirstScanEnds ==
  /\ step = "first" /\ Scanned
  /\ count' = filtered
  /\ report' = filtered
  /\ standing' = {h[1] : h \in {x \in watch.steady :
                                  x[1] \in watch.idle /\ ~Unseen(x) /\ ~Spared(x[1])}}
  /\ step' = IF inputs.output # "json" THEN "second" ELSE "gate"
  /\ NextScan
  /\ UNCHANGED <<objects, clock, inputs, exit, moved>>

\* What the scan for the report shows, given the same base_args.
secondReport == filtered

\* The same in the requested format, into the file that report-path will name.
SecondScanEnds ==
  /\ step = "second" /\ Scanned
  /\ report' = secondReport
  /\ step' = "gate"
  /\ NextScan
  /\ UNCHANGED <<objects, clock, inputs, exit, count, moved, standing>>

\* set -e: a scan that cannot start or cannot write its report ends the step.
ScanFails ==
  /\ step \in {"first", "second"}
  /\ step' = "exited"
  /\ exit' = 1
  /\ UNCHANGED <<objects, scans, hist, watch, clock, inputs, count, report, moved, standing>>

\* Mutant: -gt 1.
gateExitAboveOne == IF inputs.failOnFindings /\ count.orphaned > 1 THEN 1 ELSE 0

gateExit == IF inputs.failOnFindings /\ count.orphaned > 0 THEN 1 ELSE 0

Gate ==
  /\ step = "gate"
  /\ step' = "exited"
  /\ exit' = gateExit
  /\ UNCHANGED <<objects, scans, hist, watch, clock, inputs, count, report, moved, standing>>

ClusterMovesOn ==
  /\ step # "exited"
  /\ ObjectsMove
  /\ born' = [c \in PVCs |-> IF c \notin DOMAIN pvcs THEN now ELSE born[c]]
  /\ moved' = (moved \/ step # "first" \/ Started)
  /\ UNCHANGED <<now, listed, inputs, step, exit, count, report, standing>>

Tick ==
  /\ step # "exited" /\ now < MaxTime
  /\ now' = now + 1
  /\ UNCHANGED <<objects, scans, hist, watch, born, listed, action>>

Exited == step = "exited" /\ UNCHANGED actionVars

ActionNext ==
  \/ ScanRuns \/ FirstScanEnds \/ SecondScanEnds \/ ScanFails \/ Gate
  \/ ClusterMovesOn \/ Tick
  \/ Exited

ActionSpec == ActionInit /\ [][ActionNext]_actionVars

-----------------------------------------------------------------------------
(* Properties *)

Outcomes ==
  [orphaned : Nat, young : SUBSET PVCs, skipped : SUBSET {"unattached-pvc", "orphaned-pv"}]

ActionTypeOK ==
  /\ VolumesTypeOK
  /\ now \in 0..MaxTime /\ born \in [PVCs -> 0..MaxTime] /\ listed \in [PVCs -> 0..MaxTime]
  /\ inputs \in Inputs
  /\ step \in {"first", "second", "gate", "exited"}
  /\ exit \in {0, 1, 2} /\ (exit = 2 <=> step # "exited")
  /\ count \in Outcomes /\ report \in Outcomes
  /\ moved \in BOOLEAN /\ standing \subseteq PVs

\* findings-count and the report at report-path come from two scans (the comment at
\* action.yml:143-148).  When the cluster has not moved and the same detectors answered,
\* they differ by the claims that came of age for min-age in between, and by nothing else.
QuietScansAgree ==
  step = "gate" /\ ~moved /\ count.skipped = report.skipped
    => /\ report.young \subseteq count.young
       /\ report.orphaned = count.orphaned + Cardinality(count.young \ report.young)

\* With fail-on-findings a green step hides a volume that stood idle while the first
\* scan read the cluster only if a detector was skipped, if the volume is Unseen, or if
\* its claim was outside the namespace, in an excluded one, or younger than min-age
\* (action.yml:129-135, 163-166).
GreenGateHidesOnlySkips ==
  exit = 0 /\ inputs.failOnFindings /\ count.skipped = {} => standing = {}
=============================================================================

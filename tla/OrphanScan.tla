----------------------------- MODULE OrphanScan -----------------------------
(***************************************************************************)
(* What one detector's Scan promises about a cluster that keeps moving     *)
(* while it is read.  A resource is eligible while it exists and its own   *)
(* fields make it a candidate; a source (the Pods, the StatefulSets, ...)  *)
(* may use it, which excuses it; it is an orphan while it is eligible and  *)
(* no source uses it.  A Scan reads the candidates first and then each     *)
(* source once, at instants of their own, and reports the candidates that  *)
(* no source was seen to use.  There is no snapshot: that is the point.    *)
(***************************************************************************)

CONSTANTS
  Resources,  \* everything the detector might report
  Sources     \* the collections it reads to find what is in use

VARIABLES
  eligible,   \* the cluster: which resources are eligible
  uses,       \* the cluster: uses[s] is what source s uses
  phase,      \* "start", "reading", "reported" or "failed"
  candidates, \* the eligible resources when they were read
  read,       \* the sources read so far
  seen,       \* seen[s]: what s used when it was read
  findings,   \* what the Scan reports
  hist        \* what was true while it read: no code, an observer

scan == <<phase, candidates, read, seen, findings>>
vars == <<eligible, uses, scan, hist>>

UsedIn(u) == UNION {u[s] : s \in Sources}
OrphansOf(e, u) == e \ UsedIn(u)

\* The instants that count: from the reading of the candidates to that of the
\* last source.
Reading == phase = "reading" /\ read # Sources

-----------------------------------------------------------------------------
(* The observer *)

NothingYet ==
  [everOrphan |-> {}, alwaysEligible |-> {}, everUsed |-> {}, lateUsed |-> {},
   alwaysUsed |-> [s \in Sources |-> {}]]

BeginWith(e, u) ==
  [everOrphan     |-> OrphansOf(e, u),      \* orphans at some instant
   alwaysEligible |-> e,                    \* eligible at every instant
   everUsed       |-> UsedIn(u),            \* used at some instant
   lateUsed       |-> {},                   \* used by a source that had been read without
   alwaysUsed     |-> u]                    \* used by that source at every instant

ExtendWith(h, e, u) ==
  [everOrphan     |-> h.everOrphan \cup OrphansOf(e, u),
   alwaysEligible |-> h.alwaysEligible \cap e,
   everUsed       |-> h.everUsed \cup UsedIn(u),
   lateUsed       |-> h.lateUsed \cup UNION {u[s] \ seen[s] : s \in read},
   alwaysUsed     |-> [s \in Sources |-> h.alwaysUsed[s] \cap u[s]]]

\* What a change of the cluster to e and u adds to the record.
Observe(e, u) == hist' = IF Reading THEN ExtendWith(hist, e, u) ELSE hist

-----------------------------------------------------------------------------
(* The scan and the cluster *)

Init ==
  /\ eligible \in SUBSET Resources
  /\ uses \in [Sources -> SUBSET Resources]
  /\ phase = "start"
  /\ candidates = {}
  /\ read = {}
  /\ seen = [s \in Sources |-> {}]
  /\ findings = {}
  /\ hist = NothingYet

ReadCandidates ==
  /\ phase = "start"
  /\ phase' = "reading"
  /\ candidates' = eligible
  /\ hist' = BeginWith(eligible, uses)
  /\ UNCHANGED <<eligible, uses, read, seen, findings>>

ReadSource(s) ==
  /\ phase = "reading" /\ s \notin read
  /\ read' = read \cup {s}
  /\ seen' = [seen EXCEPT ![s] = uses[s]]
  /\ UNCHANGED <<eligible, uses, phase, candidates, findings, hist>>

Report ==
  /\ phase = "reading" /\ read = Sources
  /\ phase' = "reported"
  /\ findings' = OrphansOf(candidates, seen)
  /\ UNCHANGED <<eligible, uses, candidates, read, seen, hist>>

\* A read fails; the Scan returns the error and no findings.
Fail ==
  /\ phase \in {"start", "reading"}
  /\ phase' = "failed"
  /\ UNCHANGED <<eligible, uses, candidates, read, seen, findings, hist>>

ClusterMoves ==
  /\ eligible' \in SUBSET Resources
  /\ uses' \in [Sources -> SUBSET Resources]
  /\ Observe(eligible', uses')
  /\ UNCHANGED scan

Next ==
  \/ ReadCandidates
  \/ \E s \in Sources : ReadSource(s)
  \/ Report
  \/ Fail
  \/ ClusterMoves

Spec == Init /\ [][Next]_vars

-----------------------------------------------------------------------------
(* Properties *)

Reported == phase = "reported"

\* No omission: what was an orphan the whole time is reported.
StandingOrphanIsReported ==
  Reported => (hist.alwaysEligible \ hist.everUsed) \subseteq findings

\* No false alarm on a standing use: what one source used the whole time is not
\* reported, however the other sources and the resource itself changed.
StandingUseIsNotReported ==
  Reported => \A s \in Sources : findings \cap hist.alwaysUsed[s] = {}

\* A finding that was never an orphan, though it was eligible all along, is one that
\* a source began to use after it had been read: nothing else can mislead a Scan.
OnlyLateUseMisleads ==
  Reported => (findings \cap hist.alwaysEligible) \ hist.lateUsed \subseteq hist.everOrphan

\* With a single source, not even that: each finding that was eligible all along was
\* an orphan at some instant of the Scan.
OneSourceIsNeverMisled ==
  Reported /\ (\A s, t \in Sources : s = t) =>
    findings \cap hist.alwaysEligible \subseteq hist.everOrphan

\* A single snapshot: each finding that was eligible all along was an orphan at some
\* instant of the Scan.  Two sources are enough to break it.
FindingsHeldAtSomeInstant ==
  Reported => findings \cap hist.alwaysEligible \subseteq hist.everOrphan
=============================================================================

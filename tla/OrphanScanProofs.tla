-------------------------- MODULE OrphanScanProofs --------------------------
(***************************************************************************)
(* What every Scan that implements OrphanScan can be trusted with, for any *)
(* resources, any sources and any changes of the cluster.  Each theorem    *)
(* compares the record the observer keeps with what the Scan has read; the *)
(* invariant says how the two are related at each point of the Scan.       *)
(***************************************************************************)
EXTENDS OrphanScan, TLAPS

ShapeInv ==
  /\ phase \in {"start", "reading", "reported", "failed"}
  /\ read \subseteq Sources
  /\ phase = "start" => read = {}
  /\ DOMAIN seen = Sources
  /\ uses \in [Sources -> SUBSET Resources]
  /\ hist.alwaysUsed = [s \in Sources |-> hist.alwaysUsed[s]]

\* While instants still count, the record is up to date with the cluster.
CurrentInv ==
  Reading =>
    /\ OrphansOf(eligible, uses) \subseteq hist.everOrphan
    /\ hist.alwaysEligible \subseteq eligible
    /\ UsedIn(uses) \subseteq hist.everUsed
    /\ \A s \in Sources : hist.alwaysUsed[s] \subseteq uses[s]

\* What was read agrees with the record from its instant on.
ReadInv ==
  phase \in {"reading", "reported"} =>
    /\ hist.alwaysEligible \subseteq candidates
    /\ \A s \in read : /\ hist.alwaysUsed[s] \subseteq seen[s]
                       /\ seen[s] \subseteq hist.everUsed

\* Whatever else a source uses since it was read, it uses late.
LateUseInv ==
  Reading => \A s \in read : uses[s] \subseteq seen[s] \cup hist.lateUsed

\* What the last instant that counts leaves behind.
ClosedInv ==
  phase \in {"reading", "reported"} /\ read = Sources =>
    /\ (hist.alwaysEligible \ UsedIn(seen)) \ hist.lateUsed \subseteq hist.everOrphan
    /\ (\A s, t \in Sources : s = t) =>
         hist.alwaysEligible \ UsedIn(seen) \subseteq hist.everOrphan

ReportInv ==
  Reported => read = Sources /\ findings = OrphansOf(candidates, seen)

IInv == ShapeInv /\ CurrentInv /\ ReadInv /\ LateUseInv /\ ClosedInv /\ ReportInv

-----------------------------------------------------------------------------

LEMMA InitEstablishesIInv == Init => IInv
BY DEF Init, IInv, ShapeInv, CurrentInv, ReadInv, LateUseInv, ClosedInv, ReportInv,
       Reading, Reported, NothingYet

LEMMA ReadCandidatesKeepsIInv == IInv /\ ReadCandidates => IInv'
<1> SUFFICES ASSUME IInv, ReadCandidates PROVE IInv'
  OBVIOUS
<1> USE DEF IInv, ReadCandidates
<1>1. ShapeInv' /\ read' = {}
  BY DEF ShapeInv, BeginWith
<1>2. CurrentInv'
  BY DEF CurrentInv, BeginWith, UsedIn, ShapeInv
<1>3. LateUseInv' /\ ReadInv'
  BY <1>1 DEF LateUseInv, ReadInv, BeginWith
<1>4. ClosedInv'
  BY <1>1 DEF ClosedInv, BeginWith, OrphansOf, UsedIn
<1>5. ReportInv'
  BY DEF ReportInv, Reported
<1> QED BY <1>1, <1>2, <1>3, <1>4, <1>5

LEMMA ReadSourceKeepsIInv ==
  ASSUME NEW s \in Sources PROVE IInv /\ ReadSource(s) => IInv'
<1> SUFFICES ASSUME IInv, ReadSource(s) PROVE IInv'
  OBVIOUS
<1> USE DEF IInv, ReadSource
<1>1. Reading /\ seen'[s] = uses[s] /\ \A t \in read : seen'[t] = seen[t]
  BY DEF ShapeInv, Reading
<1>2. ShapeInv'
  BY DEF ShapeInv
<1>3. CurrentInv'
  BY <1>1 DEF CurrentInv, Reading
<1>4. ReadInv'
  BY <1>1 DEF ReadInv, CurrentInv, UsedIn
<1>5. LateUseInv'
  BY <1>1 DEF LateUseInv, Reading
<1>6. ClosedInv'
  <2> SUFFICES ASSUME read' = Sources PROVE ClosedInv'
    BY DEF ClosedInv
  <2>1. ASSUME NEW r \in hist.alwaysEligible \ UsedIn(seen'), r \notin hist.lateUsed
        PROVE  r \in hist.everOrphan
    <3>1. \A t \in Sources : r \notin uses[t]
      BY <1>1, <2>1 DEF UsedIn, LateUseInv
    <3> QED BY <1>1, <2>1, <3>1 DEF CurrentInv, OrphansOf, UsedIn
  <2>2. ASSUME \A t, u \in Sources : t = u, NEW r \in hist.alwaysEligible \ UsedIn(seen')
        PROVE  r \in hist.everOrphan
    <3>1. \A t \in Sources : r \notin uses[t]
      BY <1>1, <2>2 DEF UsedIn
    <3> QED BY <1>1, <2>2, <3>1 DEF CurrentInv, OrphansOf, UsedIn
  <2> QED BY <2>1, <2>2 DEF ClosedInv
<1>7. ReportInv'
  BY DEF ReportInv, Reported
<1> QED BY <1>2, <1>3, <1>4, <1>5, <1>6, <1>7

LEMMA ReportOrFailKeepsIInv == IInv /\ (Report \/ Fail) => IInv'
BY DEF IInv, Report, Fail, ShapeInv, CurrentInv, ReadInv, LateUseInv, ClosedInv,
       ReportInv, Reading, Reported

\* The cluster moves while instants still count: the record grows with it.
LEMMA MoveWhileReadingKeepsIInv == IInv /\ Reading /\ ClusterMoves => IInv'
<1> SUFFICES ASSUME IInv, Reading, ClusterMoves PROVE IInv'
  OBVIOUS
<1> USE DEF IInv, ClusterMoves, scan
<1>1. hist' = ExtendWith(hist, eligible', uses')
  BY DEF Observe
<1>2. ShapeInv'
  BY <1>1 DEF ShapeInv, ExtendWith
<1>3. CurrentInv'
  <2>1. ASSUME NEW s \in Sources
        PROVE  /\ hist'.alwaysUsed[s] \subseteq uses'[s]
               /\ uses'[s] \subseteq hist'.everUsed
    BY <1>1 DEF ExtendWith, UsedIn
  <2> QED BY <1>1, <2>1 DEF CurrentInv, ExtendWith
<1>4. ReadInv'
  BY <1>1 DEF ReadInv, ExtendWith, ShapeInv
<1>5. LateUseInv'
  <2>1. ASSUME NEW s \in read, NEW r \in uses'[s], r \notin seen[s]
        PROVE  r \in hist'.lateUsed
    BY <1>1, <2>1 DEF ExtendWith
  <2> QED BY <2>1 DEF LateUseInv
<1>6. ClosedInv' /\ ReportInv'
  BY DEF ClosedInv, ReportInv, Reading, Reported
<1> QED BY <1>2, <1>3, <1>4, <1>5, <1>6

LEMMA MoveOtherwiseKeepsIInv == IInv /\ ~Reading /\ ClusterMoves => IInv'
BY DEF IInv, ClusterMoves, Observe, scan, ShapeInv, CurrentInv, ReadInv, LateUseInv,
       ClosedInv, ReportInv, Reading, Reported

LEMMA StutterKeepsIInv == IInv /\ UNCHANGED vars => IInv'
BY DEF IInv, vars, scan, ShapeInv, CurrentInv, ReadInv, LateUseInv, ClosedInv, ReportInv,
       Reading, Reported

LEMMA IInvIsInvariant == Spec => []IInv
<1>1. IInv /\ [Next]_vars => IInv'
  BY ReadCandidatesKeepsIInv, ReadSourceKeepsIInv, ReportOrFailKeepsIInv,
     MoveWhileReadingKeepsIInv, MoveOtherwiseKeepsIInv, StutterKeepsIInv DEF Next
<1> QED BY <1>1, InitEstablishesIInv, PTL DEF Spec

-----------------------------------------------------------------------------
(* Theorems *)

\* A resource that was an orphan from the reading of the candidates to that of the
\* last source is in the findings.
THEOREM StandingOrphanIsReportedHolds == Spec => []StandingOrphanIsReported
<1>1. IInv => StandingOrphanIsReported
  BY DEF IInv, StandingOrphanIsReported, ReadInv, ReportInv, Reported, OrphansOf, UsedIn
<1> QED BY <1>1, IInvIsInvariant, PTL

\* A resource that one source used all that time is not in the findings.
THEOREM StandingUseIsNotReportedHolds == Spec => []StandingUseIsNotReported
<1>1. IInv => StandingUseIsNotReported
  BY DEF IInv, StandingUseIsNotReported, ReadInv, ReportInv, Reported, OrphansOf, UsedIn
<1> QED BY <1>1, IInvIsInvariant, PTL

\* A finding that was never an orphan, though it was eligible all along, is one that a
\* source began to use after the Scan had read it.
THEOREM OnlyLateUseMisleadsHolds == Spec => []OnlyLateUseMisleads
<1>1. IInv => OnlyLateUseMisleads
  BY DEF IInv, OnlyLateUseMisleads, ClosedInv, ReportInv, Reported, OrphansOf
<1> QED BY <1>1, IInvIsInvariant, PTL

\* With at most one source, a finding that was eligible all along was an orphan at some
\* instant of the Scan.
THEOREM OneSourceIsNeverMisledHolds == Spec => []OneSourceIsNeverMisled
<1>1. IInv => OneSourceIsNeverMisled
  BY DEF IInv, OneSourceIsNeverMisled, ClosedInv, ReportInv, Reported, OrphansOf
<1> QED BY <1>1, IInvIsInvariant, PTL
=============================================================================

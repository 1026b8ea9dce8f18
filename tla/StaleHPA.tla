------------------------------ MODULE StaleHPA ------------------------------
(***************************************************************************)
(* StaleHPADetector.Scan (pkg/detector/hpa.go): one List of the            *)
(* HorizontalPodAutoscalers, then one Get per HPA whose target kind it     *)
(* knows, each at an instant of its own.                                   *)
(*                                                                         *)
(* An HPA is its key, <<namespace, name>>; its ignore label and its        *)
(* scaleTargetRef may be edited at any time.  An object an HPA may scale   *)
(* is named by the API group, kind, namespace and name under which the API *)
(* server holds it.                                                        *)
(***************************************************************************)
EXTENDS Cluster

CONSTANTS
  HPAs,  \* the keys an HPA may have
  Refs   \* the scaleTargetRefs an HPA may have, [group |-> , kind |-> , name |-> ]

Object(group, kind, ns, name) == [group |-> group, kind |-> kind, ns |-> ns, name |-> name]

\* The object that the scaleTargetRef r of h names: an HPA scales within its namespace.
TargetObject(h, r) == Object(r.group, r.kind, h[1], r.name)
Objects == {TargetObject(h, r) : h \in HPAs, r \in Refs}

\* What matters of an HPA's state.
States == [label : Labels, target : Refs]

VARIABLES
  hpas,      \* the cluster's HPAs: hpas[h] is in States
  objects,   \* the cluster's objects, as far as some HPA may name them
  at,        \* "list", "loop" or "returned"
  err,       \* Scan has returned an error
  gotHPAs,   \* the List's answer
  todo,      \* the listed HPAs the loop has not come to
  found,     \* the findings the loop has appended
  findings,  \* what Scan returns
  hist       \* what was true while Scan was reading: no code, an observer

cluster == <<hpas, objects>>
scan == <<at, err, gotHPAs, todo, found, findings>>
vars == <<cluster, scan, hist>>


-----------------------------------------------------------------------------
(* What a stale HPA means, said without the code, and an observer of it *)

\* The targets Scan undertakes to verify: Kubernetes' own Deployments and StatefulSets.
Verifiable(h) ==
  /\ gotHPAs[h].target.group = "apps"
  /\ gotHPAs[h].target.kind \in {"Deployment", "StatefulSet"}

\* The HPAs that were not to be ignored at the instant of the List and lack the target
\* they had then.  What an edit makes of an HPA later is none of this Scan's business.
Stale ==
  {h \in DOMAIN gotHPAs :
     gotHPAs[h].label # "true" /\ TargetObject(h, gotHPAs[h].target) \notin objects}

NothingYet == [everStale |-> {}, alwaysStale |-> {}]

Observe ==
  hist' = IF at = "loop" /\ todo # {}
            THEN [everStale   |-> hist.everStale \cup Stale',
                  alwaysStale |-> hist.alwaysStale \cap Stale']
            ELSE hist

-----------------------------------------------------------------------------
(* Scan *)

Init ==
  /\ hpas \in PartialFcns(HPAs, States)
  /\ objects \in SUBSET Objects
  /\ at = "list"
  /\ err = FALSE
  /\ gotHPAs = EmptyFcn
  /\ todo = {}
  /\ found = {}
  /\ findings = {}
  /\ hist = NothingYet

ListHPAs ==
  /\ ~err /\ at = "list"
  /\ gotHPAs' = hpas
  /\ todo' = DOMAIN hpas
  /\ at' = "loop"
  /\ UNCHANGED <<cluster, err, found, findings>>
  /\ hist' = [everStale |-> Stale', alwaysStale |-> Stale']

ListFails ==
  /\ ~err /\ at = "list"
  /\ err' = TRUE
  /\ UNCHANGED <<cluster, at, gotHPAs, todo, found, findings, hist>>

\* The target of the listed h: an edit since the List does not reach the loop.
target(h) == gotHPAs[h].target

supported(h) == target(h).kind \in {"Deployment", "StatefulSet"}

\* Mutant: StatefulSets are looked for among the Deployments.
isNotFoundAmongDeployments(h) ==
  Object("apps", "Deployment", h[1], target(h).name) \notin objects

\* AppsV1().Deployments(ns).Get or StatefulSets(ns).Get answers NotFound.
isNotFound(h) == Object("apps", target(h).kind, h[1], target(h).name) \notin objects

\* The loop comes to an HPA of another kind.
SkipHPA(h) ==
  /\ ~err /\ at = "loop" /\ h \in todo /\ ~supported(h)
  /\ todo' = todo \ {h}
  /\ UNCHANGED <<cluster, at, err, gotHPAs, found, findings, hist>>

\* Mutant: a target that is not found is got again.
GetTargetAgain(h) ==
  /\ ~err /\ at = "loop" /\ h \in todo /\ supported(h)
  /\ todo' = IF isNotFound(h) THEN todo ELSE todo \ {h}
  /\ found' = IF isNotFound(h) /\ ~isIgnored(gotHPAs[h].label) THEN found \cup {h} ELSE found
  /\ UNCHANGED <<cluster, at, err, gotHPAs, findings, hist>>

\* The loop comes to h and gets its target.
GetTarget(h) ==
  /\ ~err /\ at = "loop" /\ h \in todo /\ supported(h)
  /\ todo' = todo \ {h}
  /\ found' = IF isNotFound(h) /\ ~isIgnored(gotHPAs[h].label) THEN found \cup {h} ELSE found
  /\ UNCHANGED <<cluster, at, err, gotHPAs, findings, hist>>

\* Mutant: an error other than NotFound is passed over, and with it the HPA.
GetErrorIsPassedOver(h) ==
  /\ ~err /\ at = "loop" /\ h \in todo /\ supported(h)
  /\ todo' = todo \ {h}
  /\ UNCHANGED <<cluster, at, err, gotHPAs, found, findings, hist>>

\* The Get fails otherwise: Scan gives up, whatever it has found and though h may be
\* one that is to be ignored.
GetFails(h) ==
  /\ ~err /\ at = "loop" /\ h \in todo /\ supported(h)
  /\ err' = TRUE
  /\ UNCHANGED <<cluster, at, gotHPAs, todo, found, findings, hist>>

Return ==
  /\ ~err /\ at = "loop" /\ todo = {}
  /\ at' = "returned"
  /\ findings' = found
  /\ UNCHANGED <<cluster, err, gotHPAs, todo, found, hist>>

Scan ==
  \/ ListHPAs \/ ListFails \/ Return
  \/ \E h \in HPAs : SkipHPA(h) \/ GetTarget(h) \/ GetFails(h)

-----------------------------------------------------------------------------
(* The cluster *)

\* Creates h, or labels it, or gives it another target.
CreateOrEditHPA(h, st) == hpas' = Put(hpas, h, st) /\ UNCHANGED objects

DeleteHPA(h) ==
  /\ h \in DOMAIN hpas
  /\ hpas' = Delete(hpas, h)
  /\ UNCHANGED objects

CreateOrDeleteObject(o) ==
  /\ objects' = Toggle(objects, o)
  /\ UNCHANGED hpas

ClusterMoves ==
  /\ \/ \E h \in HPAs, st \in States : CreateOrEditHPA(h, st)
     \/ \E h \in HPAs : DeleteHPA(h)
     \/ \E o \in Objects : CreateOrDeleteObject(o)
  /\ UNCHANGED scan
  /\ Observe

Next == Scan \/ ClusterMoves

Spec == Init /\ [][Next]_vars

-----------------------------------------------------------------------------
(* Properties *)

TypeOK ==
  /\ hpas \in PartialFcns(HPAs, States) /\ gotHPAs \in PartialFcns(HPAs, States)
  /\ objects \subseteq Objects
  /\ at \in {"list", "loop", "returned"} /\ err \in BOOLEAN
  /\ todo \subseteq DOMAIN gotHPAs
  /\ found \subseteq DOMAIN gotHPAs \ todo
  /\ findings \subseteq DOMAIN gotHPAs

\* An HPA that was listed without the ignore label, and whose target of that instant, one
\* Scan can verify, was missing from the List to the last Get, is reported unless Scan
\* returned an error, whatever becomes of the HPA meanwhile (hpa.go:30-66).
DanglingHPAIsReported ==
  at = "returned" => {h \in hist.alwaysStale : Verifiable(h)} \subseteq findings

\* An HPA that is reported was listed without the ignore label, and the target it had when
\* it was listed was missing at some instant from there to the last Get (hpa.go:14-19: the
\* target no longer exists; a target that cannot be verified, such as one a CRD defines,
\* is skipped rather than reported).  An HPA that is given another target while Scan reads
\* may have had a live one at every instant; only such an HPA may.
ReportedTargetWasGone ==
  at = "returned" => findings \subseteq hist.everStale
=============================================================================

------------------------ MODULE ZeroEndpointService ------------------------
(***************************************************************************)
(* ZeroEndpointServiceDetector.Scan (pkg/detector/service.go): Services    *)
(* without a ready endpoint, ExternalName Services excepted.  The Services *)
(* are listed first and the EndpointSlices after them.                     *)
(***************************************************************************)
EXTENDS Network

VARIABLES
  at,        \* "services", "slices", "loop" or "returned"
  err,       \* Scan has returned an error
  gotServices, gotSlices,  \* the Lists' answers, locals of Scan
  findings,  \* what Scan returns
  hist       \* OrphanScan's observer

scan == <<at, err, gotServices, gotSlices, findings>>
vars == <<network, scan, hist>>

-----------------------------------------------------------------------------
(* The Scan in OrphanScan's terms *)

\* The Services that have to have endpoints, and have not opted out.
Exposed(ss) == {k \in DOMAIN ss : ss[k].type # "ExternalName" /\ ss[k].ignore # "true"}

eligible == Exposed(services)
uses == [s \in {"slices"} |-> Serving]
phase == IF err THEN "failed" ELSE IF at = "services" THEN "start"
         ELSE IF at = "returned" THEN "reported" ELSE "reading"
candidates == Exposed(gotServices)
read == IF at \in {"loop", "returned"} THEN {"slices"} ELSE {}
seen == [s \in {"slices"} |-> withReadyEndpoints(gotSlices) \cap Services]

Abs == INSTANCE OrphanScan WITH Resources <- Services, Sources <- {"slices"}

-----------------------------------------------------------------------------
(* Scan *)

Init ==
  /\ InitNetwork
  /\ at = "services"
  /\ err = FALSE
  /\ gotServices = EmptyFcn
  /\ gotSlices = EmptyFcn
  /\ findings = {}
  /\ hist = Abs!NothingYet

ListServices ==
  /\ ~err /\ at = "services"
  /\ gotServices' = services
  /\ at' = "slices"
  /\ hist' = Abs!BeginWith(eligible, uses)
  /\ UNCHANGED <<network, err, gotSlices, findings>>

ListSlices ==
  /\ ~err /\ at = "slices"
  /\ gotSlices' = slices
  /\ at' = "loop"
  /\ UNCHANGED <<network, err, gotServices, findings, hist>>

ListFails ==
  /\ ~err /\ at \in {"services", "slices"}
  /\ err' = TRUE
  /\ UNCHANGED <<network, at, gotServices, gotSlices, findings, hist>>

\* The loop over services.Items, and the return.
Return ==
  /\ ~err /\ at = "loop"
  /\ findings' = {k \in DOMAIN gotServices :
                    /\ gotServices[k].type # "ExternalName"
                    /\ k \notin withReadyEndpoints(gotSlices)
                    /\ ~isIgnored(gotServices[k].ignore)}
  /\ at' = "returned"
  /\ UNCHANGED <<network, err, gotServices, gotSlices, hist>>

Scan == ListServices \/ ListSlices \/ ListFails \/ Return

ClusterMoves ==
  /\ NetworkMoves
  /\ Abs!Observe(eligible', uses')
  /\ UNCHANGED scan

Next == Scan \/ ClusterMoves

Spec == Init /\ [][Next]_vars

-----------------------------------------------------------------------------
(* Properties *)

TypeOK ==
  /\ NetworkTypeOK
  /\ gotServices \in PartialFcns(Services, ServiceStates)
  /\ gotSlices \in PartialFcns(Slices, Endpoints)
  /\ at \in {"services", "slices", "loop", "returned"} /\ err \in BOOLEAN
  /\ findings \subseteq Services

\* A reported Service that was exposed all along had, at some instant of the Scan, no
\* ready endpoint: one that is being rolled, its old slice emptied after the new one
\* was filled, is never reported (service.go:16-19, "zero ready endpoints").
RolledServiceIsNotReported == Abs!OneSourceIsNeverMisled

\* Scan implements OrphanScan with the EndpointSlices as its only source.
ImplementsOrphanScan == Abs!Spec
=============================================================================

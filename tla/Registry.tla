------------------------------ MODULE Registry ------------------------------
(***************************************************************************)
(* Registry.RunAll (pkg/detector/registry.go): the main goroutine adds one *)
(* unit to a WaitGroup and starts one goroutine per detector, waits, and   *)
(* appends the result slots in registration order.  A detector goroutine   *)
(* calls Scan, writes its own slot and leaves; its two deferred calls run  *)
(* last-in first-out, the recover before wg.Done.                          *)
(*                                                                         *)
(* A finding is abstracted to who reported it, its status and the value    *)
(* that tells it from other findings; the aggregated slice is kept as the  *)
(* sequence of the blocks appended to it, one per result slot.             *)
(***************************************************************************)
EXTENDS Naturals, Sequences, FiniteSets

CONSTANTS
  NumDetectors,  \* len(r.detectors)
  Yields,        \* the finding slices a successful Scan may return, as values
  Errors         \* the errors a Scan may return, the RBAC-forbidden one included

ASSUME NumDetectorsAssumption == NumDetectors \in Nat

Detectors == 1..NumDetectors

VARIABLES
  main,     \* where RunAll is: "spawning", "waiting", "collecting", "returned"
  k,        \* index of the range loop RunAll is in
  wg,       \* the WaitGroup's counter
  gpc,      \* gpc[d]: where d's goroutine is
  call,     \* call[d]: how d's Scan ended, a local of its goroutine
  results,  \* results[d]: d's slot; << >> is the nil slice
  all       \* the blocks appended to the slice RunAll returns

vars == <<main, k, wg, gpc, call, results, all>>

-----------------------------------------------------------------------------
(* Values *)

Pending == [kind |-> "pending"]
Calls ==
  [kind : {"ok"}, findings : Yields] \cup [kind : {"error"}, cause : Errors]
    \cup {[kind |-> "panic"]}

orphaned(d, fs) == <<[detector |-> d, status |-> "Orphaned", what |-> fs]>>

skippedFinding(d, c) ==
  <<[detector |-> d, status |-> "Skipped",
     what |-> IF c.kind = "panic" THEN "panic" ELSE c.cause]>>

\* The slot a finished Scan has to leave behind: its findings if it returned
\* no error, and otherwise one Skipped finding in the detector's name.
Contribution(d, c) ==
  IF c.kind = "ok" THEN orphaned(d, c.findings) ELSE skippedFinding(d, c)

Slots(d) == {<< >>} \cup {Contribution(d, c) : c \in Calls}

-----------------------------------------------------------------------------
(* The main goroutine *)

Init ==
  /\ main = "spawning"
  /\ k = 1
  /\ wg = 0
  /\ gpc = [d \in Detectors |-> "unborn"]
  /\ call = [d \in Detectors |-> Pending]
  /\ results = [d \in Detectors |-> << >>]
  /\ all = << >>

\* Mutant: wg.Add(1) moved into the goroutine, where Wait may overtake it.
SpawnWithoutAdd ==
  /\ main = "spawning" /\ k \in Detectors
  /\ gpc' = [gpc EXCEPT ![k] = "scanning"]
  /\ k' = k + 1
  /\ UNCHANGED <<main, wg, call, results, all>>

\* One iteration of the first loop: wg.Add(1), then go func.
Spawn ==
  /\ main = "spawning" /\ k \in Detectors
  /\ wg' = wg + 1
  /\ gpc' = [gpc EXCEPT ![k] = "scanning"]
  /\ k' = k + 1
  /\ UNCHANGED <<main, call, results, all>>

EndSpawnLoop ==
  /\ main = "spawning" /\ k \notin Detectors
  /\ main' = "waiting"
  /\ UNCHANGED <<k, wg, gpc, call, results, all>>

\* wg.Wait() returns once the counter is zero; the second loop starts.
WaitReturns ==
  /\ main = "waiting" /\ wg = 0
  /\ main' = "collecting"
  /\ k' = 1
  /\ UNCHANGED <<wg, gpc, call, results, all>>

Collect ==
  /\ main = "collecting" /\ k \in Detectors
  /\ all' = Append(all, results[k])
  /\ k' = k + 1
  /\ UNCHANGED <<main, wg, gpc, call, results>>

Return ==
  /\ main = "collecting" /\ k \notin Detectors
  /\ main' = "returned"
  /\ UNCHANGED <<k, wg, gpc, call, results, all>>

Main == Spawn \/ EndSpawnLoop \/ WaitReturns \/ Collect \/ Return

-----------------------------------------------------------------------------
(* The goroutine of detector d *)

\* Scan hands control back: with findings, with an error, or by panicking.
ScanEnds(d) ==
  /\ gpc[d] = "scanning"
  /\ \E c \in Calls : call' = [call EXCEPT ![d] = c]
  /\ gpc' = [gpc EXCEPT ![d] = IF call'[d].kind = "panic" THEN "panicking"
                                                          ELSE "scanned"]
  /\ UNCHANGED <<main, k, wg, results, all>>

\* Mutant: the error branch lost its early return, so the slot is overwritten
\* with the (nil) findings that accompany an error.
StoreWithoutReturn(d) ==
  /\ gpc[d] = "scanned"
  /\ results' = [results EXCEPT
       ![d] = IF call[d].kind = "ok" THEN orphaned(d, call[d].findings) ELSE << >>]
  /\ gpc' = [gpc EXCEPT ![d] = "deferred"]
  /\ UNCHANGED <<main, k, wg, call, all>>

\* Scan returned: the slot gets its findings, or a Skipped one for its error.
Store(d) ==
  /\ gpc[d] = "scanned"
  /\ results' = [results EXCEPT
       ![d] = IF call[d].kind = "ok" THEN orphaned(d, call[d].findings)
                                     ELSE skippedFinding(d, call[d])]
  /\ gpc' = [gpc EXCEPT ![d] = "deferred"]
  /\ UNCHANGED <<main, k, wg, call, all>>

\* Mutant: the two defers are swapped, so wg.Done runs while still panicking.
RecoverAfterDone(d) ==
  \/ /\ gpc[d] = "panicking"
     /\ wg' = wg - 1
     /\ gpc' = [gpc EXCEPT ![d] = "recovering"]
     /\ UNCHANGED <<main, k, call, results, all>>
  \/ /\ gpc[d] = "recovering"
     /\ results' = [results EXCEPT ![d] = skippedFinding(d, call[d])]
     /\ gpc' = [gpc EXCEPT ![d] = "exited"]
     /\ UNCHANGED <<main, k, wg, call, all>>

\* Mutant: wg.Done is called at the end of the function instead of deferred, so
\* a goroutine that panicked leaves without it.
RecoverWithoutDone(d) ==
  /\ gpc[d] = "panicking"
  /\ results' = [results EXCEPT ![d] = skippedFinding(d, call[d])]
  /\ gpc' = [gpc EXCEPT ![d] = "exited"]
  /\ UNCHANGED <<main, k, wg, call, all>>

\* Scan panicked: the deferred recover writes the slot.
Recover(d) ==
  /\ gpc[d] = "panicking"
  /\ results' = [results EXCEPT ![d] = skippedFinding(d, call[d])]
  /\ gpc' = [gpc EXCEPT ![d] = "deferred"]
  /\ UNCHANGED <<main, k, wg, call, all>>

\* The deferred wg.Done().
Done(d) ==
  /\ gpc[d] = "deferred"
  /\ wg' = wg - 1
  /\ gpc' = [gpc EXCEPT ![d] = "exited"]
  /\ UNCHANGED <<main, k, call, results, all>>

Settle(d) == Store(d) \/ Recover(d) \/ Done(d)

\* RunAll has returned and every goroutine has exited: nothing is left to run.
Returned == main = "returned" /\ UNCHANGED vars

Next ==
  \/ Main
  \/ \E d \in Detectors : ScanEnds(d) \/ Settle(d)
  \/ Returned

Spec == Init /\ [][Next]_vars

\* The Go scheduler runs every runnable goroutine.
CodeFairness == WF_vars(Main) /\ \A d \in Detectors : WF_vars(Settle(d))

\* Every Scan ends: every API call it makes is answered, one way or the other.
ScanFairness == \A d \in Detectors : WF_vars(ScanEnds(d))

CodeFairSpec == Spec /\ CodeFairness
FairSpec == CodeFairSpec /\ ScanFairness

-----------------------------------------------------------------------------
(* Properties *)

\* Every variable holds a value of its kind.
TypeOK ==
  /\ main \in {"spawning", "waiting", "collecting", "returned"}
  /\ k \in 1..(NumDetectors + 1)
  /\ wg \in 0..NumDetectors
  /\ gpc \in [Detectors ->
                {"unborn", "scanning", "scanned", "panicking", "deferred", "exited"}]
  /\ call \in [Detectors -> Calls \cup {Pending}]
  /\ results \in [Detectors -> UNION {Slots(d) : d \in Detectors}]
  /\ all \in Seq(UNION {Slots(d) : d \in Detectors})

\* Isolation (registry.go:24-27, README "Safety"): what RunAll returns is, in
\* registration order, what each Scan returned or one Skipped finding for the
\* error or panic it ended in, however the goroutines were interleaved.
ReportIsComplete ==
  main = "returned" =>
    all = [d \in Detectors |-> Contribution(d, call[d])]

\* No data race on the result slots: a slot is written at most once, by a
\* goroutine the WaitGroup still counts, and never after Wait has returned.
SlotsAreNotRaced ==
  [][\A d \in Detectors : results'[d] # results[d] =>
       /\ main \in {"spawning", "waiting"}
       /\ results[d] = << >>
       /\ wg > 0]_vars

\* RunAll returns if every Scan ends (with a result, an error or a panic).
RunAllReturns == <>(main = "returned")

\* README "Safety": a misbehaving detector cannot take down the scan.  Here: once
\* all detectors but one are through, RunAll returns, even if that one never is.
HungDetectorIsIsolated ==
  \A h \in Detectors :
    (\A d \in Detectors \ {h} : gpc[d] = "exited") ~> (main = "returned")

\* Every step of RunAll is a step of Gather or changes nothing Gather sees: a
\* slot counts as a verdict as soon as it is written.
Undecided == << >>
Abs == INSTANCE Gather WITH
  Verdicts <- [d \in Detectors |-> {Contribution(d, c) : c \in Calls}],
  verdict <- [d \in Detectors |->
                IF gpc[d] \in {"deferred", "exited"} THEN results[d] ELSE Undecided],
  published <- main = "returned",
  report <- IF main = "returned" THEN all ELSE << >>
ImplementsGather == Abs!Spec
=============================================================================

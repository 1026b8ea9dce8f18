---------------------------- MODULE ScanCommand ----------------------------
(***************************************************************************)
(* One run of "k8s-zombie scan": cmd/k8s-zombie/main.go and cli.Run        *)
(* (pkg/cli/run.go).  The command builds a client, loads the prices and    *)
(* picks the renderer; RunAll resolves the detectors (module Gather, which *)
(* Registry implements); the findings are filtered one by one while the    *)
(* clock runs on, and rendered to an output that may fail.                 *)
(***************************************************************************)
EXTENDS Integers, Sequences, FiniteSets, SequencesExt, Report

CONSTANTS
  NumDetectors,   \* how many detectors cli.Run registers
  DetectorName,   \* DetectorName[d]: the rank of d's name among the names
  Finds,          \* Finds[d]: what d may find, in the order it would append it:
                  \* [kind |-> , namespace |-> , name |-> , dated |-> BOOLEAN, bill |-> ]
  Births,         \* the creation times of the resources d may find
  Options,        \* the flags: [namespace |-> , exclude |-> , minAge |-> , output |-> ,
                  \* pricingFile |-> ]
  PricingFiles,   \* PricingFiles[f]: what the file f holds, "" the bundled one
  StartTime,      \* the time when the command starts
  MaxTime,        \* bound: the clock stops at MaxTime
  Undecided       \* a detector that RunAll has not resolved

Detectors == 1..NumDetectors

\* What a detector appends is a resource by its names, as numbers, and its bill.
ASSUME FindsAssumption ==
  /\ NumDetectors \in Nat /\ DetectorName \in [Detectors -> Nat]
  /\ \A d \in Detectors :
       /\ Len(Finds[d]) \in Nat /\ DOMAIN Finds[d] = 1..Len(Finds[d])
       /\ \A r \in Range(Finds[d]) :
            /\ {r.kind, r.namespace, r.name} \subseteq Nat
            /\ r.bill.by = "volume" => r.bill.size \in Nat \cup {NoSize}

ASSUME TimesAssumption ==
  /\ StartTime \in Int /\ MaxTime \in Int /\ StartTime <= MaxTime /\ Births \subseteq Int
  /\ \A o \in Options : o.minAge \in Nat

\* A table that is accepted has numbers for rates; no estimate is not one of them.
ASSUME PricesAssumption ==
  /\ NoCost \notin Int
  /\ \A o \in Options : o.pricingFile \in DOMAIN PricingFiles
  /\ \A f \in DOMAIN PricingFiles : LoadPricingTable(PricingFiles[f]) =>
       /\ PricingFiles[f].loadBalancer \in Int
       /\ Range(PricingFiles[f].ebs) \subseteq Int

KnownOutputs == {"table", "json", "markdown", "html"}

VARIABLES
  opts,       \* the flags of this run
  now,        \* the clock
  pc,         \* the statement the command is at
  exit,       \* its exit code; 2 while it runs
  verdict, published, report,  \* RunAll (module Gather)
  i, kept,    \* filterFindings' loop: the next index, and out
  written     \* the pieces written to stdout

run == <<verdict, published, report>>
vars == <<opts, now, pc, exit, run, i, kept, written>>

-----------------------------------------------------------------------------
(* What a detector may contribute *)

skippedFinding(d) ==
  [detector |-> DetectorName[d], kind |-> 0, namespace |-> 0, name |-> 0,
   created |-> 0, cost |-> NoCost, status |-> "Skipped"]

\* The resource at place p of Finds[d], created at time c; undated kinds leave
\* CreatedAt zero.
orphan(d, p, c, prices) ==
  LET r == Finds[d][p]
  IN  [detector |-> DetectorName[d], kind |-> r.kind, namespace |-> r.namespace,
       name |-> r.name, created |-> IF r.dated THEN c ELSE 0,
       cost |-> estimateCost(prices, r.bill), status |-> "Orphaned"]

ContributionsAt(d, t, prices) ==
  {<<skippedFinding(d)>>} \cup
  UNION {{[n \in 1..Cardinality(S) |->
             LET p == inOrder(S)[n] IN orphan(d, p, c[p], prices)]
           : c \in [S -> {b \in Births : b <= t}]}
         : S \in SUBSET DOMAIN Finds[d]}

Contributions ==
  [d \in Detectors |->
     UNION {ContributionsAt(d, MaxTime, PricingFiles[f])
            : f \in {g \in DOMAIN PricingFiles : LoadPricingTable(PricingFiles[g])}}]

RunAll == INSTANCE Gather WITH Verdicts <- Contributions

-----------------------------------------------------------------------------
(* The command *)

Init ==
  /\ opts \in Options
  /\ now = StartTime
  /\ pc = "clientset"
  /\ exit = 2
  /\ RunAll!Init
  /\ i = 1
  /\ kept = << >>
  /\ written = << >>

Go(from, to) == pc = from /\ pc' = to /\ UNCHANGED exit
Exit(from, code) == pc = from /\ pc' = "exited" /\ exit' = code

\* A usable kubeconfig, or not.
buildClientset ==
  /\ Go("clientset", "pricing") \/ Exit("clientset", 1)
  /\ UNCHANGED <<opts, now, run, i, kept, written>>

table == PricingFiles[opts.pricingFile]

\* The bundled prices, or those of --pricing-file.
loadPricingTable ==
  /\ IF LoadPricingTable(table) THEN Go("pricing", "renderer") ELSE Exit("pricing", 1)
  /\ UNCHANGED <<opts, now, run, i, kept, written>>

rendererFor ==
  /\ IF opts.output \in KnownOutputs THEN Go("renderer", "scanning") ELSE Exit("renderer", 1)
  /\ UNCHANGED <<opts, now, run, i, kept, written>>

\* A detector is through; what it found existed by then.
DetectorEnds(d) ==
  /\ pc = "scanning"
  /\ RunAll!Resolve(d)
  /\ verdict'[d] \in ContributionsAt(d, now, table)
  /\ UNCHANGED <<opts, now, pc, exit, i, kept, written>>

RunAllReturns ==
  /\ Go("scanning", "filtering")
  /\ RunAll!Publish
  /\ UNCHANGED <<opts, now, i, kept, written>>

aggregated == FlattenSeq(report)

\* Mutant: --namespace is applied to what has no namespace as well.
outOfAnyScope(f) ==
  \/ opts.namespace # 0 /\ f.namespace # opts.namespace
  \/ f.namespace \in opts.exclude

outOfScope(f) ==
  /\ f.namespace # 0
  /\ \/ opts.namespace # 0 /\ f.namespace # opts.namespace
     \/ f.namespace \in opts.exclude

\* Mutant: a resource exactly MinAge old is still in its grace period.
tooYoungOrJustOldEnough(f) ==
  opts.minAge > 0 /\ f.created # 0 /\ now - f.created <= opts.minAge

tooYoung(f) == opts.minAge > 0 /\ f.created # 0 /\ now - f.created < opts.minAge

\* Mutant: the filter compacts the slice in place and steps over what follows a
\* finding it drops.
filterNextInPlace ==
  /\ pc = "filtering" /\ i <= Len(aggregated)
  /\ IF outOfScope(aggregated[i]) \/ tooYoung(aggregated[i])
       THEN i' = i + 2 /\ UNCHANGED kept
       ELSE i' = i + 1 /\ kept' = Append(kept, aggregated[i])
  /\ UNCHANGED <<opts, now, pc, exit, run, written>>

\* One iteration of filterFindings; time.Since reads the clock anew each time.
filterNext ==
  /\ pc = "filtering" /\ i <= Len(aggregated)
  /\ i' = i + 1
  /\ kept' = IF outOfScope(aggregated[i]) \/ tooYoung(aggregated[i]) THEN kept
             ELSE Append(kept, aggregated[i])
  /\ UNCHANGED <<opts, now, pc, exit, run, written>>

filterEnds ==
  /\ i > Len(aggregated)
  /\ Go("filtering", "rendering")
  /\ UNCHANGED <<opts, now, run, i, kept, written>>

\* What Render has still to write.
output == pieces(kept, opts.output)

writePiece ==
  /\ pc = "rendering" /\ Len(written) < Len(output)
  /\ written' = Append(written, output[Len(written) + 1])
  /\ UNCHANGED <<opts, now, pc, exit, run, i, kept>>

\* Mutant: the error of a write is dropped, and Render goes on to return nil.
writeFailsSilently ==
  /\ Len(written) < Len(output)
  /\ Exit("rendering", 0)
  /\ UNCHANGED <<opts, now, run, i, kept, written>>

\* Stdout is closed or full: Render returns the error, and main exits with 1.
writeFails ==
  /\ Len(written) < Len(output)
  /\ Exit("rendering", 1)
  /\ UNCHANGED <<opts, now, run, i, kept, written>>

renderEnds ==
  /\ Len(written) = Len(output)
  /\ Exit("rendering", 0)
  /\ UNCHANGED <<opts, now, run, i, kept, written>>

Command ==
  \/ buildClientset \/ loadPricingTable \/ rendererFor
  \/ (\E d \in Detectors : DetectorEnds(d)) \/ RunAllReturns
  \/ filterNext \/ filterEnds
  \/ writePiece \/ writeFails \/ renderEnds

Tick ==
  /\ now < MaxTime
  /\ now' = now + 1
  /\ UNCHANGED <<opts, pc, exit, run, i, kept, written>>

\* The process is gone.
Exited == pc = "exited" /\ UNCHANGED vars

Next == Command \/ Tick \/ Exited

Spec == Init /\ [][Next]_vars

-----------------------------------------------------------------------------
(* Properties *)

TypeOK ==
  /\ opts \in Options /\ now \in StartTime..MaxTime
  /\ pc \in {"clientset", "pricing", "renderer", "scanning", "filtering", "rendering",
             "exited"}
  /\ exit \in {0, 1, 2} /\ (exit = 2 <=> pc # "exited")
  /\ published \in BOOLEAN
  /\ i \in 1..(Len(aggregated) + 1)
  /\ Len(kept) < i
  /\ Len(written) <= Len(output)

Succeeded == exit = 0

\* Everything shown to the reader, in the order of the output.
shown ==
  FlattenSeq([n \in DOMAIN written |->
    IF written[n].piece \in {"section", "array"} THEN written[n].findings ELSE << >>])

\* An RBAC gap or a crash is never hidden: a detector that was skipped is in the
\* report of a successful run, whatever --namespace, --exclude-namespace and
\* --min-age say (README "Safety": the detector degrades to one Skipped finding).
EverySkipIsShown ==
  Succeeded => \A d \in Detectors :
    verdict[d] = <<skippedFinding(d)>> => Contains(shown, skippedFinding(d))

inScope(f) ==
  f.namespace = 0 \/ (opts.namespace \in {0, f.namespace} /\ f.namespace \notin opts.exclude)

\* --min-age while time goes by: what is shown had reached it when the command ended,
\* and what had reached it when the command started is shown if it is in scope.
\* Undated findings always pass.
GracePeriodIsKept ==
  Succeeded =>
    /\ \A n \in DOMAIN shown :
         shown[n].created = 0 \/ now - shown[n].created >= opts.minAge
    /\ \A n \in DOMAIN aggregated :
         LET f == aggregated[n]
         IN  inScope(f) /\ (f.created = 0 \/ StartTime - f.created >= opts.minAge)
               => Contains(shown, f)

\* A report by sections has one section per Kind, and its sections hold each finding
\* the filter kept as often as it was kept (render.go:47-50: one labelled section per Kind).
SectionsAreComplete ==
  Succeeded =>
    /\ \A m, n \in DOMAIN written :
         written[m].piece = "section" /\ written[n].piece = "section"
           /\ written[m].kind = written[n].kind => m = n
    /\ Len(shown) = Len(kept)
    /\ \A n \in DOMAIN kept :
         Cardinality({m \in DOMAIN shown : shown[m] = kept[n]})
           = Cardinality({m \in DOMAIN kept : kept[m] = kept[n]})

\* Exit code 0 is for a report that has been written to its last piece, and the
\* numbers at its head, written before the sections, agree with them: how many
\* findings, how many with an estimate, and what those add up to (render.go:83-85).
ExitZeroIsWholeReport ==
  Succeeded =>
    /\ written # << >>
    /\ \A n \in DOMAIN written :
         written[n].piece \in {"summary", "stats"} =>
           /\ written[n].total = Len(shown)
           /\ written[n].costed = Cardinality(costed(shown))
           /\ written[n].cost = totalCost(shown)
    /\ \A n \in DOMAIN written :
         written[n].piece = "stats" =>
           /\ written[n].kinds = Cardinality({m \in DOMAIN written : written[m].piece = "section"})
           /\ written[n].skipped = Cardinality(skipped(shown))

\* An estimate of $0 is never the price of something unknown: the resource states no
\* size, or a size of 0, or the table that was asked for has a rate of 0 in it (pricing.go:23-29: a
\* fallback without a rate must fail loudly, not come out as $0.00/month).
ZeroIsNeverAGuess ==
  Succeeded =>
    \A f \in Range(shown) : f.cost = 0 =>
      \/ 0 \in Range(table.ebs)
      \/ \E d \in Detectors : \E r \in Range(Finds[d]) :
           /\ DetectorName[d] = f.detector
           /\ <<r.kind, r.namespace, r.name>> = <<f.kind, f.namespace, f.name>>
           /\ r.bill.by = "volume" /\ storageGB(r.bill.size) = 0
=============================================================================

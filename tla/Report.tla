------------------------------- MODULE Report -------------------------------
(***************************************************************************)
(* What becomes of the aggregated findings: the order and the grouping of  *)
(* pkg/render/render.go and the pieces its renderers write.                *)
(*                                                                         *)
(* Kinds, namespaces, names and detector names are natural numbers in the  *)
(* order of the strings they stand for; 0 is the empty string.             *)
(***************************************************************************)
EXTENDS Naturals, Sequences, FiniteSets, SequencesExt, Pricing

\* Mutant: the namespace is compared before the kind.
LessByNamespace(a, b) ==
  \/ a.namespace < b.namespace
  \/ a.namespace = b.namespace /\ a.kind < b.kind
  \/ a.namespace = b.namespace /\ a.kind = b.kind /\ a.name < b.name

\* The comparison of sortedFindings: Kind, then Namespace, Name, Detector.
Less(a, b) ==
  \/ a.kind < b.kind
  \/ a.kind = b.kind /\ a.namespace < b.namespace
  \/ a.kind = b.kind /\ a.namespace = b.namespace /\ a.name < b.name
  \/ a.kind = b.kind /\ a.namespace = b.namespace /\ a.name = b.name
       /\ a.detector < b.detector

\* The members of D in the order in which Before[i] comes before i.
inOrderOf(D, Before) ==
  [r \in 1..Cardinality(D) |-> CHOOSE i \in D : Cardinality(Before[i]) = r - 1]

\* sort.SliceStable: fs[i] goes behind all that are less and its equals before it.
placesInOrder(fs) ==
  inOrderOf(DOMAIN fs, [i \in DOMAIN fs |->
    {j \in DOMAIN fs : Less(fs[j], fs[i]) \/ (~Less(fs[i], fs[j]) /\ j < i)}])

sortedFindings(fs) == [r \in DOMAIN fs |-> fs[placesInOrder(fs)[r]]]

\* The distinct detectors of a group, in the order they appear.
detectorLabel(fs) ==
  FoldLeft(LAMBDA names, f : IF Contains(names, f.detector) THEN names
                             ELSE Append(names, f.detector),
           << >>, fs)

\* The members of a set of numbers, in increasing order.
inOrder(S) == inOrderOf(S, [i \in S |-> {j \in S : j < i}])

\* The runs of one Kind, each with its heading: one starts wherever the Kind changes.
groupedByKind(sorted) ==
  LET starts == inOrder({i \in DOMAIN sorted : i = 1 \/ sorted[i - 1].kind # sorted[i].kind})
      end(g) == IF g = Len(starts) THEN Len(sorted) ELSE starts[g + 1] - 1
      Group(g) == SubSeq(sorted, starts[g], end(g))
  IN  [g \in DOMAIN starts |->
         [piece |-> "section", kind |-> sorted[starts[g]].kind,
          label |-> detectorLabel(Group(g)), findings |-> Group(g)]]

\* What a sequence of numbers adds up to.
total(numbers) ==
  LET sum[n \in 0..Len(numbers)] == IF n = 0 THEN 0 ELSE sum[n - 1] + numbers[n]
  IN  sum[Len(numbers)]

\* The places of the findings that have an estimate, and what those add up to.
costed(fs) == {n \in DOMAIN fs : fs[n].cost # NoCost}
totalCost(fs) == total([n \in DOMAIN fs |-> IF n \in costed(fs) THEN fs[n].cost ELSE 0])

skipped(fs) == {n \in DOMAIN fs : fs[n].status = "Skipped"}

\* The line at the head counts every finding, the Skipped ones included, and adds up
\* the estimates there are.
summarize(fs) ==
  [piece |-> "summary", total |-> Len(fs), costed |-> Cardinality(costed(fs)),
   cost |-> totalCost(fs)]

\* What each Renderer writes, piece by piece.  JSON: the array, at once.
jsonPieces(fs) == <<[piece |-> "array", findings |-> sortedFindings(fs)]>>

\* A table or Markdown: the summary, and one section after another.
tablePieces(fs) ==
  IF fs = << >> THEN <<[piece |-> "none"]>>
  ELSE <<summarize(fs)>> \o groupedByKind(sortedFindings(fs))

markdownPieces(fs) == tablePieces(fs)

\* HTML: the statistics at the head of the page, and one section after another.
htmlPieces(fs) ==
  LET groups == groupedByKind(sortedFindings(fs))
  IN  IF fs = << >> THEN <<[piece |-> "none"]>>
      ELSE <<[piece |-> "stats", total |-> Len(fs), costed |-> Cardinality(costed(fs)),
              cost |-> totalCost(fs), kinds |-> Len(groups),
              skipped |-> Cardinality(skipped(fs))]>>
           \o groups

pieces(fs, output) ==
  CASE output = "json"     -> jsonPieces(fs)
    [] output = "markdown" -> markdownPieces(fs)
    [] output = "html"     -> htmlPieces(fs)
    [] OTHER               -> tablePieces(fs)
=============================================================================

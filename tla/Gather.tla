------------------------------- MODULE Gather -------------------------------
(***************************************************************************)
(* What Registry.RunAll promises its caller, whatever the goroutines do:   *)
(* every detector is resolved exactly once, to a verdict of its own, in    *)
(* any order; the report appears once, after the last of them, and lists   *)
(* the verdicts in registration order.                                     *)
(***************************************************************************)
EXTENDS Naturals

CONSTANTS
  NumDetectors,  \* how many detectors are registered
  Verdicts,      \* Verdicts[d]: what detector d may contribute
  Undecided      \* no member of any Verdicts[d]: d has not been resolved

VARIABLES
  verdict,    \* verdict[d]: what d contributed, or Undecided
  published,  \* the report has been handed to the caller
  report      \* the report; the empty sequence until it is published

vars == <<verdict, published, report>>

Detectors == 1..NumDetectors

Init ==
  /\ verdict = [d \in Detectors |-> Undecided]
  /\ published = FALSE
  /\ report = << >>

Resolve(d) ==
  /\ ~published
  /\ verdict[d] = Undecided
  /\ \E v \in Verdicts[d] : verdict' = [verdict EXCEPT ![d] = v]
  /\ UNCHANGED <<published, report>>

Publish ==
  /\ ~published
  /\ \A d \in Detectors : verdict[d] # Undecided
  /\ published' = TRUE
  /\ report' = verdict
  /\ UNCHANGED verdict

Next ==
  \/ \E d \in Detectors : Resolve(d)
  \/ Publish

Spec == Init /\ [][Next]_vars
=============================================================================

--------------------------- MODULE RegistryProofs ---------------------------
(***************************************************************************)
(* Registry's safety properties for any number of detectors, any findings  *)
(* and any errors.                                                         *)
(***************************************************************************)
EXTENDS Registry, FiniteSetTheorems, TLAPS

Live == {"scanning", "scanned", "panicking", "deferred"}

\* The goroutines the WaitGroup counts: started, wg.Done not called yet.
Counted(pc) == {d \in Detectors : pc[d] \in Live}

CounterCounts == wg = Cardinality(Counted(gpc))

StartedInOrder ==
  \A d \in Detectors : gpc[d] = "unborn" <=> main = "spawning" /\ d >= k

AllExitedAfterWait ==
  main \in {"collecting", "returned"} => \A d \in Detectors : gpc[d] = "exited"

CallMatchesPc ==
  \A d \in Detectors :
    /\ gpc[d] \in {"scanned", "panicking", "deferred", "exited"} => call[d] \in Calls
    /\ gpc[d] = "panicking" => call[d].kind = "panic"

SlotMatchesPc ==
  \A d \in Detectors :
    results[d] = IF gpc[d] \in {"deferred", "exited"}
                   THEN Contribution(d, call[d]) ELSE << >>

CollectedPrefix ==
  all = CASE main = "collecting" -> [d \in 1..(k - 1) |-> results[d]]
          [] main = "returned"   -> [d \in Detectors |-> results[d]]
          [] OTHER               -> << >>

IInv ==
  /\ TypeOK
  /\ CounterCounts
  /\ StartedInOrder
  /\ AllExitedAfterWait
  /\ CallMatchesPc
  /\ SlotMatchesPc
  /\ CollectedPrefix

-----------------------------------------------------------------------------
(* Lemmas *)

\* A detector's contribution is a block, never the nil slice of an empty slot,
\* and it is one of the values its slot may take.
LEMMA ContributionIsSlot ==
  ASSUME NEW d \in Detectors, NEW c \in Calls
  PROVE  /\ Contribution(d, c) \in Slots(d)
         /\ Contribution(d, c) # << >>
BY DEF Contribution, Slots, orphaned, skippedFinding

\* The goroutines counted are finitely many, at most one per detector.
LEMMA CountedIsFinite ==
  ASSUME NEW pc
  PROVE  /\ IsFiniteSet(Counted(pc))
         /\ Cardinality(Counted(pc)) \in 0..NumDetectors
<1>1. IsFiniteSet(Detectors) /\ Cardinality(Detectors) = NumDetectors
  BY FS_Interval, NumDetectorsAssumption DEF Detectors
<1>2. Counted(pc) \subseteq Detectors
  BY DEF Counted
<1>3. /\ IsFiniteSet(Counted(pc))
      /\ Cardinality(Counted(pc)) <= NumDetectors
      /\ Cardinality(Counted(pc)) \in Nat
  BY <1>1, <1>2, FS_Subset, FS_CardinalityType
<1> QED BY <1>3, NumDetectorsAssumption

\* A goroutine that moves between live places leaves the count alone.
LEMMA CountedStays ==
  ASSUME NEW d \in Detectors, NEW to \in Live, TypeOK, gpc[d] \in Live,
         gpc' = [gpc EXCEPT ![d] = to]
  PROVE  Counted(gpc') = Counted(gpc)
BY DEF Counted, TypeOK

LEMMA CountedEnters ==
  ASSUME NEW d \in Detectors, NEW to \in Live, TypeOK, gpc[d] \notin Live,
         gpc' = [gpc EXCEPT ![d] = to]
  PROVE  Cardinality(Counted(gpc')) = Cardinality(Counted(gpc)) + 1
<1>1. Counted(gpc') = Counted(gpc) \cup {d}
  BY DEF Counted, TypeOK
<1>2. d \notin Counted(gpc)
  BY DEF Counted
<1> QED BY <1>1, <1>2, FS_AddElement, CountedIsFinite

LEMMA CountedLeaves ==
  ASSUME NEW d \in Detectors, TypeOK, gpc[d] \in Live,
         gpc' = [gpc EXCEPT ![d] = "exited"]
  PROVE  Cardinality(Counted(gpc')) = Cardinality(Counted(gpc)) - 1
<1>1. Counted(gpc') = Counted(gpc) \ {d}
  BY DEF Counted, TypeOK, Live
<1>2. d \in Counted(gpc)
  BY DEF Counted
<1> QED BY <1>1, <1>2, FS_RemoveElement, CountedIsFinite

\* Appending the slot of detector n to the first n - 1 blocks gives the first n.
LEMMA AppendSlot ==
  ASSUME NEW n \in Detectors, NEW blocks,
         blocks = [d \in 1..(n - 1) |-> results[d]]
  PROVE  Append(blocks, results[n]) = [d \in 1..n |-> results[d]]
<1> DEFINE V == {results[d] : d \in 1..n}
<1>1. n \in Nat /\ n >= 1
  BY NumDetectorsAssumption DEF Detectors
<1>2. blocks \in [1..(n - 1) -> V]
  BY <1>1
<1>3. blocks \in Seq(V) /\ Len(blocks) = n - 1
  BY <1>1, <1>2
<1> QED BY <1>1, <1>3

-----------------------------------------------------------------------------
(* The inductive invariant *)

LEMMA InitEstablishesIInv == Init => IInv
<1> SUFFICES ASSUME Init PROVE IInv
  OBVIOUS
<1> USE NumDetectorsAssumption
<1>1. Counted(gpc) = {}
  BY DEF Init, Counted, Live
<1>2. TypeOK
  BY DEF Init, TypeOK, Slots, Detectors
<1>3. CounterCounts
  BY <1>1, FS_EmptySet DEF Init, CounterCounts
<1>4. StartedInOrder
  BY DEF Init, StartedInOrder, Detectors
<1>5. AllExitedAfterWait /\ CallMatchesPc /\ SlotMatchesPc /\ CollectedPrefix
  BY DEF Init, AllExitedAfterWait, CallMatchesPc, SlotMatchesPc, CollectedPrefix
<1> QED BY <1>2, <1>3, <1>4, <1>5 DEF IInv

LEMMA SpawnKeepsIInv == IInv /\ Spawn => IInv'
<1> SUFFICES ASSUME IInv, Spawn PROVE IInv'
  OBVIOUS
<1> USE NumDetectorsAssumption DEF IInv, Spawn
<1>1. gpc[k] = "unborn" /\ k \in Detectors /\ gpc[k] \notin Live
  BY DEF StartedInOrder, Detectors, Live
<1>2. Cardinality(Counted(gpc')) = Cardinality(Counted(gpc)) + 1
  BY <1>1, CountedEnters DEF Live
<1>3. CounterCounts'
  BY <1>2 DEF CounterCounts
<1>4. TypeOK'
  <2>1. wg' \in 0..NumDetectors
    BY <1>3, CountedIsFinite DEF CounterCounts
  <2>2. k' \in 1..(NumDetectors + 1)
    BY DEF Detectors
  <2> QED BY <2>1, <2>2 DEF TypeOK
<1>5. StartedInOrder'
  BY DEF StartedInOrder, TypeOK, Detectors
<1>6. AllExitedAfterWait' /\ CollectedPrefix'
  BY DEF AllExitedAfterWait, CollectedPrefix
<1>7. CallMatchesPc' /\ SlotMatchesPc'
  BY <1>1 DEF CallMatchesPc, SlotMatchesPc, TypeOK
<1> QED BY <1>3, <1>4, <1>5, <1>6, <1>7

LEMMA EndSpawnLoopKeepsIInv == IInv /\ EndSpawnLoop => IInv'
<1> SUFFICES ASSUME IInv, EndSpawnLoop PROVE IInv'
  OBVIOUS
<1> USE NumDetectorsAssumption DEF IInv, EndSpawnLoop
<1>1. TypeOK' /\ CounterCounts' /\ CallMatchesPc' /\ SlotMatchesPc'
  BY DEF TypeOK, CounterCounts, CallMatchesPc, SlotMatchesPc
<1>2. StartedInOrder'
  BY DEF StartedInOrder, TypeOK, Detectors
<1>3. AllExitedAfterWait' /\ CollectedPrefix'
  BY DEF AllExitedAfterWait, CollectedPrefix
<1> QED BY <1>1, <1>2, <1>3

LEMMA WaitReturnsKeepsIInv == IInv /\ WaitReturns => IInv'
<1> SUFFICES ASSUME IInv, WaitReturns PROVE IInv'
  OBVIOUS
<1> USE NumDetectorsAssumption DEF IInv, WaitReturns
<1>1. Counted(gpc) = {}
  BY CountedIsFinite, FS_EmptySet DEF CounterCounts
<1>2. \A d \in Detectors : gpc[d] = "exited"
  BY <1>1 DEF Counted, Live, TypeOK, StartedInOrder
<1>3. TypeOK'
  <2>1. k' \in 1..(NumDetectors + 1)
    OBVIOUS
  <2> QED BY <2>1 DEF TypeOK
<1>6. CounterCounts' /\ CallMatchesPc' /\ SlotMatchesPc'
  BY DEF CounterCounts, CallMatchesPc, SlotMatchesPc
<1>4. StartedInOrder' /\ AllExitedAfterWait'
  BY <1>2 DEF StartedInOrder, AllExitedAfterWait
<1>5. CollectedPrefix'
  BY DEF CollectedPrefix
<1> QED BY <1>3, <1>4, <1>5, <1>6

LEMMA CollectKeepsIInv == IInv /\ Collect => IInv'
<1> SUFFICES ASSUME IInv, Collect PROVE IInv'
  OBVIOUS
<1> USE NumDetectorsAssumption DEF IInv, Collect
<1>1. k \in 1..NumDetectors
  BY DEF Detectors
<1>2. all' = [d \in 1..k |-> results[d]]
  BY AppendSlot DEF CollectedPrefix
<1>3. CollectedPrefix'
  BY <1>1, <1>2 DEF CollectedPrefix
<1>4. results[k] \in UNION {Slots(d) : d \in Detectors}
  BY DEF TypeOK
<1>5. TypeOK'
  BY <1>1, <1>4 DEF TypeOK
<1>6. CounterCounts' /\ CallMatchesPc' /\ SlotMatchesPc'
  BY DEF CounterCounts, CallMatchesPc, SlotMatchesPc
<1>7. StartedInOrder' /\ AllExitedAfterWait'
  BY DEF StartedInOrder, AllExitedAfterWait
<1> QED BY <1>3, <1>5, <1>6, <1>7

LEMMA ReturnKeepsIInv == IInv /\ Return => IInv'
<1> SUFFICES ASSUME IInv, Return PROVE IInv'
  OBVIOUS
<1> USE NumDetectorsAssumption DEF IInv, Return
<1>1. k = NumDetectors + 1
  BY DEF TypeOK, Detectors
<1>2. CollectedPrefix'
  BY <1>1 DEF CollectedPrefix, Detectors
<1>3. TypeOK' /\ CounterCounts' /\ CallMatchesPc' /\ SlotMatchesPc'
  BY DEF TypeOK, CounterCounts, CallMatchesPc, SlotMatchesPc
<1>4. StartedInOrder' /\ AllExitedAfterWait'
  BY DEF StartedInOrder, AllExitedAfterWait
<1> QED BY <1>2, <1>3, <1>4

LEMMA ScanEndsKeepsIInv == ASSUME NEW d \in Detectors PROVE IInv /\ ScanEnds(d) => IInv'
<1> SUFFICES ASSUME IInv, ScanEnds(d) PROVE IInv'
  OBVIOUS
<1> USE DEF IInv, ScanEnds
<1> PICK c \in Calls : call' = [call EXCEPT ![d] = c]
  OBVIOUS
<1>1. call'[d] = c /\ gpc[d] \in Live /\ gpc'[d] \in {"scanned", "panicking"}
  BY DEF TypeOK, Live
<1>2. PICK to \in {"scanned", "panicking"} : gpc' = [gpc EXCEPT ![d] = to]
  OBVIOUS
<1>3. TypeOK'
  BY <1>2 DEF TypeOK
<1>4. CounterCounts'
  BY <1>1, <1>2, CountedStays DEF CounterCounts, Live
<1>5. StartedInOrder' /\ AllExitedAfterWait' /\ CollectedPrefix'
  BY <1>1, <1>2 DEF StartedInOrder, AllExitedAfterWait, CollectedPrefix, TypeOK
<1>6. CallMatchesPc'
  BY <1>1 DEF CallMatchesPc, TypeOK
<1>7. SlotMatchesPc'
  BY <1>1 DEF SlotMatchesPc, TypeOK
<1> QED BY <1>3, <1>4, <1>5, <1>6, <1>7

\* Store and Recover alike: a live goroutine writes its contribution to its slot.
LEMMA WritingKeepsIInv ==
  ASSUME NEW d \in Detectors, IInv, gpc[d] \in {"scanned", "panicking"},
         results' = [results EXCEPT ![d] = Contribution(d, call[d])],
         gpc' = [gpc EXCEPT ![d] = "deferred"],
         UNCHANGED <<main, k, wg, call, all>>
  PROVE  IInv'
<1> USE DEF IInv
<1>1. Contribution(d, call[d]) \in Slots(d)
  BY ContributionIsSlot DEF CallMatchesPc
<1>2. main \in {"spawning", "waiting"}
  BY DEF AllExitedAfterWait, TypeOK
<1>3. TypeOK'
  BY <1>1 DEF TypeOK
<1>4. CounterCounts'
  BY CountedStays DEF CounterCounts, Live
<1>5. StartedInOrder' /\ AllExitedAfterWait' /\ CollectedPrefix'
  BY <1>2 DEF StartedInOrder, AllExitedAfterWait, CollectedPrefix, TypeOK
<1>6. CallMatchesPc'
  BY DEF CallMatchesPc, TypeOK
<1>7. SlotMatchesPc'
  BY DEF SlotMatchesPc, TypeOK
<1> QED BY <1>3, <1>4, <1>5, <1>6, <1>7

LEMMA StoreKeepsIInv == ASSUME NEW d \in Detectors PROVE IInv /\ Store(d) => IInv'
BY WritingKeepsIInv DEF Store, Contribution

LEMMA RecoverKeepsIInv == ASSUME NEW d \in Detectors PROVE IInv /\ Recover(d) => IInv'
<1> SUFFICES ASSUME IInv, Recover(d) PROVE IInv'
  OBVIOUS
<1>1. Contribution(d, call[d]) = skippedFinding(d, call[d])
  BY DEF Recover, IInv, CallMatchesPc, Contribution
<1> QED BY <1>1, WritingKeepsIInv DEF Recover

LEMMA DoneKeepsIInv == ASSUME NEW d \in Detectors PROVE IInv /\ Done(d) => IInv'
<1> SUFFICES ASSUME IInv, Done(d) PROVE IInv'
  OBVIOUS
<1> USE DEF IInv, Done
<1>1. Cardinality(Counted(gpc')) = Cardinality(Counted(gpc)) - 1
  BY CountedLeaves DEF Live
<1>2. CounterCounts'
  BY <1>1 DEF CounterCounts
<1>3. wg' \in 0..NumDetectors
  BY <1>2, CountedIsFinite DEF CounterCounts
<1>4. TypeOK'
  BY <1>3 DEF TypeOK
<1>5. StartedInOrder' /\ AllExitedAfterWait' /\ CollectedPrefix'
  BY DEF StartedInOrder, AllExitedAfterWait, CollectedPrefix, TypeOK
<1>6. CallMatchesPc' /\ SlotMatchesPc'
  BY DEF CallMatchesPc, SlotMatchesPc, TypeOK
<1> QED BY <1>2, <1>4, <1>5, <1>6

LEMMA StepKeepsIInv == IInv /\ [Next]_vars => IInv'
<1> SUFFICES ASSUME IInv, [Next]_vars PROVE IInv'
  OBVIOUS
<1>1. CASE Main
  BY <1>1, SpawnKeepsIInv, EndSpawnLoopKeepsIInv, WaitReturnsKeepsIInv,
     CollectKeepsIInv, ReturnKeepsIInv DEF Main
<1>2. CASE \E d \in Detectors : ScanEnds(d) \/ Settle(d)
  BY <1>2, ScanEndsKeepsIInv, StoreKeepsIInv, RecoverKeepsIInv, DoneKeepsIInv DEF Settle
<1>3. CASE UNCHANGED vars
  <2> USE <1>3 DEF vars, IInv
  <2>1. TypeOK' /\ CounterCounts' /\ StartedInOrder' /\ AllExitedAfterWait'
    BY DEF TypeOK, CounterCounts, StartedInOrder, AllExitedAfterWait
  <2>2. CallMatchesPc' /\ SlotMatchesPc' /\ CollectedPrefix'
    BY DEF CallMatchesPc, SlotMatchesPc, CollectedPrefix
  <2> QED BY <2>1, <2>2
<1> QED BY <1>1, <1>2, <1>3 DEF Next, Returned

LEMMA IInvIsInvariant == Spec => []IInv
BY InitEstablishesIInv, StepKeepsIInv, PTL DEF Spec

-----------------------------------------------------------------------------
(* Theorems *)

\* Every variable keeps a value of its kind; in particular the WaitGroup's
\* counter never goes below zero, where Go panics.
THEOREM TypeOKHolds == Spec => []TypeOK
<1>1. IInv => TypeOK
  BY DEF IInv
<1> QED BY <1>1, IInvIsInvariant, PTL

\* RunAll returns exactly one block per detector, in registration order: what its
\* Scan found, or the Skipped finding for the error or panic it ended in.
THEOREM ReportIsCompleteHolds == Spec => []ReportIsComplete
<1>1. IInv => ReportIsComplete
  BY DEF IInv, ReportIsComplete, AllExitedAfterWait, SlotMatchesPc, CollectedPrefix
<1> QED BY <1>1, IInvIsInvariant, PTL

\* A result slot is written at most once, by a goroutine the WaitGroup counts, and
\* never after Wait has returned: RunAll reads the slots without a race.
THEOREM SlotsAreNotRacedHolds == Spec => SlotsAreNotRaced
<1> DEFINE Written(d) == /\ main \in {"spawning", "waiting"}
                         /\ results[d] = << >>
                         /\ wg > 0
<1>1. ASSUME IInv, NEW d \in Detectors, gpc[d] \in {"scanned", "panicking"}
      PROVE  Written(d)
  <2>1. main \in {"spawning", "waiting"}
    BY <1>1 DEF IInv, AllExitedAfterWait, TypeOK
  <2>2. results[d] = << >>
    BY <1>1 DEF IInv, SlotMatchesPc
  <2>3. Counted(gpc) # {}
    BY <1>1 DEF Counted, Live
  <2>4. wg > 0
    BY <1>1, <2>3, CountedIsFinite, FS_EmptySet DEF IInv, CounterCounts
  <2> QED BY <2>1, <2>2, <2>4
<1>2. ASSUME IInv, [Next]_vars, NEW d \in Detectors, results'[d] # results[d]
      PROVE  gpc[d] \in {"scanned", "panicking"}
  <2>1. PICK e \in Detectors : Settle(e)
    BY <1>2 DEF Next, vars, Main, Spawn, EndSpawnLoop, WaitReturns, Collect, Return,
                ScanEnds, Returned
  <2>2. e = d
    BY <1>2, <2>1 DEF Settle, Store, Recover, Done, IInv, TypeOK
  <2> QED BY <1>2, <2>1, <2>2 DEF Settle, Store, Recover, Done
<1>3. IInv /\ [Next]_vars =>
        [\A d \in Detectors : results'[d] # results[d] => Written(d)]_vars
  BY <1>1, <1>2
<1> QED BY <1>3, IInvIsInvariant, PTL DEF Spec, SlotsAreNotRaced

-----------------------------------------------------------------------------
(* RunAll implements Gather *)

\* The verdicts Gather sees, as a state function.
Verdict == [d \in Detectors |->
             IF gpc[d] \in {"deferred", "exited"} THEN results[d] ELSE Undecided]

\* Writing a slot resolves one detector, once.
LEMMA WritingResolves ==
  ASSUME NEW d \in Detectors, IInv, gpc[d] \in {"scanned", "panicking"},
         results' = [results EXCEPT ![d] = Contribution(d, call[d])],
         gpc' = [gpc EXCEPT ![d] = "deferred"],
         UNCHANGED <<main, all>>
  PROVE  Abs!Resolve(d)
<1>1. main # "returned" /\ call[d] \in Calls
  BY DEF IInv, AllExitedAfterWait, CallMatchesPc
<1>2. Verdict' = [Verdict EXCEPT ![d] = Contribution(d, call[d])]
  BY DEF Verdict, IInv, TypeOK
<1>3. Verdict[d] = Undecided
  BY DEF Verdict
<1> QED BY <1>1, <1>2, <1>3 DEF Abs!Resolve, Verdict

\* Every step of RunAll publishes, resolves one detector, or is a stutter of Gather.
LEMMA StepImplementsGather == IInv /\ [Next]_vars => [Abs!Next]_Abs!vars
<1> SUFFICES ASSUME IInv, [Next]_vars PROVE [Abs!Next]_Abs!vars
  OBVIOUS
<1> USE DEF Abs!Next, Abs!vars, Abs!Detectors, Detectors
<1>1. CASE Return
  <2>1. \A d \in Detectors : gpc[d] = "exited" /\ results[d] # Undecided
    BY <1>1, ContributionIsSlot
       DEF Return, IInv, AllExitedAfterWait, SlotMatchesPc, CallMatchesPc, Undecided
  <2>2. all = Verdict
    <3>1. k - 1 = NumDetectors
      BY <1>1, NumDetectorsAssumption DEF Return, IInv, TypeOK
    <3>2. all = [d \in Detectors |-> results[d]]
      BY <1>1, <3>1 DEF Return, IInv, CollectedPrefix
    <3> QED BY <2>1, <3>2 DEF Verdict
  <2>3. Verdict' = Verdict
    BY <1>1 DEF Return, Verdict
  <2>4. Abs!Publish
    BY <1>1, <2>1, <2>2, <2>3 DEF Abs!Publish, Return, Verdict, Undecided
  <2> QED BY <2>4
<1>2. CASE Spawn
  <2>1. Verdict' = Verdict
    BY <1>2 DEF Spawn, Verdict, IInv, TypeOK, StartedInOrder
  <2> QED BY <1>2, <2>1 DEF Spawn, Verdict
<1>3. CASE EndSpawnLoop \/ WaitReturns \/ Collect
  BY <1>3 DEF EndSpawnLoop, WaitReturns, Collect
<1>4. ASSUME NEW d \in Detectors, ScanEnds(d) PROVE [Abs!Next]_Abs!vars
  <2>1. Verdict' = Verdict
    BY <1>4 DEF ScanEnds, Verdict, IInv, TypeOK
  <2> QED BY <1>4, <2>1 DEF ScanEnds, Verdict
<1>5. ASSUME NEW d \in Detectors, Store(d) \/ Recover(d) PROVE Abs!Next
  <2>1. results' = [results EXCEPT ![d] = Contribution(d, call[d])]
    BY <1>5 DEF Store, Recover, Contribution, IInv, CallMatchesPc
  <2>2. Abs!Resolve(d)
    BY <1>5, <2>1, WritingResolves DEF Store, Recover
  <2> QED BY <2>2
<1>6. ASSUME NEW d \in Detectors, Done(d) PROVE [Abs!Next]_Abs!vars
  <2>1. Verdict' = Verdict
    BY <1>6 DEF Done, Verdict, IInv, TypeOK
  <2> QED BY <1>6, <2>1 DEF Done, Verdict
<1>7. CASE Returned \/ UNCHANGED vars
  BY <1>7 DEF Returned, vars
<1> QED BY <1>1, <1>2, <1>3, <1>4, <1>5, <1>6, <1>7 DEF Next, Main, Settle

\* RunAll implements Gather: each detector is resolved exactly once, whatever the
\* others do, and the report is published once, after the last, in their order.
THEOREM ImplementsGatherHolds == Spec => ImplementsGather
<1>1. Init => Abs!Init
  BY DEF Init, Abs!Init, Abs!Detectors, Detectors, Undecided
<1> QED BY <1>1, StepImplementsGather, IInvIsInvariant, PTL
        DEF Spec, ImplementsGather, Abs!Spec
=============================================================================

------------------------ MODULE CompletedJobsAndPods ------------------------
(***************************************************************************)
(* CompletedJobsAndPodsDetector.Scan (pkg/detector/job_pod.go) against the *)
(* Job controller, which the detector second-guesses: it has the counters  *)
(* of a Job's status, and not its conditions, to tell whether it has       *)
(* ended.  Jobs run one Pod at a time, replace it when it fails or is      *)
(* deleted, and are complete with one success.                             *)
(***************************************************************************)
EXTENDS Naturals, Cluster

CONSTANTS
  Jobs,          \* the keys a Job may have
  BackoffLimit,  \* spec.backoffLimit: the Job fails with one failure more
  MaxPods        \* bound on the Pods of a Job there are at a time

\* ended: a Complete or Failed condition, or the one that announces it; suspended:
\* spec.suspend; the counters are those of job.status.
JobStates ==
  [active : 0..1, succeeded : 0..1, failed : 0..(BackoffLimit + 1), ended : BOOLEAN,
   suspended : BOOLEAN, ignore : Labels]

PodNames == Jobs \X (1..MaxPods)

\* deleted: a deletionTimestamp.  tally: whether the Job's status counts the Pod not yet,
\* as active, or no longer (it is counted as ended, or never will be, and has lost the
\* finalizer that keeps it in the API until then).  "Running" includes Pending.
PodStates ==
  [phase : {"Running", "Succeeded", "Failed"}, deleted : BOOLEAN,
   tally : {"none", "active", "done"}, ignore : Labels]

VARIABLES
  jobs, pods,  \* the cluster; a Pod's name is its Job's and a suffix
  at,          \* "jobs", "pods" or "returned"
  err,         \* Scan has returned an error
  jobFindings, podFindings,  \* findings, by Kind
  hist         \* an observer: the Jobs and the Pods when the Jobs were listed

cluster == <<jobs, pods>>
vars == <<cluster, at, err, jobFindings, podFindings, hist>>

-----------------------------------------------------------------------------
(* Scan *)

Init ==
  /\ jobs = EmptyFcn
  /\ pods = EmptyFcn
  /\ at = "jobs"
  /\ err = FALSE
  /\ jobFindings = {}
  /\ podFindings = {}
  /\ hist = [jobs |-> EmptyFcn, pods |-> EmptyFcn]

\* Mutant: a success is asked for, as if every Job that ended had had one.
completedWithSuccess(job) == job.active = 0 /\ job.succeeded > 0

\* Mutant: that there is no active Pod is not asked for.
completedOnce(job) == job.succeeded > 0 \/ job.failed > 0

completed(job) == job.active = 0 /\ (job.succeeded > 0 \/ job.failed > 0)

\* The List, and the loop over jobs.Items.
ListJobs ==
  /\ ~err /\ at = "jobs"
  /\ jobFindings' = {j \in DOMAIN jobs : completed(jobs[j]) /\ ~isIgnored(jobs[j].ignore)}
  /\ at' = "pods"
  /\ hist' = [jobs |-> jobs, pods |-> pods]
  /\ UNCHANGED <<cluster, err, podFindings>>

\* Mutant: a Pod is reported without its Job's key.
ListPodsWithoutKey ==
  /\ ~err /\ at = "pods"
  /\ podFindings' = {<<"", p[2]>> : p \in DOMAIN pods}
  /\ at' = "returned"
  /\ UNCHANGED <<cluster, err, jobFindings, hist>>

\* The List, the loop over pods.Items, and the return.
ListPods ==
  /\ ~err /\ at = "pods"
  /\ podFindings' = {p \in DOMAIN pods :
       pods[p].phase \in {"Succeeded", "Failed"} /\ ~isIgnored(pods[p].ignore)}
  /\ at' = "returned"
  /\ UNCHANGED <<cluster, err, jobFindings, hist>>

\* Whatever was found is dropped with the error.
ListFails ==
  /\ ~err /\ at \in {"jobs", "pods"}
  /\ err' = TRUE
  /\ UNCHANGED <<cluster, at, jobFindings, podFindings, hist>>

Scan == ListJobs \/ ListPods \/ ListFails

-----------------------------------------------------------------------------
(* Users, the Job controller and the kubelet *)

PodsOf(j) == {p \in DOMAIN pods : p[1] = j}
Uncounted(j) == {p \in PodsOf(j) : pods[p].tally # "done"}
Active(p) == pods[p].phase = "Running" /\ ~pods[p].deleted

\* What is over and still to be counted is counted before anything else is done.
NothingToCount(j) == \A p \in Uncounted(j) : Active(p)

Update(j, job) == jobs' = [jobs EXCEPT ![j] = job]

\* A name is used again when all that belonged to it is gone.
CreateJob(j, suspended, label) ==
  /\ j \notin DOMAIN jobs /\ PodsOf(j) = {}
  /\ jobs' = Put(jobs, j, [active |-> 0, succeeded |-> 0, failed |-> 0, ended |-> FALSE,
                           suspended |-> suspended, ignore |-> label])
  /\ UNCHANGED pods

\* The controller creates the first Pod, or the next one once the back-off is over ...
StartPod(p) ==
  LET j == p[1]
  IN  /\ j \in DOMAIN jobs /\ ~jobs[j].ended /\ ~jobs[j].suspended
      /\ Uncounted(j) = {} /\ p \notin DOMAIN pods
      /\ pods' = Put(pods, p, [phase |-> "Running", deleted |-> FALSE, tally |-> "none",
                               ignore |-> jobs[j].ignore])
      /\ UNCHANGED jobs

\* ... and writes the Job's status later.
WriteActive(j, p) ==
  /\ pods[p].tally = "none" /\ Active(p)
  /\ Update(j, [jobs[j] EXCEPT !.active = 1])
  /\ pods' = [pods EXCEPT ![p].tally = "active"]

\* The controller comes to know how the Pod ended, or that it is being deleted, which
\* counts as a failure.
CountPod(j, p) ==
  /\ pods[p].tally # "done" /\ ~Active(p)
  /\ LET succeeded == pods[p].phase = "Succeeded"
         failures == jobs[j].failed + (IF succeeded THEN 0 ELSE 1)
     IN  Update(j, [jobs[j] EXCEPT
           !.active = 0, !.succeeded = IF succeeded THEN 1 ELSE 0, !.failed = failures,
           !.ended = succeeded \/ failures > BackoffLimit])
  /\ pods' = [pods EXCEPT ![p].tally = "done"]

\* The Job's active Pod is deleted and lets go of; it goes on running for a while.
StopActive(j) ==
  pods' = [p \in DOMAIN pods |-> IF p \in Uncounted(j)
                                 THEN [pods[p] EXCEPT !.deleted = TRUE, !.tally = "done"]
                                 ELSE pods[p]]

\* activeDeadlineSeconds is over: the Pod that is left counts as failed.
PassDeadline(j) ==
  /\ ~jobs[j].ended /\ ~jobs[j].suspended /\ NothingToCount(j)
  /\ Update(j, [jobs[j] EXCEPT !.ended = TRUE, !.active = 0,
                               !.failed = IF Uncounted(j) = {} THEN @ ELSE @ + 1])
  /\ StopActive(j)

SuspendOrResume(j) ==
  /\ ~jobs[j].ended
  /\ Update(j, [jobs[j] EXCEPT !.suspended = ~@])
  /\ UNCHANGED pods

\* The controller obeys spec.suspend: the Pod that is left does not count.
StopSuspended(j) ==
  /\ jobs[j].suspended /\ Uncounted(j) # {} /\ NothingToCount(j)
  /\ Update(j, [jobs[j] EXCEPT !.active = 0])
  /\ StopActive(j)

\* By a user, or after ttlSecondsAfterFinished: its Pods are deleted after it.
DeleteJob(j) ==
  /\ jobs' = Delete(jobs, j)
  /\ UNCHANGED pods

PodEnds(p, phase) ==
  /\ pods[p].phase = "Running"
  /\ pods' = [pods EXCEPT ![p].phase = phase]
  /\ UNCHANGED jobs

\* A drain, an eviction, a garbage collector or a user.
DeletePod(p) ==
  /\ ~pods[p].deleted
  /\ pods' = [pods EXCEPT ![p].deleted = TRUE]
  /\ UNCHANGED jobs

\* The deleted Pod has terminated, or is given no time to.
RemovePod(p) ==
  /\ pods[p].deleted /\ (pods[p].tally = "done" \/ p[1] \notin DOMAIN jobs)
  /\ pods' = Delete(pods, p)
  /\ UNCHANGED jobs

ClusterMoves ==
  /\ \/ \E j \in Jobs, suspended \in BOOLEAN, label \in Labels : CreateJob(j, suspended, label)
     \/ \E p \in PodNames : StartPod(p)
     \/ \E j \in DOMAIN jobs : \E p \in PodsOf(j) : WriteActive(j, p) \/ CountPod(j, p)
     \/ \E j \in DOMAIN jobs : \/ PassDeadline(j) \/ SuspendOrResume(j) \/ StopSuspended(j)
                               \/ DeleteJob(j)
     \/ \E p \in DOMAIN pods, phase \in {"Succeeded", "Failed"} : PodEnds(p, phase)
     \/ \E p \in DOMAIN pods : DeletePod(p) \/ RemovePod(p)
  /\ UNCHANGED <<at, err, jobFindings, podFindings, hist>>

Next == Scan \/ ClusterMoves

Spec == Init /\ [][Next]_vars

-----------------------------------------------------------------------------
(* Properties *)

TypeOK ==
  /\ jobs \in PartialFcns(Jobs, JobStates) /\ pods \in PartialFcns(PodNames, PodStates)
  /\ at \in {"jobs", "pods", "returned"} /\ err \in BOOLEAN
  /\ jobFindings \subseteq Jobs /\ podFindings \subseteq PodNames

Reported == at = "returned"

\* Every Job that had ended when Scan listed the Jobs is reported, successful or not,
\* except one whose deadline passed before any Pod of it could run to an end.
EndedJobIsReported ==
  Reported => \A j \in DOMAIN hist.jobs :
    hist.jobs[j].ended /\ hist.jobs[j].ignore # "true" =>
      j \in jobFindings \/ hist.jobs[j].succeeded + hist.jobs[j].failed = 0

\* job_pod.go:14 calls a Job with no active Pods left completed.  A reported Job that had
\* ended had no Pod running but one that was being deleted.  A reported Job that had not
\* ended was between two attempts: it had failed as often as its limit allows at most, had
\* not succeeded, and had, besides Pods that were being deleted, at most one running, the
\* next attempt, begun since the controller last wrote the Job's status.
OnlyRetryingJobIsReportedEarly ==
  Reported => \A j \in jobFindings :
    LET job == hist.jobs[j]
        running == {p \in DOMAIN hist.pods :
                      /\ p[1] = j
                      /\ hist.pods[p].phase = "Running" /\ ~hist.pods[p].deleted}
    IN  IF job.ended
        THEN running = {}
        ELSE /\ job.succeeded = 0 /\ job.failed \in 1..BackoffLimit
             /\ \A p \in running : hist.pods[p].tally = "none"
             /\ \A p, q \in running : p = q
=============================================================================

----------------------------- MODULE JobContract -----------------------------
(***************************************************************************)
(* What the scheduler may rely on of a harvest job, whatever its kind: the *)
(* life of the job's record and of its thread, with every status change    *)
(* that HarvestJob allows and no other.  JobScheduler implements it for    *)
(* each of its jobs, and so does a module that models a run() in detail.   *)
(***************************************************************************)
EXTENDS HarvestJob

CONSTANT Kind   \* the kind of job

VARIABLES
  job,      \* the job record
  thread,   \* "none", "started" (run() has not set a status yet) or "running"
  killing   \* kill() has tested runStatus and not assigned it yet

vars == <<job, thread, killing>>

Init ==
  /\ job \in {NewJob(s) : s \in HarvestStatus}
  /\ thread = "none"
  /\ killing = FALSE

\* The scheduler starts a job that has no thread.
Start ==
  /\ thread = "none"
  /\ thread' = "started"
  /\ UNCHANGED <<job, killing>>

JobBegins ==
  /\ thread = "started"
  /\ thread' = "running"
  /\ \E s \in MayBegin(Kind) : job' = SetStatus(job, s)
  /\ UNCHANGED killing

JobSetsStatus ==
  /\ thread = "running"
  /\ \E s \in MaySet(Kind, job.run) : job' \in {SetStatus(job, s), MarkForUpdate(SetStatus(job, s))}
  /\ UNCHANGED <<thread, killing>>

JobAsksForUpdate ==
  /\ thread = "running"
  /\ job' = MarkForUpdate(job)
  /\ UNCHANGED <<thread, killing>>

JobReturns ==
  /\ thread = "running"
  /\ job.run \in MayReturn(Kind, job.die)
  /\ job' = AtReturn(Kind, job)
  /\ thread' = "none"
  /\ UNCHANGED killing

KillBegin ==
  /\ ~killing
  /\ job' = KillRequested(job)
  /\ killing' = KillWillOverwrite(job)
  /\ UNCHANGED thread

KillFinish ==
  /\ killing
  /\ job' = KillOverwrite(job)
  /\ killing' = FALSE
  /\ UNCHANGED thread

NotifyFinish ==
  /\ job.run = "FINISHED" /\ ~killing
  /\ job' = FinishReceived(job)
  /\ UNCHANGED <<thread, killing>>

Persisted ==
  /\ job' = ClearUpdated(job)
  /\ UNCHANGED <<thread, killing>>

\* The container died, or the scheduler has made another job object, which it does not
\* start while a thread runs for this one.
Renew ==
  /\ thread = "none" \/ thread' = "none"
  /\ job' \in {NewJob(s) : s \in HarvestStatus}
  /\ thread' \in {"none", "started"}
  /\ killing' = FALSE

Next ==
  \/ Start \/ JobBegins \/ JobSetsStatus \/ JobAsksForUpdate \/ JobReturns
  \/ KillBegin \/ KillFinish \/ NotifyFinish \/ Persisted \/ Renew

Spec == Init /\ [][Next]_vars
=============================================================================

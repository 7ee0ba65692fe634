---------------------------- MODULE JobScheduler ----------------------------
(***************************************************************************)
(* The harvester's scheduler: SchedulerThread, JobScheduler and            *)
(* JobInstance, the row the Harvestable has in the database, the threads   *)
(* that run the jobs, and the outside world that edits, resets, deletes    *)
(* and stops jobs and that undeploys, crashes and redeploys the web        *)
(* application.                                                            *)
(*                                                                         *)
(* The jobs of the map are independent of each other but for an exception  *)
(* that ends the scheduler, so one Harvestable is modelled.  Over time it  *)
(* is served by several JobInstances: each edit makes the scheduler        *)
(* discard the current one and create another, and the thread of a         *)
(* discarded instance goes on until it notices that it was killed.         *)
(*                                                                         *)
(* What run() does to the storage is abstracted here to the statuses it    *)
(* assigns, by the operators of HarvestJob.                                *)
(***************************************************************************)
EXTENDS Naturals, HarvestJob

CONSTANTS
  Inst,          \* identities of JobInstance objects
  NoInst,        \* the map has no entry for the Harvestable
  NoRow,         \* the Harvestable is not in the database
  Kind,          \* the kind of job the Harvestable configures
  MaxEdits,      \* bound: number of edits that change lastUpdated
  MaxBoots,      \* bound: number of times the web application is deployed
  DbErrors,      \* may calls of the persistence layer fail?
  BadSchedules,  \* may a Harvestable have a schedule that does not parse?
  ServletKills,  \* may kill_job be sent to the status servlet?
  Deletes        \* may the Harvestable be deleted?

ASSUME KindAssumption == Kind \in JobKind
ASSUME InstAssumption == NoInst \notin Inst
ASSUME BoundsAssumption == MaxEdits \in Nat /\ MaxBoots \in Nat
ASSUME SwitchAssumption ==
  /\ DbErrors \in BOOLEAN /\ BadSchedules \in BOOLEAN
  /\ ServletKills \in BOOLEAN /\ Deletes \in BOOLEAN
ASSUME NoRowAssumption == NoRow \notin
  [status : HarvestStatus, version : Nat, immediate : BOOLEAN, enabled : BOOLEAN]

VARIABLES
  row,          \* the Harvestable in the database
  jobs,         \* the instance JobScheduler.jobs holds for the Harvestable
  job,          \* job[i]: the job record of instance i
  thread,       \* thread[i]: state of its harvesting thread
  killer,       \* killer[i]: who is inside kill() of i, between test and assignment
  last,         \* last[i]: JobInstance.lastHarvestStatus
  mem,          \* mem[i]: the instance's copy of the Harvestable
  enabled,      \* enabled[i]: JobInstance.enabled
  pc,           \* control of the scheduler thread
  pass,         \* which of the two checkJobs of a round is running
  keepRunning,  \* SchedulerThread.keepRunning
  brief,        \* the HarvestableBrief updateJobs is working from
  changed,      \* the result of statusChanged()
  failed,       \* history: an exception has ended the scheduler's loop
  edits,        \* number of lastUpdated stamps handed out
  boots         \* number of deployments

jobVars   == <<job, thread, killer>>
instVars  == <<jobs, last, mem, enabled>>
schedVars == <<pc, pass, keepRunning, brief, changed, failed>>
envVars   == <<edits, boots>>
vars == <<row, jobVars, instVars, schedVars, envVars>>

\* A status that is recorded is never null: it is the name() of one.
RowRecord == [status : HarvestStatus, version : 0..MaxEdits,
              immediate : BOOLEAN, enabled : BOOLEAN]

\* "none": there is no live thread; "started": Thread.start() has been called, run()
\* has not set a status yet; "running": it has.
ThreadState == {"none", "started", "running"}
Killer      == {"none", "scheduler", "servlet"}
SchedulerPC == {"new", "loop", "switch", "compare", "remember", "persist", "list",
                "match", "stopping", "killing", "exited", "down"}

BlankJob == [run |-> Null, job |-> Null, die |-> FALSE, updated |-> FALSE]
BlankRow == [status |-> "NEW", version |-> 0, immediate |-> FALSE, enabled |-> FALSE]

Alive(i)    == thread[i] \in {"started", "running"}
Current     == jobs # NoInst
SchedulerUp == pc \notin {"exited", "down"}

\* An instance object that nothing refers to any more.
Unused(i) == i # jobs /\ ~Alive(i) /\ killer[i] = "none"

TypeOK ==
  /\ row \in RowRecord \union {NoRow}
  /\ jobs \in Inst \union {NoInst}
  /\ job \in [Inst -> JobRecord]
  /\ thread \in [Inst -> ThreadState]
  /\ killer \in [Inst -> Killer]
  /\ last \in [Inst -> StatusOrNull]
  /\ mem \in [Inst -> RowRecord]
  /\ enabled \in [Inst -> BOOLEAN]
  /\ pc \in SchedulerPC
  /\ pass \in {1, 2}
  /\ keepRunning \in BOOLEAN
  /\ brief \in RowRecord \union {NoRow}
  /\ changed \in BOOLEAN
  /\ failed \in BOOLEAN
  /\ edits \in 0..MaxEdits
  /\ boots \in 0..MaxBoots

\* A job posted to the web service: status NEW, never run, the application
\* being deployed for the first time.
Init ==
  /\ row \in [status : {"NEW"}, version : {0}, immediate : BOOLEAN, enabled : BOOLEAN]
  /\ jobs = NoInst
  /\ job = [i \in Inst |-> BlankJob]
  /\ thread = [i \in Inst |-> "none"]
  /\ killer = [i \in Inst |-> "none"]
  /\ last = [i \in Inst |-> Null]
  /\ mem = [i \in Inst |-> BlankRow]
  /\ enabled = [i \in Inst |-> FALSE]
  /\ pc = "down"
  /\ pass = 1
  /\ keepRunning = FALSE
  /\ brief = NoRow
  /\ changed = FALSE
  /\ failed = FALSE
  /\ edits = 0
  /\ boots = 0

-----------------------------------------------------------------------------
(* Operations shared by the steps of the scheduler *)

\* dao.update swallows every exception, so a failed merge looks like any other;
\* merging a Harvestable whose row was deleted inserts it again.
Persist(m) == row' \in {m} \union (IF DbErrors THEN {row} ELSE {})

\* What is kept of the job of instance i: nothing once the scheduler has forgotten
\* the instance and no thread runs it or is inside its kill().
Kept(i, j) == IF i = jobs \/ Alive(i) THEN j ELSE BlankJob

\* The scheduler reads no field of an instance it has dropped.
Forget(i) ==
  /\ last' = [last EXCEPT ![i] = Null]
  /\ mem' = [mem EXCEPT ![i] = BlankRow]
  /\ enabled' = [enabled EXCEPT ![i] = FALSE]

\* kill(): the flag is set and runStatus tested; KillFinish does the assignment.
KillBegin(i, who) ==
  /\ killer[i] = "none"
  /\ job' = [job EXCEPT ![i] = KillRequested(@)]
  /\ killer' = [killer EXCEPT ![i] = IF KillWillOverwrite(job[i]) THEN who ELSE "none"]

KillFinish(i) ==
  /\ killer[i] # "none"
  /\ job' = [job EXCEPT ![i] = Kept(i, KillOverwrite(@))]
  /\ killer' = [killer EXCEPT ![i] = "none"]
  /\ UNCHANGED <<row, thread, instVars, schedVars, envVars>>

\* The scheduler thread is not inside kill().
Free == \A i \in Inst : killer[i] # "scheduler"

\* Mutant: the thread is not asked whether it is alive.
StartAgain(i) == thread' = [thread EXCEPT ![i] = "started"]

\* start() of the current instance: nothing happens while its thread is alive.
Start(i) == thread' = [thread EXCEPT ![i] = IF Alive(i) THEN @ ELSE "started"]

Goto(l) == pc' = l

\* An exception reaches SchedulerThread.run.
Throw ==
  /\ failed' = TRUE
  /\ keepRunning' = FALSE
  /\ brief' = NoRow
  /\ pass' = 1
  /\ changed' = FALSE
  /\ Goto("loop")

-----------------------------------------------------------------------------
(* SchedulerThread.run *)

\* keepRunning is assigned by run() itself: a kill() that came first is lost.
RunBegin ==
  /\ pc = "new"
  /\ keepRunning' = TRUE
  /\ Goto("loop")
  /\ UNCHANGED <<row, jobVars, instVars, pass, brief, changed, failed, envVars>>

\* Mutant: the loop does not test keepRunning.
LoopForever ==
  /\ pc = "loop" /\ Free
  /\ Goto("switch")
  /\ UNCHANGED <<row, jobVars, instVars, pass, keepRunning, brief, changed, failed, envVars>>

\* One turn of the loop: sleep a second, then checkJobs, updateJobs, checkJobs.
Loop ==
  /\ pc = "loop" /\ Free
  /\ Goto(IF keepRunning THEN "switch" ELSE "stopping")
  /\ UNCHANGED <<row, jobVars, instVars, pass, keepRunning, brief, changed, failed, envVars>>

\* checkJobs returns, to updateJobs or to the loop.
EndCheck ==
  /\ Goto(IF pass = 1 THEN "list" ELSE "loop")
  /\ pass' = 1

-----------------------------------------------------------------------------
(* JobScheduler.checkJobs *)

CheckNothing ==
  /\ pc = "switch" /\ ~Current
  /\ EndCheck
  /\ UNCHANGED <<row, jobVars, instVars, keepRunning, brief, changed, failed, envVars>>

\* The end of the run is acknowledged and the whole Harvestable merged.  kill()
\* and finishReceived() exclude each other.
NotifyFinish ==
  /\ pc = "switch" /\ Current
  /\ job[jobs].run = "FINISHED" /\ killer[jobs] = "none"
  /\ job' = [job EXCEPT ![jobs] = FinishReceived(@)]
  /\ Persist(mem[jobs])
  /\ Goto("compare")
  /\ UNCHANGED <<thread, killer, instVars, pass, keepRunning, brief, changed, failed, envVars>>

\* timeToRun(): a pending "run now" is consumed; otherwise an enabled job runs
\* when the clock matches its schedule, which is up to the environment.
CheckTime ==
  /\ pc = "switch" /\ Current
  /\ job[jobs].run \in {"ERROR", "WARN", "NEW", "OK"}
  /\ \/ /\ mem[jobs].immediate
        /\ mem' = [mem EXCEPT ![jobs].immediate = FALSE]
        /\ Start(jobs)
     \/ /\ ~mem[jobs].immediate /\ mem[jobs].enabled
        /\ Start(jobs)
        /\ UNCHANGED mem
     \/ /\ ~mem[jobs].immediate
        /\ UNCHANGED <<mem, thread>>
  /\ Goto("compare")
  /\ UNCHANGED <<row, job, killer, jobs, last, enabled, pass, keepRunning, brief,
                 changed, failed, envVars>>

\* start() reads the job's storage from the database again, which may throw.
StartFails ==
  /\ pc = "switch" /\ Current /\ DbErrors
  /\ ~Alive(jobs)
  /\ \/ /\ job[jobs].run \in {"ERROR", "WARN", "NEW", "OK"}
        /\ mem[jobs].immediate \/ mem[jobs].enabled
     \/ job[jobs].run = "SHUTDOWN" /\ enabled[jobs]
  /\ mem' = IF job[jobs].run = "SHUTDOWN" THEN mem
                                          ELSE [mem EXCEPT ![jobs].immediate = FALSE]
  /\ Throw
  /\ UNCHANGED <<row, jobVars, jobs, last, enabled, envVars>>

CheckShutdown ==
  /\ pc = "switch" /\ Current
  /\ job[jobs].run = "SHUTDOWN"
  /\ IF enabled[jobs] THEN Start(jobs) ELSE UNCHANGED thread
  /\ Goto("compare")
  /\ UNCHANGED <<row, job, killer, instVars, pass, keepRunning, brief, changed, failed, envVars>>

CheckRunningOrKilled ==
  /\ pc = "switch" /\ Current
  /\ job[jobs].run \in {"RUNNING", "KILLED"}
  /\ Goto("compare")
  /\ UNCHANGED <<row, jobVars, instVars, pass, keepRunning, brief, changed, failed, envVars>>

\* statusChanged() reads the status twice: once to compare it with the one seen
\* last, once to remember it.
Compare ==
  /\ pc = "compare"
  /\ changed' = (last[jobs] # job[jobs].run)
  /\ Goto("remember")
  /\ UNCHANGED <<row, jobVars, instVars, pass, keepRunning, brief, failed, envVars>>

Remember ==
  /\ pc = "remember"
  /\ last' = [last EXCEPT ![jobs] = job[jobs].run]
  /\ Goto("persist")
  /\ UNCHANGED <<row, jobVars, jobs, mem, enabled, pass, keepRunning, brief, changed,
                 failed, envVars>>

\* Mutant: a status that is null is recorded like any other.
PersistAnything ==
  /\ pc = "persist"
  /\ LET m == IF changed THEN [mem[jobs] EXCEPT !.status = job[jobs].run] ELSE mem[jobs]
     IN  /\ mem' = [mem EXCEPT ![jobs] = m]
         /\ IF changed \/ job[jobs].updated THEN Persist(m) ELSE UNCHANGED row
  /\ job' = [job EXCEPT ![jobs] = ClearUpdated(@)]
  /\ changed' = FALSE
  /\ EndCheck
  /\ UNCHANGED <<thread, killer, jobs, last, enabled, keepRunning, brief, failed, envVars>>

\* checkUpdate reads the status a third time, to copy it to the Harvestable.  The
\* Harvestable is merged when status or message have changed or the job asks.  The message changes
\* while the thread runs; a thread that returns asks, but for the web crawl's.
PersistChanges ==
  /\ pc = "persist"
  /\ ~(changed /\ job[jobs].run = Null)
  /\ \E messageChanged \in IF Alive(jobs) \/ Kind = "Web" THEN BOOLEAN ELSE {FALSE} :
       LET m == IF changed THEN [mem[jobs] EXCEPT !.status = job[jobs].run] ELSE mem[jobs]
       IN  /\ mem' = [mem EXCEPT ![jobs] = m]
           /\ IF changed \/ messageChanged \/ job[jobs].updated
                THEN Persist(m) ELSE UNCHANGED row
  /\ job' = [job EXCEPT ![jobs] = ClearUpdated(@)]
  /\ changed' = FALSE
  /\ EndCheck
  /\ UNCHANGED <<thread, killer, jobs, last, enabled, keepRunning, brief, failed, envVars>>

\* name() of a null status.  The switch would throw as well, but a status that
\* has become null never gets past this line.
PersistNull ==
  /\ pc = "persist"
  /\ changed /\ job[jobs].run = Null
  /\ Throw
  /\ UNCHANGED <<row, jobVars, instVars, envVars>>

-----------------------------------------------------------------------------
(* JobScheduler.updateJobs *)

\* updateJobs returns, its local variables are gone; the second checkJobs follows.
EndUpdate == brief' = NoRow /\ pass' = 2 /\ Goto("switch")

\* The list of briefs, one row here.
ListBriefs ==
  /\ pc = "list"
  /\ brief' = row
  /\ Goto("match")
  /\ UNCHANGED <<row, jobVars, instVars, pass, keepRunning, changed, failed, envVars>>

\* retrieveBriefs logs an exception and returns null, and the job list is left as
\* it is; getCount, called before it, does not catch anything.
ListFails ==
  /\ pc = "list" /\ DbErrors
  /\ \/ EndUpdate /\ UNCHANGED <<keepRunning, changed, failed>>
     \/ Throw
  /\ UNCHANGED <<row, jobVars, instVars, envVars>>

\* The listed job has the parameters that the instance knows.
Unedited == brief # NoRow /\ brief.version = mem[jobs].version

\* The instance is kept when the job's parameters have not changed.
KeepInstance ==
  /\ pc = "match" /\ Current
  /\ Unedited
  /\ EndUpdate
  /\ UNCHANGED <<row, jobVars, instVars, keepRunning, changed, failed, envVars>>

\* Mutant: the instance is forgotten and its thread is not told to stop.
DiscardUnstopped ==
  /\ pc = "match" /\ Current
  /\ ~Unedited
  /\ killer[jobs] = "none"
  /\ jobs' = NoInst
  /\ Forget(jobs)
  /\ UNCHANGED <<row, jobVars, schedVars, envVars>>

\* Its parameters have changed, or its row is gone: it is killed and forgotten,
\* and its thread is not waited for.
DiscardInstance ==
  /\ pc = "match" /\ Current
  /\ ~Unedited
  /\ killer[jobs] = "none"
  /\ jobs' = NoInst
  /\ job' = [job EXCEPT ![jobs] = IF Alive(jobs) \/ KillWillOverwrite(@)
                                   THEN KillRequested(@) ELSE BlankJob]
  /\ killer' = [killer EXCEPT ![jobs] = IF KillWillOverwrite(job[jobs]) THEN "scheduler"
                                                                       ELSE "none"]
  /\ Forget(jobs)
  /\ UNCHANGED <<row, thread, schedVars, envVars>>

NoInstanceNoRow ==
  /\ pc = "match" /\ ~Current /\ Free
  /\ brief = NoRow
  /\ EndUpdate
  /\ UNCHANGED <<row, jobVars, instVars, keepRunning, changed, failed, envVars>>

\* A new instance of the Harvestable as it is in the database now, whose list
\* entry is the brief.
NewInstance(i) ==
  /\ Unused(i)
  /\ jobs' = i
  /\ job' = [job EXCEPT ![i] = NewJob(row.status)]
  /\ mem' = [mem EXCEPT ![i] = row]
  /\ last' = [last EXCEPT ![i] = row.status]
  /\ enabled' = [enabled EXCEPT ![i] = brief.enabled]

Listed == pc = "match" /\ ~Current /\ Free /\ brief # NoRow

\* Mutant: a job that was running when the web application stopped is not started.
CreateIdle ==
  /\ Listed /\ row # NoRow
  /\ \E i \in Inst : NewInstance(i)
  /\ EndUpdate
  /\ UNCHANGED <<row, thread, killer, keepRunning, changed, failed, envVars>>

\* The new instance is started at once if the brief says that it was running.
CreateInstance ==
  /\ Listed /\ row # NoRow
  /\ \E i \in Inst :
       /\ NewInstance(i)
       /\ thread' = [thread EXCEPT ![i] = IF brief.status = "RUNNING" THEN "started" ELSE @]
  /\ EndUpdate
  /\ UNCHANGED <<row, killer, keepRunning, changed, failed, envVars>>

\* The constructor of the instance does not take the schedule: this is logged, and
\* the brief is passed over.
CreateNothing ==
  /\ Listed /\ row # NoRow /\ BadSchedules
  /\ EndUpdate
  /\ UNCHANGED <<row, jobVars, instVars, keepRunning, changed, failed, envVars>>

\* start() throws; the instance is already in the job list.
CreateStartFails ==
  /\ Listed /\ row # NoRow
  /\ DbErrors /\ brief.status = "RUNNING"
  /\ \E i \in Inst : NewInstance(i)
  /\ Throw
  /\ UNCHANGED <<row, thread, killer, envVars>>

\* The row was deleted since it was listed, or cannot be read: an exception.
CreateFails ==
  /\ Listed /\ (row = NoRow \/ DbErrors)
  /\ Throw
  /\ UNCHANGED <<row, jobVars, instVars, envVars>>

-----------------------------------------------------------------------------
(* JobScheduler.stopAllJobs *)

\* Mutant: the Harvestable is not persisted.
ShutdownUnrecorded ==
  /\ pc = "stopping"
  /\ Goto(IF ~Current THEN "exited" ELSE "killing")
  /\ mem' = IF Current THEN [mem EXCEPT ![jobs].status = "SHUTDOWN"] ELSE mem
  /\ UNCHANGED <<row, jobVars, jobs, last, enabled, pass, keepRunning, brief, changed, failed, envVars>>

\* A running job is recorded as SHUTDOWN.  A null status throws, outside the try
\* of SchedulerThread.run.
RecordShutdown ==
  /\ pc = "stopping"
  /\ IF ~Current \/ (Current /\ job[jobs].run = Null)
       THEN Goto("exited") /\ UNCHANGED <<row, mem>>
       ELSE /\ Goto("killing")
            /\ IF job[jobs].run = "RUNNING"
                 THEN /\ mem' = [mem EXCEPT ![jobs].status = "SHUTDOWN"]
                      /\ Persist(mem'[jobs])
                 ELSE UNCHANGED <<row, mem>>
  /\ UNCHANGED <<jobVars, jobs, last, enabled, pass, keepRunning, brief, changed, failed, envVars>>

\* Mutant: the jobs go on after the scheduler.
LeaveRunning ==
  /\ pc = "killing"
  /\ Goto("exited")
  /\ UNCHANGED <<row, jobVars, instVars, pass, keepRunning, brief, changed, failed, envVars>>

KillAll ==
  /\ pc = "killing"
  /\ KillBegin(jobs, "scheduler")
  /\ Goto("exited")
  /\ UNCHANGED <<row, thread, instVars, pass, keepRunning, brief, changed, failed, envVars>>

-----------------------------------------------------------------------------
(* The harvesting thread of instance i *)

JobBegins(i) ==
  /\ thread[i] = "started"
  /\ \E s \in MayBegin(Kind) : job' = [job EXCEPT ![i] = SetStatus(@, s)]
  /\ thread' = [thread EXCEPT ![i] = "running"]
  /\ UNCHANGED <<row, killer, instVars, schedVars, envVars>>

JobSetsStatus(i) ==
  /\ thread[i] = "running"
  /\ \E s \in MaySet(Kind, job[i].run) : job' = [job EXCEPT ![i] = SetStatus(@, s)]
  /\ UNCHANGED <<row, thread, killer, instVars, schedVars, envVars>>

JobReturns(i) ==
  /\ thread[i] = "running"
  /\ job[i].run \in MayReturn(Kind, job[i].die)
  /\ job' = [job EXCEPT ![i] = IF i = jobs THEN AtReturn(Kind, @) ELSE BlankJob]
  /\ thread' = [thread EXCEPT ![i] = "none"]
  /\ UNCHANGED <<row, killer, instVars, schedVars, envVars>>

-----------------------------------------------------------------------------
(* The outside world *)

\* PUT on the web service: the whole Harvestable, with a new lastUpdated stamp and
\* the status NEW.  Save, run and stop of the admin console are such edits, too: the
\* console stamps the Harvestable and sends it to the web service.
AdminPut ==
  /\ row # NoRow /\ edits < MaxEdits
  /\ edits' = edits + 1
  /\ \E immediate, enable \in BOOLEAN :
       row' = [status |-> "NEW", version |-> edits + 1,
               immediate |-> immediate, enabled |-> enable]
  /\ UNCHANGED <<jobVars, instVars, schedVars, boots>>

\* GET reset/ on the web service: the status becomes NEW, lastUpdated stays.
AdminReset ==
  /\ row # NoRow
  /\ row' = [row EXCEPT !.status = "NEW"]
  /\ UNCHANGED <<jobVars, instVars, schedVars, envVars>>

AdminDelete ==
  /\ Deletes /\ row # NoRow
  /\ row' = NoRow
  /\ UNCHANGED <<jobVars, instVars, schedVars, envVars>>

\* kill_job of the status servlet, whatever the state of the job.
StopJob ==
  /\ ServletKills /\ SchedulerUp /\ Current
  /\ KillBegin(jobs, "servlet")
  /\ UNCHANGED <<row, thread, instVars, schedVars, envVars>>

\* shutdown of the status servlet, and contextDestroyed.
Shutdown ==
  /\ SchedulerUp
  /\ keepRunning' = FALSE
  /\ UNCHANGED <<row, jobVars, instVars, pc, pass, brief, changed, failed, envVars>>

\* The servlet container dies, and every thread with it.
Crash ==
  /\ pc # "down"
  /\ jobs' = NoInst
  /\ job' = [i \in Inst |-> BlankJob]
  /\ thread' = [i \in Inst |-> "none"]
  /\ killer' = [i \in Inst |-> "none"]
  /\ last' = [i \in Inst |-> Null]
  /\ mem' = [i \in Inst |-> BlankRow]
  /\ enabled' = [i \in Inst |-> FALSE]
  /\ keepRunning' = FALSE
  /\ pass' = 1
  /\ brief' = NoRow
  /\ changed' = FALSE
  /\ Goto("down")
  /\ UNCHANGED <<row, failed, envVars>>

\* contextInitialized: a new scheduler with an empty job list.  After a shutdown in
\* the same container, threads of the former one may still be winding down.
Deploy ==
  /\ pc \in {"exited", "down"} /\ Free
  /\ boots < MaxBoots
  /\ boots' = boots + 1
  /\ failed' = FALSE
  /\ jobs' = NoInst
  /\ IF Current
       THEN /\ job' = [job EXCEPT ![jobs] = IF Alive(jobs) THEN @ ELSE BlankJob]
            /\ Forget(jobs)
       ELSE UNCHANGED <<job, last, mem, enabled>>
  /\ Goto("new")
  /\ UNCHANGED <<row, thread, killer, pass, keepRunning, brief, changed, edits>>

-----------------------------------------------------------------------------
SchedulerStep ==
  \/ RunBegin \/ Loop
  \/ CheckNothing \/ NotifyFinish \/ CheckTime \/ StartFails \/ CheckShutdown
  \/ CheckRunningOrKilled
  \/ Compare \/ Remember \/ PersistChanges \/ PersistNull
  \/ ListBriefs \/ ListFails \/ KeepInstance \/ DiscardInstance
  \/ NoInstanceNoRow \/ CreateInstance \/ CreateNothing \/ CreateStartFails \/ CreateFails
  \/ RecordShutdown \/ KillAll

ThreadStep(i) == JobBegins(i) \/ JobSetsStatus(i) \/ JobReturns(i)

Environment ==
  AdminPut \/ AdminReset \/ AdminDelete \/ StopJob \/ Shutdown \/ Crash \/ Deploy

Next ==
  \/ SchedulerStep
  \/ \E i \in Inst : ThreadStep(i) \/ KillFinish(i)
  \/ Environment

Spec == Init /\ [][Next]_vars

(***************************************************************************)
(* Fairness: the JVM schedules the scheduler thread and every thread that  *)
(* is inside kill() or run(); run() returns after finitely many status     *)
(* assignments, the bulk job's alternation of WARN and OK, one per URL,    *)
(* included.  Nothing is assumed of the environment.                       *)
(***************************************************************************)
Fairness ==
  /\ WF_vars(SchedulerStep)
  /\ \A i \in Inst :
       WF_vars(KillFinish(i)) /\ WF_vars(ThreadStep(i)) /\ SF_vars(JobReturns(i))

FairSpec == Spec /\ Fairness

-----------------------------------------------------------------------------
(* What the scheduler guarantees *)

\* The thread of a job that the scheduler no longer lists (its parameters were
\* edited, its row was deleted, or its scheduler has stopped) has been told to
\* stop: so at most one thread harvests for the Harvestable without having been
\* killed.  JobScheduler.updateJobs and stopAllJobs.
OrphansKilled == \A i \in Inst : i # jobs /\ Alive(i) => job[i].die

\* A job whose status is RUNNING has a thread, or the scheduler waits for ever for
\* the end of a run that is not there: checkJobs does nothing for a RUNNING job.
RunningHasThread == SchedulerUp /\ Current /\ job[jobs].run = "RUNNING" => Alive(jobs)

\* What is in the database for the version of the job that the scheduler works with
\* is what the scheduler believes, but for a status that was put back to NEW behind
\* its back.  It is what makes a crash recoverable: contextInitialized has nothing
\* but the row.  JobScheduler.checkJobs, stopAllJobs.
RowAsRemembered ==
  Current /\ row # NoRow /\ row.version = mem[jobs].version
    => row.status \in {mem[jobs].status, "NEW"}

\* A job that the scheduler finds at its start marked as RUNNING, or as SHUTDOWN and
\* enabled, is harvested again, unless someone puts its row back to NEW first or the
\* scheduler stops.  updateJobs (RUNNING), checkJobs (SHUTDOWN).
Interrupted ==
  /\ row # NoRow
  /\ row.status = "RUNNING" \/ (row.status = "SHUTDOWN" /\ row.enabled)
InterruptedRunResumes ==
  pc = "new" /\ Interrupted
    ~> (Current /\ Alive(jobs)) \/ ~SchedulerUp \/ row = NoRow \/ row.status = "NEW"

\* Every run ends and its end is acknowledged: a job that is RUNNING or FINISHED comes
\* back to a status from which it can be started again, and to having no thread,
\* unless it is discarded, killed or the scheduler stops.  checkJobs (FINISHED),
\* finishReceived.
Startable == {"NEW", "OK", "WARN", "ERROR"}
RunIsAcknowledged ==
  \A i \in Inst :
    jobs = i /\ job[i].run \in {"RUNNING", "FINISHED"}
      ~> \/ jobs # i \/ job[i].die \/ ~SchedulerUp
         \/ job[i].run \in Startable /\ ~Alive(i)

\* A scheduler told to stop does stop, once it runs.  SchedulerThread.run, kill.
StopIsObeyed == pc \notin {"new", "down"} /\ ~keepRunning ~> ~SchedulerUp

-----------------------------------------------------------------------------
(***************************************************************************)
(* The inductive invariant behind OrphansKilled.  What is at stake is the  *)
(* scheduler leaving without killing the thread of its current job, which  *)
(* it does when that job's status is null: stopAllJobs throws.  So no live *)
(* thread may belong to a job with a null status, nor to one that          *)
(* finishReceived could give a null status.                                *)
(***************************************************************************)

\* Inside the body of a loop over the jobs there is a job.
LoopHasJob == pc \in {"compare", "remember", "persist", "killing"} => Current

\* While updateJobs works from the list, only the administrator changes the row.
ListIsFresh ==
  pc = "match" /\ brief # NoRow /\ row # NoRow => row.status \in {brief.status, "NEW"}

\* A jobStatus is there whenever runStatus may become it.
JobStatusIsSet ==
  \A i \in Inst :
    /\ job[i].run \notin {Null, "FINISHED"} => job[i].job # Null
    /\ killer[i] # "none" /\ i = jobs => job[i].job # Null
    /\ Alive(i) => job[i].run # Null /\ job[i].job # Null

\* Leaving, the scheduler has killed its job; nothing runs in a dead container.
StoppedIsKilled ==
  /\ pc = "exited" /\ Current /\ Alive(jobs) => job[jobs].die
  /\ pc = "down" => \A i \in Inst : ~Alive(i)

IInv ==
  /\ TypeOK /\ LoopHasJob /\ ListIsFresh /\ JobStatusIsSet
  /\ StoppedIsKilled /\ OrphansKilled

(***************************************************************************)
(* The inductive invariant behind RunningHasThread, for the kinds of job   *)
(* whose run() sets a status of its own before FINISHED and does not       *)
(* return RUNNING.  A kill may break it, as FINISHED then comes without a  *)
(* status to go back to, and so may a start() that throws.                 *)
(***************************************************************************)

\* Nobody but the scheduler kills a job, and only when it drops the job or leaves.
ListedIsUnkilled ==
  SchedulerUp /\ Current => ~job[jobs].die /\ killer[jobs] = "none"

\* finishReceived will not make the job RUNNING, as its run has set OK, WARN or ERROR.
JobStatusIsOwn ==
  SchedulerUp /\ Current =>
    /\ job[jobs].run \notin {"FINISHED", "KILLED"} => job[jobs].job = job[jobs].run
    /\ job[jobs].run = "FINISHED" => job[jobs].job \notin {"RUNNING", "KILLED"}
    /\ job[jobs].run = "KILLED" => ~Alive(jobs)

RunningIInv == ListedIsUnkilled /\ JobStatusIsOwn /\ RunningHasThread

(***************************************************************************)
(* The contract.  The job of an instance that the scheduler lists or whose *)
(* thread lives is as JobContract has it; any other instance is an object  *)
(* that nobody refers to.                                                  *)
(***************************************************************************)
InUse(i) == i = jobs \/ Alive(i)

Contract(i) == INSTANCE JobContract WITH
  job     <- IF InUse(i) THEN job[i] ELSE NewJob("NEW"),
  thread  <- thread[i],
  killing <- InUse(i) /\ killer[i] # "none"

\* The scheduler calls each of its jobs only as the contract has it, whoever kills,
\* edits or deploys: it starts none that has a thread, acknowledges none whose status a
\* kill() is about to assign, and makes none without a status.  So what is shown of a
\* job that keeps the contract holds for it under this scheduler.  JobInstance.start,
\* stop and notifyFinish, JobScheduler.checkJobs, updateJobs and stopAllJobs.
CallsKeepContract ==
  /\ \A i \in Inst : Contract(i)!Init
  /\ [][\A i \in Inst : [Contract(i)!Next]_(Contract(i)!vars)]_vars
=============================================================================

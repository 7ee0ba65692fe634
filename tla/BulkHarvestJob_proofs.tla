------------------------ MODULE BulkHarvestJob_proofs ------------------------
(***************************************************************************)
(* Proofs, for any list of files, any bound of the clock and any number of *)
(* faults, kills, edits, restarts and crashes, of                          *)
(*   Invariance      Spec => []IInv                                        *)
(*   KeepsContract   Spec => ContractHolds                                 *)
(*   TypeCorrect     Spec => []TypeOK                                      *)
(*   DatesAreBehind  Spec => []DateIsBehind                                *)
(*   SkipsNothing    Spec => []NoFileSkipped                               *)
(*                                                                         *)
(* For the first two, a step of run() leaves the job record alone, or sets *)
(* a status that BulkMaySet has for the place; what the files and the      *)
(* storage do does not matter.  For the last two, it is what they do that  *)
(* does: a file that is older than the date of the job object is in the    *)
(* index, no operation of a run touches it, and the start of a run becomes *)
(* the date of a job object only after that run has claimed to have        *)
(* harvested all that it has not met an error with.                        *)
(***************************************************************************)
EXTENDS BulkHarvestJob, HarvestJob_proofs, TLAPS

\* The statuses of a job record, which are null or known.
LEMMA Statuses ==
  ASSUME IInv
  PROVE  job.run \in HarvestStatus /\ job.job \in StatusOrNull /\ job.die \in BOOLEAN
BY DEF IInv, JobRecord, StatusOrNull

\* A job begins with no status but the one it was constructed with.
LEMMA InitIInv == Init => IInv
<1> SUFFICES ASSUME Init PROVE IInv
  OBVIOUS
<1>1. job = NewJob("NEW") /\ row.status = "NEW" /\ "NEW" \in HarvestStatus
  BY DEF Init, HarvestStatus
<1>2. job \in JobRecord /\ job.run # Null /\ job.job # Null
  BY <1>1, NewJobStatus DEF HarvestStatus, Null
<1>3. QED
  BY <1>1, <1>2 DEF Init, IInv

\* Setting a status within run() keeps jobStatus in step.
LEMMA StatusIsSet ==
  ASSUME IInv, thread = "running", NEW s \in {"OK", "WARN", "ERROR"}
  PROVE  LET j == SetStatus(job, s)
         IN  /\ j \in JobRecord /\ j.run = s /\ j.job = s /\ j.die = job.die
             /\ job.run = s => j = job
BY DEF IInv, JobStatusFollows, SetStatus, JobRecord, StatusOrNull, HarvestStatus

-----------------------------------------------------------------------------
(* The steps of run() that leave the job record alone *)

\* They go from a place to one that allows the same status, or more.
LEMMA SilentSteps ==
  ASSUME IInv,
         \/ BeginStorage \/ PurgeStorage \/ BeginFails
         \/ \E u \in Url : StoreFile(u) \/ FileFails(u) \/ StoreFails(u)
         \/ AfterStoreFails \/ LeaveList \/ After \/ Finish \/ Rollback \/ RollbackFails
  PROVE  IInv' /\ UNCHANGED Contract!vars
<1>1. UNCHANGED <<job, thread, killing, row, sched>>
  BY DEF BeginStorage, PurgeStorage, BeginFails, StoreFile, FileFails, StoreFails,
         AfterStoreFails, LeaveList, After, Finish, Rollback, RollbackFails, RunOnly, Elsewhere, schedVars
<1>2. \/ pc' = pc
      \/ thread = "started" /\ pc' \in {"purge", "begin", "exception", "storageError"}
      \/ thread = "running" /\ job.run \in StatusAt(pc')
  <2>1. CASE BeginStorage \/ PurgeStorage \/ BeginFails
    BY <2>1 DEF BeginStorage, PurgeStorage, BeginFails, Goto, IInv, StatusAt
  <2>2. CASE \E u \in Url : StoreFile(u) \/ FileFails(u) \/ StoreFails(u)
    <3>1. pc = "list" /\ pc' \in {"list", "exception", "failed"}
      BY <2>2 DEF StoreFile, FileFails, StoreFails, Listing, Goto
    <3>2. QED
      BY <3>1 DEF IInv, StatusAt
  <2>3. CASE AfterStoreFails \/ LeaveList \/ After
    <3>1. \/ pc \in {"failed", "list"} /\ pc' \in {"after", "list", "storageError"}
          \/ pc = "after" /\ pc' = "makeOk" /\ job.run = "RUNNING"
          \/ pc = "after" /\ pc' = "decide" /\ job.run # "RUNNING"
      BY <2>3 DEF AfterStoreFails, LeaveList, After, Goto
    <3>2. QED
      BY <3>1 DEF IInv, StatusAt
  <2>4. CASE Finish \/ Rollback \/ RollbackFails
    <3>1. \/ pc = "finish" /\ pc' = "return" /\ job.run \in {"WARN", "ERROR"}
          \/ pc = "finish" /\ pc' = "setFinished" /\ job.run \notin {"WARN", "ERROR"}
          \/ pc = "rollback" /\ pc' \in {"return", "exception", "storageError"}
      BY <2>4 DEF Finish, Rollback, RollbackFails, Goto
    <3>2. QED
      BY <3>1 DEF IInv, StatusAt, MayReturn
  <2>5. QED
    BY <2>1, <2>2, <2>3, <2>4
<1>3. IInv'
  BY <1>1, <1>2 DEF IInv, StatusAt, JobStatusFollows
<1>4. QED
  BY <1>1, <1>3 DEF Contract!vars

-----------------------------------------------------------------------------
(* The steps of run() that set a status *)

\* The contract has the operators on job records from the same module.
LEMMA ContractOperators ==
  /\ Contract!HarvestStatus = HarvestStatus
  /\ \A j, s : Contract!SetStatus(j, s) = SetStatus(j, s)
  /\ \A s : Contract!NewJob(s) = NewJob(s)
  /\ \A j : /\ Contract!MarkForUpdate(j) = MarkForUpdate(j)
            /\ Contract!ClearUpdated(j) = ClearUpdated(j)
            /\ Contract!FinishReceived(j) = FinishReceived(j)
            /\ Contract!KillRequested(j) = KillRequested(j)
            /\ Contract!KillWillOverwrite(j) = KillWillOverwrite(j)
            /\ Contract!KillOverwrite(j) = KillOverwrite(j)
            /\ Contract!AtReturn("Bulk", j) = AtReturn("Bulk", j)
  /\ \A d : Contract!MayReturn("Bulk", d) = MayReturn("Bulk", d)
  /\ \A s : Contract!MaySet("Bulk", s) = BulkMaySet(s)
  /\ Contract!MayBegin("Bulk") = {"RUNNING", "ERROR"}
BY DEF Contract!HarvestStatus, HarvestStatus, Contract!SetStatus, SetStatus,
       Contract!NewJob, NewJob, Contract!Null, Null, Contract!MarkForUpdate, MarkForUpdate,
       Contract!ClearUpdated, ClearUpdated, Contract!FinishReceived, FinishReceived,
       Contract!KillRequested, KillRequested, Contract!KillWillOverwrite, KillWillOverwrite,
       Contract!KillOverwrite, KillOverwrite, Contract!AtReturn, AtReturn,
       Contract!MayReturn, MayReturn, Contract!MaySet, Contract!BulkMaySet, BulkMaySet,
       Contract!MayBegin

\* What keeps the invariant when a step of run() sets OK, WARN or ERROR, with or
\* without asking for an update, or leaves the status as it is.
LEMMA StatusStep ==
  ASSUME IInv, thread = "running", UNCHANGED <<thread, killing, row, sched>>,
         NEW s \in {"OK", "WARN", "ERROR"}, s \in BulkMaySet(job.run) \/ s = job.run,
         job' \in {SetStatus(job, s), MarkForUpdate(SetStatus(job, s))},
         s \in StatusAt(pc')
  PROVE  IInv' /\ [Contract!Next]_Contract!vars
<1> DEFINE j == SetStatus(job, s)
<1>1. /\ j \in JobRecord /\ j.run = s /\ j.job = s /\ j.die = job.die
      /\ job.run = s => j = job
  BY StatusIsSet
<1>2. job' \in JobRecord /\ job'.run = s /\ job'.job = s /\ job'.die = job.die
  BY <1>1, MarkIsUpdate
<1>3. IInv'
  <2>1. s # Null /\ s \notin {"FINISHED", "KILLED"}
    BY DEF Null
  <2>2. StatusAt(pc)' = StatusAt(pc') \/ pc' = "return"
    BY DEF StatusAt
  <2>3. pc' = "return" => s \in StatusAt(pc)'
    BY DEF StatusAt, MayReturn
  <2>4. QED
    BY <1>2, <2>1, <2>2, <2>3 DEF IInv, JobStatusFollows
<1>4. CASE job.run # s
  <2>1. Contract!JobSetsStatus
    BY <1>4, ContractOperators DEF Contract!JobSetsStatus
  <2>2. QED
    BY <1>3, <2>1 DEF Contract!Next
<1>5. CASE job.run = s
  <2>1. job' = job \/ Contract!JobAsksForUpdate
    BY <1>1, <1>5, ContractOperators DEF Contract!JobAsksForUpdate
  <2>2. QED
    BY <1>3, <2>1 DEF Contract!Next, Contract!vars
<1>6. QED
  BY <1>4, <1>5

\* The list: a URL with nothing new is OK, one that fails may be a WARN.
LEMMA ListSteps ==
  ASSUME IInv, \E u \in Url : NotModified(u) \/ RequestFails(u)
  PROVE  IInv' /\ [Contract!Next]_Contract!vars
<1>1. pc = "list" /\ UNCHANGED <<thread, killing, row, sched>>
  BY DEF NotModified, RequestFails, Listing, Elsewhere, schedVars
<1>2. thread = "running" /\ job.run \in {"RUNNING", "OK", "WARN", "KILLED"}
  BY <1>1 DEF IInv, StatusAt
<1>3. CASE \E s \in {"OK", "WARN"} : job' = SetStatus(job, s) /\ pc' = pc
  <2>1. PICK s \in {"OK", "WARN"} : job' = SetStatus(job, s) /\ pc' = pc
    BY <1>3
  <2>2. (s \in BulkMaySet(job.run) \/ s = job.run) /\ s \in StatusAt(pc')
    BY <1>1, <1>2, <2>1 DEF BulkMaySet, StatusAt
  <2>3. QED
    BY <1>1, <1>2, <2>1, <2>2, StatusStep
<1>4. CASE job' = job /\ pc' = "exception"
  <2>1. UNCHANGED Contract!vars
    BY <1>1, <1>4 DEF Contract!vars
  <2>2. IInv'
    BY <1>1, <1>2, <1>4 DEF IInv, StatusAt, JobStatusFollows
  <2>3. QED
    BY <2>1, <2>2
<1>5. QED
  BY <1>3, <1>4 DEF NotModified, RequestFails, Goto

\* The end of run() and the proxy's commit.
LEMMA EndSteps ==
  ASSUME IInv, MakeOk \/ Decide \/ Commit \/ CommitFails
  PROVE  IInv' /\ [Contract!Next]_Contract!vars
<1>1. UNCHANGED <<thread, killing, row, sched>>
  BY DEF MakeOk, Decide, Commit, CommitFails, RunOnly, Elsewhere, schedVars
<1>2. thread = "running" /\ job.run \in StatusAt(pc)
  BY DEF MakeOk, Decide, Commit, CommitFails, IInv
<1>3. CASE MakeOk
  <2>1. /\ job.run \in {"RUNNING", "KILLED"} /\ pc' = "decide"
        /\ job' = SetStatus(job, "OK")
    BY <1>2, <1>3 DEF MakeOk, StatusAt, Goto
  <2>2. "OK" \in BulkMaySet(job.run) /\ "OK" \in StatusAt(pc')
    BY <2>1 DEF BulkMaySet, StatusAt
  <2>3. QED
    BY <1>1, <1>2, <2>1, <2>2, StatusStep
<1>4. CASE Decide
  <2>1. job.run \in {"OK", "WARN", "KILLED"}
    BY <1>2, <1>4 DEF Decide, StatusAt
  <2>2. CASE job.run = "WARN"
    <3>1. job' = SetStatus(job, "ERROR") /\ "ERROR" \in BulkMaySet(job.run)
      BY <1>4, <2>2 DEF Decide, Logged, BulkMaySet
    <3>2. pc' \in {"commit", "rollback"}
      BY <1>4 DEF Decide, Goto
    <3>3. "ERROR" \in StatusAt(pc')
      BY <3>2 DEF StatusAt
    <3>4. QED
      BY <1>1, <1>2, <3>1, <3>3, StatusStep
  <2>3. CASE job.run # "WARN"
    <3>1. job' = job /\ pc' \in {"commit", "rollback"} /\ (job.run = "OK" => pc' = "commit")
      BY <1>4, <2>1, <2>3 DEF Decide, Logged, Goto
    <3>2. job.run \in StatusAt(pc')
      BY <2>1, <2>3, <3>1 DEF StatusAt
    <3>3. IInv'
      BY <1>1, <1>2, <3>1, <3>2 DEF IInv, StatusAt, JobStatusFollows
    <3>4. QED
      BY <1>1, <3>1, <3>3 DEF Contract!vars
  <2>4. QED
    BY <2>2, <2>3
<1>5. CASE Commit \/ CommitFails
  <2>1. /\ pc = "commit" /\ pc' \in {"finish", "exception", "storageError"}
        /\ job' \in {Counted, MarkForUpdate(Counted)}
    BY <1>5 DEF Commit, CommitFails, Goto
  <2>2. job.run \in {"OK", "ERROR", "KILLED"}
    BY <1>2, <2>1 DEF StatusAt
  <2>3. CASE Counted = SetStatus(job, "WARN") /\ job.run = "OK"
    <3>1. "WARN" \in BulkMaySet(job.run) /\ "WARN" \in StatusAt(pc')
      BY <2>1, <2>3 DEF BulkMaySet, StatusAt
    <3>2. QED
      BY <1>1, <1>2, <2>1, <2>3, <3>1, StatusStep
  <2>4. CASE Counted = job
    <3>1. job' = job \/ Contract!JobAsksForUpdate
      BY <1>1, <1>2, <2>1, <2>4, ContractOperators DEF Contract!JobAsksForUpdate
    <3>2. /\ job' \in JobRecord /\ job'.run = job.run /\ job'.job = job.job
          /\ job'.die = job.die
      BY <2>1, <2>4, MarkIsUpdate DEF IInv
    <3>3. job.run \in StatusAt(pc')
      BY <2>1, <2>2 DEF StatusAt
    <3>4. IInv'
      BY <1>1, <1>2, <2>1, <3>2, <3>3 DEF IInv, StatusAt, JobStatusFollows
    <3>5. QED
      BY <1>1, <3>1, <3>4 DEF Contract!Next, Contract!vars
  <2>5. QED
    BY <2>3, <2>4 DEF Counted
<1>6. QED
  BY <1>3, <1>4, <1>5

\* The handler sets ERROR: as one of the statuses of a run, or as its first.
LEMMA HandlerSteps ==
  ASSUME IInv, HandleException \/ HandlerFails
  PROVE  IInv' /\ [Contract!Next]_Contract!vars
<1>1. /\ pc \in {"exception", "storageError"} /\ pc' = "return"
      /\ thread' = "running" /\ job' = SetStatus(job, "ERROR")
      /\ UNCHANGED <<killing, row, sched>>
  BY DEF HandleException, HandlerFails, HandlerSetsError, Goto, Elsewhere, schedVars
<1>2. CASE thread = "running"
  <2>1. job.run \in {"RUNNING", "OK", "WARN", "ERROR", "KILLED"}
    BY <1>1, <1>2 DEF IInv, StatusAt
  <2>2. "ERROR" \in BulkMaySet(job.run) \/ "ERROR" = job.run
    BY <2>1 DEF BulkMaySet
  <2>3. "ERROR" \in StatusAt(pc')
    BY <1>1 DEF StatusAt, MayReturn
  <2>4. QED
    BY <1>1, <1>2, <2>2, <2>3, StatusStep
<1>3. CASE thread = "started"
  <2>1. /\ job' \in JobRecord /\ job'.run = "ERROR" /\ job'.job = "ERROR"
        /\ job'.die = job.die
    BY <1>1 DEF IInv, SetStatus, JobRecord, StatusOrNull, HarvestStatus
  <2>2. "ERROR" \in StatusAt(pc)'
    BY <1>1 DEF StatusAt, MayReturn
  <2>3. IInv'
    BY <1>1, <2>1, <2>2 DEF IInv, JobStatusFollows, Null
  <2>4. Contract!JobBegins
    BY <1>1, <1>3, ContractOperators DEF Contract!JobBegins
  <2>5. QED
    BY <2>3, <2>4 DEF Contract!Next
<1>4. QED
  BY <1>1, <1>2, <1>3 DEF IInv

\* run() sets RUNNING when it has its transaction, FINISHED when the run has gone well,
\* and returns with a status that the contract has.
LEMMA BoundarySteps ==
  ASSUME IInv, JobBegins \/ SetFinished \/ JobReturns
  PROVE  IInv' /\ [Contract!Next]_Contract!vars
<1>1. UNCHANGED <<killing, row, sched>>
  BY DEF JobBegins, SetFinished, JobReturns, Elsewhere, schedVars
<1>2. CASE JobBegins
  <2>1. /\ thread = "started" /\ thread' = "running" /\ pc' = "list"
        /\ job' = SetStatus(job, "RUNNING")
    BY <1>2 DEF JobBegins, Goto, IInv, StatusAt
  <2>2. /\ job' \in JobRecord /\ job'.run = "RUNNING" /\ job'.job = "RUNNING"
        /\ job'.die = job.die
    BY <2>1 DEF IInv, SetStatus, JobRecord, StatusOrNull, HarvestStatus
  <2>3. IInv'
    BY <1>1, <2>1, <2>2 DEF IInv, StatusAt, JobStatusFollows, Null
  <2>4. Contract!JobBegins
    BY <1>1, <2>1, ContractOperators DEF Contract!JobBegins
  <2>5. QED
    BY <2>3, <2>4 DEF Contract!Next
<1>3. CASE SetFinished
  <2>1. /\ thread = "running" /\ thread' = thread /\ pc' = "return"
        /\ job.run \in {"OK", "KILLED"} /\ job' = SetStatus(job, "FINISHED")
    BY <1>3 DEF SetFinished, Goto, IInv, StatusAt
  <2>2. /\ job' \in JobRecord /\ job'.run = "FINISHED" /\ job'.job = job.job
        /\ job'.die = job.die
    BY <2>1 DEF IInv, SetStatus, JobRecord, StatusOrNull, HarvestStatus
  <2>3. "FINISHED" \in StatusAt(pc)'
    BY <2>1 DEF StatusAt, MayReturn
  <2>4. JobStatusFollows /\ (job.run = "OK" => job.job = "OK")
    BY <2>1 DEF IInv, JobStatusFollows
  <2>5. JobStatusFollows'
    BY <2>1, <2>2, <2>4 DEF JobStatusFollows
  <2>6. IInv'
    BY <1>1, <2>1, <2>2, <2>3, <2>5 DEF IInv, Null
  <2>7. Contract!JobSetsStatus
    <3>1. "FINISHED" \in BulkMaySet(job.run)
      BY <2>1 DEF BulkMaySet
    <3>2. QED
      BY <1>1, <2>1, <3>1, ContractOperators DEF Contract!JobSetsStatus
  <2>8. QED
    BY <2>6, <2>7 DEF Contract!Next
<1>4. CASE JobReturns
  <2>1. /\ thread = "running" /\ thread' = "none" /\ pc' = "idle"
        /\ job.run \in MayReturn("Bulk", job.die) /\ job' = AtReturn("Bulk", job)
    BY <1>4 DEF JobReturns, Goto, IInv, StatusAt
  <2>2. job' = MarkForUpdate(job)
    BY <2>1 DEF AtReturn
  <2>3. /\ job' \in JobRecord /\ job'.run = job.run /\ job'.job = job.job
        /\ job'.die = job.die
    BY <2>2, MarkIsUpdate DEF IInv
  <2>4. IInv'
    BY <1>1, <2>1, <2>3 DEF IInv
  <2>5. Contract!JobReturns
    BY <1>1, <2>1, ContractOperators DEF Contract!JobReturns
  <2>6. QED
    BY <2>4, <2>5 DEF Contract!Next
<1>5. QED
  BY <1>2, <1>3, <1>4

-----------------------------------------------------------------------------
(* The scheduler and the kill() of another thread *)

\* A kill may overwrite the status at any place of run().
LEMMA KillSteps ==
  ASSUME IInv, StopJob \/ Edit \/ KillAll \/ KillFinish
  PROVE  IInv' /\ [Contract!Next]_Contract!vars
<1>1. UNCHANGED <<thread, pc, row>> /\ (sched' = sched \/ sched' = "down")
  BY DEF StopJob, Edit, KillAll, KillFinish, KillBegin, NotByScheduler, schedVars
<1>2. CASE StopJob \/ Edit \/ KillAll
  <2>1. /\ ~killing /\ job' = KillRequested(job) /\ killing' = KillWillOverwrite(job)
    BY <1>2 DEF StopJob, Edit, KillAll, KillBegin
  <2>2. /\ job' \in JobRecord /\ job'.run = job.run /\ job'.job = job.job /\ job'.die = TRUE
        /\ killing' \in BOOLEAN
    BY <2>1 DEF IInv, KillRequested, KillWillOverwrite, JobRecord
  <2>3. job.run \in StatusAt(pc) => job.run \in StatusAt(pc)'
    <3>1. CASE pc = "return"
      BY <1>1, <2>2, <3>1 DEF StatusAt, MayReturn
    <3>2. CASE pc # "return"
      BY <1>1, <3>2 DEF StatusAt
    <3>3. QED
      BY <3>1, <3>2
  <2>4. JobStatusFollows => JobStatusFollows'
    BY <2>2 DEF JobStatusFollows
  <2>5. IInv'
    BY <1>1, <2>2, <2>3, <2>4 DEF IInv
  <2>6. Contract!KillBegin
    BY <1>1, <2>1, ContractOperators DEF Contract!KillBegin
  <2>7. QED
    BY <2>5, <2>6 DEF Contract!Next
<1>3. CASE KillFinish
  <2>1. killing /\ killing' = FALSE /\ job' = KillOverwrite(job)
    BY <1>3 DEF KillFinish
  <2>2. job.die
    BY <2>1 DEF IInv
  <2>3. /\ job' \in JobRecord /\ job'.run = "KILLED" /\ job'.job = job.job
        /\ job'.die = job.die
    BY <2>1 DEF IInv, KillOverwrite, JobRecord, StatusOrNull, HarvestStatus
  <2>4. ASSUME thread = "running"
        PROVE  "KILLED" \in StatusAt(pc)'
    BY <1>1, <2>3, <2>4 DEF IInv, StatusAt, MayReturn
  <2>5. JobStatusFollows => JobStatusFollows'
    BY <2>2, <2>3 DEF JobStatusFollows
  <2>6. IInv'
    BY <1>1, <2>1, <2>3, <2>4, <2>5 DEF IInv, Null
  <2>7. Contract!KillFinish
    BY <1>1, <2>1, ContractOperators DEF Contract!KillFinish
  <2>8. QED
    BY <2>6, <2>7 DEF Contract!Next
<1>4. QED
  BY <1>2, <1>3

\* What the scheduler records is a status, and what it acknowledges has one to go on with.
LEMMA RecordSteps ==
  ASSUME IInv, StartJob \/ StampStart \/ Persist \/ NotifyFinish \/ RecordShutdown
  PROVE  IInv' /\ [Contract!Next]_Contract!vars
<1>1. /\ UNCHANGED <<killing, pc>>
      /\ sched # "down" /\ sched' \in {"up", "starting", "stopping"}
  BY DEF StartJob, StampStart, Persist, NotifyFinish, RecordShutdown, NotByScheduler, schedVars
<1>2. job.job # Null
  BY <1>1 DEF IInv
<1>3. CASE StartJob
  <2>1. thread = "none" /\ thread' = "started" /\ UNCHANGED <<job, row>>
    BY <1>3 DEF StartJob
  <2>2. IInv'
    BY <1>1, <1>2, <2>1 DEF IInv
  <2>3. Contract!Start
    BY <1>1, <2>1 DEF Contract!Start
  <2>4. QED
    BY <2>2, <2>3 DEF Contract!Next
<1>4. CASE Persist
  <2>1. job' = ClearUpdated(job) /\ UNCHANGED thread
    BY <1>4 DEF Persist
  <2>2. /\ job' \in JobRecord /\ job'.run = job.run /\ job'.job = job.job
        /\ job'.die = job.die
    BY <2>1 DEF IInv, ClearUpdated, JobRecord
  <2>3. row'.status \in HarvestStatus
    <3>1. job.run \in HarvestStatus /\ row.status \in HarvestStatus
      BY Statuses DEF IInv
    <3>2. QED
      BY <1>4, <3>1 DEF Persist
  <2>4. StatusAt(pc)' = StatusAt(pc)
    BY <1>1, <2>2 DEF StatusAt
  <2>5. JobStatusFollows => JobStatusFollows'
    BY <2>2 DEF JobStatusFollows
  <2>6. IInv'
    BY <1>1, <1>2, <2>1, <2>2, <2>3, <2>4, <2>5 DEF IInv
  <2>7. Contract!Persisted
    BY <1>1, <2>1, ContractOperators DEF Contract!Persisted
  <2>8. QED
    BY <2>6, <2>7 DEF Contract!Next
<1>5. CASE NotifyFinish
  <2>1. /\ job.run = "FINISHED" /\ ~killing /\ job' = FinishReceived(job) /\ UNCHANGED thread
        /\ row'.status = row.status
    <3>1. row' = [row EXCEPT !.lastStarted = lastStarted]
      BY <1>5 DEF NotifyFinish
    <3>2. row'.status = row.status
      BY <3>1
    <3>3. QED
      BY <1>5, <3>2 DEF NotifyFinish
  <2>2. /\ job' \in JobRecord /\ job'.run = job.job /\ job'.job = job.job
        /\ job'.die = job.die
    BY <2>1 DEF IInv, FinishReceived, JobRecord
  <2>3. ASSUME thread = "running"
        PROVE  job'.run \in StatusAt(pc)' /\ JobStatusFollows'
    <3>1. pc = "return" /\ JobStatusFollows
      BY <2>1, <2>3 DEF IInv, StatusAt
    <3>2. job.job \in {"RUNNING", "OK", "WARN", "ERROR"} /\ (job.job = "RUNNING" => job.die)
      BY <2>1, <3>1 DEF JobStatusFollows
    <3>3. QED
      BY <1>1, <2>2, <3>1, <3>2 DEF StatusAt, MayReturn, JobStatusFollows
  <2>4. IInv'
    BY <1>1, <1>2, <2>1, <2>2, <2>3 DEF IInv
  <2>5. Contract!NotifyFinish
    BY <1>1, <2>1, ContractOperators DEF Contract!NotifyFinish
  <2>6. QED
    BY <2>4, <2>5 DEF Contract!Next
<1>6. CASE RecordShutdown
  <2>1. UNCHANGED <<job, thread>>
    BY <1>6 DEF RecordShutdown
  <2>2. row'.status \in {"SHUTDOWN", row.status}
    BY <1>6 DEF RecordShutdown
  <2>3. row'.status \in HarvestStatus
    BY <2>2 DEF IInv, HarvestStatus
  <2>4. IInv'
    BY <1>1, <1>2, <2>1, <2>3 DEF IInv, StatusAt, JobStatusFollows
  <2>5. QED
    BY <1>1, <2>1, <2>4 DEF Contract!vars
<1>7. CASE StampStart
  <2>1. UNCHANGED <<job, thread, row>>
    BY <1>7 DEF StampStart
  <2>2. IInv'
    BY <1>1, <1>2, <2>1 DEF IInv, StatusAt, JobStatusFollows
  <2>3. QED
    BY <1>1, <2>1, <2>2 DEF Contract!vars
<1>8. QED
  BY <1>3, <1>4, <1>5, <1>6, <1>7

\* A job object made from a row that says FINISHED has no jobStatus, and no scheduler.
LEMMA NewObjectSteps ==
  ASSUME IInv, Crash \/ Renew
  PROVE  IInv' /\ [Contract!Next]_Contract!vars
<1>1. /\ row' = row /\ row.status \in HarvestStatus /\ killing' = FALSE
      /\ job' = NewJob(row.status)
  BY DEF Crash, Renew, IInv
<1>2. /\ pc' = "idle" /\ thread' \in {"none", "started"}
      /\ thread = "none" \/ thread' = "none"
      /\ \/ sched' = "down" /\ thread' = "none"
         \/ row.status # "FINISHED"
  BY DEF Crash, Renew, Goto, IInv
<1>3. /\ job' \in JobRecord /\ job'.run # Null
      /\ row.status # "FINISHED" => job'.job # Null
  BY <1>1, NewJobStatus DEF HarvestStatus, Null
<1>4. IInv'
  BY <1>1, <1>2, <1>3 DEF IInv
<1>5. Contract!Renew
  BY <1>1, <1>2, ContractOperators DEF Contract!Renew
<1>6. QED
  BY <1>4, <1>5 DEF Contract!Next

-----------------------------------------------------------------------------
\* Every step preserves the invariant, and is a step of the contract or none.
LEMMA NextKeeps == IInv /\ [Next]_vars => IInv' /\ [Contract!Next]_Contract!vars
<1> SUFFICES ASSUME IInv, [Next]_vars PROVE IInv' /\ [Contract!Next]_Contract!vars
  OBVIOUS
<1>1. CASE Tick \/ (\E u \in Url : ChangeFile(u)) \/ UNCHANGED vars
  <2>1. UNCHANGED <<job, thread, killing, row, sched, pc>>
    BY <1>1 DEF Tick, ChangeFile, vars, schedVars
  <2>2. QED
    BY <2>1 DEF IInv, StatusAt, JobStatusFollows, Contract!vars
<1>2. CASE RunStep
  <2>1. CASE JobBegins \/ SetFinished \/ JobReturns
    BY <2>1, BoundarySteps
  <2>2. CASE \E u \in Url : NotModified(u) \/ StoreFile(u)
    BY <2>2, ListSteps, SilentSteps
  <2>3. CASE MakeOk \/ Decide \/ Commit \/ HandleException
    BY <2>3, EndSteps, HandlerSteps
  <2>4. CASE \/ BeginStorage \/ PurgeStorage
             \/ AfterStoreFails \/ LeaveList \/ After \/ Finish \/ Rollback
    BY <2>4, SilentSteps
  <2>5. QED
    BY <1>2, <2>1, <2>2, <2>3, <2>4 DEF RunStep
<1>3. CASE Fault
  BY <1>3, ListSteps, SilentSteps, EndSteps, HandlerSteps DEF Fault
<1>4. CASE SchedulerStep \/ Interruption
  BY <1>4, KillSteps, RecordSteps, NewObjectSteps DEF SchedulerStep, Interruption
<1>5. QED
  BY <1>1, <1>2, <1>3, <1>4 DEF Next

\* A new job is one of the contract's.
LEMMA InitRefines == Init => Contract!Init
<1> SUFFICES ASSUME Init PROVE Contract!Init
  OBVIOUS
<1>1. job = NewJob("NEW") /\ thread = "none" /\ killing = FALSE /\ "NEW" \in HarvestStatus
  BY DEF Init, HarvestStatus
<1>2. QED
  BY <1>1, ContractOperators DEF Contract!Init

\* At every place of BulkRecordHarvestJob.run, whatever the files, the storage, a kill or
\* the scheduler has done, the status is one that the next assignment may follow.
THEOREM Invariance == Spec => []IInv
<1>1. IInv /\ [Next]_vars => IInv'
  BY NextKeeps
<1>2. QED
  BY <1>1, InitIInv, PTL DEF Spec

\* The bulk job implements the contract that JobScheduler's jobs are made of: its run()
\* changes the status as BulkMaySet and MayReturn say and in no other way.
THEOREM KeepsContract == Spec => ContractHolds
<1>1. Init => Contract!Init
  BY InitRefines
<1>2. IInv /\ [Next]_vars => [Contract!Next]_Contract!vars
  BY NextKeeps
<1>3. QED
  BY <1>1, <1>2, Invariance, PTL DEF Spec, ContractHolds, Contract!Spec

-----------------------------------------------------------------------------
(* Types *)

\* The times of the day, and the versions of a file.
LEMMA Times ==
  /\ Version \subseteq Nat /\ 1 \in Version /\ 0 \notin Version
  /\ \A v \in Version : v < MaxVersion => v + 1 \in Version
  /\ Time \subseteq Nat /\ 0 \in Time /\ 1 \in Time
  /\ \A t \in Time : t < MaxTime => t + 1 \in Time
  /\ \A i \in 0..MaxIncidents : i < MaxIncidents => i + 1 \in 0..MaxIncidents
BY BulkAssumption DEF Time, Version

\* Every operation of the storage keeps its type, and ends in a phase of its own.
LEMMA StorageType ==
  ASSUME TypeOK,
         \/ StorageKept \/ Storage!Begin \/ Storage!Purge
         \/ \E u \in Url : Storage!Put(u, version[u])
         \/ Storage!Commit \/ Storage!Rollback \/ Storage!Fail \/ Storage!GoOn
         \/ Storage!GiveUp
  PROVE  /\ phase' \in {"closed", "open", "failed"} /\ touched' \subseteq Url
         /\ {base', work', index'} \subseteq [Url -> Version \union {0}]
<1> DEFINE Content == [Url -> Version \union {0}]
<1>2. Storage!Content = Content /\ Storage!Empty = [u \in Url |-> 0]
  BY DEF Storage!Content, Storage!Empty
<1>3. /\ base \in Content /\ work \in Content /\ index \in Content
      /\ touched \subseteq Url /\ version \in [Url -> Version]
  BY DEF TypeOK
<1>4. CASE StorageKept
  BY <1>3, <1>4 DEF TypeOK, StorageKept, storageVars
<1>5. CASE Storage!Begin \/ Storage!Purge
  BY <1>2, <1>3, <1>5 DEF TypeOK, Storage!Begin, Storage!Purge
<1>6. CASE \E u \in Url : Storage!Put(u, version[u])
  BY <1>3, <1>6 DEF TypeOK, Storage!Put
<1>7. CASE Storage!Commit \/ Storage!Rollback \/ Storage!GoOn
  BY <1>2, <1>3, <1>7 DEF TypeOK, Storage!Commit, Storage!Rollback, Storage!GoOn
<1>8. CASE Storage!Fail \/ Storage!GiveUp
  BY <1>2, <1>3, <1>8 DEF TypeOK, Storage!Fail, Storage!GiveUp, Storage!SomeOfWork
<1>9. QED
  BY <1>4, <1>5, <1>6, <1>7, <1>8

\* What run() does with the storage, and where it is afterwards.
LEMMA RunStorage ==
  ASSUME IInv, PhaseFits, RunStep \/ Fault
  PROVE  /\ \/ StorageKept \/ Storage!Begin \/ Storage!Purge
            \/ \E u \in Url : Storage!Put(u, version[u])
            \/ Storage!Commit \/ Storage!Rollback \/ Storage!Fail \/ Storage!GoOn
            \/ Storage!GiveUp
         /\ PhaseFits' /\ pc' \in Places
         /\ (thread' = thread /\ thread # "none") \/ (thread' = "running") \/ (thread' = "none" /\ pc' = "idle")
<1> USE DEF Goto
<1>1. CASE BeginStorage \/ PurgeStorage \/ BeginFails \/ JobBegins
  BY <1>1 DEF BeginStorage, PurgeStorage, BeginFails, JobBegins, RunOnly, Elsewhere, StorageKept,
              PhaseFits, Places, IInv
<1>2. CASE \E u \in Url : NotModified(u) \/ StoreFile(u) \/ RequestFails(u)
  BY <1>2 DEF NotModified, StoreFile, RequestFails, Listing, Elsewhere, StorageKept, PhaseFits,
              Places, IInv
<1>3. CASE \E u \in Url : FileFails(u) \/ StoreFails(u)
  BY <1>3 DEF FileFails, StoreFails, Listing, Elsewhere, StorageKept, PhaseFits, Places, IInv
<1>4. CASE AfterStoreFails \/ LeaveList \/ After \/ MakeOk \/ Decide
  BY <1>4 DEF AfterStoreFails, LeaveList, After, MakeOk, Decide, RunOnly, StorageKept, PhaseFits,
              Places, IInv
<1>5. CASE Commit \/ CommitFails \/ Finish \/ SetFinished \/ Rollback \/ RollbackFails
  BY <1>5 DEF Commit, CommitFails, Finish, SetFinished, Rollback, RollbackFails, RunOnly,
              StorageKept, PhaseFits, Places, IInv, storageVars, Storage!Commit,
              Storage!Rollback
<1>6. CASE HandleException \/ HandlerFails \/ JobReturns
  BY <1>6 DEF HandleException, HandlerFails, HandlerSetsError, JobReturns, StorageKept, PhaseFits,
              Places, IInv, storageVars, Storage!GiveUp, Storage!Rollback
<1>7. QED
  BY <1>1, <1>2, <1>3, <1>4, <1>5, <1>6 DEF RunStep, Fault

\* A step of run() keeps every variable's type.
LEMMA RunType ==
  ASSUME TypeOK, IInv, PhaseFits, RunStep \/ Fault
  PROVE  TypeOK' /\ PhaseFits'
<1>1. /\ UNCHANGED <<clock, version, modified, settings, lastStarted, row, sched, last, since,
                     spoiled>>
      /\ unfinished' \in {unfinished, FALSE}
      /\ incidents' \in 0..MaxIncidents
  <2>1. incidents \in 0..MaxIncidents
    BY DEF TypeOK
  <2>2. incidents' \in 0..MaxIncidents
    BY <2>1, Times
    DEF RunStep, Fault, BeginStorage, PurgeStorage, JobBegins, NotModified, StoreFile,
        AfterStoreFails, LeaveList, After, MakeOk, Decide, Commit, Finish, SetFinished,
        Rollback, HandleException, JobReturns, RequestFails, FileFails, StoreFails,
        CommitFails, RollbackFails, HandlerFails, BeginFails, Quiet, Incident
  <2>3. QED
    BY <2>2
    DEF RunStep, Fault, BeginStorage, PurgeStorage, JobBegins, NotModified, StoreFile,
        AfterStoreFails, LeaveList, After, MakeOk, Decide, Commit, Finish, SetFinished,
        Rollback, HandleException, JobReturns, RequestFails, FileFails, StoreFails,
        CommitFails, RollbackFails, HandlerFails, BeginFails, HandlerSetsError, RunOnly,
         Elsewhere, serverVars, schedVars,
        runVars
<1>2. job' \in JobRecord /\ killing' \in BOOLEAN
  <2>1. [Next]_vars
    BY DEF Next
  <2>2. QED
    BY <2>1, NextKeeps DEF IInv
<1>3. /\ todo' \subseteq Url /\ failed' \subseteq Url /\ some' \in BOOLEAN
      /\ excused' \subseteq Url
  <2>1. PassedOver \subseteq Url
    BY DEF PassedOver, NotAskedFor, TypeOK
  <2>2. QED
    BY <2>1
    DEF RunStep, Fault, BeginStorage, PurgeStorage, JobBegins, NotModified, StoreFile,
        AfterStoreFails, LeaveList, After, MakeOk, Decide, Commit, Finish, SetFinished,
        Rollback, HandleException, JobReturns, RequestFails, FileFails, StoreFails,
        CommitFails, RollbackFails, HandlerFails, BeginFails, HandlerSetsError, RunOnly,
        Elsewhere, Listing, runVars, TypeOK
<1>4. /\ pc' \in Places /\ PhaseFits'
      /\ thread' \in {"none", "started", "running"} /\ (thread' = "none" => pc' = "idle")
  BY RunStorage DEF TypeOK
<1>5. /\ phase' \in {"closed", "open", "failed"} /\ touched' \subseteq Url
      /\ {base', work', index'} \subseteq [Url -> Version \union {0}]
  BY RunStorage, StorageType
<1>6. QED
  BY <1>1, <1>2, <1>3, <1>4, <1>5 DEF TypeOK, PhaseFits

\* So does everything else.
LEMMA OtherType ==
  ASSUME TypeOK, IInv, PhaseFits,
         \/ Tick \/ \E u \in Url : ChangeFile(u)
         \/ SchedulerStep \/ Interruption \/ UNCHANGED vars
  PROVE  TypeOK' /\ PhaseFits'
<1>1. job' \in JobRecord /\ killing' \in BOOLEAN
  <2>1. [Next]_vars
    BY DEF Next
  <2>2. QED
    BY <2>1, NextKeeps DEF IInv
<1>2. job.run \in HarvestStatus /\ row.status \in HarvestStatus
  BY Statuses DEF IInv
<1>3. /\ incidents' \in 0..MaxIncidents /\ clock' \in Time \ {0}
      /\ version' \in [Url -> Version] /\ modified' \in [Url -> Time \ {0}]
      /\ UNCHANGED settings /\ excused' \subseteq Url
  <2>1. /\ clock \in Time \ {0} /\ incidents \in 0..MaxIncidents /\ excused \subseteq Url
        /\ version \in [Url -> Version] /\ modified \in [Url -> Time \ {0}]
    BY DEF TypeOK
  <2>2. CASE \E u \in Url : ChangeFile(u)
    <3>1. PICK u \in Url : ChangeFile(u)
      BY <2>2
    <3>2. version[u] + 1 \in Version
      BY <2>1, <3>1, Times DEF ChangeFile
    <3>3. QED
      BY <2>1, <3>1, <3>2 DEF ChangeFile, Quiet
  <2>3. CASE Tick \/ SchedulerStep \/ Interruption \/ UNCHANGED vars
    <3>1. UNCHANGED <<version, modified, settings, excused>>
      BY <2>3
      DEF Tick, SchedulerStep, Interruption, StartJob, StampStart, Persist, NotifyFinish,
          KillFinish, KillAll, KillBegin, Renew, StopJob, Edit, RecordShutdown, Crash,
          NotByScheduler, serverVars, historyVars, vars
    <3>2. clock' \in Time \ {0}
      BY <2>1, <2>3, Times
      DEF Tick, SchedulerStep, Interruption, StartJob, StampStart, Persist, NotifyFinish,
          KillFinish, KillAll, KillBegin, Renew, StopJob, Edit, RecordShutdown, Crash,
          NotByScheduler, serverVars, vars
    <3>3. incidents' \in 0..MaxIncidents
      BY <2>1, <2>3, Times
      DEF Tick, SchedulerStep, Interruption, StartJob, StampStart, Persist, NotifyFinish,
          KillFinish, KillAll, KillBegin, Renew, StopJob, Edit, RecordShutdown, Crash,
          Quiet, Incident, vars
    <3>4. QED
      BY <2>1, <3>1, <3>2, <3>3
  <2>4. QED
    BY <2>2, <2>3
<1>4. CASE Tick \/ (\E u \in Url : ChangeFile(u)) \/ UNCHANGED vars
  <2>1. UNCHANGED <<lastStarted, schedVars, job, thread, killing, pc, runVars, storageVars,
                    unfinished, spoiled>>
    BY <1>4 DEF Tick, ChangeFile, historyVars, vars
  <2>2. QED
    BY <1>3, <2>1 DEF TypeOK, PhaseFits, schedVars, runVars, storageVars, historyVars
<1>5. CASE SchedulerStep \/ StopJob \/ Edit \/ RecordShutdown
  <2>1. /\ UNCHANGED <<pc, storageVars, todo, failed, some>>
        /\ sched' \in {"up", "starting", "stopping", "down"}
        /\ thread' \in {thread, "none", "started"} /\ (thread' = "none" => thread = "none")
    BY <1>5
    DEF SchedulerStep, StartJob, StampStart, Persist, NotifyFinish, KillFinish, KillAll, KillBegin,
        Renew, StopJob, Edit, RecordShutdown, NotByScheduler, TypeOK, schedVars, runVars
  <2>2. /\ since' \in {since, 0, row.lastStarted}
        /\ lastStarted' \in {lastStarted, clock, row.lastStarted}
        /\ unfinished' \in BOOLEAN /\ spoiled' \in BOOLEAN
    BY <1>5
    DEF SchedulerStep, StartJob, StampStart, Persist, NotifyFinish, KillFinish, KillAll, KillBegin,
        Renew, StopJob, Edit, RecordShutdown, NotByScheduler, TypeOK, runVars, historyVars
  <2>3. last' \in {last, job.run, row.status}
    BY <1>5
    DEF SchedulerStep, StartJob, StampStart, Persist, NotifyFinish, KillFinish, KillAll, KillBegin,
        Renew, StopJob, Edit, RecordShutdown, schedVars
  <2>4. \/ row' \in {row, [row EXCEPT !.lastStarted = lastStarted]}
        \/ \E s \in {job.run, row.status, "SHUTDOWN"} :
             row' = [status |-> s, lastStarted |-> lastStarted]
    BY <1>5
    DEF SchedulerStep, StartJob, StampStart, Persist, NotifyFinish, KillFinish, KillAll, KillBegin,
        Renew, StopJob, Edit, RecordShutdown, schedVars
  <2>5. row' \in [status : HarvestStatus, lastStarted : Time]
    BY <1>2, <2>4 DEF TypeOK, HarvestStatus
  <2>6. since' \in Time /\ lastStarted' \in Time /\ last' \in HarvestStatus
    BY <1>2, <2>2, <2>3, Times DEF TypeOK
  <2>7. QED
    BY <1>1, <1>3, <2>1, <2>2, <2>5, <2>6 DEF TypeOK, PhaseFits, storageVars
<1>6. CASE Crash
  <2>1. /\ UNCHANGED <<row, since, historyVars>> /\ pc' = "idle" /\ thread' = "none"
        /\ todo' = {} /\ failed' = {} /\ some' = FALSE
        /\ lastStarted' = row.lastStarted /\ last' = row.status /\ sched' = "down"
        /\ StorageKept \/ Storage!GiveUp
        /\ phase' = "closed"
    BY <1>6 DEF Crash, Goto, StorageKept, storageVars, Storage!GiveUp
  <2>2. /\ touched' \subseteq Url /\ {base', work', index'} \subseteq [Url -> Version \union {0}]
    BY <2>1, StorageType
  <2>3. QED
    BY <1>1, <1>2, <1>3, <2>1, <2>2, Times DEF TypeOK, PhaseFits, historyVars, Places
<1>7. QED
  BY <1>4, <1>5, <1>6 DEF Interruption

\* A new job is well typed.
LEMMA InitType == Init => TypeOK /\ PhaseFits
<1> SUFFICES ASSUME Init PROVE TypeOK /\ PhaseFits
  OBVIOUS
<1>1. job \in JobRecord /\ killing \in BOOLEAN
  BY InitIInv DEF IInv
<1>2. /\ index = [u \in Url |-> 0] /\ base = index /\ work = index /\ touched = {}
      /\ phase = "closed"
  BY DEF Init, Storage!Init
<1>3. /\ index \in [Url -> Version \union {0}] /\ version \in [Url -> Version]
      /\ modified \in [Url -> Time \ {0}]
  BY <1>2, Times DEF Init
<1>4. incidents \in 0..MaxIncidents /\ clock \in Time \ {0} /\ since \in Time /\ lastStarted \in Time
  BY Times, BulkAssumption DEF Init
<1>5. row \in [status : HarvestStatus, lastStarted : Time] /\ last \in HarvestStatus
  BY Times DEF Init, HarvestStatus
<1>6. QED
  BY <1>1, <1>2, <1>3, <1>4, <1>5 DEF Init, TypeOK, PhaseFits, Places

\* The types, and what keeps the storage's.
LEMMA NextTypeOK == TypeOK /\ IInv /\ PhaseFits /\ [Next]_vars => TypeOK' /\ PhaseFits'
BY RunType, OtherType DEF Next

\* Every reachable state is well typed; in particular, no run begins while the storage is
\* still in the transaction of the run before it.
THEOREM TypeCorrect == Spec => []TypeOK
<1>1. Init => TypeOK /\ PhaseFits
  BY InitType
<1>2. TypeOK /\ IInv /\ PhaseFits /\ [Next]_vars => TypeOK' /\ PhaseFits'
  BY NextTypeOK
<1>3. QED
  BY <1>1, <1>2, Invariance, PTL DEF Spec

-----------------------------------------------------------------------------
(* Nothing is skipped *)

\* What an operation of the storage leaves alone: a file that the transaction has not
\* touched and that its operations before have not.
LEMMA SettledStays ==
  ASSUME TypeOK, NEW u \in Url, Settled(u), version' = version,
         \/ StorageKept \/ Storage!Begin
         \/ \E v \in Url : Storage!Put(v, version[v]) /\ v # u
         \/ Storage!Commit \/ Storage!Rollback \/ Storage!Fail \/ Storage!GoOn
         \/ Storage!GiveUp
  PROVE  Settled(u)'
<1>1. CASE StorageKept \/ Storage!Begin \/ Storage!Commit \/ Storage!GoOn
  BY <1>1 DEF StorageKept, storageVars, Storage!Begin, Storage!Commit, Storage!GoOn, Settled,
              Current
<1>2. CASE \E v \in Url : Storage!Put(v, version[v]) /\ v # u
  BY <1>2 DEF TypeOK, Storage!Put, Settled, Current
<1>3. CASE Storage!Rollback
  BY <1>3 DEF Storage!Rollback, Settled, Current
<1>4. CASE Storage!Fail \/ Storage!GiveUp
  BY <1>4 DEF Storage!Fail, Storage!GiveUp, Storage!SomeOfWork, Settled, Current
<1>5. QED
  BY <1>1, <1>2, <1>3, <1>4

\* The dates are numbers.
LEMMA Numbers ==
  ASSUME TypeOK
  PROVE  /\ clock \in Nat /\ since \in Nat /\ lastStarted \in Nat /\ row.lastStarted \in Nat
         /\ Horizon \in {clock, lastStarted} /\ Horizon \in Nat
         /\ \A u \in Url : modified[u] \in Nat /\ version[u] \in Nat
BY Times DEF TypeOK, Horizon

\* What the next date will hide is not earlier than any date of the job.
LEMMA HorizonInOrder ==
  ASSUME TypeOK, DateIsBehind
  PROVE  since <= Horizon /\ row.lastStarted <= Horizon /\ lastStarted <= Horizon
BY Numbers DEF DateIsBehind, DatesInOrder, Horizon

\* What the run may do to the storage when it asks for new files only.
LEMMA RunPuts ==
  ASSUME TypeOK, IInv, DateIsBehind, Incremental, RunStep \/ Fault
  PROVE  \/ StorageKept \/ Storage!Begin
         \/ \E v \in Url : Storage!Put(v, version[v]) /\ IsNew(v, since)
         \/ Storage!Commit \/ Storage!Rollback \/ Storage!Fail \/ Storage!GoOn
         \/ Storage!GiveUp
<1>1. lastDate = since
  BY DEF Incremental, lastDate
<1>2. ~PurgeStorage /\ (BeginFails => StorageKept)
  BY DEF PurgeStorage, BeginFails, DateIsBehind, Incremental
<1>3. QED
  BY <1>1, <1>2
  DEF RunStep, Fault, BeginStorage, JobBegins, NotModified, StoreFile,
      AfterStoreFails, LeaveList, After, MakeOk, Decide, Commit, Finish, SetFinished,
      Rollback, HandleException, JobReturns, RequestFails, FileFails, StoreFails,
      CommitFails, RollbackFails, HandlerFails

\* What every step of run() has in common.
LEMMA RunCommon ==
  ASSUME TypeOK, IInv, DateIsBehind, RunStep \/ Fault
  PROVE  /\ UNCHANGED <<clock, version, modified, settings, lastStarted, row, since, spoiled>>
         /\ Horizon' = Horizon
         /\ DatesInOrder' /\ UnfinishedUntilClaimed'
         /\ pc' = "purge" => settings.overwrite
         /\ Incremental' = Incremental
         /\ Incremental => ObjectDateIsBehind'
         /\ Incremental /\ ~SetFinished => StartIsBehind'
<1>1. /\ UNCHANGED <<clock, version, modified, settings, lastStarted, row, sched, since, spoiled>>
      /\ SetFinished \/ UNCHANGED <<unfinished, excused>>
  BY DEF RunStep, Fault, BeginStorage, PurgeStorage, JobBegins, NotModified, StoreFile,
         AfterStoreFails, LeaveList, After, MakeOk, Decide, Commit, Finish, SetFinished,
         Rollback, HandleException, JobReturns, RequestFails, FileFails, StoreFails,
         CommitFails, RollbackFails, HandlerFails, BeginFails, HandlerSetsError, RunOnly,
         Elsewhere, serverVars, schedVars,
         runVars
<1>2. DatesInOrder' /\ Incremental' = Incremental /\ Horizon' = Horizon
  BY <1>1 DEF DateIsBehind, DatesInOrder, Incremental, Horizon
<1>3. \/ JobReturns /\ thread' = "none" /\ pc = "return"
      \/ SetFinished /\ pc' = "return" /\ thread = "running"
      \/ ~SetFinished /\ thread # "none" /\ pc # "return"
  BY DEF RunStep, Fault, BeginStorage, PurgeStorage, JobBegins, NotModified, StoreFile,
         AfterStoreFails, LeaveList, After, MakeOk, Decide, Commit, Finish, SetFinished,
         Rollback, HandleException, JobReturns, RequestFails, FileFails, StoreFails,
         CommitFails, RollbackFails, HandlerFails, BeginFails, HandlerSetsError, Listing, Goto, IInv
<1>4. UnfinishedUntilClaimed'
  <2>1. CASE SetFinished
    BY <2>1 DEF SetFinished, Goto, UnfinishedUntilClaimed, IInv
  <2>2. CASE ~SetFinished
    BY <1>1, <1>3, <2>2 DEF DateIsBehind, UnfinishedUntilClaimed, IInv
  <2>3. QED
    BY <2>1, <2>2
<1>5. pc' = "purge" => settings.overwrite
  BY DEF RunStep, Fault, BeginStorage, PurgeStorage, JobBegins, NotModified, StoreFile,
         AfterStoreFails, LeaveList, After, MakeOk, Decide, Commit, Finish, SetFinished,
         Rollback, HandleException, JobReturns, RequestFails, FileFails, StoreFails,
         CommitFails, RollbackFails, HandlerFails, BeginFails, HandlerSetsError, Goto, Listing
<1>6. ASSUME Incremental
      PROVE  ObjectDateIsBehind'
  <2> SUFFICES ASSUME ~spoiled, since # 0, NEW u \in Url \ excused', ~(modified[u] > since)
               PROVE  Settled(u)'
    BY <1>1 DEF ObjectDateIsBehind
  <2>1. Settled(u)
    <3>1. CASE u \notin excused
      BY <1>1, <1>6, <3>1 DEF DateIsBehind, ObjectDateIsBehind
    <3>2. CASE u \in excused
      <4>1. SetFinished
        BY <1>1, <3>2
      <4>2. u \notin PassedOver /\ phase = "closed"
        BY <4>1 DEF SetFinished, DateIsBehind, PhaseFits
      <4>3. ~(modified[u] > Horizon)
        BY <1>1, HorizonInOrder, Numbers
      <4>4. QED
        BY <3>2, <4>2, <4>3 DEF PassedOver, Settled
    <3>3. QED
      BY <3>1, <3>2
  <2>2. \A v \in Url : IsNew(v, since) => v # u
    BY DEF IsNew
  <2>3. QED
    BY <1>1, <1>6, <2>1, <2>2, RunPuts, SettledStays
<1>7. ASSUME Incremental, ~SetFinished
      PROVE  StartIsBehind'
  <2>1. CASE JobReturns
    <3>1. UNCHANGED <<work, index>>
      BY <2>1 DEF JobReturns, StorageKept, storageVars
    <3>2. QED
      BY <1>1, <1>2, <1>7, <3>1 DEF DateIsBehind, StartIsBehind, Current
  <2>2. CASE ~JobReturns
    <3>1. unfinished
      BY <1>3, <1>7, <2>2 DEF DateIsBehind, UnfinishedUntilClaimed, IInv
    <3>2. QED
      BY <1>1, <1>7, <3>1 DEF StartIsBehind
  <2>3. QED
    BY <2>1, <2>2
<1>8. QED
  BY <1>1, <1>2, <1>4, <1>5, <1>6, <1>7

\* What a run will claim to have harvested.
ToClaim == Url \ (excused \union failed \union todo \union NotAskedFor)

\* The list: what is not new is in the index, unless the date is spoiled.
LEMMA ListHarvested ==
  ASSUME TypeOK, IInv, DateIsBehind, Incremental, TypeOK', NEW u \in Url,
         NotModified(u) \/ StoreFile(u) \/ RequestFails(u) \/ FileFails(u) \/ StoreFails(u)
  PROVE  Harvested'
<1>1. /\ UNCHANGED <<clock, version, modified, settings, lastStarted, sched, since, spoiled, excused>>
      /\ Horizon' = Horizon
      /\ pc = "list" /\ todo' = todo \ {u} /\ failed \subseteq failed' /\ lastDate = since
  BY DEF NotModified, StoreFile, RequestFails, FileFails, StoreFails, Listing, Elsewhere,
         serverVars, schedVars, runVars, lastDate, Incremental, Horizon
<1>2. NotAskedFor' = NotAskedFor
  BY <1>1 DEF NotAskedFor, IsNew, lastDate
<1>3. \A v \in ToClaim : modified[v] > Horizon \/ work[v] = version[v]
  BY <1>1 DEF DateIsBehind, Harvested, ToClaim
<1>4. pc' \in {"list", "failed", "exception"}
  BY <1>1 DEF NotModified, StoreFile, RequestFails, FileFails, StoreFails, Goto
<1>5. SUFFICES ASSUME NEW v \in Url \ (excused \union failed' \union todo' \union NotAskedFor)
               PROVE  modified[v] > Horizon \/ work'[v] = version[v]
  BY <1>1, <1>2, <1>4 DEF Harvested
<1>6. v \in ToClaim \/ v = u
  BY <1>1 DEF ToClaim
<1>7. CASE NotModified(u)
  <2>1. work' = work
    BY <1>7 DEF NotModified, StorageKept, storageVars
  <2>2. CASE v = u
    <3>1. ~IsNew(u, since) /\ ~spoiled
      BY <1>1, <1>7, <2>2 DEF NotModified, NotAskedFor
    <3>2. since # 0 /\ ~(modified[u] > since) /\ u \notin excused
      BY <2>2, <3>1 DEF IsNew
    <3>3. Settled(u)
      BY <3>1, <3>2 DEF DateIsBehind, ObjectDateIsBehind
    <3>4. QED
      BY <2>1, <2>2, <3>3 DEF Settled, Current
  <2>3. QED
    BY <1>3, <1>6, <2>1, <2>2
<1>8. CASE StoreFile(u)
  BY <1>3, <1>6, <1>8 DEF StoreFile, Storage!Put, TypeOK
<1>9. CASE RequestFails(u) \/ FileFails(u)
  <2>1. work' = work /\ failed' = failed \union {u}
    BY <1>9 DEF RequestFails, FileFails, StorageKept, storageVars
  <2>2. QED
    BY <1>3, <1>6, <2>1
<1>10. CASE StoreFails(u)
  <2>1. failed' = failed \union {u} \union touched /\ \A w \in Url \ touched : work'[w] = work[w]
    BY <1>10 DEF StoreFails, Storage!Fail, Storage!SomeOfWork
  <2>2. QED
    BY <1>3, <1>6, <2>1
<1>11. QED
  BY <1>7, <1>8, <1>9, <1>10

\* The other steps of run().
LEMMA EndHarvested ==
  ASSUME TypeOK, IInv, DateIsBehind, Incremental, TypeOK',
         \/ BeginStorage \/ PurgeStorage \/ BeginFails \/ JobBegins
         \/ AfterStoreFails \/ LeaveList \/ After \/ MakeOk \/ Decide
         \/ Commit \/ Finish \/ SetFinished \/ Rollback \/ HandleException \/ JobReturns
         \/ CommitFails \/ RollbackFails \/ HandlerFails
  PROVE  Harvested'
<1>1. UNCHANGED <<version, modified, settings, since, spoiled>> /\ Horizon' = Horizon
  BY RunCommon DEF RunStep, Fault
<1>2. NotAskedFor' = NotAskedFor
  BY <1>1 DEF NotAskedFor, IsNew, lastDate
<1>3. CASE \/ BeginStorage \/ PurgeStorage \/ BeginFails \/ SetFinished \/ Rollback
           \/ HandleException \/ JobReturns \/ CommitFails \/ RollbackFails \/ HandlerFails
  <2>1. pc' \in {"purge", "begin", "return", "idle", "exception", "storageError"}
    BY <1>3 DEF BeginStorage, PurgeStorage, BeginFails, SetFinished, Rollback, HandleException,
                JobReturns, CommitFails, RollbackFails, HandlerFails, HandlerSetsError, Goto
  <2>2. QED
    BY <2>1 DEF Harvested
<1>4. CASE JobBegins
  BY <1>4 DEF JobBegins, Goto, Harvested
<1>5. CASE AfterStoreFails \/ LeaveList \/ After \/ MakeOk \/ Decide
  <2>1. /\ UNCHANGED <<excused, failed, todo, work>>
        /\ \/ /\ pc \in {"list", "failed", "after", "makeOk"}
              /\ pc' \in {"list", "after", "makeOk", "decide", "storageError"}
           \/ pc = "decide" /\ pc' \in {"commit", "rollback"}
    BY <1>5 DEF AfterStoreFails, LeaveList, After, MakeOk, Decide, Goto, RunOnly, StorageKept,
                storageVars, Storage!GoOn
  <2>2. QED
    BY <1>1, <1>2, <2>1 DEF DateIsBehind, Harvested
<1>6. CASE Commit
  <2>1. /\ UNCHANGED <<excused, failed, todo, work>> /\ index' = work
        /\ pc = "commit" /\ pc' = "finish"
    BY <1>6 DEF Commit, Goto, RunOnly, Storage!Commit
  <2>2. QED
    BY <1>1, <1>2, <2>1 DEF DateIsBehind, Harvested, Current
<1>7. CASE Finish
  <2>1. /\ UNCHANGED <<excused, failed, todo, work, index>>
        /\ pc = "finish" /\ pc' \in {"return", "setFinished"}
    BY <1>7 DEF Finish, Goto, RunOnly, StorageKept, storageVars
  <2>2. QED
    BY <1>1, <1>2, <2>1 DEF DateIsBehind, Harvested, Current
<1>8. QED
  BY <1>3, <1>4, <1>5, <1>6, <1>7

\* The steps of run() keep the invariant; that the last one may claim what it claims is
\* what it has harvested.
LEMMA RunBehind ==
  ASSUME TypeOK, IInv, DateIsBehind, TypeOK', PhaseFits', RunStep \/ Fault
  PROVE  DateIsBehind'
<1>1. /\ UNCHANGED <<version, modified>> /\ Horizon' = Horizon
      /\ DatesInOrder' /\ UnfinishedUntilClaimed' /\ Incremental' = Incremental
      /\ pc' = "purge" => settings'.overwrite
      /\ Incremental => ObjectDateIsBehind'
      /\ Incremental /\ ~SetFinished => StartIsBehind'
  BY RunCommon
<1>2. ASSUME Incremental PROVE Harvested'
  BY <1>2, ListHarvested, EndHarvested DEF RunStep, Fault
<1>3. ASSUME Incremental, SetFinished PROVE StartIsBehind'
  <2>1. /\ pc = "setFinished" /\ UNCHANGED <<work, index>>
        /\ excused' = PassedOver
    BY <1>3 DEF SetFinished, StorageKept, storageVars
  <2>2. \A u \in Url \ excused' : modified[u] > Horizon \/ Current(u)
    BY <1>3, <2>1 DEF DateIsBehind, Harvested, PassedOver
  <2>3. QED
    BY <1>1, <2>1, <2>2 DEF StartIsBehind, Current
<1>4. QED
  BY <1>1, <1>2, <1>3 DEF DateIsBehind

\* While the clock goes on, a start that has not been stamped hides more; no file is
\* newer than it.
LEMMA TickBehind ==
  ASSUME TypeOK, IInv, DateIsBehind, TypeOK', Tick \/ UNCHANGED vars
  PROVE  DateIsBehind'
<1>1. /\ UNCHANGED <<version, modified, settings, lastStarted, row, sched, since, spoiled,
                     unfinished, excused, failed, todo, thread, pc, phase, base, work, touched,
                     index>>
      /\ clock' \in {clock, clock + 1}
  BY DEF Tick, vars, serverVars, schedVars, runVars, storageVars, historyVars
<1>2. DatesInOrder'
  BY <1>1, Numbers DEF DateIsBehind, DatesInOrder
<1>3. \A u \in Url : modified[u] > Horizon => modified[u] > Horizon'
  BY <1>1, Numbers DEF Horizon, DateIsBehind, DatesInOrder
<1>4. Incremental' = Incremental /\ NotAskedFor' = NotAskedFor
  BY <1>1 DEF Incremental, NotAskedFor, IsNew, lastDate
<1>5. Incremental => ObjectDateIsBehind' /\ StartIsBehind' /\ Harvested'
  BY <1>1, <1>3, <1>4
  DEF DateIsBehind, ObjectDateIsBehind, StartIsBehind, Harvested, Settled, Current
<1>6. QED
  BY <1>1, <1>2, <1>4, <1>5 DEF DateIsBehind, PhaseFits, UnfinishedUntilClaimed

\* A change is later than all that the next date will hide, and then later than the date
\* of the object, or it is excused.
LEMMA ChangeBehind ==
  ASSUME TypeOK, IInv, DateIsBehind, TypeOK', NEW u \in Url, ChangeFile(u)
  PROVE  DateIsBehind'
<1>1. /\ UNCHANGED <<clock, settings, lastStarted, row, sched, since, spoiled,
                     unfinished, failed, todo, thread, pc, phase, base, work, touched, index>>
      /\ modified' = [modified EXCEPT ![u] = clock]
  BY DEF ChangeFile, schedVars, runVars, storageVars
<1>2. /\ \A v \in Url \ {u} : /\ version'[v] = version[v] /\ modified'[v] = modified[v]
                              /\ v \in excused' <=> v \in excused
      /\ modified'[u] = clock
  BY DEF ChangeFile, TypeOK
<1>3. Horizon' = Horizon
  BY <1>1 DEF Horizon
<1>4. u \in excused' \/ (modified'[u] > Horizon /\ modified'[u] > since)
  BY <1>2, HorizonInOrder, Numbers DEF ChangeFile
<1>5. DatesInOrder'
  BY <1>1, <1>2, Numbers DEF DateIsBehind, DatesInOrder
<1>6. Incremental' = Incremental /\ (Incremental => lastDate = since /\ lastDate' = since)
  BY <1>1 DEF Incremental, lastDate
<1>7. Incremental => ObjectDateIsBehind'
  BY <1>1, <1>2, <1>4 DEF DateIsBehind, ObjectDateIsBehind, Settled, Current
<1>8. Incremental => StartIsBehind'
  BY <1>1, <1>2, <1>3, <1>4 DEF DateIsBehind, StartIsBehind, Current
<1>9. ASSUME Incremental PROVE Harvested'
  <2>1. \A v \in Url \ {u} : v \in NotAskedFor' <=> v \in NotAskedFor
    BY <1>1, <1>2, <1>6, <1>9 DEF NotAskedFor, IsNew
  <2>2. QED
    BY <1>1, <1>2, <1>3, <1>4, <1>9, <2>1 DEF DateIsBehind, Harvested, Current
<1>10. QED
  BY <1>1, <1>5, <1>6, <1>7, <1>8, <1>9 DEF DateIsBehind, PhaseFits, UnfinishedUntilClaimed

\* The scheduler records a start that is not before the date of the object.
LEMMA SchedulerBehind ==
  ASSUME TypeOK, IInv, DateIsBehind, TypeOK',
         \/ StartJob \/ StampStart \/ Persist \/ NotifyFinish \/ KillFinish \/ KillAll
         \/ StopJob \/ Edit \/ RecordShutdown
  PROVE  DateIsBehind'
<1>1. /\ UNCHANGED <<clock, version, modified, settings, since, spoiled, excused, failed, todo, pc,
                     phase, base, work, touched, index>>
      /\ \/ StartJob /\ unfinished' /\ UNCHANGED <<lastStarted, row>> /\ thread = "none"
         \/ StampStart /\ lastStarted' = clock /\ UNCHANGED <<row, thread, unfinished>>
            /\ Horizon' = Horizon
         \/ UNCHANGED <<lastStarted, thread, unfinished>> /\ Horizon' = Horizon
      /\ row'.lastStarted \in {row.lastStarted, lastStarted}
  BY DEF Horizon, StartJob, StampStart, Persist, NotifyFinish, KillFinish, KillAll, StopJob, Edit, RecordShutdown,
         KillBegin, NotByScheduler, serverVars, schedVars, runVars, storageVars, historyVars,
         TypeOK
<1>2. DatesInOrder'
  BY <1>1, Numbers DEF DateIsBehind, DatesInOrder
<1>3. Incremental' = Incremental /\ NotAskedFor' = NotAskedFor
  BY <1>1 DEF Incremental, NotAskedFor, IsNew, lastDate
<1>4. PhaseFits' /\ UnfinishedUntilClaimed' /\ (pc' = "purge" => settings'.overwrite)
  BY <1>1 DEF DateIsBehind, PhaseFits, UnfinishedUntilClaimed
<1>5. Incremental => ObjectDateIsBehind' /\ StartIsBehind'
  BY <1>1 DEF DateIsBehind, ObjectDateIsBehind, StartIsBehind, Settled, Current
<1>6. ASSUME Incremental PROVE Harvested'
  <2>1. CASE thread = "none"
    <3>1. pc' = "idle"
      BY <1>1, <2>1 DEF IInv
    <3>2. QED
      BY <3>1 DEF Harvested
  <2>2. CASE Horizon' = Horizon
    BY <1>1, <1>3, <1>6, <2>2 DEF DateIsBehind, Harvested, Current
  <2>3. QED
    BY <1>1, <2>1, <2>2
<1>7. QED
  BY <1>2, <1>3, <1>4, <1>5, <1>6 DEF DateIsBehind

\* A crash loses the start of the run that it breaks off, if that was not recorded.
LEMMA CrashBehind ==
  ASSUME TypeOK, IInv, DateIsBehind, TypeOK', Crash
  PROVE  DateIsBehind'
<1>1. /\ UNCHANGED <<clock, version, modified, settings, row, since, unfinished, excused, spoiled>>
      /\ thread' = "none" /\ pc' = "idle" /\ lastStarted' = row.lastStarted
      /\ sched' = "down"
      /\ (phase = "closed" /\ StorageKept) \/ (phase # "closed" /\ Storage!GiveUp)
  BY DEF Crash, Goto, serverVars, historyVars
<1>2. phase' = "closed"
  BY <1>1 DEF StorageKept, storageVars, Storage!GiveUp
<1>3. DatesInOrder'
  BY <1>1, Numbers DEF DateIsBehind, DatesInOrder
<1>4. ASSUME Incremental PROVE ObjectDateIsBehind'
  <2> SUFFICES ASSUME ~spoiled, since # 0, NEW u \in Url \ excused, ~(modified[u] > since)
               PROVE  Settled(u)'
    BY <1>1 DEF ObjectDateIsBehind
  <2>1. Settled(u)
    BY <1>4 DEF DateIsBehind, ObjectDateIsBehind
  <2>2. QED
    BY <1>1, <2>1, SettledStays
<1>5. ASSUME Incremental PROVE StartIsBehind'
  <2> SUFFICES ASSUME ~unfinished, NEW u \in Url \ excused
               PROVE  modified[u] > row.lastStarted \/ Current(u)'
    BY <1>1 DEF StartIsBehind, Horizon
  <2>1. thread = "none" \/ pc = "return"
    BY DEF DateIsBehind, UnfinishedUntilClaimed, IInv
  <2>2. phase = "closed"
    BY <2>1 DEF DateIsBehind, PhaseFits, IInv
  <2>3. modified[u] > Horizon \/ Current(u)
    BY <1>5 DEF DateIsBehind, StartIsBehind
  <2>4. row.lastStarted <= Horizon
    BY HorizonInOrder
  <2>5. QED
    BY <1>1, <2>2, <2>3, <2>4, Numbers DEF Current, StorageKept, storageVars
<1>6. QED
  BY <1>1, <1>2, <1>3, <1>4, <1>5
  DEF DateIsBehind, PhaseFits, UnfinishedUntilClaimed, Harvested, Incremental

\* A new object takes the recorded start for its date, which is that of the last run or of
\* one before it; if that run has not claimed to have finished, the date is spoiled.
LEMMA RenewBehind ==
  ASSUME TypeOK, IInv, DateIsBehind, TypeOK', Renew
  PROVE  DateIsBehind'
<1>1. /\ UNCHANGED <<clock, version, modified, settings, row, excused, pc, phase, base, work,
                     touched, index>>
      /\ thread = "none" /\ thread' \in {"none", "started"}
      /\ since' \in {0, row.lastStarted}
      /\ lastStarted' = row.lastStarted
      /\ unfinished' = (unfinished \/ thread' = "started")
      /\ ~unfinished' => sched' = "up"
      /\ ~spoiled' /\ since' # 0 => ~unfinished
  BY DEF Renew, serverVars, storageVars, TypeOK
<1>2. pc = "idle" /\ phase = "closed"
  BY <1>1 DEF IInv, DateIsBehind, PhaseFits
<1>3. row.lastStarted <= lastStarted /\ lastStarted <= clock
  BY DEF DateIsBehind, DatesInOrder
<1>4. DatesInOrder'
  BY <1>1, <1>3, Numbers DEF DateIsBehind, DatesInOrder
<1>5. ASSUME Incremental, ~unfinished, NEW u \in Url \ excused
      PROVE  modified[u] > row.lastStarted \/ Current(u)
  BY <1>5, HorizonInOrder, Numbers DEF DateIsBehind, StartIsBehind
<1>6. Incremental => ObjectDateIsBehind' /\ StartIsBehind'
  BY <1>1, <1>2, <1>5 DEF ObjectDateIsBehind, StartIsBehind, Settled, Current, Horizon
<1>7. QED
  BY <1>1, <1>2, <1>4, <1>6
  DEF DateIsBehind, PhaseFits, UnfinishedUntilClaimed, Harvested, Incremental

-----------------------------------------------------------------------------
\* A new job goes by no date.
LEMMA InitBehind == Init => DateIsBehind
<1> SUFFICES ASSUME Init PROVE DateIsBehind
  OBVIOUS
<1>1. /\ clock = 1 /\ modified = [u \in Url |-> 1] /\ lastStarted = 0 /\ row.lastStarted = 0
      /\ since = 0 /\ sched = "up" /\ thread = "none" /\ pc = "idle" /\ phase = "closed"
  BY DEF Init, Storage!Init
<1>2. QED
  BY <1>1 DEF DateIsBehind, PhaseFits, DatesInOrder, UnfinishedUntilClaimed, ObjectDateIsBehind,
              StartIsBehind, Harvested, Horizon

\* Every step keeps the dates of the job behind what is missing.
LEMMA NextBehind ==
  TypeOK /\ IInv /\ DateIsBehind /\ [Next]_vars => TypeOK' /\ DateIsBehind'
<1> SUFFICES ASSUME TypeOK, IInv, DateIsBehind, [Next]_vars
             PROVE  TypeOK' /\ DateIsBehind'
  OBVIOUS
<1>1. TypeOK' /\ PhaseFits'
  BY NextTypeOK DEF DateIsBehind
<1>2. CASE RunStep \/ Fault
  BY <1>1, <1>2, RunBehind
<1>3. CASE Tick \/ (\E u \in Url : ChangeFile(u)) \/ UNCHANGED vars
  BY <1>1, <1>3, TickBehind, ChangeBehind
<1>4. CASE SchedulerStep \/ Interruption
  BY <1>1, <1>4, SchedulerBehind, CrashBehind, RenewBehind DEF SchedulerStep, Interruption
<1>5. QED
  BY <1>1, <1>2, <1>3, <1>4 DEF Next

\* A job that asks for everything needs no date.
LEMMA BehindSkipsNothing == DateIsBehind => NoFileSkipped
<1> SUFFICES ASSUME DateIsBehind, ~spoiled, ~(settings.allowCondReq /\ settings.overwrite),
                    NEW u \in Url \ excused
             PROVE  Current(u) \/ IsNew(u, lastDate)
  BY DEF NoFileSkipped, Complete
<1>1. CASE Incremental
  BY <1>1 DEF DateIsBehind, ObjectDateIsBehind, Settled, IsNew, lastDate
<1>2. CASE ~settings.allowCondReq
  BY <1>2 DEF IsNew, lastDate
<1>3. QED
  BY <1>1, <1>2 DEF Incremental

\* The start of a run is recorded and taken for the date of the conditional requests only
\* where all that is older is in the index, whatever faults, kills, edits, restarts and
\* crashes the runs have met.
THEOREM DatesAreBehind == Spec => []DateIsBehind
<1>1. Init => TypeOK /\ DateIsBehind
  BY InitType, InitBehind
<1>2. TypeOK /\ IInv /\ DateIsBehind /\ [Next]_vars => TypeOK' /\ DateIsBehind'
  BY NextBehind
<1>3. QED
  BY <1>1, <1>2, Invariance, PTL DEF Spec

\* Between its runs, a job that asks for new files only will ask for every file whose
\* present version the index lacks, with the exceptions that NoFileSkipped names.
THEOREM SkipsNothing == Spec => []NoFileSkipped
<1>1. DateIsBehind => NoFileSkipped
  BY BehindSkipsNothing
<1>2. QED
  BY <1>1, DatesAreBehind, PTL
=============================================================================

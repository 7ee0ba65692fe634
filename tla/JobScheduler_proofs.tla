------------------------ MODULE JobScheduler_proofs ------------------------
(***************************************************************************)
(* Proofs, for any number of instances, edits and deployments, of          *)
(*   TypeCorrect        Spec => []TypeOK                                   *)
(*   OrphansAreKilled   Spec => []OrphansKilled                            *)
(*   RowIsAsRemembered  ~DbErrors /\ Spec => []RowAsRemembered             *)
(*   RunningInvariance  Spec => []RunningIInv, for bulk and connector      *)
(*     jobs that nobody kills, when no start() throws                      *)
(*   RunningJobHasThread  Spec => []RunningHasThread, under the same       *)
(*   SchedulerKeepsContract  Spec => CallsKeepContract                     *)
(*                                                                         *)
(* The first two are conjuncts of the inductive invariant IInv, whose      *)
(* preservation is split into one lemma per conjunct; each lemma takes     *)
(* the steps of Next one by one, or in groups that disturb it alike.       *)
(***************************************************************************)
EXTENDS JobScheduler, HarvestJob_proofs, TLAPS

-----------------------------------------------------------------------------
(* The operators on job records *)

\* The construction of a job returns a job record with the status it is given.
LEMMA NewJobType ==
  ASSUME NEW s \in StatusOrNull
  PROVE  /\ NewJob(s) \in JobRecord
         /\ BlankJob \in JobRecord
         /\ NewJob(s).run = s
         /\ s # "FINISHED" => NewJob(s).job = s
BY DEF JobRecord, NewJob, SetStatus, BlankJob, StatusOrNull, Null

-----------------------------------------------------------------------------
(* Type correctness *)

\* Facts about the types that do not depend on the state.
LEMMA Types ==
  /\ BlankRow \in RowRecord
  /\ \A s \in HarvestStatus \union {Null} : s \in StatusOrNull
  /\ \A m \in RowRecord : /\ m.status \in HarvestStatus /\ m.status \in StatusOrNull
                          /\ m.version \in 0..MaxEdits
                          /\ m.immediate \in BOOLEAN
                          /\ m.enabled \in BOOLEAN
  /\ \A m \in RowRecord : \A s \in HarvestStatus : [m EXCEPT !.status = s] \in RowRecord
  /\ \A m \in RowRecord : [m EXCEPT !.immediate = FALSE] \in RowRecord
  /\ \A j \in JobRecord : j.run \in StatusOrNull /\ j.job \in StatusOrNull
<1>1. \A s \in HarvestStatus \union {Null} : s \in StatusOrNull
  BY DEF StatusOrNull
<1>2. BlankRow \in RowRecord
  BY BoundsAssumption DEF BlankRow, RowRecord, HarvestStatus
<1>3. \A m \in RowRecord : /\ m.status \in HarvestStatus /\ m.status \in StatusOrNull
                          /\ m.version \in 0..MaxEdits
                          /\ m.immediate \in BOOLEAN
                          /\ m.enabled \in BOOLEAN
  BY <1>1 DEF RowRecord
<1>4. \A m \in RowRecord : \A s \in HarvestStatus : [m EXCEPT !.status = s] \in RowRecord
  BY DEF RowRecord
<1>5. \A m \in RowRecord : [m EXCEPT !.immediate = FALSE] \in RowRecord
  BY DEF RowRecord
<1>6. \A j \in JobRecord : j.run \in StatusOrNull /\ j.job \in StatusOrNull
  BY DEF JobRecord
<1>7. QED
  BY <1>1, <1>2, <1>3, <1>4, <1>5, <1>6

LEMMA InitTypeOK == Init => TypeOK
<1> SUFFICES ASSUME Init PROVE TypeOK
  OBVIOUS
<1>1. row \in RowRecord
  BY BoundsAssumption DEF Init, RowRecord, HarvestStatus
<1>2. BlankJob \in JobRecord /\ BlankRow \in RowRecord /\ Null \in StatusOrNull
  BY NewJobType, Types DEF StatusOrNull
<1>3. edits \in 0..MaxEdits /\ boots \in 0..MaxBoots
  BY BoundsAssumption DEF Init
<1>4. QED
  BY <1>1, <1>2, <1>3 DEF Init, TypeOK, ThreadState, Killer, SchedulerPC

\* Every step preserves the types, given that loops over the jobs have a job.
LEMMA NextTypeOK == TypeOK /\ LoopHasJob /\ [Next]_vars => TypeOK'
<1> SUFFICES ASSUME TypeOK, LoopHasJob, [Next]_vars PROVE TypeOK'
  OBVIOUS
<1> USE BoundsAssumption DEF TypeOK, Goto, jobVars, instVars, envVars
<1>j. /\ \A j \in JobRecord :
           /\ \A s \in StatusOrNull : SetStatus(j, s) \in JobRecord
           /\ KillRequested(j) \in JobRecord
           /\ KillOverwrite(j) \in JobRecord
           /\ FinishReceived(j) \in JobRecord
           /\ ClearUpdated(j) \in JobRecord
           /\ AtReturn(Kind, j) \in JobRecord
  BY JobOperationsType
<1>n. BlankJob \in JobRecord /\ \A s \in StatusOrNull : NewJob(s) \in JobRecord
  BY NewJobType DEF StatusOrNull
<1>1. CASE RunBegin \/ Loop \/ CheckNothing \/ CheckRunningOrKilled
  BY <1>1 DEF RunBegin, Loop, CheckNothing, CheckRunningOrKilled, EndCheck, SchedulerPC
<1>2. CASE NotifyFinish
  BY <1>2, <1>j, <1>n, Types DEF NotifyFinish, Persist, Current, SchedulerPC
<1>3. CASE CheckTime \/ CheckShutdown
  <2>1. \A m \in RowRecord : [m EXCEPT !.immediate = FALSE] \in RowRecord
    BY DEF RowRecord
  <2>2. QED
    BY <1>3, <2>1 DEF CheckTime, CheckShutdown, Start, Current, SchedulerPC, ThreadState
<1>4. CASE StartFails \/ PersistNull
  <2>1. \A m \in RowRecord : [m EXCEPT !.immediate = FALSE] \in RowRecord
    BY DEF RowRecord
  <2>2. mem' \in [Inst -> RowRecord]
    BY <1>4, <2>1 DEF StartFails, PersistNull, Current
  <2>3. QED
    BY <1>4, <2>2 DEF StartFails, PersistNull, Throw, SchedulerPC
<1>5. CASE Compare \/ Remember
  BY <1>5, <1>j, <1>n, Types DEF Compare, Remember, LoopHasJob, Current, SchedulerPC
<1>6. CASE PersistChanges
  <2>1. \A m \in RowRecord : \A s \in HarvestStatus : [m EXCEPT !.status = s] \in RowRecord
    BY DEF RowRecord
  <2>2. jobs \in Inst /\ (changed => job[jobs].run \in HarvestStatus)
    BY <1>6, Types DEF PersistChanges, LoopHasJob, Current, StatusOrNull
  <2>3. mem' \in [Inst -> RowRecord] /\ row' \in RowRecord \union {NoRow}
    BY <1>6, <2>1, <2>2, Types DEF PersistChanges, Persist
  <2>4. job' \in [Inst -> JobRecord]
    BY <1>6, <2>2, <1>j DEF PersistChanges
  <2>5. QED
    BY <1>6, <2>3, <2>4 DEF PersistChanges, EndCheck, SchedulerPC
<1>7. CASE ListBriefs \/ ListFails \/ KeepInstance \/ NoInstanceNoRow \/ CreateNothing
           \/ CreateFails
  BY <1>7 DEF ListBriefs, ListFails, KeepInstance, NoInstanceNoRow, CreateNothing, CreateFails,
              EndUpdate, Throw, SchedulerPC
<1>8. CASE DiscardInstance
  <2>1. job' \in [Inst -> JobRecord]
    BY <1>8, <1>j, <1>n DEF DiscardInstance, Current
  <2>2. killer' \in [Inst -> Killer]
    BY <1>8 DEF DiscardInstance, Killer
  <2>3. last' \in [Inst -> StatusOrNull] /\ mem' \in [Inst -> RowRecord]
    BY <1>8, Types DEF DiscardInstance, Forget
  <2>4. QED
    BY <1>8, <2>1, <2>2, <2>3 DEF DiscardInstance, Forget, schedVars
<1>9. CASE CreateInstance \/ CreateStartFails
  <2>1. PICK i \in Inst : NewInstance(i)
    BY <1>9 DEF CreateInstance, CreateStartFails
  <2>2. row \in RowRecord /\ brief \in RowRecord
    BY <1>9 DEF CreateInstance, CreateStartFails, Listed
  <2>3. job' \in [Inst -> JobRecord] /\ jobs' \in Inst
    BY <2>1, <2>2, <1>n, Types DEF NewInstance
  <2>4. mem' \in [Inst -> RowRecord] /\ last' \in [Inst -> StatusOrNull]
    BY <2>1, <2>2, Types DEF NewInstance
  <2>5. enabled' \in [Inst -> BOOLEAN]
    BY <2>1, <2>2, Types DEF NewInstance
  <2>6. thread' \in [Inst -> ThreadState]
    BY <1>9 DEF CreateInstance, CreateStartFails, ThreadState
  <2>7. QED
    BY <1>9, <2>3, <2>4, <2>5, <2>6
       DEF CreateInstance, CreateStartFails, EndUpdate, Throw, SchedulerPC
<1>10. CASE RecordShutdown
  <2>1. \A m \in RowRecord : [m EXCEPT !.status = "SHUTDOWN"] \in RowRecord
    BY DEF RowRecord, HarvestStatus
  <2>2. QED
    BY <1>10, <2>1 DEF RecordShutdown, Persist, Current, SchedulerPC
<1>11. CASE KillAll
  BY <1>11, <1>j, <1>n, Types DEF KillAll, KillBegin, LoopHasJob, Current, SchedulerPC, Killer
<1>12. ASSUME NEW i \in Inst, ThreadStep(i) \/ KillFinish(i) PROVE TypeOK'
  <2>1. \A s \in MayBegin(Kind) \union MaySet(Kind, job[i].run) : s \in StatusOrNull
    BY MayBeginType, MaySetType, KindAssumption DEF StatusOrNull, HarvestStatus
  <2>2. CASE JobBegins(i)
    <3>1. PICK s \in StatusOrNull : job' = [job EXCEPT ![i] = SetStatus(@, s)]
      BY <2>2, <2>1 DEF JobBegins
    <3>2. job' \in [Inst -> JobRecord]
      BY <3>1, <1>j
    <3>3. QED
      BY <2>2, <3>2 DEF JobBegins, ThreadState, schedVars
  <2>3. CASE JobSetsStatus(i)
    <3>1. PICK s \in StatusOrNull : job' = [job EXCEPT ![i] = SetStatus(@, s)]
      BY <2>3, <2>1 DEF JobSetsStatus
    <3>2. job' \in [Inst -> JobRecord]
      BY <3>1, <1>j
    <3>3. QED
      BY <2>3, <3>2 DEF JobSetsStatus, schedVars
  <2>4. CASE JobReturns(i)
    BY <2>4, <1>j, <1>n DEF JobReturns, ThreadState, schedVars
  <2>5. CASE KillFinish(i)
    BY <2>5, <1>j, <1>n DEF KillFinish, Kept, Killer, schedVars
  <2>6. QED
    BY <1>12, <2>2, <2>3, <2>4, <2>5 DEF ThreadStep
<1>13. CASE AdminPut
  <2>1. ASSUME NEW immediate \in BOOLEAN, NEW enable \in BOOLEAN, edits < MaxEdits
        PROVE  [status |-> "NEW", version |-> edits + 1, immediate |-> immediate,
                enabled |-> enable] \in RowRecord
    BY <2>1 DEF RowRecord, StatusOrNull, HarvestStatus
  <2>2. QED
    BY <1>13, <2>1 DEF AdminPut, schedVars
<1>14. CASE AdminReset \/ AdminDelete
  <2>1. \A m \in RowRecord : [m EXCEPT !.status = "NEW"] \in RowRecord
    BY DEF RowRecord, HarvestStatus
  <2>2. QED
    BY <1>14, <2>1 DEF AdminReset, AdminDelete, schedVars
<1>15. CASE StopJob \/ Shutdown
  <2>1. CASE StopJob
    <3>1. job' \in [Inst -> JobRecord]
      BY <2>1, <1>j DEF StopJob, KillBegin, Current
    <3>2. killer' \in [Inst -> Killer]
      BY <2>1 DEF StopJob, KillBegin, Killer
    <3>3. QED
      BY <2>1, <3>1, <3>2 DEF StopJob, schedVars
  <2>2. CASE Shutdown
    BY <2>2 DEF Shutdown
  <2>3. QED
    BY <1>15, <2>1, <2>2
<1>16. CASE Crash
  BY <1>16, <1>j, <1>n, Types DEF Crash, ThreadState, Killer, SchedulerPC
<1>17. CASE Deploy
  <2>1. boots' \in 0..MaxBoots
    BY <1>17 DEF Deploy
  <2>2. job' \in [Inst -> JobRecord]
    BY <1>17, <1>n DEF Deploy, Current
  <2>3. last' \in [Inst -> StatusOrNull] /\ mem' \in [Inst -> RowRecord]
    BY <1>17, Types DEF Deploy, Forget, Current
  <2>4. enabled' \in [Inst -> BOOLEAN]
    BY <1>17 DEF Deploy, Forget, Current
  <2>5. QED
    BY <1>17, <2>1, <2>2, <2>3, <2>4 DEF Deploy, SchedulerPC
<1>18. CASE UNCHANGED vars
  BY <1>18 DEF vars, schedVars
<1>19. QED
  BY <1>1, <1>2, <1>3, <1>4, <1>5, <1>6, <1>7, <1>8, <1>9, <1>10, <1>11, <1>12, <1>13, <1>14,
     <1>15, <1>16, <1>17, <1>18 DEF Next, SchedulerStep, Environment

-----------------------------------------------------------------------------
(* The other conjuncts of the inductive invariant *)

\* Only discarding, crashing and deploying take the job away, and none of them goes
\* to the body of a loop.
LEMMA NextLoopHasJob == TypeOK /\ LoopHasJob /\ [Next]_vars => LoopHasJob'
<1> SUFFICES ASSUME TypeOK, LoopHasJob, [Next]_vars PROVE LoopHasJob'
  OBVIOUS
<1> USE DEF LoopHasJob, Current, Goto, instVars, schedVars
<1>1. CASE RunBegin \/ Loop \/ CheckNothing \/ NotifyFinish \/ CheckTime \/ CheckShutdown
           \/ CheckRunningOrKilled
  BY <1>1 DEF RunBegin, Loop, CheckNothing, NotifyFinish, CheckTime, CheckShutdown,
              CheckRunningOrKilled, EndCheck
<1>2. CASE StartFails \/ PersistNull \/ Compare \/ Remember \/ PersistChanges
  BY <1>2 DEF StartFails, PersistNull, Compare, Remember, PersistChanges, Throw,
              EndCheck
<1>3. CASE ListBriefs \/ ListFails \/ KeepInstance \/ DiscardInstance \/ NoInstanceNoRow
  BY <1>3 DEF ListBriefs, ListFails, KeepInstance, DiscardInstance, NoInstanceNoRow, Throw,
              EndUpdate
<1>4. CASE CreateInstance \/ CreateNothing \/ CreateStartFails \/ CreateFails
  BY <1>4 DEF CreateInstance, CreateNothing, CreateStartFails, CreateFails, Throw, EndUpdate
<1>5. CASE RecordShutdown \/ KillAll
  BY <1>5 DEF RecordShutdown, KillAll
<1>6. ASSUME NEW i \in Inst, ThreadStep(i) \/ KillFinish(i) PROVE LoopHasJob'
  BY <1>6 DEF ThreadStep, JobBegins, JobSetsStatus, JobReturns, KillFinish
<1>7. CASE Environment
  BY <1>7 DEF Environment, AdminPut, AdminReset, AdminDelete, StopJob, Shutdown, Crash, Deploy
<1>8. CASE UNCHANGED vars
  BY <1>8 DEF vars
<1>9. QED
  BY <1>1, <1>2, <1>3, <1>4, <1>5, <1>6, <1>7, <1>8 DEF Next, SchedulerStep

\* The row and the list only part when the administrator edits, resets or deletes.
LEMMA NextListIsFresh == TypeOK /\ ListIsFresh /\ [Next]_vars => ListIsFresh'
<1> SUFFICES ASSUME TypeOK, ListIsFresh, [Next]_vars PROVE ListIsFresh'
  OBVIOUS
<1> USE DEF ListIsFresh, Goto, instVars, schedVars
<1>1. CASE RunBegin \/ Loop \/ CheckNothing \/ NotifyFinish \/ CheckTime \/ CheckShutdown
           \/ CheckRunningOrKilled
  BY <1>1 DEF RunBegin, Loop, CheckNothing, NotifyFinish, CheckTime, CheckShutdown,
              CheckRunningOrKilled, EndCheck
<1>2. CASE StartFails \/ PersistNull \/ Compare \/ Remember \/ PersistChanges
  BY <1>2 DEF StartFails, PersistNull, Compare, Remember, PersistChanges, Throw,
              EndCheck
<1>3. CASE ListBriefs \/ ListFails \/ KeepInstance \/ DiscardInstance \/ NoInstanceNoRow
  BY <1>3 DEF ListBriefs, ListFails, KeepInstance, DiscardInstance, NoInstanceNoRow, Throw,
              EndUpdate
<1>4. CASE CreateInstance \/ CreateNothing \/ CreateStartFails \/ CreateFails
  BY <1>4 DEF CreateInstance, CreateNothing, CreateStartFails, CreateFails, Throw, EndUpdate
<1>5. CASE RecordShutdown \/ KillAll
  BY <1>5 DEF RecordShutdown, KillAll
<1>6. ASSUME NEW i \in Inst, ThreadStep(i) \/ KillFinish(i) PROVE ListIsFresh'
  BY <1>6 DEF ThreadStep, JobBegins, JobSetsStatus, JobReturns, KillFinish
<1>7. CASE AdminPut \/ AdminDelete
  BY <1>7 DEF AdminPut, AdminDelete
<1>8. CASE AdminReset
  <2>1. row \in RowRecord
    BY <1>8 DEF AdminReset, TypeOK
  <2>2. row'.status = "NEW"
    BY <1>8, <2>1 DEF AdminReset, RowRecord
  <2>3. QED
    BY <1>8, <2>2 DEF AdminReset
<1>9. CASE StopJob \/ Shutdown \/ Crash \/ Deploy
  BY <1>9 DEF StopJob, Shutdown, Crash, Deploy
<1>10. CASE UNCHANGED vars
  BY <1>10 DEF vars
<1>11. QED
  BY <1>1, <1>2, <1>3, <1>4, <1>5, <1>6, <1>7, <1>8, <1>9, <1>10 DEF Next, SchedulerStep,
     Environment

\* What the steps of the harvesting threads and of kill() do to the job of instance i;
\* every other step leaves the threads, or starts one whose job has a status.
LEMMA NextJobStatusIsSet == IInv /\ [Next]_vars => JobStatusIsSet'
<1> SUFFICES ASSUME IInv, [Next]_vars, NEW i \in Inst
             PROVE  /\ job'[i].run \notin {Null, "FINISHED"} => job'[i].job # Null
                    /\ killer'[i] # "none" /\ i = jobs' => job'[i].job # Null
                    /\ Alive(i)' => job'[i].run # Null /\ job'[i].job # Null
  BY DEF JobStatusIsSet
<1> USE DEF IInv, Goto, jobVars, instVars, schedVars, envVars
<1>t. /\ job \in [Inst -> JobRecord] /\ thread \in [Inst -> ThreadState]
      /\ killer \in [Inst -> Killer] /\ job[i] \in JobRecord
      /\ Current => jobs \in Inst
  BY DEF TypeOK, Current
<1>i. /\ job[i].run \notin {Null, "FINISHED"} => job[i].job # Null
      /\ killer[i] # "none" /\ i = jobs => job[i].job # Null
      /\ Alive(i) => job[i].run # Null /\ job[i].job # Null
  BY DEF JobStatusIsSet
<1>r. \A j \in JobRecord :
        /\ KillRequested(j).run = j.run /\ KillRequested(j).job = j.job
        /\ KillOverwrite(j).run = "KILLED" /\ KillOverwrite(j).job = j.job
        /\ FinishReceived(j).run = j.job /\ FinishReceived(j).job = j.job
        /\ ClearUpdated(j).run = j.run /\ ClearUpdated(j).job = j.job
        /\ AtReturn(Kind, j).run = j.run /\ AtReturn(Kind, j).job = j.job
        /\ \A s \in HarvestStatus :
             /\ SetStatus(j, s).run = s
             /\ SetStatus(j, s).job = IF s = "FINISHED" THEN j.job ELSE s
  BY DEF JobRecord, KillRequested, KillOverwrite, FinishReceived, ClearUpdated, AtReturn,
         MarkForUpdate, SetStatus
<1>b. BlankJob.run = Null /\ BlankJob.job = Null /\ Null \notin HarvestStatus
  BY DEF BlankJob, Null, HarvestStatus
<1>1. CASE UNCHANGED <<job, thread, killer, jobs>>
  BY <1>1, <1>i DEF Alive
<1>2. CASE NotifyFinish
  BY <1>2, <1>i, <1>r, <1>t DEF NotifyFinish, Alive
<1>3. CASE CheckTime \/ CheckShutdown
  <2>1. /\ job[jobs].run \notin {Null, "FINISHED"} /\ jobs \in Inst
        /\ thread' \in {thread, [thread EXCEPT ![jobs] = IF Alive(jobs) THEN @ ELSE "started"]}
        /\ UNCHANGED <<job, killer, jobs>>
    BY <1>3, <1>t DEF CheckTime, CheckShutdown, Start, Null
  <2>2. i # jobs => thread'[i] = thread[i]
    BY <2>1, <1>t
  <2>3. QED
    BY <2>1, <2>2, <1>i DEF Alive
<1>4. CASE PersistChanges
  BY <1>4, <1>i, <1>r, <1>t DEF PersistChanges, Alive
<1>5. CASE DiscardInstance
  <2>1. i # jobs => job'[i] = job[i] /\ thread'[i] = thread[i]
    BY <1>5, <1>t DEF DiscardInstance
  <2>2. i = jobs => /\ job'[i] \in {KillRequested(job[i]), BlankJob}
                    /\ Alive(i) => job'[i] = KillRequested(job[i])
                    /\ thread'[i] = thread[i]
    BY <1>5, <1>t DEF DiscardInstance
  <2>3. i # jobs'
    BY <1>5, InstAssumption DEF DiscardInstance
  <2>4. QED
    BY <2>1, <2>2, <2>3, <1>i, <1>r, <1>b, <1>t DEF Alive
<1>6. CASE CreateInstance \/ CreateStartFails
  <2>1. PICK n \in Inst : /\ NewInstance(n)
                          /\ thread' = [thread EXCEPT ![n] =
                               IF brief.status = "RUNNING" /\ pc' = "switch" THEN "started" ELSE @]
    BY <1>6, <1>t DEF CreateInstance, CreateStartFails, EndUpdate, Throw
  <2>2. row \in RowRecord /\ row.status \in {brief.status, "NEW"} /\ row.status # Null
    BY <1>6 DEF CreateInstance, CreateStartFails, Listed, ListIsFresh, TypeOK,
       RowRecord, HarvestStatus, Null
  <2>3. i # n => job'[i] = job[i] /\ thread'[i] = thread[i] /\ killer'[i] = killer[i] /\ i # jobs'
    BY <1>6, <2>1, <1>t DEF NewInstance, CreateInstance, CreateStartFails
  <2>4. CASE i # n
    BY <2>3, <2>4, <1>i DEF Alive
  <2>5. CASE i = n
    <3>1. job'[i] = NewJob(row.status) /\ killer'[i] = "none" /\ ~Alive(i)
      BY <2>5, <2>1, <1>6, <1>t DEF NewInstance, Unused, CreateInstance, CreateStartFails
    <3>2. Alive(i)' => brief.status = "RUNNING"
      BY <3>1, <2>1, <2>5, <1>t DEF Alive
    <3>3. /\ NewJob(row.status).run = row.status
          /\ row.status # "FINISHED" => NewJob(row.status).job = row.status
      BY <2>2, Types, NewJobType
    <3>4. QED
      BY <3>1, <3>2, <3>3, <2>2 DEF Null
  <2>6. QED
    BY <2>4, <2>5
<1>7. CASE KillAll \/ StopJob
  <2>1. /\ jobs \in Inst /\ UNCHANGED <<thread, jobs>>
        /\ job' = [job EXCEPT ![jobs] = KillRequested(@)]
        /\ killer'[jobs] # "none" => job[jobs].run = "RUNNING"
        /\ i # jobs => killer'[i] = killer[i]
    BY <1>7, <1>t DEF KillAll, StopJob, KillBegin, KillWillOverwrite, LoopHasJob, Current
  <2>2. QED
    BY <2>1, <1>i, <1>r, <1>t DEF Alive, Null
<1>8. ASSUME NEW n \in Inst, ThreadStep(n) \/ KillFinish(n)
      PROVE  /\ job'[i].run \notin {Null, "FINISHED"} => job'[i].job # Null
             /\ killer'[i] # "none" /\ i = jobs' => job'[i].job # Null
             /\ Alive(i)' => job'[i].run # Null /\ job'[i].job # Null
  <2>1. jobs' = jobs
    BY <1>8 DEF ThreadStep, JobBegins, JobSetsStatus, JobReturns, KillFinish
  <2>2. CASE i # n
    <3>1. job'[i] = job[i] /\ thread'[i] = thread[i] /\ killer'[i] = killer[i]
      BY <1>8, <2>2, <1>t DEF ThreadStep, JobBegins, JobSetsStatus, JobReturns, KillFinish
    <3>2. QED
      BY <3>1, <2>1, <1>i DEF Alive
  <2>3. CASE i = n /\ JobBegins(n)
    <3>1. PICK s \in {"RUNNING", "ERROR"} : Alive(i) /\ job'[i] = SetStatus(job[i], s)
      BY <2>3, <1>t, MayBeginType DEF JobBegins, Alive
    <3>2. QED
      BY <3>1, <1>r, <1>t, <1>b DEF HarvestStatus, Null
  <2>4. CASE i = n /\ JobSetsStatus(n)
    <3>1. PICK s \in HarvestStatus : job'[i] = SetStatus(job[i], s)
      BY <2>4, <1>t, MaySetType, KindAssumption DEF JobSetsStatus
    <3>2. Alive(i)
      BY <2>4 DEF JobSetsStatus, Alive
    <3>3. QED
      BY <3>1, <3>2, <1>i, <1>r, <1>t, <1>b
  <2>5. CASE i = n /\ JobReturns(n)
    <3>1. Alive(i) /\ ~Alive(i)' /\ killer'[i] = killer[i]
      BY <2>5, <1>t DEF JobReturns, Alive
    <3>2. job'[i] = IF i = jobs THEN AtReturn(Kind, job[i]) ELSE BlankJob
      BY <2>5, <1>t DEF JobReturns
    <3>3. QED
      BY <3>1, <3>2, <2>1, <1>i, <1>r, <1>b, <1>t
  <2>6. CASE i = n /\ KillFinish(n)
    <3>1. /\ thread'[i] = thread[i] /\ killer[i] # "none" /\ killer'[i] = "none"
          /\ job'[i] = IF i = jobs \/ Alive(i) THEN KillOverwrite(job[i]) ELSE BlankJob
      BY <2>6, <1>t DEF KillFinish, Kept
    <3>2. QED
      BY <3>1, <2>1, <1>i, <1>r, <1>b, <1>t DEF Alive, Null
  <2>7. QED
    BY <1>8, <2>2, <2>3, <2>4, <2>5, <2>6 DEF ThreadStep
<1>9. CASE Crash
  BY <1>9, <1>b DEF Crash, Alive
<1>10. CASE Deploy
  <2>1. /\ UNCHANGED <<thread, killer>> /\ i # jobs'
        /\ job'[i] = job[i] \/ (job'[i] = BlankJob /\ ~Alive(i))
    BY <1>10, <1>t, InstAssumption DEF Deploy, Current
  <2>2. QED
    BY <2>1, <1>i, <1>b DEF Alive
<1>11. QED
  <2>1. CASE SchedulerStep
    <3>1. \/ UNCHANGED <<job, thread, killer, jobs>>
          \/ NotifyFinish \/ CheckTime \/ CheckShutdown \/ PersistChanges
          \/ DiscardInstance \/ CreateInstance \/ CreateStartFails \/ KillAll
      BY <2>1 DEF SchedulerStep, RunBegin, Loop, CheckNothing, StartFails, CheckRunningOrKilled,
           Compare, Remember, PersistNull, ListBriefs, ListFails, KeepInstance,
           NoInstanceNoRow, CreateNothing, CreateFails, RecordShutdown
    <3>2. QED
      BY <3>1, <1>1, <1>2, <1>3, <1>4, <1>5, <1>6, <1>7
  <2>2. CASE Environment
    <3>1. UNCHANGED <<job, thread, killer, jobs>> \/ StopJob \/ Crash \/ Deploy
      BY <2>2 DEF Environment, AdminPut, AdminReset, AdminDelete, Shutdown
    <3>2. QED
      BY <3>1, <1>1, <1>7, <1>9, <1>10
  <2>3. CASE UNCHANGED vars
    BY <2>3, <1>1 DEF vars
  <2>4. QED
    BY <2>1, <2>2, <2>3, <1>8 DEF Next

-----------------------------------------------------------------------------
(* The flag of the threads that the scheduler has left behind *)

\* A step of a harvesting thread, or of a kill() under way, wakes no thread and takes no
\* kill flag back from a live one.
LEMMA ThreadsKeepDie ==
  ASSUME TypeOK, NEW n \in Inst, ThreadStep(n) \/ KillFinish(n), NEW i \in Inst, Alive(i)'
  PROVE  Alive(i) /\ (job[i].die => job'[i].die) /\ jobs' = jobs
<1> USE DEF jobVars, instVars
<1>t. job \in [Inst -> JobRecord] /\ thread \in [Inst -> ThreadState] /\ job[i] \in JobRecord
  BY DEF TypeOK
<1>r. \A j \in JobRecord :
        KillOverwrite(j).die = j.die /\ \A s : SetStatus(j, s).die = j.die
  BY DEF JobRecord, KillOverwrite, SetStatus
<1>1. jobs' = jobs
  BY DEF ThreadStep, JobBegins, JobSetsStatus, JobReturns, KillFinish
<1>2. CASE i # n
  <2>1. job'[i] = job[i] /\ thread'[i] = thread[i]
    BY <1>2, <1>t DEF ThreadStep, JobBegins, JobSetsStatus, JobReturns, KillFinish
  <2>2. QED
    BY <2>1, <1>1 DEF Alive
<1>3. CASE i = n /\ (JobBegins(n) \/ JobSetsStatus(n))
  <2>1. PICK s : Alive(i) /\ job'[i] = SetStatus(job[i], s)
    BY <1>3, <1>t DEF JobBegins, JobSetsStatus, Alive
  <2>2. QED
    BY <2>1, <1>1, <1>r, <1>t
<1>4. CASE i = n /\ JobReturns(n)
  BY <1>4, <1>t DEF JobReturns, Alive
<1>5. CASE i = n /\ KillFinish(n)
  <2>1. thread'[i] = thread[i] /\ Alive(i)
    BY <1>5, <1>t DEF KillFinish, Alive
  <2>2. job'[i] = KillOverwrite(job[i])
    BY <1>5, <2>1, <1>t DEF KillFinish, Kept
  <2>3. QED
    BY <2>1, <2>2, <1>1, <1>r, <1>t
<1>6. QED
  BY <1>2, <1>3, <1>4, <1>5, <1>1 DEF ThreadStep

\* No step takes die back from a live thread, starts the thread of an instance that is
\* not the scheduler's job, or moves a live thread to another instance.
LEMMA DieStays ==
  ASSUME IInv, [Next]_vars, NEW i \in Inst, Alive(i)', i # jobs'
  PROVE  /\ Alive(i)
         /\ job[i].die => job'[i].die
         /\ i = jobs => DiscardInstance \/ Deploy
<1> USE DEF IInv, Goto, jobVars, instVars, schedVars, envVars
<1>t. /\ job \in [Inst -> JobRecord] /\ thread \in [Inst -> ThreadState]
      /\ job[i] \in JobRecord
      /\ Current => jobs \in Inst
  BY DEF TypeOK, Current
<1>r. \A j \in JobRecord :
        /\ KillRequested(j).die
        /\ KillOverwrite(j).die = j.die /\ FinishReceived(j).die = j.die
        /\ ClearUpdated(j).die = j.die
        /\ \A s : SetStatus(j, s).die = j.die
  BY DEF JobRecord, KillRequested, KillOverwrite, FinishReceived, ClearUpdated, SetStatus
<1>1. CASE UNCHANGED <<job, thread, jobs>>
  BY <1>1 DEF Alive
<1>2. CASE NotifyFinish \/ PersistChanges
  <2>1. /\ UNCHANGED <<thread, jobs>>
        /\ job' \in {[job EXCEPT ![jobs] = FinishReceived(@)], [job EXCEPT ![jobs] = ClearUpdated(@)]}
    BY <1>2 DEF NotifyFinish, PersistChanges
  <2>2. QED
    BY <2>1, <1>t DEF Alive
<1>3. CASE CheckTime \/ CheckShutdown
  <2>1. /\ thread' \in {thread, [thread EXCEPT ![jobs] = IF Alive(jobs) THEN @ ELSE "started"]}
        /\ UNCHANGED <<job, jobs>>
    BY <1>3 DEF CheckTime, CheckShutdown, Start
  <2>2. QED
    BY <2>1, <1>t DEF Alive
<1>4. CASE DiscardInstance
  <2>1. thread' = thread /\ (i # jobs => job'[i] = job[i])
    BY <1>4, <1>t DEF DiscardInstance
  <2>2. i = jobs => job'[i] = KillRequested(job[i])
    BY <1>4, <2>1, <1>t DEF DiscardInstance, Alive
  <2>3. QED
    BY <1>4, <2>1, <2>2, <1>r, <1>t DEF Alive
<1>5. CASE CreateInstance \/ CreateStartFails
  <2>1. PICK n \in Inst : /\ NewInstance(n)
                          /\ thread' \in {thread, [thread EXCEPT ![n] = "started"]}
    BY <1>5, <1>t DEF CreateInstance, CreateStartFails
  <2>2. i # n /\ i # jobs
    BY <1>5, <2>1, InstAssumption DEF NewInstance, CreateInstance, CreateStartFails, Listed,
                                      Current
  <2>3. job'[i] = job[i] /\ thread'[i] = thread[i]
    BY <2>1, <2>2, <1>t DEF NewInstance
  <2>4. QED
    BY <2>2, <2>3 DEF Alive
<1>6. CASE KillAll \/ StopJob
  <2>1. /\ UNCHANGED <<thread, jobs>>
        /\ job' = [job EXCEPT ![jobs] = KillRequested(@)]
    BY <1>6 DEF KillAll, StopJob, KillBegin
  <2>2. QED
    BY <2>1, <1>t DEF Alive
<1>7. ASSUME NEW n \in Inst, ThreadStep(n) \/ KillFinish(n)
      PROVE  Alive(i) /\ (job[i].die => job'[i].die) /\ jobs' = jobs
  BY <1>7, ThreadsKeepDie
<1>8. CASE Crash
  BY <1>8 DEF Crash, Alive
<1>9. CASE Deploy
  <2>1. thread' = thread /\ (i # jobs => job'[i] = job[i])
    BY <1>9, <1>t DEF Deploy, Current
  <2>2. i = jobs => job'[i] = job[i]
    BY <1>9, <2>1, <1>t DEF Deploy, Alive
  <2>3. QED
    BY <1>9, <2>1, <2>2 DEF Alive
<1>10. QED
  <2>1. CASE SchedulerStep
    <3>1. \/ UNCHANGED <<job, thread, jobs>>
          \/ NotifyFinish \/ CheckTime \/ CheckShutdown \/ PersistChanges
          \/ DiscardInstance \/ CreateInstance \/ CreateStartFails \/ KillAll
      BY <2>1 DEF SchedulerStep, RunBegin, Loop, CheckNothing, StartFails, CheckRunningOrKilled,
           Compare, Remember, PersistNull, ListBriefs, ListFails, KeepInstance,
           NoInstanceNoRow, CreateNothing, CreateFails, RecordShutdown
    <3>2. QED
      BY <3>1, <1>1, <1>2, <1>3, <1>4, <1>5, <1>6
  <2>2. CASE Environment
    <3>1. UNCHANGED <<job, thread, jobs>> \/ StopJob \/ Crash \/ Deploy
      BY <2>2 DEF Environment, AdminPut, AdminReset, AdminDelete, Shutdown
    <3>2. QED
      BY <3>1, <1>1, <1>6, <1>8, <1>9
  <2>3. CASE UNCHANGED vars
    BY <2>3, <1>1 DEF vars
  <2>4. QED
    BY <2>1, <2>2, <2>3, <1>7 DEF Next

LEMMA NextOrphansKilled == IInv /\ [Next]_vars => OrphansKilled'
<1> SUFFICES ASSUME IInv, [Next]_vars, NEW i \in Inst, i # jobs', Alive(i)'
             PROVE  job'[i].die
  BY DEF OrphansKilled
<1>1. /\ Alive(i)
      /\ job[i].die => job'[i].die
      /\ i = jobs => DiscardInstance \/ Deploy
  BY DieStays
<1>2. CASE i # jobs
  BY <1>1, <1>2 DEF IInv, OrphansKilled
<1>3. CASE i = jobs /\ DiscardInstance
  <2>1. job'[i] = KillRequested(job[i]) /\ job[i] \in JobRecord
    BY <1>1, <1>3 DEF DiscardInstance, IInv, TypeOK
  <2>2. QED
    BY <2>1 DEF KillRequested, JobRecord
<1>4. CASE i = jobs /\ Deploy
  <2>1. Current
    BY <1>4, InstAssumption DEF Current
  <2>2. QED
    BY <1>1, <1>4, <2>1 DEF Deploy, IInv, StoppedIsKilled
<1>5. QED
  BY <1>1, <1>2, <1>3, <1>4

\* The scheduler leaves through stopAllJobs, which kills its job or finds it without a
\* status, hence without a thread.
LEMMA NextStoppedIsKilled == IInv /\ [Next]_vars => StoppedIsKilled'
<1> SUFFICES ASSUME IInv, [Next]_vars PROVE StoppedIsKilled'
  OBVIOUS
<1> USE DEF IInv, StoppedIsKilled, Current, Goto, instVars, jobVars, schedVars
<1>1. CASE RunBegin \/ Loop \/ CheckNothing \/ NotifyFinish \/ CheckTime \/ CheckShutdown
           \/ CheckRunningOrKilled
  BY <1>1 DEF RunBegin, Loop, CheckNothing, NotifyFinish, CheckTime, CheckShutdown,
              CheckRunningOrKilled, EndCheck
<1>2. CASE StartFails \/ PersistNull \/ Compare \/ Remember \/ PersistChanges
  BY <1>2 DEF StartFails, PersistNull, Compare, Remember, PersistChanges, Throw,
              EndCheck
<1>3. CASE ListBriefs \/ ListFails \/ KeepInstance \/ DiscardInstance \/ NoInstanceNoRow
  BY <1>3 DEF ListBriefs, ListFails, KeepInstance, DiscardInstance, NoInstanceNoRow, Throw,
              EndUpdate
<1>4. CASE CreateInstance \/ CreateNothing \/ CreateStartFails \/ CreateFails
  BY <1>4 DEF CreateInstance, CreateNothing, CreateStartFails, CreateFails, Throw, EndUpdate
<1>5. CASE RecordShutdown
  <2>1. UNCHANGED <<job, thread, jobs>> /\ pc' # "down"
    BY <1>5 DEF RecordShutdown
  <2>2. pc' = "exited" => ~Current \/ job[jobs].run = Null
    BY <1>5 DEF RecordShutdown
  <2>3. Current => jobs \in Inst
    BY DEF TypeOK
  <2>4. pc' = "exited" /\ Current => ~Alive(jobs)
    BY <2>2, <2>3 DEF JobStatusIsSet
  <2>5. QED
    BY <2>1, <2>4 DEF Alive
<1>6. CASE KillAll
  <2>1. jobs \in Inst /\ job \in [Inst -> JobRecord]
    BY <1>6 DEF KillAll, LoopHasJob, TypeOK
  <2>2. job'[jobs].die /\ jobs' = jobs /\ pc' = "exited"
    BY <1>6, <2>1 DEF KillAll, KillBegin, KillRequested, JobRecord
  <2>3. QED
    BY <2>2
<1>7. ASSUME NEW n \in Inst, ThreadStep(n) \/ KillFinish(n) PROVE StoppedIsKilled'
  <2>1. pc' = pc /\ jobs' = jobs
    BY <1>7 DEF ThreadStep, JobBegins, JobSetsStatus, JobReturns, KillFinish
  <2>2. \A i \in Inst : Alive(i)' => Alive(i) /\ (job[i].die => job'[i].die)
    BY <1>7, ThreadsKeepDie
  <2>3. Current => jobs \in Inst
    BY DEF TypeOK
  <2>4. pc' = "exited" /\ Current' /\ Alive(jobs)' => job'[jobs'].die
    <3>1. SUFFICES ASSUME pc' = "exited", Current', Alive(jobs)' PROVE job'[jobs'].die
      OBVIOUS
    <3>2. jobs \in Inst /\ jobs' = jobs
      BY <3>1, <2>1, <2>3
    <3>3. Alive(jobs)' => (jobs \in Inst => Alive(jobs) /\ (job[jobs].die => job'[jobs].die))
      BY <2>1, <2>2, <3>2 DEF Alive
    <3>4. QED
      BY <3>1, <3>2, <3>3, <2>1
  <2>5. pc' = "down" => \A i \in Inst : ~Alive(i)'
    BY <2>1, <2>2
  <2>6. QED
    BY <2>4, <2>5
<1>8. CASE AdminPut \/ AdminReset \/ AdminDelete
  BY <1>8 DEF AdminPut, AdminReset, AdminDelete, Alive
<1>9. CASE StopJob \/ Shutdown
  BY <1>9 DEF StopJob, Shutdown, SchedulerUp
<1>10. CASE Crash \/ Deploy
  BY <1>10 DEF Crash, Deploy, Alive
<1>11. CASE UNCHANGED vars
  BY <1>11 DEF vars, Alive
<1>12. QED
  BY <1>1, <1>2, <1>3, <1>4, <1>5, <1>6, <1>7, <1>8, <1>9, <1>10, <1>11
     DEF Next, SchedulerStep, Environment

-----------------------------------------------------------------------------
(* The theorems *)

LEMMA InitIInv == Init => IInv
<1> SUFFICES ASSUME Init PROVE IInv
  OBVIOUS
<1>1. TypeOK
  BY InitTypeOK
<1>2. LoopHasJob /\ ListIsFresh
  BY DEF Init, LoopHasJob, ListIsFresh
<1>3. \A i \in Inst : ~Alive(i) /\ job[i].run = Null /\ killer[i] = "none"
  BY DEF Init, Alive, BlankJob
<1>4. JobStatusIsSet /\ StoppedIsKilled /\ OrphansKilled
  BY <1>3 DEF JobStatusIsSet, StoppedIsKilled, OrphansKilled, Init, Current
<1>5. QED
  BY <1>1, <1>2, <1>4 DEF IInv

\* The invariant is inductive.
LEMMA NextIInv == IInv /\ [Next]_vars => IInv'
BY NextTypeOK, NextLoopHasJob, NextListIsFresh, NextJobStatusIsSet,
   NextOrphansKilled, NextStoppedIsKilled DEF IInv

THEOREM Invariance == Spec => []IInv
<1>1. Init => IInv
  BY InitIInv
<1>2. IInv /\ [Next]_vars => IInv'
  BY NextIInv
<1>3. QED
  BY <1>1, <1>2, PTL DEF Spec

\* Every variable keeps its type, whatever the number of instances, edits and deployments.
THEOREM TypeCorrect == Spec => []TypeOK
<1>1. IInv => TypeOK
  BY DEF IInv
<1>2. QED
  BY <1>1, Invariance, PTL

\* A live thread of an instance that the scheduler has dropped, at an edit, at a deletion
\* or at the end of the scheduler, has been told to stop.
THEOREM OrphansAreKilled == Spec => []OrphansKilled
<1>1. IInv => OrphansKilled
  BY DEF IInv
<1>2. QED
  BY <1>1, Invariance, PTL

\* If no merge fails, the database has the status that the scheduler last copied to its
\* Harvestable, or the administrator has put the job back to NEW: every path on which the
\* copy gets another status merges it.  The invariant is inductive given the types.
THEOREM RowIsAsRemembered == ASSUME ~DbErrors PROVE Spec => []RowAsRemembered
<1>1. Init => RowAsRemembered
  BY DEF Init, RowAsRemembered, Current
<1>2. IInv /\ RowAsRemembered /\ [Next]_vars => RowAsRemembered'
  <2> SUFFICES ASSUME IInv, RowAsRemembered, [Next]_vars PROVE RowAsRemembered'
    OBVIOUS
  <2> USE DEF RowAsRemembered, Current, instVars, schedVars
  <2>t. /\ mem \in [Inst -> RowRecord]
        /\ Current => jobs \in Inst /\ mem[jobs] \in RowRecord
        /\ row # NoRow => row \in RowRecord
    BY DEF IInv, TypeOK
  <2>r. \A m \in RowRecord :
          /\ \A s : [m EXCEPT !.status = s].version = m.version
          /\ [m EXCEPT !.immediate = FALSE].version = m.version
          /\ [m EXCEPT !.immediate = FALSE].status = m.status
          /\ \A s : [m EXCEPT !.status = s].status = s
    BY DEF RowRecord
  <2>1. CASE UNCHANGED <<row, mem, jobs>>
    BY <2>1
  <2>2. CASE NotifyFinish
    BY <2>2 DEF NotifyFinish, Persist
  <2>3. CASE CheckTime \/ StartFails
    <3>1. /\ jobs \in Inst /\ UNCHANGED <<row, jobs>>
          /\ mem' \in {mem, [mem EXCEPT ![jobs].immediate = FALSE]}
      BY <2>3, <2>t DEF CheckTime, StartFails
    <3>2. mem'[jobs].status = mem[jobs].status /\ mem'[jobs].version = mem[jobs].version
      BY <3>1, <2>t, <2>r
    <3>3. QED
      BY <3>1, <3>2
  <2>4. CASE PersistChanges
    <3> DEFINE m == IF changed THEN [mem[jobs] EXCEPT !.status = job[jobs].run] ELSE mem[jobs]
    <3>1. /\ jobs' = jobs /\ mem' = [mem EXCEPT ![jobs] = m]
          /\ row' = m \/ (row' = row /\ ~changed)
      BY <2>4 DEF PersistChanges, Persist
    <3>2. ~changed => m = mem[jobs]
      OBVIOUS
    <3> HIDE DEF m
    <3>3. jobs \in Inst /\ mem'[jobs] = m
      BY <2>4, <3>1, <2>t DEF PersistChanges, IInv, LoopHasJob
    <3>4. QED
      BY <3>1, <3>2, <3>3
  <2>5. CASE DiscardInstance \/ Crash \/ Deploy
    BY <2>5 DEF DiscardInstance, Crash, Deploy
  <2>6. CASE CreateInstance \/ CreateStartFails
    <3>1. PICK i \in Inst : NewInstance(i)
      BY <2>6 DEF CreateInstance, CreateStartFails
    <3>2. jobs' = i /\ mem'[i] = row /\ row' = row
      BY <2>6, <3>1, <2>t DEF NewInstance, CreateInstance, CreateStartFails
    <3>3. QED
      BY <3>2
  <2>7. CASE RecordShutdown
    <3>1. UNCHANGED <<row, mem, jobs>> \/ (row' = mem'[jobs] /\ jobs' = jobs)
      BY <2>7 DEF RecordShutdown, Persist
    <3>2. QED
      BY <3>1, <2>1
  <2>8. CASE AdminPut \/ AdminReset \/ AdminDelete
    <3>1. UNCHANGED <<mem, jobs>> /\ (row' # NoRow => row'.status = "NEW")
      BY <2>8, <2>t DEF AdminPut, AdminReset, AdminDelete, RowRecord
    <3>2. QED
      BY <3>1
  <2>9. ASSUME NEW n \in Inst, ThreadStep(n) \/ KillFinish(n) PROVE UNCHANGED <<row, mem, jobs>>
    BY <2>9 DEF ThreadStep, JobBegins, JobSetsStatus, JobReturns, KillFinish
  <2>10. QED
    <3>1. CASE SchedulerStep
      <4>1. \/ UNCHANGED <<row, mem, jobs>>
            \/ NotifyFinish \/ CheckTime \/ StartFails \/ PersistChanges \/ DiscardInstance
            \/ CreateInstance \/ CreateStartFails \/ RecordShutdown
        BY <3>1 DEF SchedulerStep, RunBegin, Loop, CheckNothing, CheckShutdown,
             CheckRunningOrKilled, Compare, Remember, PersistNull, ListBriefs,
             ListFails, KeepInstance, NoInstanceNoRow, CreateNothing, CreateFails,
             KillAll
      <4>2. QED
        BY <4>1, <2>1, <2>2, <2>3, <2>4, <2>5, <2>6, <2>7
    <3>2. CASE Environment
      <4>1. \/ UNCHANGED <<row, mem, jobs>>
            \/ AdminPut \/ AdminReset \/ AdminDelete \/ Crash \/ Deploy
        BY <3>2 DEF Environment, StopJob, Shutdown
      <4>2. QED
        BY <4>1, <2>1, <2>5, <2>8
    <3>3. CASE UNCHANGED vars
      BY <3>3, <2>1 DEF vars
    <3>4. QED
      BY <3>1, <3>2, <3>3, <2>1, <2>9 DEF Next
<1>3. QED
  BY <1>1, <1>2, Invariance, PTL DEF Spec

-----------------------------------------------------------------------------
(* A RUNNING job has a thread *)

\* What the bulk and the connector job set and return, when nobody has killed them.
LEMMA OwnStatuses ==
  ASSUME Kind \in {"Bulk", "Connector"}, NEW j \in JobRecord
  PROVE  /\ \A s \in MaySet(Kind, j.run) :
              /\ s \in {"OK", "WARN", "ERROR", "FINISHED"}
              /\ s = "FINISHED" => j.run \in {"OK", "KILLED"}
         /\ "RUNNING" \notin MayReturn(Kind, FALSE)
         /\ AtReturn(Kind, j) = MarkForUpdate(j)
BY DEF MaySet, BulkMaySet, ConnectorMaySet, MayReturn, AtReturn

\* The fields of a job record after each operation.
LEMMA RecordFields ==
  ASSUME NEW j \in JobRecord
  PROVE  /\ \A s : /\ SetStatus(j, s).run = s /\ SetStatus(j, s).die = j.die
                   /\ SetStatus(j, s).job = IF s = "FINISHED" THEN j.job ELSE s
         /\ FinishReceived(j).run = j.job /\ FinishReceived(j).job = j.job
         /\ FinishReceived(j).die = j.die
         /\ ClearUpdated(j).run = j.run /\ ClearUpdated(j).job = j.job
         /\ ClearUpdated(j).die = j.die
         /\ MarkForUpdate(j).run = j.run /\ MarkForUpdate(j).job = j.job
         /\ MarkForUpdate(j).die = j.die
BY DEF JobRecord, SetStatus, FinishReceived, ClearUpdated, MarkForUpdate

\* The job that the scheduler lists, if it is up, stays as it was.
LEMMA ListedUntouched ==
  ASSUME RunningIInv,
         SchedulerUp' /\ Current' =>
           /\ SchedulerUp /\ Current /\ jobs' = jobs
           /\ job'[jobs].run = job[jobs].run /\ job'[jobs].job = job[jobs].job
           /\ job'[jobs].die = job[jobs].die
           /\ killer'[jobs] = killer[jobs]
           /\ Alive(jobs) => Alive(jobs)'
           /\ job[jobs].run = "KILLED" /\ Alive(jobs)' => Alive(jobs)
  PROVE  RunningIInv'
BY DEF RunningIInv, ListedIsUnkilled, JobStatusIsOwn, RunningHasThread, Alive

\* The steps of the scheduler.
LEMMA SchedulerRunning ==
  ASSUME ~DbErrors, IInv, RunningIInv, SchedulerStep
  PROVE  RunningIInv'
<1> USE DEF SchedulerUp, Current
<1>t. /\ job \in [Inst -> JobRecord] /\ thread \in [Inst -> ThreadState]
      /\ killer \in [Inst -> Killer]
      /\ jobs \in Inst \union {NoInst}
  BY DEF IInv, TypeOK
<1>1. CASE \/ RunBegin \/ Loop \/ CheckNothing \/ CheckRunningOrKilled \/ Compare \/ Remember
           \/ PersistNull \/ ListBriefs \/ ListFails \/ KeepInstance \/ NoInstanceNoRow
           \/ CreateNothing \/ CreateFails \/ RecordShutdown
  <2>1. UNCHANGED <<jobs, job, thread, killer>> /\ pc \notin {"exited", "down"}
    BY <1>1 DEF RunBegin, Loop, CheckNothing, CheckRunningOrKilled, Compare, Remember,
                PersistNull, ListBriefs, ListFails, KeepInstance, NoInstanceNoRow, CreateNothing,
                CreateFails, RecordShutdown, Listed, jobVars, instVars
  <2>2. QED
    BY <2>1, ListedUntouched DEF Alive
<1>2. CASE NotifyFinish
  <2>1. /\ pc = "switch" /\ jobs \in Inst /\ jobs' = jobs /\ UNCHANGED <<thread, killer>>
        /\ job[jobs].run = "FINISHED" /\ job'[jobs] = FinishReceived(job[jobs])
    BY <1>2, <1>t DEF NotifyFinish, instVars
  <2>2. /\ job[jobs].job \notin {"RUNNING", "KILLED"}
        /\ ~job[jobs].die /\ killer[jobs] = "none" /\ jobs # NoInst
    BY <1>2, <2>1 DEF NotifyFinish, RunningIInv, JobStatusIsOwn, ListedIsUnkilled
  <2>3. /\ job'[jobs].run = job[jobs].job /\ job'[jobs].job = job[jobs].job
        /\ ~job'[jobs].die
    BY <1>t, <2>1, <2>2, RecordFields
  <2>4. QED
    BY <2>1, <2>2, <2>3
       DEF RunningIInv, ListedIsUnkilled, JobStatusIsOwn, RunningHasThread
<1>3. CASE CheckTime \/ CheckShutdown
  <2>1. /\ pc = "switch" /\ jobs \in Inst /\ jobs # NoInst /\ UNCHANGED <<jobs, job, killer>>
        /\ job[jobs].run # "KILLED"
        /\ thread' \in {thread, [thread EXCEPT ![jobs] = IF Alive(jobs) THEN @ ELSE "started"]}
    BY <1>3, <1>t DEF CheckTime, CheckShutdown, Start, instVars
  <2>2. Alive(jobs) => thread'[jobs] \in {"started", "running"}
    BY <1>t, <2>1 DEF Alive
  <2>3. QED
    BY <2>1, <2>2, ListedUntouched DEF Alive
<1>4. CASE PersistChanges
  <2>1. /\ pc = "persist" /\ jobs \in Inst /\ jobs # NoInst
        /\ UNCHANGED <<jobs, thread, killer>>
        /\ job'[jobs] = ClearUpdated(job[jobs])
    BY <1>4, <1>t DEF PersistChanges, IInv, LoopHasJob
  <2>2. QED
    BY <1>t, <2>1, RecordFields, ListedUntouched DEF Alive
<1>5. CASE DiscardInstance
  BY <1>5, ListedUntouched DEF DiscardInstance
<1>6. CASE CreateInstance
  <2>1. PICK i \in Inst :
          /\ NewInstance(i)
          /\ thread' = [thread EXCEPT ![i] = IF brief.status = "RUNNING" THEN "started" ELSE @]
    BY <1>6 DEF CreateInstance
  <2>2. /\ killer' = killer /\ pc = "match" /\ brief # NoRow /\ row # NoRow
    BY <1>6 DEF CreateInstance, Listed
  <2>3. /\ jobs' = i /\ job'[i] = NewJob(row.status) /\ killer[i] = "none" /\ ~Alive(i)
    BY <1>t, <2>1 DEF NewInstance, Unused
  <2>4. row.status \in StatusOrNull /\ row.status \in {brief.status, "NEW"}
    BY <2>2, Types DEF IInv, TypeOK, ListIsFresh
  <2>5. /\ NewJob(row.status).run = row.status /\ ~NewJob(row.status).die
        /\ NewJob(row.status).job = IF row.status = "FINISHED" THEN Null ELSE row.status
    BY DEF NewJob, SetStatus
  <2>6. thread'[i] = IF brief.status = "RUNNING" THEN "started" ELSE thread[i]
    BY <1>t, <2>1
  <2>7. i # NoInst
    BY InstAssumption
  <2>8. ListedIsUnkilled'
    BY <2>2, <2>3, <2>5 DEF ListedIsUnkilled
  <2>9. JobStatusIsOwn' /\ RunningHasThread'
    BY <2>3, <2>4, <2>5, <2>6 DEF JobStatusIsOwn, RunningHasThread, Alive, Null
  <2>10. QED
    BY <2>8, <2>9 DEF RunningIInv
<1>7. CASE KillAll
  BY <1>7, ListedUntouched DEF KillAll, Goto
<1>8. CASE StartFails \/ CreateStartFails
  BY <1>8 DEF StartFails, CreateStartFails
<1>9. QED
  BY <1>1, <1>2, <1>3, <1>4, <1>5, <1>6, <1>7, <1>8 DEF SchedulerStep

\* The steps of a harvesting thread and the end of a kill.
LEMMA ThreadRunning ==
  ASSUME Kind \in {"Bulk", "Connector"}, IInv, RunningIInv,
         NEW i \in Inst, ThreadStep(i) \/ KillFinish(i)
  PROVE  RunningIInv'
<1> USE DEF SchedulerUp, Current
<1>t. /\ job \in [Inst -> JobRecord] /\ thread \in [Inst -> ThreadState]
      /\ killer \in [Inst -> Killer]
      /\ jobs \in Inst \union {NoInst}
  BY DEF IInv, TypeOK
<1>1. /\ UNCHANGED <<jobs, pc>>
      /\ \A n \in Inst : n # i => /\ job'[n] = job[n] /\ thread'[n] = thread[n]
                                 /\ killer'[n] = killer[n]
  BY <1>t DEF ThreadStep, JobBegins, JobSetsStatus, JobReturns, KillFinish, instVars, schedVars
<1>2. CASE ~(SchedulerUp /\ Current /\ i = jobs)
  <2>1. SchedulerUp' /\ Current' => jobs \in Inst /\ jobs # i /\ jobs' = jobs /\ SchedulerUp /\ Current
    BY <1>1, <1>2, <1>t
  <2>2. QED
    BY <1>1, <2>1, ListedUntouched DEF Alive
<1>3. CASE SchedulerUp /\ Current /\ i = jobs
  <2>1. ~job[i].die /\ killer[i] = "none"
    BY <1>3 DEF RunningIInv, ListedIsUnkilled
  <2>2. /\ job[i].run \notin {"FINISHED", "KILLED"} => job[i].job = job[i].run
        /\ job[i].run = "FINISHED" => job[i].job \notin {"RUNNING", "KILLED"}
        /\ job[i].run = "KILLED" => ~Alive(i)
    BY <1>3 DEF RunningIInv, JobStatusIsOwn
  <2>3. ThreadStep(i)
    BY <2>1 DEF KillFinish
  <2>4. thread[i] \in {"started", "running"} /\ job[i].run # "KILLED" /\ killer' = killer
    BY <2>2, <2>3 DEF ThreadStep, JobBegins, JobSetsStatus, JobReturns, Alive
  <2>5. CASE JobBegins(i)
    <3>1. PICK s \in {"RUNNING", "ERROR"} :
            job'[i] = SetStatus(job[i], s) /\ thread'[i] = "running"
      BY <1>t, <2>5, MayBeginType DEF JobBegins
    <3>2. job'[i].run = s /\ job'[i].job = s /\ ~job'[i].die
      BY <1>t, <2>1, <3>1, RecordFields
    <3>3. QED
      BY <1>1, <1>3, <2>1, <2>4, <3>1, <3>2
         DEF RunningIInv, ListedIsUnkilled, JobStatusIsOwn, RunningHasThread, Alive
  <2>6. CASE JobSetsStatus(i)
    <3>1. PICK s \in MaySet(Kind, job[i].run) : job' = [job EXCEPT ![i] = SetStatus(@, s)]
      BY <2>6 DEF JobSetsStatus
    <3>2. /\ s \in {"OK", "WARN", "ERROR", "FINISHED"}
          /\ s = "FINISHED" => job[i].run = "OK"
      BY <1>t, <2>4, OwnStatuses
    <3>3. /\ job'[i].run = s /\ ~job'[i].die
          /\ job'[i].job = IF s = "FINISHED" THEN job[i].job ELSE s
      BY <1>t, <2>1, <3>1, RecordFields
    <3>4. s = "FINISHED" => job[i].job = "OK"
      BY <2>2, <3>2
    <3>5. ListedIsUnkilled'
      BY <1>1, <1>3, <2>1, <2>4, <3>3 DEF ListedIsUnkilled
    <3>6. JobStatusIsOwn' /\ RunningHasThread'
      BY <1>1, <1>3, <3>2, <3>3, <3>4 DEF JobStatusIsOwn, RunningHasThread
    <3>7. QED
      BY <3>5, <3>6 DEF RunningIInv
  <2>7. CASE JobReturns(i)
    <3>1. job'[i] = MarkForUpdate(job[i]) /\ thread'[i] = "none"
      BY <1>t, <1>3, <2>7, OwnStatuses DEF JobReturns
    <3>2. job[i].run # "RUNNING"
      <4>1. job[i].die = FALSE
        BY <1>t, <2>1 DEF JobRecord
      <4>2. job[i].run \in MayReturn(Kind, FALSE)
        BY <2>7, <4>1 DEF JobReturns
      <4>3. QED
        BY <1>t, <4>2, OwnStatuses
    <3>3. /\ job'[i].run = job[i].run /\ job'[i].job = job[i].job
          /\ job'[i].die = job[i].die
      BY <1>t, <3>1, RecordFields
    <3>4. ~Alive(i)'
      BY <3>1 DEF Alive
    <3>5. ListedIsUnkilled'
      BY <1>1, <1>3, <2>1, <2>4, <3>3 DEF ListedIsUnkilled
    <3>6. JobStatusIsOwn' /\ RunningHasThread'
      BY <1>1, <1>3, <2>2, <3>1, <3>2, <3>3 DEF JobStatusIsOwn, RunningHasThread, Alive
    <3>7. QED
      BY <3>5, <3>6 DEF RunningIInv
  <2>8. QED
    BY <2>3, <2>5, <2>6, <2>7 DEF ThreadStep
<1>4. QED
  BY <1>2, <1>3

\* Why that is: when nobody kills jobs and no start() throws, a listed job has no kill
\* flag, and is never RUNNING, nor will finishReceived make it RUNNING again, without a
\* thread.  It holds after every call of checkJobs, updateJobs, start and the run.
THEOREM RunningInvariance ==
  ASSUME ~DbErrors, ~ServletKills, Kind \in {"Bulk", "Connector"}
  PROVE  Spec => []RunningIInv
<1>1. Init => RunningIInv
  BY DEF Init, RunningIInv, ListedIsUnkilled, JobStatusIsOwn, RunningHasThread, Current
<1>2. IInv /\ RunningIInv /\ [Next]_vars => RunningIInv'
  <2> SUFFICES ASSUME IInv, RunningIInv, [Next]_vars PROVE RunningIInv'
    OBVIOUS
  <2>1. CASE SchedulerStep
    BY <2>1, SchedulerRunning
  <2>2. ASSUME NEW i \in Inst, ThreadStep(i) \/ KillFinish(i)
        PROVE  RunningIInv'
    BY <2>2, ThreadRunning
  <2>3. CASE AdminPut \/ AdminReset \/ AdminDelete \/ Shutdown
    <3>1. UNCHANGED <<jobs, job, thread, killer, pc>>
      BY <2>3 DEF AdminPut, AdminReset, AdminDelete, Shutdown, jobVars, instVars, schedVars
    <3>2. QED
      BY <3>1, ListedUntouched DEF Alive, SchedulerUp, Current
  <2>4. CASE StopJob
    BY <2>4 DEF StopJob
  <2>5. CASE Crash \/ Deploy
    BY <2>5, ListedUntouched DEF Crash, Deploy, Current
  <2>6. CASE UNCHANGED vars
    <3>1. UNCHANGED <<jobs, job, thread, killer, pc>>
      BY <2>6 DEF vars, jobVars, instVars, schedVars
    <3>2. QED
      BY <3>1, ListedUntouched DEF Alive, SchedulerUp, Current
  <2>7. QED
    BY <2>1, <2>2, <2>3, <2>4, <2>5, <2>6 DEF Next, Environment
<1>3. QED
  BY <1>1, <1>2, Invariance, PTL DEF Spec

\* The jobs whose runs set a status of their own before FINISHED: when nobody kills
\* them and no start() throws, a listed job that is RUNNING has a thread, through any
\* number of edits, deletions and deployments.  checkJobs, updateJobs and start.
THEOREM RunningJobHasThread ==
  ASSUME ~DbErrors, ~ServletKills, Kind \in {"Bulk", "Connector"}
  PROVE  Spec => []RunningHasThread
<1>1. RunningIInv => RunningHasThread
  BY DEF RunningIInv
<1>2. QED
  BY <1>1, RunningInvariance, PTL
-----------------------------------------------------------------------------
(* The jobs are called as the contract has it *)

\* The contract of an instance has the operators on job records from the same module.
LEMMA ContractOperators ==
  ASSUME NEW i \in Inst
  PROVE  /\ Contract(i)!HarvestStatus = HarvestStatus
         /\ \A j, s : Contract(i)!SetStatus(j, s) = SetStatus(j, s)
         /\ \A s : Contract(i)!NewJob(s) = NewJob(s)
         /\ \A j : /\ Contract(i)!MarkForUpdate(j) = MarkForUpdate(j)
                   /\ Contract(i)!ClearUpdated(j) = ClearUpdated(j)
                   /\ Contract(i)!FinishReceived(j) = FinishReceived(j)
                   /\ Contract(i)!KillRequested(j) = KillRequested(j)
                   /\ Contract(i)!KillWillOverwrite(j) = KillWillOverwrite(j)
                   /\ Contract(i)!KillOverwrite(j) = KillOverwrite(j)
                   /\ Contract(i)!AtReturn(Kind, j) = AtReturn(Kind, j)
         /\ \A d : Contract(i)!MayReturn(Kind, d) = MayReturn(Kind, d)
         /\ Contract(i)!MayBegin(Kind) = MayBegin(Kind)
         /\ \A s : Contract(i)!MaySet(Kind, s) = MaySet(Kind, s)
BY DEF Contract!HarvestStatus, HarvestStatus, Contract!SetStatus, SetStatus,
       Contract!NewJob, NewJob, Contract!Null, Null, Contract!MarkForUpdate, MarkForUpdate,
       Contract!ClearUpdated, ClearUpdated, Contract!FinishReceived, FinishReceived,
       Contract!KillRequested, KillRequested, Contract!KillWillOverwrite, KillWillOverwrite,
       Contract!KillOverwrite, KillOverwrite, Contract!AtReturn, AtReturn,
       Contract!MayReturn, MayReturn, Contract!MayBegin, MayBegin, Contract!MaySet, MaySet, Contract!BulkMaySet, BulkMaySet,
       Contract!OaiMaySet, OaiMaySet, Contract!WebMaySet, WebMaySet,
       Contract!ConnectorMaySet, ConnectorMaySet, Contract!StatusMaySet, StatusMaySet

\* The job of an instance that a step leaves alone.
LEMMA Untouched ==
  ASSUME NEW i \in Inst, UNCHANGED <<job[i], thread[i], killer[i]>>, i = jobs <=> i = jobs'
  PROVE  UNCHANGED Contract(i)!vars
BY DEF Contract!vars, InUse, Alive

\* A step that makes a job object, or lets go of one.
LEMMA Renewed ==
  ASSUME NEW i \in Inst, NEW s \in HarvestStatus,
         thread'[i] \in {"none", "started"}, thread[i] = "none" \/ thread'[i] = "none",
         \/ ~InUse(i)'
         \/ job'[i] = NewJob(s) /\ killer'[i] = "none"
  PROVE  Contract(i)!Renew
<1>1. "NEW" \in HarvestStatus
  BY DEF HarvestStatus
<1>2. CASE ~InUse(i)'
  BY <1>1, <1>2, ContractOperators DEF Contract!Renew
<1>3. CASE job'[i] = NewJob(s) /\ killer'[i] = "none"
  BY <1>1, <1>3, ContractOperators DEF Contract!Renew
<1>4. QED
  BY <1>2, <1>3

\* The steps of the scheduler on its current job.
LEMMA CallSteps ==
  ASSUME IInv, NEW i \in Inst,
         NotifyFinish \/ CheckTime \/ CheckShutdown \/ PersistChanges \/ KillAll \/ StopJob
  PROVE  [Contract(i)!Next]_(Contract(i)!vars)
<1> USE DEF InUse, Alive
<1>t. /\ job \in [Inst -> JobRecord] /\ thread \in [Inst -> ThreadState]
      /\ killer \in [Inst -> Killer]
      /\ thread[i] \in {"none", "started", "running"}
  BY DEF IInv, TypeOK, ThreadState
<1>1. jobs' = jobs /\ jobs \in Inst
  BY DEF NotifyFinish, CheckTime, CheckShutdown, PersistChanges, KillAll, StopJob, IInv, TypeOK,
         LoopHasJob, Current, instVars
<1>2. CASE i # jobs
  <2>1. UNCHANGED <<job[i], thread[i], killer[i]>>
    BY <1>t, <1>1, <1>2 DEF NotifyFinish, CheckTime, CheckShutdown, PersistChanges, KillAll,
       StopJob, KillBegin, Start
  <2>2. QED
    BY <1>1, <1>2, <2>1, Untouched
<1>3. CASE i = jobs /\ NotifyFinish
  <2>1. job'[i] = FinishReceived(job[i]) /\ UNCHANGED <<thread, killer>>
    BY <1>t, <1>3 DEF NotifyFinish
  <2>2. Contract(i)!NotifyFinish
    BY <1>1, <1>3, <2>1, ContractOperators DEF NotifyFinish, Contract!NotifyFinish
  <2>3. QED
    BY <2>2 DEF Contract!Next
<1>4. CASE i = jobs /\ (CheckTime \/ CheckShutdown)
  <2>1. /\ UNCHANGED <<job, killer>>
        /\ thread'[i] = thread[i] \/ (thread[i] = "none" /\ thread'[i] = "started")
    BY <1>t, <1>4 DEF CheckTime, CheckShutdown, Start
  <2>2. CASE thread'[i] = thread[i]
    BY <1>1, <2>1, <2>2, Untouched
  <2>3. CASE thread[i] = "none" /\ thread'[i] = "started"
    <3>1. Contract(i)!Start
      BY <1>1, <1>4, <2>1, <2>3 DEF Contract!Start
    <3>2. QED
      BY <3>1 DEF Contract!Next
  <2>4. QED
    BY <2>1, <2>2, <2>3
<1>5. CASE i = jobs /\ PersistChanges
  <2>1. job'[i] = ClearUpdated(job[i]) /\ UNCHANGED <<thread, killer>>
    BY <1>t, <1>5 DEF PersistChanges
  <2>2. Contract(i)!Persisted
    BY <1>1, <1>5, <2>1, ContractOperators DEF Contract!Persisted
  <2>3. QED
    BY <2>2 DEF Contract!Next
<1>6. CASE i = jobs /\ (KillAll \/ StopJob)
  <2>1. /\ killer[i] = "none" /\ job'[i] = KillRequested(job[i]) /\ thread' = thread
        /\ killer'[i] # "none" <=> KillWillOverwrite(job[i])
    BY <1>t, <1>6 DEF KillAll, StopJob, KillBegin
  <2>2. Contract(i)!KillBegin
    BY <1>1, <1>6, <2>1, ContractOperators DEF Contract!KillBegin, KillWillOverwrite
  <2>3. QED
    BY <2>2 DEF Contract!Next
<1>7. QED
  BY <1>2, <1>3, <1>4, <1>5, <1>6

\* The steps by which the scheduler makes a job and lets go of it.
LEMMA ListingSteps ==
  ASSUME IInv, NEW i \in Inst,
         CreateInstance \/ CreateStartFails \/ DiscardInstance \/ Crash \/ Deploy
  PROVE  [Contract(i)!Next]_(Contract(i)!vars)
<1> USE DEF InUse, Alive
<1>t. /\ job \in [Inst -> JobRecord] /\ thread \in [Inst -> ThreadState]
      /\ killer \in [Inst -> Killer]
      /\ thread[i] \in {"none", "started", "running"}
  BY DEF IInv, TypeOK, ThreadState
<1>s. "NEW" \in HarvestStatus
  BY DEF HarvestStatus
<1>1. CASE CreateInstance \/ CreateStartFails
  <2>1. PICK n \in Inst :
          /\ NewInstance(n)
          /\ thread' = [thread EXCEPT ![n] = "started"] \/ thread' = thread
    BY <1>t, <1>1 DEF CreateInstance, CreateStartFails
  <2>2. jobs = NoInst /\ jobs' = n /\ killer' = killer /\ row.status \in HarvestStatus
    BY <1>1, <2>1 DEF CreateInstance, CreateStartFails, NewInstance, Listed, Current, IInv,
       TypeOK, RowRecord
  <2>3. CASE i = n
    <3>1. /\ thread[i] = "none" /\ thread'[i] \in {"none", "started"}
          /\ job'[i] = NewJob(row.status) /\ killer'[i] = "none"
      BY <1>t, <2>1, <2>2, <2>3 DEF NewInstance, Unused
    <3>2. QED
      BY <2>2, <3>1, Renewed DEF Contract!Next
  <2>4. CASE i # n
    <3>1. UNCHANGED <<job[i], thread[i], killer[i]>> /\ i # jobs /\ i # jobs'
      BY <1>t, <2>1, <2>2, <2>4, InstAssumption DEF NewInstance
    <3>2. QED
      BY <3>1, Untouched
  <2>5. QED
    BY <2>3, <2>4
<1>2. CASE DiscardInstance
  <2>1. jobs \in Inst /\ jobs' = NoInst /\ thread' = thread /\ i # jobs'
    BY <1>2, InstAssumption DEF DiscardInstance, Current, IInv, TypeOK
  <2>2. CASE i # jobs
    <3>1. UNCHANGED <<job[i], thread[i], killer[i]>>
      BY <1>t, <1>2, <2>1, <2>2 DEF DiscardInstance
    <3>2. QED
      BY <2>1, <2>2, <3>1, Untouched
  <2>3. CASE i = jobs /\ Alive(i)
    <3>1. /\ killer[i] = "none" /\ job'[i] = KillRequested(job[i])
          /\ killer'[i] # "none" <=> KillWillOverwrite(job[i])
      BY <1>t, <1>2, <2>1, <2>3 DEF DiscardInstance
    <3>2. Contract(i)!KillBegin
      BY <2>1, <2>3, <3>1, ContractOperators DEF Contract!KillBegin, KillWillOverwrite
    <3>3. QED
      BY <3>2 DEF Contract!Next
  <2>4. CASE i = jobs /\ ~Alive(i)
    <3>1. ~InUse(i)' /\ thread[i] = "none" /\ thread'[i] = "none"
      BY <1>t, <2>1, <2>4
    <3>2. QED
      BY <1>s, <3>1, Renewed DEF Contract!Next
  <2>5. QED
    BY <2>2, <2>3, <2>4
<1>3. CASE Crash
  <2>1. ~InUse(i)' /\ thread'[i] = "none"
    BY <1>3, InstAssumption DEF Crash
  <2>2. QED
    BY <1>s, <2>1, Renewed DEF Contract!Next
<1>4. CASE Deploy
  <2>1. jobs' = NoInst /\ i # jobs' /\ thread' = thread /\ killer' = killer
    BY <1>4, InstAssumption DEF Deploy
  <2>2. CASE i = jobs /\ ~Alive(i)
    <3>1. ~InUse(i)' /\ thread[i] = "none" /\ thread'[i] = "none"
      BY <1>t, <2>1, <2>2
    <3>2. QED
      BY <1>s, <3>1, Renewed DEF Contract!Next
  <2>3. CASE i # jobs \/ Alive(i)
    <3>1. job'[i] = job[i]
      BY <1>t, <1>4, <2>3 DEF Deploy
    <3>2. UNCHANGED Contract(i)!vars
      BY <2>1, <2>3, <3>1 DEF Contract!vars
    <3>3. QED
      BY <3>2
  <2>4. QED
    BY <2>2, <2>3
<1>5. QED
  BY <1>1, <1>2, <1>3, <1>4

\* The steps of a job's thread, and the end of a kill().
LEMMA JobSteps ==
  ASSUME IInv, NEW i \in Inst, NEW n \in Inst, ThreadStep(n) \/ KillFinish(n)
  PROVE  [Contract(i)!Next]_(Contract(i)!vars)
<1> USE DEF InUse, Alive
<1>t. /\ job \in [Inst -> JobRecord] /\ thread \in [Inst -> ThreadState]
      /\ killer \in [Inst -> Killer]
      /\ thread[i] \in {"none", "started", "running"}
  BY DEF IInv, TypeOK, ThreadState
<1>1. jobs' = jobs
  BY DEF ThreadStep, JobBegins, JobSetsStatus, JobReturns, KillFinish, instVars
<1>2. CASE i # n
  <2>1. UNCHANGED <<job[i], thread[i], killer[i]>>
    BY <1>t, <1>2 DEF ThreadStep, JobBegins, JobSetsStatus, JobReturns, KillFinish
  <2>2. QED
    BY <1>1, <2>1, Untouched
<1>3. CASE i = n /\ JobBegins(n)
  <2>1. /\ thread[i] = "started" /\ thread'[i] = "running" /\ killer' = killer
        /\ \E s \in MayBegin(Kind) : job'[i] = SetStatus(job[i], s)
    BY <1>t, <1>3 DEF JobBegins
  <2>2. Contract(i)!JobBegins
    BY <2>1, ContractOperators DEF Contract!JobBegins
  <2>3. QED
    BY <2>2 DEF Contract!Next
<1>4. CASE i = n /\ JobSetsStatus(n)
  <2>1. /\ thread[i] = "running" /\ thread' = thread /\ killer' = killer
        /\ \E s \in MaySet(Kind, job[i].run) : job'[i] = SetStatus(job[i], s)
    BY <1>t, <1>4 DEF JobSetsStatus
  <2>2. Contract(i)!JobSetsStatus
    BY <2>1, ContractOperators DEF Contract!JobSetsStatus
  <2>3. QED
    BY <2>2 DEF Contract!Next
<1>5. CASE i = n /\ JobReturns(n)
  <2>1. /\ thread[i] = "running" /\ thread'[i] = "none" /\ killer' = killer
        /\ job[i].run \in MayReturn(Kind, job[i].die)
        /\ i = jobs => job'[i] = AtReturn(Kind, job[i])
    BY <1>t, <1>5 DEF JobReturns
  <2>2. CASE i = jobs
    <3>1. Contract(i)!JobReturns
      BY <1>1, <2>1, <2>2, ContractOperators DEF Contract!JobReturns
    <3>2. QED
      BY <3>1 DEF Contract!Next
  <2>3. CASE i # jobs
    <3>1. "NEW" \in HarvestStatus /\ ~InUse(i)'
      BY <1>1, <2>1, <2>3 DEF HarvestStatus
    <3>2. QED
      BY <2>1, <3>1, Renewed DEF Contract!Next
  <2>4. QED
    BY <2>2, <2>3
<1>6. CASE i = n /\ KillFinish(n)
  <2>1. /\ killer[i] # "none" /\ killer'[i] = "none" /\ thread' = thread
        /\ InUse(i) => job'[i] = KillOverwrite(job[i])
    BY <1>t, <1>6 DEF KillFinish, Kept
  <2>2. CASE InUse(i)
    <3>1. Contract(i)!KillFinish
      BY <1>1, <2>1, <2>2, ContractOperators DEF Contract!KillFinish
    <3>2. QED
      BY <3>1 DEF Contract!Next
  <2>3. CASE ~InUse(i)
    <3>1. UNCHANGED Contract(i)!vars
      BY <1>1, <2>1, <2>3 DEF Contract!vars
    <3>2. QED
      BY <3>1
  <2>4. QED
    BY <2>2, <2>3
<1>7. QED
  BY <1>2, <1>3, <1>4, <1>5, <1>6 DEF ThreadStep

\* Each step of the scheduler's specification is a step of the contract for every job.
LEMMA NextKeepsContract ==
  ASSUME IInv, [Next]_vars, NEW i \in Inst
  PROVE  [Contract(i)!Next]_(Contract(i)!vars)
<1>1. CASE \/ NotifyFinish \/ CheckTime \/ CheckShutdown \/ PersistChanges \/ KillAll \/ StopJob
           \/ CreateInstance \/ CreateStartFails \/ DiscardInstance \/ Crash \/ Deploy
           \/ \E n \in Inst : ThreadStep(n) \/ KillFinish(n)
  BY <1>1, CallSteps, ListingSteps, JobSteps
<1>2. CASE \/ RunBegin \/ Loop \/ CheckNothing \/ StartFails \/ CheckRunningOrKilled
           \/ Compare \/ Remember \/ PersistNull \/ ListBriefs \/ ListFails \/ KeepInstance
           \/ NoInstanceNoRow \/ CreateNothing \/ CreateFails \/ RecordShutdown
           \/ AdminPut \/ AdminReset \/ AdminDelete \/ Shutdown \/ UNCHANGED vars
  <2>1. UNCHANGED <<job, thread, killer, jobs>>
    BY <1>2 DEF RunBegin, Loop, CheckNothing, StartFails, CheckRunningOrKilled, Compare,
       Remember, PersistNull, ListBriefs, ListFails, KeepInstance, NoInstanceNoRow,
       CreateNothing, CreateFails, RecordShutdown, AdminPut, AdminReset, AdminDelete, Shutdown, vars,
       jobVars, instVars
  <2>2. QED
    BY <2>1, Untouched
<1>3. QED
  BY <1>1, <1>2 DEF Next, SchedulerStep, Environment

\* Whatever is edited, killed, deleted, deployed or fails, the scheduler gives each of its
\* jobs the life that JobContract describes; with KeepsContract of the OAI-PMH and of the
\* bulk job, the two sides of the contract are proved.
THEOREM SchedulerKeepsContract == Spec => CallsKeepContract
<1> DEFINE StepsKeep == \A i \in Inst : [Contract(i)!Next]_(Contract(i)!vars)
<1>1. Init => \A i \in Inst : Contract(i)!Init
  <2> SUFFICES ASSUME Init, NEW i \in Inst PROVE Contract(i)!Init
    OBVIOUS
  <2>1. ~InUse(i) /\ thread[i] = "none" /\ "NEW" \in HarvestStatus
    BY InstAssumption DEF Init, InUse, Alive, HarvestStatus
  <2>2. QED
    BY <2>1, ContractOperators DEF Contract!Init
<1>2. IInv /\ [Next]_vars => [StepsKeep]_vars
  BY NextKeepsContract
<1> HIDE DEF StepsKeep
<1>3. Spec => [][StepsKeep]_vars
  BY <1>2, Invariance, PTL DEF Spec
<1>4. QED
  BY <1>1, <1>3 DEF Spec, CallsKeepContract, StepsKeep
=============================================================================

---------------------------- MODULE BulkHarvestJob ----------------------------
(***************************************************************************)
(* BulkRecordHarvestJob: files are harvested from a list of URLs, run      *)
(* after run, each run in one transaction of the record storage, of which  *)
(* the job knows no more than TransactionalIndex.  "Ask server for new     *)
(* files only" makes the requests conditional: the job object asks for     *)
(* what has changed since the start that its Harvestable told it of when   *)
(* the object was constructed, or for everything when that run had failed. *)
(*                                                                         *)
(* The clock goes in the units of the servers' time stamps, seconds for    *)
(* HTTP and up to days for the listings of an FTP server, and a file may   *)
(* change as often as it likes in one of them: what it holds is its        *)
(* version, what it says of its last change is a time.  Servers and        *)
(* harvester have one clock.  Time 0 is "no date", version 0 "no file".    *)
(* The list is harvested in any order.  A file is one record, stored or    *)
(* not; the disk cache, directories and archives, the record limit and the *)
(* date that the user may enter for one run are left out.                  *)
(***************************************************************************)
EXTENDS Naturals, HarvestJob

CONSTANTS
  Url,            \* the URLs of the list
  MaxTime,        \* bound of the clock
  MaxVersion,     \* bound of the versions of a file
  MaxIncidents    \* bound of the faults, kills, edits, restarts and crashes, all told

ASSUME BulkAssumption ==
  MaxTime \in Nat \ {0} /\ MaxVersion \in Nat \ {0} /\ MaxIncidents \in Nat

VARIABLES
  incidents,   \* number of incidents so far
  clock,       \* the time of day
  version,     \* version[u]: what the file at u holds
  modified,    \* modified[u]: the time stamp of its last change
  settings,    \* fields of the XmlBulkResource
  lastStarted, \* its lastHarvestStarted, 0 for null
  row,         \* currentStatus and lastHarvestStarted in the database
  sched,       \* the scheduler has the job object ("up"), is inside its start(), is about
               \* to kill it ("stopping"), or has dropped it ("down")
  last,        \* JobInstance.lastHarvestStatus
  job,         \* the job record
  thread,      \* state of the harvesting thread
  killing,     \* kill() has tested runStatus and not assigned it yet
  since,       \* what initialStatus and previousHarvestStarted make of lastDate
  pc,          \* control of run()
  todo,        \* the URLs that downloadList has not come to
  failed,      \* those that it has not harvested for a fault, history
  some,        \* has the storage proxy counted a record?
  phase, base, work, touched, index,  \* the record storage
  unfinished,  \* the last run that was started has not claimed to have finished, history
  excused,     \* URLs of which the next date hides a change, history
  spoiled      \* the job object takes the start of such a run, or of one before it, for
               \* the date of the index, history

storageVars == <<phase, base, work, touched, index>>
serverVars  == <<clock, version, modified>>
runVars     == <<since, todo, failed, some>>
historyVars == <<unfinished, excused, spoiled>>
schedVars   == <<row, sched, last>>
vars == <<incidents, serverVars, settings, lastStarted, schedVars, job, thread, killing, pc, runVars,
          storageVars, historyVars>>

Time    == 0..MaxTime
Version == 1..MaxVersion
Storage == INSTANCE TransactionalIndex WITH Rec <- Url, Ver <- Version, Shared <- FALSE

Settings == [allowErrors : BOOLEAN, overwrite : BOOLEAN, allowCondReq : BOOLEAN]
Places == {"idle", "purge", "begin", "list", "failed", "after", "makeOk",
           "decide", "commit", "finish", "setFinished", "rollback", "exception",
           "storageError", "return"}

TypeOK ==
  /\ incidents \in 0..MaxIncidents
  /\ clock \in Time \ {0} /\ version \in [Url -> Version] /\ modified \in [Url -> Time \ {0}]
  /\ settings \in Settings
  /\ lastStarted \in Time /\ row \in [status : HarvestStatus, lastStarted : Time]
  /\ sched \in {"up", "starting", "stopping", "down"}
  /\ last \in HarvestStatus /\ job \in JobRecord
  /\ thread \in {"none", "started", "running"} /\ killing \in BOOLEAN
  /\ pc \in Places
  /\ since \in Time /\ todo \subseteq Url /\ failed \subseteq Url /\ some \in BOOLEAN
  /\ phase \in {"closed", "open", "failed"} /\ (thread = "none" => phase = "closed")
  /\ {base, work, index} \subseteq [Url -> Version \union {0}] /\ touched \subseteq Url
  /\ unfinished \in BOOLEAN /\ excused \subseteq Url /\ spoiled \in BOOLEAN

\* A new job, before its first run.
Init ==
  /\ incidents = 0
  /\ clock = 1
  /\ version = [u \in Url |-> 1] /\ modified = [u \in Url |-> 1]
  /\ settings \in Settings
  /\ lastStarted = 0
  /\ row = [status |-> "NEW", lastStarted |-> 0]
  /\ sched = "up" /\ last = "NEW" /\ job = NewJob("NEW")
  /\ thread = "none" /\ killing = FALSE /\ pc = "idle"
  /\ since = 0 /\ todo = {} /\ failed = {} /\ some = FALSE
  /\ Storage!Init /\ index = [u \in Url |-> 0]
  /\ unfinished = FALSE /\ excused = {} /\ spoiled = FALSE

Incident == incidents < MaxIncidents /\ incidents' = incidents + 1
Quiet    == UNCHANGED incidents

-----------------------------------------------------------------------------
(* The servers *)

Tick ==
  /\ Quiet
  /\ clock < MaxTime
  /\ clock' = clock + 1
  /\ UNCHANGED <<version, modified, settings, lastStarted, schedVars, job, thread, killing, pc,
                 runVars, storageVars, historyVars>>

\* What changes up to here, the date of the last start will hide: that date itself, or
\* whatever the clock says, as long as start() has not stamped it.
Horizon == IF sched = "starting" THEN clock ELSE lastStarted

\* A file changes, at any time.
ChangeFile(u) ==
  /\ Quiet
  /\ version[u] < MaxVersion
  /\ version' = [version EXCEPT ![u] = @ + 1]
  /\ modified' = [modified EXCEPT ![u] = clock]
  /\ excused' = IF clock > Horizon THEN excused \ {u} ELSE excused \union {u}
  /\ UNCHANGED <<clock, settings, lastStarted, schedVars, job, thread, killing, pc, runVars,
                 storageVars, unfinished, spoiled>>

\* The index holds the file as it is, and the next commit will not change that.
Current(u) == work[u] = version[u] /\ index[u] = version[u]

\* If-Modified-Since, or the time stamp of a file in an FTP directory.
IsNew(u, date) == date = 0 \/ modified[u] > date

-----------------------------------------------------------------------------
(* run() *)

Goto(l) == pc' = l

\* isKillSent() waits for a kill() that is going on: both are synchronized.
KillSent    == ~killing /\ job.die
NotKillSent == ~killing /\ ~job.die

\* A step of run() leaves alone what is not the job's.
Elsewhere == UNCHANGED <<serverVars, settings, lastStarted, schedVars, killing, since,
                         unfinished, spoiled>>
RunOnly     == Elsewhere /\ UNCHANGED <<thread, todo, failed, some, excused>>
StorageKept == UNCHANGED storageVars

BeginStorage ==
  /\ Quiet
  /\ thread = "started" /\ pc = "idle"
  /\ Storage!Begin
  /\ Goto(IF settings.overwrite THEN "purge" ELSE "begin")
  /\ RunOnly /\ UNCHANGED job

PurgeStorage ==
  /\ Quiet
  /\ pc = "purge"
  /\ Storage!Purge
  /\ Goto("begin")
  /\ RunOnly /\ UNCHANGED job

\* The storage cannot be had (a stylesheet that does not compile, no storage at all), or
\* throws, as may the disk cache, before the run has set any status.  A purge that throws
\* may have been done.
BeginFails ==
  /\ Incident
  /\ thread = "started" /\ pc \in {"idle", "purge", "begin"}
  /\ StorageKept \/ (pc = "purge" /\ Storage!Purge)
  /\ pc' \in {"exception", "storageError"}
  /\ RunOnly /\ UNCHANGED job

JobBegins ==
  /\ Quiet
  /\ pc = "begin"
  /\ thread' = "running"
  /\ job' = SetStatus(job, "RUNNING")
  /\ todo' = Url /\ failed' = {} /\ some' = FALSE
  /\ Goto("list")
  /\ Elsewhere /\ StorageKept /\ UNCHANGED excused

-----------------------------------------------------------------------------
(* downloadList and the download of a file *)

lastDate == IF settings.allowCondReq THEN since ELSE 0

Listing(u) == pc = "list" /\ u \in todo /\ todo' = todo \ {u}

\* Mutant: what is not new does not count as a harvest.
NotModifiedIsNoRun(u) ==
  /\ Quiet
  /\ Listing(u)
  /\ ~IsNew(u, lastDate)
  /\ job' = SetStatus(job, "NEW")
  /\ UNCHANGED <<thread, failed, some, pc, excused>> /\ Elsewhere /\ StorageKept

\* There are no files at u, for they are not new: the status is OK, whatever it was.
NotModified(u) ==
  /\ Quiet
  /\ Listing(u)
  /\ ~IsNew(u, lastDate)
  /\ job' = SetStatus(job, "OK")
  /\ UNCHANGED <<thread, failed, some, pc, excused>> /\ Elsewhere /\ StorageKept

\* Every record of the file goes to the storage proxy, which throws for a killed job.
StoreFile(u) ==
  /\ Quiet
  /\ Listing(u)
  /\ IsNew(u, lastDate) /\ NotKillSent
  /\ Storage!Put(u, version[u])
  /\ some' = TRUE
  /\ UNCHANGED <<job, thread, failed, pc, excused>> /\ Elsewhere

\* The request fails.  downloadList makes it a WARN when errors are allowed.
RequestFails(u) ==
  /\ Incident
  /\ Listing(u) /\ failed' = failed \union {u}
  /\ \/ settings.allowErrors /\ job' = SetStatus(job, "WARN") /\ UNCHANGED pc
     \/ ~settings.allowErrors /\ NotKillSent /\ Goto("exception") /\ UNCHANGED job
  /\ UNCHANGED <<thread, some, excused>> /\ Elsewhere /\ StorageKept

\* The file breaks off, after some records or none.  When errors are allowed, it is
\* logged, and nothing else; and so it may be when they are not: storeMarc leaves its loop
\* at a MarcException that is not the end of the stream.
FileFails(u) ==
  /\ Incident
  /\ Listing(u) /\ failed' = failed \union {u}
  /\ IsNew(u, lastDate)
  /\ \/ UNCHANGED pc
     \/ ~settings.allowErrors /\ NotKillSent /\ Goto("exception")
  /\ some' \in {some, TRUE}
  /\ UNCHANGED <<job, thread, excused>> /\ Elsewhere /\ StorageKept

\* The storage throws, which is handled like an error of the file, though the batch may
\* have had records of other files.
StoreFails(u) ==
  /\ Incident
  /\ Listing(u) /\ failed' = failed \union {u} \union touched
  /\ IsNew(u, lastDate) /\ NotKillSent
  /\ UNCHANGED index /\ Storage!Fail
  /\ some' = TRUE
  /\ Goto("failed")
  /\ UNCHANGED <<job, thread, excused>> /\ Elsewhere

AfterStoreFails ==
  /\ Quiet
  /\ pc = "failed"
  /\ \/ KillSent /\ Goto("after") /\ Storage!GoOn
     \/ NotKillSent /\ settings.allowErrors /\ Goto("list") /\ Storage!GoOn
     \/ NotKillSent /\ ~settings.allowErrors /\ Goto("storageError") /\ StorageKept
  /\ RunOnly /\ UNCHANGED job

\* A killed job leaves the list, where it sleeps after a file or stores one.
LeaveList ==
  /\ Quiet
  /\ pc = "list"
  /\ todo = {} \/ KillSent
  /\ Goto("after")
  /\ RunOnly /\ StorageKept /\ UNCHANGED job

-----------------------------------------------------------------------------
(* The end of run() *)

After ==
  /\ Quiet
  /\ pc = "after"
  /\ Goto(IF job.run = "RUNNING" THEN "makeOk" ELSE "decide")
  /\ RunOnly /\ StorageKept /\ UNCHANGED job

MakeOk ==
  /\ Quiet
  /\ pc = "makeOk"
  /\ job' = SetStatus(job, "OK")
  /\ Goto("decide")
  /\ RunOnly /\ StorageKept

\* logError: a WARN ends as an ERROR.
Logged == IF job.run \in {"WARN", "ERROR"} THEN SetStatus(job, "ERROR") ELSE job

Decide ==
  /\ Quiet
  /\ pc = "decide"
  /\ job' = Logged
  /\ Goto(IF \/ job'.run = "OK"
             \/ job'.run \in {"ERROR", "KILLED"} /\ settings.allowErrors
            THEN "commit" ELSE "rollback")
  /\ RunOnly /\ StorageKept

\* The proxy's commit makes a WARN of an OK that has brought no records.
Counted == IF ~some /\ job.run = "OK" THEN SetStatus(job, "WARN") ELSE job

Commit ==
  /\ Quiet
  /\ pc = "commit"
  /\ Storage!Commit
  /\ job' = MarkForUpdate(Counted)
  /\ Goto("finish")
  /\ RunOnly

CommitFails ==
  /\ Incident
  /\ pc = "commit"
  /\ Storage!Fail
  /\ job' = Counted
  /\ pc' \in {"exception", "storageError"}
  /\ RunOnly

\* Mutant: the status that the commit leaves is not looked at.
FinishAnyway ==
  /\ Quiet
  /\ pc = "finish"
  /\ Goto("setFinished")
  /\ RunOnly /\ StorageKept /\ UNCHANGED job

Finish ==
  /\ Quiet
  /\ pc = "finish"
  /\ Goto(IF job.run \in {"WARN", "ERROR"} THEN "return" ELSE "setFinished")
  /\ RunOnly /\ StorageKept /\ UNCHANGED job

\* What a run that begins with a spoiled date does not ask for.
NotAskedFor == {u \in Url : spoiled /\ ~IsNew(u, lastDate)}

\* What the claim of a run to have harvested the list passes over and its date will hide.
PassedOver ==
  {u \in excused \union failed \union todo \union NotAskedFor :
     ~Current(u) /\ ~(modified[u] > Horizon)}

\* Mutant: the date that the next object goes by is that of the end of the run.
StampAtEnd ==
  /\ Quiet
  /\ pc = "setFinished"
  /\ job' = SetStatus(job, "FINISHED")
  /\ lastStarted' = clock
  /\ unfinished' = FALSE
  /\ excused' = PassedOver
  /\ Goto("return")
  /\ UNCHANGED <<serverVars, settings, schedVars, killing, thread, runVars, spoiled>>
  /\ StorageKept

\* The run claims to have harvested the list, with or without what has failed and what
\* it has not come to or asked for.
SetFinished ==
  /\ Quiet
  /\ pc = "setFinished"
  /\ job' = SetStatus(job, "FINISHED")
  /\ unfinished' = FALSE
  /\ excused' = PassedOver
  /\ Goto("return")
  /\ UNCHANGED <<serverVars, settings, lastStarted, schedVars, killing, thread, runVars, spoiled>>
  /\ StorageKept

Rollback ==
  /\ Quiet
  /\ pc = "rollback"
  /\ Storage!Rollback
  /\ Goto("return")
  /\ RunOnly /\ UNCHANGED job

RollbackFails ==
  /\ Incident
  /\ pc = "rollback"
  /\ UNCHANGED index /\ Storage!Fail
  /\ pc' \in {"exception", "storageError"}
  /\ RunOnly /\ UNCHANGED job

\* The handler sets ERROR, which may be the first status of the run.
HandlerSetsError ==
  /\ thread' = "running"
  /\ job' = SetStatus(job, "ERROR")
  /\ Goto("return")
  /\ Elsewhere /\ UNCHANGED <<todo, failed, some, excused>>

\* Mutant: the transaction is left open.
HandleNothing ==
  /\ Quiet
  /\ pc \in {"exception", "storageError"}
  /\ HandlerSetsError /\ StorageKept

\* The handler of run(): a rollback, and none after a StorageException; that of a storage
\* which has not begun throws, to no effect.
HandleException ==
  /\ Quiet
  /\ pc \in {"exception", "storageError"}
  /\ HandlerSetsError
  /\ CASE phase = "closed"                      -> StorageKept
       [] phase # "closed" /\ pc = "exception"  -> Storage!Rollback
       [] OTHER                                 -> Storage!GiveUp

HandlerFails ==
  /\ Incident
  /\ pc = "exception"
  /\ HandlerSetsError
  /\ Storage!GiveUp

JobReturns ==
  /\ Quiet
  /\ pc = "return"
  /\ thread' = "none"
  /\ job' = AtReturn("Bulk", job)
  /\ Goto("idle")
  /\ todo' = {} /\ failed' = {} /\ some' = FALSE
  /\ Elsewhere /\ StorageKept /\ UNCHANGED excused

-----------------------------------------------------------------------------
(* The scheduler, as far as this job sees it (JobScheduler has the rest) *)

Startable == {"NEW", "OK", "WARN", "ERROR", "SHUTDOWN"}

NotByScheduler == UNCHANGED <<serverVars, settings, storageVars, runVars, pc>>

\* checkJobs starts the job when its time has come, or after a shutdown.
StartJob ==
  /\ Quiet
  /\ sched = "up" /\ thread = "none"
  /\ job.run \in Startable
  /\ thread' = "started"
  /\ sched' = "starting"
  /\ unfinished' = TRUE
  /\ NotByScheduler /\ UNCHANGED <<lastStarted, row, last, job, killing, excused, spoiled>>

\* start() stamps the Harvestable after it has started the thread, which may be anywhere
\* by then.
StampStart ==
  /\ Quiet
  /\ sched = "starting"
  /\ lastStarted' = clock
  /\ sched' = "up"
  /\ NotByScheduler /\ UNCHANGED <<row, last, job, thread, killing, historyVars>>

Persist ==
  /\ Quiet
  /\ sched = "up"
  /\ last # job.run \/ job.updated
  /\ row' = [status |-> IF last # job.run THEN job.run ELSE row.status,
             lastStarted |-> lastStarted]
  /\ last' = job.run
  /\ job' = ClearUpdated(job)
  /\ NotByScheduler /\ UNCHANGED <<lastStarted, sched, thread, killing, historyVars>>

NotifyFinish ==
  /\ Quiet
  /\ sched = "up"
  /\ job.run = "FINISHED" /\ ~killing
  /\ job' = FinishReceived(job)
  /\ row' = [row EXCEPT !.lastStarted = lastStarted]
  /\ NotByScheduler /\ UNCHANGED <<lastStarted, sched, last, thread, killing, historyVars>>

KillBegin ==
  /\ ~killing
  /\ job' = KillRequested(job)
  /\ killing' = KillWillOverwrite(job)
  /\ NotByScheduler /\ UNCHANGED <<lastStarted, row, last, thread, historyVars>>

KillFinish ==
  /\ Quiet
  /\ killing
  /\ job' = KillOverwrite(job)
  /\ killing' = FALSE
  /\ NotByScheduler /\ UNCHANGED <<lastStarted, schedVars, thread, historyVars>>

StopJob ==
  /\ Incident
  /\ sched \in {"up", "starting"}
  /\ KillBegin
  /\ UNCHANGED sched

\* The row was changed: updateJobs kills the job and drops its object.
Edit ==
  /\ Incident
  /\ sched = "up"
  /\ KillBegin
  /\ sched' = "down"

\* stopAllJobs: a running job is recorded as SHUTDOWN, then every job is killed.
RecordShutdown ==
  /\ Incident
  /\ sched = "up"
  /\ sched' = "stopping"
  /\ row' = IF job.run = "RUNNING" THEN [status |-> "SHUTDOWN", lastStarted |-> lastStarted]
                                   ELSE row
  /\ NotByScheduler /\ UNCHANGED <<lastStarted, last, job, thread, killing, historyVars>>

KillAll ==
  /\ Quiet
  /\ sched = "stopping"
  /\ KillBegin
  /\ sched' = "down"

\* The container dies, and with it the transaction.
Crash ==
  /\ Incident
  /\ sched' = "down"
  /\ thread' = "none" /\ killing' = FALSE /\ Goto("idle")
  /\ todo' = {} /\ failed' = {} /\ some' = FALSE
  /\ IF phase = "closed" THEN StorageKept ELSE Storage!GiveUp
  /\ job' = NewJob(row.status) /\ last' = row.status
  /\ lastStarted' = row.lastStarted
  /\ UNCHANGED <<serverVars, settings, row, since, historyVars>>

\* Mutant: a run that has failed is as good as any other.
RenewAfterAny ==
  /\ Quiet
  /\ sched = "down" /\ thread = "none" /\ ~killing
  /\ row.status # "FINISHED"
  /\ job' = NewJob(row.status) /\ last' = row.status
  /\ since' = row.lastStarted
  /\ spoiled' = (unfinished /\ row.lastStarted # 0 /\ row.status \notin {"ERROR", "WARN"})
  /\ IF row.status = "RUNNING" THEN thread' = "started" /\ sched' = "starting"
                               ELSE thread' = "none"    /\ sched' = "up"
  /\ lastStarted' = row.lastStarted
  /\ unfinished' = (unfinished \/ row.status = "RUNNING")
  /\ UNCHANGED <<serverVars, settings, storageVars, row, killing, pc, todo, failed, some,
                 excused>>

\* updateJobs, after the old thread has ended: a new object is constructed from the row,
\* and started if the row says RUNNING.  A scheduler that finds FINISHED does not
\* survive it (JobScheduler!PersistNull).
Renew ==
  /\ Quiet
  /\ sched = "down" /\ thread = "none" /\ ~killing
  /\ row.status # "FINISHED"
  /\ job' = NewJob(row.status) /\ last' = row.status
  /\ since' = IF row.status \in {"ERROR", "WARN"} THEN 0 ELSE row.lastStarted
  /\ spoiled' = (unfinished /\ row.lastStarted # 0 /\ row.status \notin {"ERROR", "WARN"})
  /\ IF row.status = "RUNNING" THEN thread' = "started" /\ sched' = "starting"
                               ELSE thread' = "none"    /\ sched' = "up"
  /\ lastStarted' = row.lastStarted
  /\ unfinished' = (unfinished \/ row.status = "RUNNING")
  /\ UNCHANGED <<serverVars, settings, storageVars, row, killing, pc, todo, failed, some,
                 excused>>

-----------------------------------------------------------------------------
RunStep ==
  \/ BeginStorage \/ PurgeStorage \/ JobBegins
  \/ \E u \in Url : NotModified(u) \/ StoreFile(u)
  \/ AfterStoreFails \/ LeaveList \/ After \/ MakeOk \/ Decide
  \/ Commit \/ Finish \/ SetFinished \/ Rollback \/ HandleException \/ JobReturns

SchedulerStep ==
  StartJob \/ StampStart \/ Persist \/ NotifyFinish \/ KillFinish \/ KillAll \/ Renew

Fault ==
  \/ \E u \in Url : RequestFails(u) \/ FileFails(u) \/ StoreFails(u)
  \/ BeginFails \/ CommitFails \/ RollbackFails \/ HandlerFails

Interruption == StopJob \/ Edit \/ RecordShutdown \/ Crash

Next ==
  \/ Tick \/ \E u \in Url : ChangeFile(u)
  \/ RunStep \/ SchedulerStep \/ Fault \/ Interruption

Spec == Init /\ [][Next]_vars

-----------------------------------------------------------------------------
\* A job that is to start will find what is missing.
Complete == \A u \in Url \ excused : Current(u) \/ IsNew(u, lastDate)

\* Between its runs, a job that asks for new files only will ask for every file whose
\* present version is not in the index or would leave it with the next commit, whatever
\* the runs before have met, but for
\*   - a file that a run has failed to get, has cut short or did not come to, and which
\*     has FINISHED all the same, until the file changes or a run has it;
\*   - a file whose last change bears the time stamp of the start of a run, or of a time
\*     between that start and its being stamped: it may have come after the run had
\*     fetched the file, and a conditional request takes it for not new;
\*   - a job object that is constructed after a run was broken off, from a row that does
\*     not say that it has failed, and what such a job claims and has not asked for;
\*   - a job that deletes the files it does not ask for.
\* BulkRecordHarvestJob 40-48, 102-155 and 160-168, JobInstance 146-149.
NoFileSkipped ==
  /\ thread = "none" /\ sched = "up" /\ job.run \in Startable
  /\ ~spoiled
  /\ ~(settings.allowCondReq /\ settings.overwrite)
  => Complete

\* The statuses with which run() may find its job at a place of it, with or without a
\* kill() that is going on.
StatusAt(place) ==
  CASE place \in {"list", "failed", "after"}        -> {"RUNNING", "OK", "WARN", "KILLED"}
    [] place = "makeOk"                             -> {"RUNNING", "KILLED"}
    [] place = "decide"                             -> {"OK", "WARN", "KILLED"}
    [] place = "commit"                             -> {"OK", "ERROR", "KILLED"}
    [] place = "finish"                             -> {"OK", "WARN", "ERROR", "KILLED"}
    [] place = "setFinished"                        -> {"OK", "KILLED"}
    [] place = "rollback"                           -> {"ERROR", "KILLED"}
    [] place \in {"exception", "storageError"}      -> {"RUNNING", "OK", "WARN", "ERROR", "KILLED"}
    [] place = "return"                             -> MayReturn("Bulk", job.die)
    [] OTHER                                        -> {}

\* jobStatus follows runStatus but for FINISHED and KILLED, and what RUNNING is
\* left behind by a kill().
JobStatusFollows ==
  /\ job.job \in {"RUNNING", "OK", "WARN", "ERROR"}
  /\ job.run \notin {"FINISHED", "KILLED"} => job.job = job.run
  /\ job.run \in {"FINISHED", "KILLED"} /\ job.job = "RUNNING" => job.die

\* What the contract rests on: run() never finds a status at a place where its next
\* assignment would be one that the scheduler does not expect, and a status that the
\* scheduler may record or acknowledge is never null.  run() 76-150, setStatus, kill.
IInv ==
  /\ job \in JobRecord /\ job.run # Null /\ killing \in BOOLEAN
  /\ row.status \in HarvestStatus
  /\ \/ thread = "none" /\ pc = "idle"
     \/ thread = "started" /\ pc \in {"idle", "purge", "begin", "exception", "storageError"}
     \/ thread = "running" /\ job.run \in StatusAt(pc) /\ JobStatusFollows
  /\ job.job = Null => thread = "none" /\ sched = "down"
  /\ killing => job.die

-----------------------------------------------------------------------------
(* Why nothing is skipped *)

\* The storage is in a transaction from begin() to the commit or rollback.
PhaseFits == pc \in {"idle", "finish", "setFinished", "return"} => phase = "closed"

\* What the object goes by is not later than what the row says, and that not later than
\* the start of the last run; nothing is later than now.
DatesInOrder ==
  /\ since <= row.lastStarted /\ row.lastStarted <= lastStarted /\ lastStarted <= clock
  /\ \A u \in Url : modified[u] <= clock

UnfinishedUntilClaimed ==
  thread = "started" \/ (thread = "running" /\ pc # "return") => unfinished

\* The index has file u, and nothing that this run may do takes it away.
Settled(u) ==
  Current(u) /\ (phase # "closed" => base[u] = version[u] /\ u \notin touched)

\* What is older than the date of the job object is in the index and stays there.
ObjectDateIsBehind ==
  ~spoiled /\ since # 0 => \A u \in Url \ excused : modified[u] > since \/ Settled(u)

\* When the last run has claimed to have finished, what is older than its start is in the
\* index: the start is fit to be the date of the next object.
StartIsBehind ==
  ~unfinished => \A u \in Url \ excused : modified[u] > Horizon \/ Current(u)

\* What a run has done with the files that it will claim to have harvested.
Harvested ==
  \A u \in Url \ (excused \union failed \union todo \union NotAskedFor) :
    /\ pc \in {"list", "failed", "after", "makeOk", "decide", "commit"} =>
         modified[u] > Horizon \/ work[u] = version[u]
    /\ pc \in {"finish", "setFinished"} => modified[u] > Horizon \/ Current(u)

Incremental == settings.allowCondReq /\ ~settings.overwrite

\* What keeps the date of the conditional requests behind what is missing.
\* BulkRecordHarvestJob 40-48 and 90-155, JobInstance 146-149.
DateIsBehind ==
  /\ PhaseFits /\ DatesInOrder /\ UnfinishedUntilClaimed
  /\ pc = "purge" => settings.overwrite
  /\ Incremental => ObjectDateIsBehind /\ StartIsBehind /\ Harvested

-----------------------------------------------------------------------------
\* The job does what the scheduler may rely on, and its thread, record and kill() do
\* nothing else.
Contract == INSTANCE JobContract WITH Kind <- "Bulk"
ContractHolds == Contract!Spec
=============================================================================

---------------------------- MODULE OaiHarvestJob ----------------------------
(***************************************************************************)
(* OAIRecordHarvestJob: an incremental OAI-PMH harvest, run after run,     *)
(* with what makes it incremental: the from and until dates and the        *)
(* resumption token of its OaiPmhResource.  Around it, as far as it        *)
(* concerns one job: the OAI-PMH server, the record storage, the row of    *)
(* the resource in the database, and what JobScheduler does with them.     *)
(*                                                                         *)
(* A record's content is its version, which is the time of its last change *)
(* on the server; a deletion on the server is a version like any other.    *)
(* A resumption token is the set of the records that are still to come, so *)
(* the empty set is both "no token" and the end of the list.  Time 0 is    *)
(* "no date" and "no version".                                             *)
(***************************************************************************)
EXTENDS Naturals, FiniteSets, HarvestJob

CONSTANTS
  Rec,            \* the records of the server
  MaxTime,        \* bound of the clock
  DayLength,      \* ticks of the clock per day: dates are formatted to days
  PageSize,       \* bound of the records in one response
  ServerFaults,   \* may requests fail?
  CommitFaults,   \* may the storage fail to commit or to roll back?
  StorageFaults,  \* may the storage fail to take a record?
  Kills,          \* may kill_job be sent while the job is RUNNING?
  IdleKills,      \* and while it is not?
  Restarts,       \* may the web application be stopped and started again?
  Crashes,        \* may the container die?
  Unset           \* may the resource lack an OAI set name?

ASSUME TimeAssumption ==
  MaxTime \in Nat \ {0} /\ DayLength \in Nat \ {0} /\ PageSize \in Nat \ {0}
ASSUME RecAssumption == IsFiniteSet(Rec)
ASSUME SwitchAssumption ==
  {ServerFaults, CommitFaults, StorageFaults, Kills, IdleKills, Restarts, Crashes,
   Unset} \subseteq BOOLEAN

VARIABLES
  clock,       \* the time of day
  stamp,       \* stamp[r]: the time r was last changed on the server, its version
  settings,    \* fields of the OaiPmhResource that the job only reads
  resource,    \* fields that it writes: from, until, token; and its currentStatus
  row,         \* the same fields in the database
  sched,       \* the scheduler is up, in stopAllJobs, or down
  last,        \* JobInstance.lastHarvestStatus
  job,         \* the job record
  thread,      \* state of the harvesting thread
  killing,     \* kill() has tested runStatus and not assigned it yet
  pc,          \* control of run()
  response,    \* what listRecords holds
  startToken,  \* startResumptionToken of run()
  pageToken,   \* resumptionToken of harvest(): the one of the page being stored
  added,       \* number of records this run has stored
  pending,     \* pending[r]: the version of r that this run has stored
  stored,      \* stored[r]: the version of r that has been committed
  spoiled,     \* history: the resource can no longer be gone on with, see Spoil
  rowState     \* history: a job may be constructed from the row ("sound"), or may when
               \* the harvest that is going on is committed ("open"), or may not

serverVars == <<clock, stamp>>
schedVars  == <<row, sched, last>>
runVars    == <<response, startToken, pageToken, added>>
storeVars  == <<pending, stored>>
history    == <<spoiled, rowState>>
vars == <<serverVars, settings, resource, schedVars, job, thread, killing, pc, runVars, storeVars,
          history>>

Time    == 0..MaxTime
Tokens  == SUBSET Rec
NoToken == {}
Nothing == [r \in Rec |-> 0]

Settings == [keepPartial : BOOLEAN, clearRtOnError : BOOLEAN, recordLimit : {0, 1},
             setName : BOOLEAN]
Resource == [from : Time, until : Time, token : Tokens, status : HarvestStatus]

\* An answer to a request: records and the token for the next ones, or an error.
Response == [kind : {"none", "page", "noRecordsMatch", "error"}, recs : Tokens, next : Tokens]
NoResponse == [kind |-> "none", recs |-> {}, next |-> {}]

Places == {"idle", "request", "check", "store", "ending", "makeOk",
           "oaiError", "exception", "storageError", "marker", "commit", "advance", "finish",
           "setFinished", "premature", "reset", "fail", "partial", "partialError", "return"}

TypeOK ==
  /\ clock \in Time
  /\ stamp \in [Rec -> Time]
  /\ settings \in Settings
  /\ resource \in Resource /\ row \in Resource
  /\ sched \in {"up", "stopping", "down"}
  /\ last \in HarvestStatus
  /\ job \in JobRecord
  /\ thread \in {"none", "started", "running"}
  /\ killing \in BOOLEAN
  /\ pc \in Places
  /\ response \in Response
  /\ startToken \in Tokens /\ pageToken \in Tokens
  /\ added \in 0..Cardinality(Rec)
  /\ pending \in [Rec -> Time] /\ stored \in [Rec -> Time]
  /\ spoiled \in BOOLEAN
  /\ rowState \in {"sound", "open", "spoiled"}

\* A new job, the server holding the records it held before.
Init ==
  /\ clock = 1
  /\ stamp \in [Rec -> {0, 1}]
  /\ settings \in {s \in Settings : s.setName \/ Unset}
  /\ resource = [from |-> 0, until |-> 0, token |-> NoToken, status |-> "NEW"]
  /\ row = resource
  /\ sched = "up"
  /\ last = "NEW"
  /\ job = NewJob("NEW")
  /\ thread = "none"
  /\ killing = FALSE
  /\ pc = "idle"
  /\ response = NoResponse
  /\ startToken = NoToken /\ pageToken = NoToken
  /\ added = 0
  /\ pending = Nothing /\ stored = Nothing
  /\ spoiled = FALSE /\ rowState = "sound"

-----------------------------------------------------------------------------
(* The server *)

Day(t) == t \div DayLength

\* ListRecords is selective by dates, both included; 0 is an argument left out.
Matching(from, until) ==
  {r \in Rec : /\ stamp[r] # 0
               /\ from = 0 \/ Day(from) <= Day(stamp[r])
               /\ until = 0 \/ Day(stamp[r]) <= Day(until)}

\* The responses to a request for the records of a list.
Pages(list) ==
  IF list = {} THEN {[kind |-> "noRecordsMatch", recs |-> {}, next |-> {}]}
  ELSE {[kind |-> "page", recs |-> p, next |-> list \ p] :
          p \in {q \in SUBSET list : q # {} /\ Cardinality(q) <= PageSize}}

Tick ==
  /\ clock < MaxTime
  /\ clock' = clock + 1
  /\ UNCHANGED <<stamp, settings, resource, schedVars, job, thread, killing, pc, runVars, storeVars,
                 history>>

\* A record is created, changed or deleted on the server.
Publish(r) ==
  /\ stamp[r] < clock
  /\ stamp' = [stamp EXCEPT ![r] = clock]
  /\ UNCHANGED <<clock, settings, resource, schedVars, job, thread, killing, pc, runVars, storeVars,
                 history>>

-----------------------------------------------------------------------------
(***************************************************************************)
(* History: what can be gone on with.  The dates and the token of the      *)
(* resource stand for everything before them, and the code lets them stand *)
(* for what is not there in these ways:                                    *)
(*   - a job that was told to die before its run began (the flag is never  *)
(*     cleared) harvests nothing, and its run ends well;                   *)
(*   - a StorageException ends a run at the token of its page, with no     *)
(*     commit and no rollback;                                             *)
(*   - the row is saved in the middle of a harvest, with the token of its  *)
(*     page, and the harvest does not come to be committed;                *)
(*   - a run begins with another token than the row still has.             *)
(* The latter two come to bear when a job is constructed from that row.    *)
(* Nothing that the job does depends on these variables.                   *)
(***************************************************************************)

\* The time marker has not moved yet.
Harvesting == thread = "running" /\ pc \notin {"finish", "setFinished", "return"}

\* A token of a page, of which nothing is committed.
MidHarvest == Harvesting /\ pc # "advance" /\ resource.token \notin {startToken, NoToken}

RowSaved    == rowState' = IF spoiled THEN "spoiled" ELSE IF MidHarvest THEN "open" ELSE "sound"
HarvestKept == rowState' = IF rowState = "open" THEN "sound" ELSE rowState
HarvestLost == rowState' = IF rowState = "open" THEN "spoiled" ELSE rowState

RowLoaded ==
  /\ spoiled' = (rowState # "sound")
  /\ rowState' = IF rowState = "sound" THEN "sound" ELSE "spoiled"

-----------------------------------------------------------------------------
(* run() and harvest() *)

Goto(l) == pc' = l

\* isKillSent() waits for a kill() that is going on: both are synchronized.
KillSent     == ~killing /\ job.die
NotKillSent  == ~killing /\ ~job.die

\* A step of run() leaves alone what is not the job's.
NotOfTheJob == UNCHANGED <<serverVars, settings, schedVars, killing>>
Elsewhere == NotOfTheJob /\ UNCHANGED history

\* Up to the first request.  Without a set name, there is nothing to encode and
\* URLEncoder.encode throws a NullPointerException.
JobBegins ==
  /\ thread = "started"
  /\ thread' = "running"
  /\ job' = SetStatus(job, "RUNNING")
  /\ resource' = [resource EXCEPT !.until = IF @ = 0 THEN clock ELSE @]
  /\ startToken' = resource.token
  /\ pageToken' = resource.token
  /\ Goto(IF settings.setName THEN "request" ELSE "exception")
  /\ spoiled' = (spoiled \/ job.die)
  /\ rowState' = IF row.token \in {NoToken, resource.token} THEN rowState ELSE "spoiled"
  /\ NotOfTheJob /\ UNCHANGED <<response, added, storeVars>>

\* listRecords.harvest: by dates, or by token.  It retries by itself before it fails.
Request ==
  /\ pc = "request"
  /\ \/ /\ response' \in Pages(IF pageToken = NoToken
                                 THEN Matching(resource.from, resource.until) ELSE pageToken)
        /\ Goto("check")
     \/ /\ ServerFaults
        /\ response' = [kind |-> "error", recs |-> {}, next |-> {}]
        /\ Goto("check")
     \/ /\ ServerFaults
        /\ response' = NoResponse
        /\ Goto("exception")
  /\ Elsewhere /\ UNCHANGED <<resource, job, thread, startToken, pageToken, added, storeVars>>

\* The head of the loop: a killed job leaves it.
CheckResponse ==
  /\ pc = "check"
  /\ \/ KillSent /\ Goto("ending") /\ UNCHANGED job
     \/ /\ NotKillSent /\ response.kind = "page"
        /\ Goto("store")
        /\ UNCHANGED job
     \/ /\ NotKillSent /\ response.kind = "noRecordsMatch"
        /\ job' = MarkForUpdate(SetStatus(job, "WARN"))
        /\ Goto("ending")
     \/ /\ NotKillSent /\ response.kind = "error"
        /\ Goto("oaiError")
        /\ UNCHANGED job
  /\ Elsewhere /\ UNCHANGED <<resource, thread, runVars, storeVars>>

LimitReached(n) == settings.recordLimit > 0 /\ n >= settings.recordLimit

\* A record goes to the storage; the storage proxy throws if the job was killed, and
\* a StopException when the record limit is reached, which ends harvest().  Only an
\* added record is tested for the limit, a deletion is not.
StoreRecord ==
  /\ pc = "store"
  /\ \E r \in response.recs :
       \/ /\ KillSent
          /\ Goto("exception")
          /\ UNCHANGED <<job, resource, response, added, pending>>
       \/ /\ NotKillSent
          /\ pending' = [pending EXCEPT ![r] = stamp[r]]
          /\ added' = added + 1
          /\ response' = [response EXCEPT !.recs = @ \ {r}]
          /\ \/ UNCHANGED <<job, resource, pc>>
             \/ /\ LimitReached(added')
                /\ job' = SetStatus(job, "OK")
                /\ resource' = [resource EXCEPT !.token = pageToken]
                /\ Goto("ending")
       \/ /\ NotKillSent /\ StorageFaults
          /\ Goto("storageError")
          /\ UNCHANGED <<job, resource, response, added, pending>>
  /\ Elsewhere /\ UNCHANGED <<thread, startToken, pageToken, stored>>

\* Mutant: the token of the page is not looked at.
PageDoneAlways ==
  /\ pc = "store" /\ response.recs = {}
  /\ job' = SetStatus(job, "OK")
  /\ Goto("ending")
  /\ Elsewhere /\ UNCHANGED <<resource, thread, runVars, storeVars>>

\* The page is stored: the harvest is done, or its token asks for the next page.
PageDone ==
  /\ pc = "store" /\ response.recs = {}
  /\ pageToken' = response.next
  /\ IF response.next = NoToken
       THEN job' = SetStatus(job, "OK") /\ Goto("ending") /\ UNCHANGED resource
       ELSE /\ resource' = [resource EXCEPT !.token = response.next]
            /\ Goto("request") /\ UNCHANGED job
  /\ Elsewhere /\ UNCHANGED <<thread, response, startToken, added, storeVars>>

\* The end of harvest(): the status is tested, then assigned.
Ending ==
  /\ pc = "ending"
  /\ Goto(IF job.run = "RUNNING" THEN "makeOk" ELSE "marker")
  /\ Elsewhere /\ UNCHANGED <<resource, job, thread, runVars, storeVars>>

MakeOk ==
  /\ pc = "makeOk"
  /\ job' = SetStatus(job, "OK")
  /\ Goto("marker")
  /\ Elsewhere /\ UNCHANGED <<resource, thread, runVars, storeVars>>

\* The handlers of run(); they do nothing for a killed job.  A StorageException of a
\* job that was not killed ends run() without commit or rollback.
HandleOaiError ==
  /\ pc = "oaiError"
  /\ \/ KillSent /\ UNCHANGED <<job, resource>>
     \/ /\ NotKillSent
        /\ job' = SetStatus(job, "ERROR")
        /\ resource' = [resource EXCEPT !.token = NoToken]
  /\ Goto("marker")
  /\ Elsewhere /\ UNCHANGED <<thread, runVars, storeVars>>

HandleException ==
  /\ pc \in {"exception", "storageError"}
  /\ \/ /\ KillSent
        /\ Goto("marker")
        /\ UNCHANGED <<job, resource, history>>
     \/ /\ NotKillSent
        /\ job' = SetStatus(job, "ERROR")
        /\ resource' = [resource EXCEPT !.token = IF settings.clearRtOnError
                                                     THEN NoToken ELSE @]
        /\ IF pc = "storageError"
             THEN /\ Goto("return")
                  /\ spoiled' = (spoiled \/ resource'.token \notin {startToken, NoToken})
                  /\ HarvestLost
             ELSE Goto("marker") /\ UNCHANGED history
  /\ NotOfTheJob /\ UNCHANGED <<thread, runVars, storeVars>>

Marker ==
  /\ pc = "marker"
  /\ Goto(IF job.run \in {"OK", "WARN"} THEN "commit" ELSE "premature")
  /\ Elsewhere /\ UNCHANGED <<resource, job, thread, runVars, storeVars>>

-----------------------------------------------------------------------------
(* The storage: SolrRecordStorage behind TransformationRecordStorageProxy *)

CommitStorage ==
  /\ stored' = [r \in Rec |-> IF pending[r] # 0 THEN pending[r] ELSE stored[r]]
  /\ pending' = Nothing
  /\ HarvestKept

\* Rolling back deletes what the transaction has added; what it has overwritten does
\* not come back.
RollbackStorage ==
  /\ stored' = [r \in Rec |-> IF pending[r] # 0 THEN 0 ELSE stored[r]]
  /\ pending' = Nothing
  /\ HarvestLost

\* Nobody commits or rolls back: part of it is committed by whoever commits next.
AbandonStorage ==
  /\ \E S \in SUBSET {r \in Rec : pending[r] # 0} :
       stored' = [r \in Rec |-> IF r \in S THEN pending[r] ELSE stored[r]]
  /\ pending' = Nothing

-----------------------------------------------------------------------------
(* The end of run() *)

\* The proxy's commit makes a WARN of an OK that has brought no records.
Commit ==
  /\ pc = "commit"
  /\ \/ /\ job' = MarkForUpdate(IF added = 0 /\ job.run = "OK" THEN SetStatus(job, "WARN")
                                                               ELSE job)
        /\ CommitStorage
        /\ Goto("advance")
        /\ UNCHANGED resource
     \/ /\ CommitFaults
        /\ job' = SetStatus(job, "ERROR")
        /\ resource' = [resource EXCEPT !.token = startToken]
        /\ Goto("return")
        /\ UNCHANGED storeVars
        /\ HarvestLost
  /\ NotOfTheJob /\ UNCHANGED <<thread, runVars, spoiled>>

\* Mutant: the next harvest is from now on.
AdvanceToNow ==
  /\ pc = "advance"
  /\ IF settings.recordLimit = 0
       THEN /\ resource' = [resource EXCEPT !.from = clock, !.until = 0, !.token = NoToken]
            /\ Goto("finish")
       ELSE /\ resource' = [resource EXCEPT !.token = startToken]
            /\ Goto("return")
  /\ Elsewhere /\ UNCHANGED <<job, thread, runVars, storeVars>>

\* The time marker moves on, except after a test run of some records.
Advance ==
  /\ pc = "advance"
  /\ IF settings.recordLimit = 0
       THEN /\ resource' = [resource EXCEPT !.from = resource.until, !.until = 0,
                                            !.token = NoToken]
            /\ Goto("finish")
       ELSE /\ resource' = [resource EXCEPT !.token = startToken]
            /\ Goto("return")
  /\ Elsewhere /\ UNCHANGED <<job, thread, runVars, storeVars>>

Finish ==
  /\ pc = "finish"
  /\ Goto(IF job.run = "OK" THEN "setFinished" ELSE "return")
  /\ Elsewhere /\ UNCHANGED <<resource, job, thread, runVars, storeVars>>

SetFinished ==
  /\ pc = "setFinished"
  /\ job' = SetStatus(job, "FINISHED")
  /\ Goto("return")
  /\ Elsewhere /\ UNCHANGED <<resource, thread, runVars, storeVars>>

\* A run that did not end well.
Premature ==
  /\ pc = "premature"
  /\ Goto(IF job.run \in {"KILLED", "RUNNING"} THEN "reset" ELSE "fail")
  /\ Elsewhere /\ UNCHANGED <<resource, job, thread, runVars, storeVars>>

\* Mutant: a killed job becomes NEW.
ResetToNew ==
  /\ pc \in {"reset", "fail"}
  /\ job' = SetStatus(job, IF pc = "reset" THEN "NEW" ELSE "ERROR")
  /\ Goto(IF pc = "reset" THEN "partial" ELSE "partialError")
  /\ Elsewhere /\ UNCHANGED <<resource, thread, runVars, storeVars>>

ResetStatus ==
  /\ pc \in {"reset", "fail"}
  /\ job' = SetStatus(job, IF pc = "reset" THEN "FINISHED" ELSE "ERROR")
  /\ Goto(IF pc = "reset" THEN "partial" ELSE "partialError")
  /\ Elsewhere /\ UNCHANGED <<resource, thread, runVars, storeVars>>

\* Mutant: the token stays where the harvest was when it was rolled back.
PartialKeepsToken ==
  /\ pc \in {"partial", "partialError"}
  /\ LET j == IF pc = "partialError" THEN SetStatus(job, "ERROR") ELSE job
     IN  \/ /\ settings.keepPartial
            /\ CommitStorage
            /\ job' = MarkForUpdate(j)
            /\ UNCHANGED resource
         \/ /\ ~settings.keepPartial
            /\ RollbackStorage
            /\ UNCHANGED resource
            /\ job' = j
         \/ /\ CommitFaults
            /\ job' = SetStatus(job, "ERROR")
            /\ resource' = [resource EXCEPT !.token = startToken]
            /\ UNCHANGED storeVars
            /\ HarvestLost
  /\ Goto("return")
  /\ NotOfTheJob /\ UNCHANGED <<thread, runVars, spoiled>>

\* The partial harvest is kept, with the token to go on from, or rolled back.
Partial ==
  /\ pc \in {"partial", "partialError"}
  /\ LET j == IF pc = "partialError" THEN SetStatus(job, "ERROR") ELSE job
     IN  \/ /\ settings.keepPartial
            /\ CommitStorage
            /\ job' = MarkForUpdate(j)
            /\ UNCHANGED resource
         \/ /\ ~settings.keepPartial
            /\ RollbackStorage
            /\ resource' = [resource EXCEPT !.token = startToken]
            /\ job' = j
         \/ /\ CommitFaults
            /\ job' = SetStatus(job, "ERROR")
            /\ resource' = [resource EXCEPT !.token = startToken]
            /\ UNCHANGED storeVars
            /\ HarvestLost
  /\ Goto("return")
  /\ NotOfTheJob /\ UNCHANGED <<thread, runVars, spoiled>>

\* Mutant: the count of the records is not started again.
ForgetButCount ==
  /\ Goto("idle")
  /\ response' = NoResponse
  /\ startToken' = NoToken /\ pageToken' = NoToken
  /\ UNCHANGED added
  /\ AbandonStorage

\* The local variables of a run, and its storage object, are gone.
ForgetRun ==
  /\ Goto("idle")
  /\ response' = NoResponse
  /\ startToken' = NoToken /\ pageToken' = NoToken
  /\ added' = 0
  /\ AbandonStorage

JobReturns ==
  /\ pc = "return"
  /\ thread' = "none"
  /\ job' = AtReturn("OAI", job)
  /\ ForgetRun
  /\ Elsewhere /\ UNCHANGED resource

-----------------------------------------------------------------------------
(* The scheduler, as far as this job sees it (JobScheduler has the rest) *)

Startable == {"NEW", "OK", "WARN", "ERROR", "SHUTDOWN"}

\* checkJobs starts the job when its time has come, or after a shutdown.
StartJob ==
  /\ sched = "up" /\ thread = "none"
  /\ job.run \in Startable
  /\ thread' = "started"
  /\ UNCHANGED <<serverVars, settings, resource, schedVars, job, killing, pc, runVars, storeVars,
                 history>>

\* checkJobs merges the resource, whatever the run has made of it so far, when the
\* status has changed, the job asks for it, or the message has changed, as it may
\* during a run.
Persist ==
  /\ sched = "up"
  /\ last # job.run \/ job.updated \/ thread = "running"
  /\ resource' = [resource EXCEPT !.status = IF last # job.run THEN job.run ELSE @]
  /\ row' = resource'
  /\ last' = job.run
  /\ job' = ClearUpdated(job)
  /\ RowSaved
  /\ UNCHANGED <<serverVars, settings, sched, thread, killing, pc, runVars, storeVars, spoiled>>

NotifyFinish ==
  /\ sched = "up"
  /\ job.run = "FINISHED" /\ ~killing
  /\ job' = FinishReceived(job)
  /\ row' = resource
  /\ RowSaved
  /\ UNCHANGED <<serverVars, settings, resource, sched, last, thread, killing, pc, runVars, storeVars,
                 spoiled>>

KillBegin ==
  /\ ~killing
  /\ job' = KillRequested(job)
  /\ killing' = KillWillOverwrite(job)
  /\ UNCHANGED <<serverVars, settings, resource, row, last, thread, pc, runVars, storeVars, history>>

KillFinish ==
  /\ killing
  /\ job' = KillOverwrite(job)
  /\ killing' = FALSE
  /\ UNCHANGED <<serverVars, settings, resource, schedVars, thread, pc, runVars, storeVars, history>>

\* kill_job of the status servlet.
StopJob ==
  /\ sched = "up"
  /\ IF job.run = "RUNNING" THEN Kills ELSE IdleKills
  /\ KillBegin
  /\ UNCHANGED sched

\* The web application is undeployed: stopAllJobs records a running job as SHUTDOWN,
\* with its resource as it is just then, and kills it.
RecordShutdown ==
  /\ Restarts /\ sched = "up"
  /\ sched' = "stopping"
  /\ IF job.run = "RUNNING"
       THEN /\ resource' = [resource EXCEPT !.status = "SHUTDOWN"]
            /\ row' = resource'
            /\ RowSaved
       ELSE UNCHANGED <<resource, row, rowState>>
  /\ UNCHANGED <<serverVars, settings, last, job, thread, killing, pc, runVars, storeVars, spoiled>>

KillAll ==
  /\ sched = "stopping"
  /\ KillBegin
  /\ sched' = "down"

\* The container dies.  The next deployment finds the row.
Crash ==
  /\ Crashes
  /\ sched' = "down"
  /\ thread' = "none"
  /\ killing' = FALSE
  /\ job' = NewJob(row.status)
  /\ resource' = row
  /\ last' = row.status
  /\ ForgetRun
  /\ RowLoaded
  /\ UNCHANGED <<serverVars, settings, row>>

\* A deployment after the thread has ended: updateJobs constructs the job from the
\* row and starts it if it was RUNNING.  A scheduler that finds FINISHED does not
\* survive it (JobScheduler!PersistNull).
Deploy ==
  /\ sched = "down" /\ thread = "none" /\ ~killing
  /\ row.status # "FINISHED"
  /\ sched' = "up"
  /\ resource' = row
  /\ last' = row.status
  /\ job' = NewJob(row.status)
  /\ thread' = IF row.status = "RUNNING" THEN "started" ELSE "none"
  /\ RowLoaded
  /\ UNCHANGED <<serverVars, settings, row, killing, pc, runVars, storeVars>>

-----------------------------------------------------------------------------
RunStep ==
  \/ JobBegins \/ Request \/ CheckResponse \/ StoreRecord \/ PageDone
  \/ Ending \/ MakeOk \/ HandleOaiError \/ HandleException \/ Marker
  \/ Commit \/ Advance \/ Finish \/ SetFinished
  \/ Premature \/ ResetStatus \/ Partial \/ JobReturns

SchedulerStep ==
  StartJob \/ Persist \/ NotifyFinish \/ RecordShutdown \/ KillAll \/ Deploy

Next ==
  \/ Tick \/ \E r \in Rec : Publish(r)
  \/ RunStep \/ SchedulerStep
  \/ StopJob \/ KillFinish \/ Crash

Spec == Init /\ [][Next]_vars

\* The JVM runs the threads; the job's schedule matches the clock again and again;
\* the scheduler looks at the job every second.
Fairness ==
  /\ WF_vars(RunStep) /\ WF_vars(KillFinish)
  /\ WF_vars(StartJob) /\ WF_vars(Persist) /\ WF_vars(NotifyFinish)

FairSpec == Spec /\ Fairness

-----------------------------------------------------------------------------
(* What an incremental harvest must not do: skip a record *)

\* Continuing from what h says, the job will ask the server for record r.
Due(h, r) ==
  IF h.token = NoToken
    THEN h.from = 0 \/ Day(h.from) <= Day(stamp[r])
    ELSE r \in h.token \/ (h.until # 0 /\ Day(h.until) <= Day(stamp[r]))

Covers(h) == \A r \in Rec : stamp[r] # 0 /\ stored[r] # stamp[r] => Due(h, r)

\* Between its runs, whatever they have met, a job would ask for every record whose
\* current version is not in the storage: neither the time marker nor the resumption
\* token has moved past it.  And at any time so would the job that a deployment after a
\* crash constructs from the row.  harvest(), run() 216-278, JobScheduler.checkJobs.
NothingSkipped ==
  /\ thread = "none" /\ ~spoiled => Covers(resource)
  /\ rowState = "sound" => Covers(row)

\* Every version that stays the current one comes to the storage.
EventuallyStored ==
  \A r \in Rec : \A v \in Time \ {0} :
    stamp[r] = v /\ settings.recordLimit = 0 ~> stored[r] = v \/ stamp[r] # v

\* The statuses with which run() may find its job at a place of it, with or without a
\* kill() that is going on.
StatusAt(place) ==
  LET ifKilled == IF job.die THEN {"RUNNING"} ELSE {}
  IN CASE place \in {"request", "check", "store", "makeOk", "oaiError", "exception",
                     "storageError"}              -> {"RUNNING", "KILLED"}
       [] place = "ending"                        -> {"RUNNING", "OK", "WARN", "KILLED"}
       [] place = "marker"                        -> {"OK", "WARN", "ERROR", "KILLED"} \union ifKilled
       [] place \in {"commit", "advance", "finish"} -> {"OK", "WARN", "KILLED"}
       [] place = "setFinished"                   -> {"OK", "KILLED"}
       [] place = "premature"                     -> {"ERROR", "KILLED"} \union ifKilled
       [] place = "reset"                         -> {"KILLED"} \union ifKilled
       [] place \in {"fail", "partialError"}      -> {"ERROR", "KILLED"}
       [] place \in {"partial", "return"}         -> MayReturn("OAI", job.die)
       [] OTHER                                   -> {}

\* jobStatus follows runStatus but for FINISHED and KILLED, and what RUNNING is
\* left behind by a kill().
JobStatusFollows ==
  /\ job.job \in {"RUNNING", "OK", "WARN", "ERROR"}
  /\ job.run \notin {"FINISHED", "KILLED"} => job.job = job.run
  /\ job.run \in {"FINISHED", "KILLED"} /\ job.job = "RUNNING" => job.die

\* The count is that of the records that this run has given to the storage: no page has
\* a record of an earlier one, and no token one of its page or before.
StoredOnce ==
  LET given == {r \in Rec : pending[r] # 0}
  IN  /\ thread # "running" => pending = Nothing /\ added = 0
      /\ pc \in {"request", "check", "store"} => added = Cardinality(given)
      /\ pc = "request" => /\ pageToken \intersect given = {}
                           /\ pageToken = NoToken => given = {}
      /\ pc \in {"check", "store"} =>
           /\ (response.recs \union response.next) \intersect given = {}
           /\ response.recs \intersect response.next = {}

\* Only records that are on the server are asked for and stored.
TokensOnServer ==
  \A r \in resource.token \union row.token \union startToken \union pageToken
             \union response.recs \union response.next : stamp[r] # 0

\* run() never finds a status at a place where its next assignment would be one that the
\* scheduler does not expect, and a status that the scheduler may record or acknowledge
\* is never null.
StatusFits ==
  /\ job.run # Null
  /\ \/ thread \in {"none", "started"} /\ pc = "idle"
     \/ thread = "running" /\ job.run \in StatusAt(pc) /\ JobStatusFollows
  /\ job.job = Null => thread = "none" /\ sched = "down"
  /\ killing => job.die

\* What the contract rests on, and that the count of the records, which the record limit
\* and the WARN of an empty harvest go by, is right.  run() 125-286, harvest(),
\* setStatus, kill.
IInv == TypeOK /\ StatusFits /\ StoredOnce /\ TokensOnServer

-----------------------------------------------------------------------------
(* Why nothing is skipped *)

Missing(r)    == stamp[r] # 0 /\ stored[r] # stamp[r]
AtRisk(r)     == Missing(r) \/ pending[r] # 0
SinceFrom(r)  == resource.from = 0 \/ Day(resource.from) <= Day(stamp[r])
SinceUntil(r) == resource.until # 0 /\ Day(resource.until) <= Day(stamp[r])

\* The resource as it would be with another token.
WithToken(token) == [resource EXCEPT !.token = token]

\* What this run has not given to the storage in its present version is still to come.
StillToCome(records) ==
  \A r \in Rec : Missing(r) => pending[r] = stamp[r] \/ r \in records \/ SinceUntil(r)

DatesInOrder ==
  /\ clock # 0 /\ \A r \in Rec : stamp[r] <= clock
  /\ \A h \in {resource, row} : /\ h.until # 0 => h.from <= h.until
                               /\ h.from <= clock /\ h.until <= clock
  /\ row.from <= resource.from
  /\ Harvesting => resource.until # 0

InRange(h, token) ==
  /\ token # NoToken => h.until # 0
  /\ \A r \in token : h.from = 0 \/ Day(h.from) <= Day(stamp[r])

TokensAreInRange ==
  /\ InRange(resource, resource.token) /\ InRange(row, row.token)
  /\ Harvesting => InRange(resource, startToken) /\ InRange(resource, pageToken)
  /\ pc \in {"check", "store"} =>
       InRange(resource, response.recs) /\ InRange(resource, response.next)

\* A run that goes on from a token meets only what that token stands for.
WithinStart ==
  startToken # NoToken =>
    /\ pc = "request" => pageToken # NoToken /\ pageToken \subseteq startToken
    /\ pc \in {"check", "store"} => response.recs \union response.next \subseteq startToken

InOrder == DatesInOrder /\ TokensAreInRange /\ WithinStart

\* A run that is rolled back, or half of it, can be done again.
CanStartAgain ==
  \A r \in Rec : AtRisk(r) =>
    Due(IF Harvesting THEN WithToken(startToken) ELSE resource, r)

\* A run that is kept can be gone on with, also at the page that it is at.
CanGoOn ==
  Harvesting =>
    /\ \A r \in Rec : Missing(r) => pending[r] = stamp[r] \/ Due(resource, r)
    /\ pc \in {"request", "check", "store"} =>
         \A r \in Rec : Missing(r) => pending[r] = stamp[r] \/ Due(WithToken(pageToken), r)
    /\ \A r \in Rec : pending[r] # 0 /\ pending[r] # stamp[r] => SinceUntil(r)

\* A run that ends well has met everything up to its until date, unless it was to stop
\* at the record limit.
EndIsComplete ==
  /\ pc = "store" => response.kind = "page"
  /\ pc = "check" /\ response.kind = "noRecordsMatch" =>
       response.recs = {} /\ response.next = {}
  /\ pc \in {"check", "store"} /\ response.kind # "error" =>
       StillToCome(response.recs \union response.next)
  /\ \/ pc \in {"ending", "marker"} /\ job.run \in {"OK", "WARN"}
     \/ pc = "commit"
     => settings.recordLimit > 0 \/ StillToCome({})
  /\ pc = "advance" /\ settings.recordLimit = 0 => StillToCome({})
  /\ pc \in {"advance", "finish", "setFinished"} => pending = Nothing

\* A job that was killed in its run knows it as long as it harvests.
KilledIsKnown ==
  /\ pc \in {"request", "check", "store", "oaiError", "exception", "storageError"}
       /\ job.die /\ ~killing => job.run = "KILLED"
  /\ pc = "ending" => job.run # "RUNNING"
  /\ pc # "makeOk"

ResourceIsBehind == CanStartAgain /\ CanGoOn /\ EndIsComplete /\ KilledIsKnown

\* The row stands for what is missing: now, or when the harvest is kept.
RowIsBehind ==
  /\ rowState = "sound" =>
       /\ \A r \in Rec : AtRisk(r) => Due(row, r)
       /\ pc \in {"request", "check", "store"} => row.token \in {NoToken, startToken}
  /\ rowState = "open" =>
       /\ Harvesting /\ pc # "advance" /\ ~spoiled
       /\ row.from = resource.from /\ row.until = resource.until /\ row.token # NoToken
       /\ \A r \in Rec : Missing(r) => pending[r] = stamp[r] \/ Due(row, r)

\* What keeps the time marker and the resumption token behind what is missing, in the
\* resource as long as it is not spoiled, and in the row.  harvest(), run() 216-278,
\* kill(), JobScheduler.checkJobs and stopAllJobs.
MarkerIsBehind == InOrder /\ (~spoiled => ResourceIsBehind) /\ RowIsBehind

-----------------------------------------------------------------------------
\* The job does what the scheduler may rely on, and its thread, record and kill() do
\* nothing else.
Contract == INSTANCE JobContract WITH Kind <- "OAI"
ContractHolds == Contract!Spec
=============================================================================

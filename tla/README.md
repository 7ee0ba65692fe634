# TLA+ models of the Local Indices harvester

The harvester collects bibliographic records from OAI-PMH servers, files, web
sites and scripted connectors on a schedule, transforms them and stores them in
Solr or in FOLIO Inventory.  This directory holds TLA+ modules that model it,
TLC configurations that check them on small instances, and proofs of some of
their properties for every instance, checked by TLAPS.  `PROJECT.json` lists the
runs, which source lines each definition stands for, the known hazards, and
where the code and its documentation disagree.

    tlc -config SchedulerEdits.cfg MCJobScheduler    # any run, see below
    tlapm JobScheduler_proofs.tla                    # the proofs

Paths below are relative to
`src/harvester/src/main/java/com/indexdata/masterkey/localindices/` unless they
begin with another directory of `src/`.

## 1. The system

| Component | State | Operations | Talks to |
|---|---|---|---|
| Scheduler: `scheduler/SchedulerThread`, `JobScheduler`, `JobInstance` | `keepRunning`; the map of instances, each with its job, its thread, its copy of the `Harvestable`, `lastHarvestStatus` | every second `checkJobs`, `updateJobs`, `checkJobs`; `stopAllJobs` at the end | reads and merges rows through the DAO; starts and kills jobs; reads their status |
| Deployment: `SchedulerUpDownListener`, `SchedulerStatusServlet` | the scheduler thread in the servlet context | start at deployment, kill at undeployment; `kill_job`, `shutdown` | scheduler |
| Job base: `harvest/job/AbstractRecordHarvestJob` | `runStatus`, `jobStatus`, `die`, `updated` | `setStatus`, `kill`, `finishReceived`, `markForUpdate`, `clearUpdated`, `shutdown` | called by its own thread, the scheduler and the servlet |
| OAI-PMH job: `OAIRecordHarvestJob` | from and until dates, resumption token (all in the `OaiPmhResource`) | `run`, `harvest` | OAI-PMH server, storage proxy |
| Bulk job: `BulkRecordHarvestJob`, `client/XmlMarcClient` | list of URLs, conditional date, disk cache | `run`, `downloadList`, `download` | HTTP, FTP, storage proxy |
| Web crawl: `WebRecordHarvestJob`, `crawl/*` | queue of pages, pages seen, pages under work, time a host may be asked again | worker threads pop, fetch, add links and records | HTTP, storage proxy |
| Connector job: `ConnectorHarvestJob`, `HarvestConnectorClient` | link tokens, session | `init`, `harvest`, with retries | connector engine, storage proxy |
| Status job: `StatusJob` | none | collects the messages of other jobs, mails them | DAO |
| Transformation: `harvest/storage/*TransformationRecordStorageProxy`, `harvest/messaging/*` | a queue between every two steps, one router (a thread, in the threaded proxy) per step | `add`, `delete`, `commit`, `rollback` | storage |
| Solr storage: `SolrRecordStorage`, `BulkSolrRecordStorage` | batches of documents and of ids, transaction id, delayed purge | `begin`, `add`, `delete`, `purge`, `commit`, `rollback` | Solr |
| Inventory storage: `harvest/storage/folio/*` | batch of records, counters, failed records on disk | `add`, `delete`, `releaseBatch` | FOLIO |
| OAI-PMH client: `src/oaipmh-lib` | retries left, redirect | `harvest`, `performRequest` | OAI-PMH server |
| Persistence: `src/masterkey-dal` | the database | create, retrieve, update (a merge of the whole entity), delete | JPA |
| Web service: `web/service/*Resource` | none | PUT, POST, DELETE, reset of entities | DAO, storage |
| Administration: `src/harvester-admin` | user sessions | forms on the web service | web service |

What makes it hard: the scheduler thread, one thread per job, servlet threads and
web service calls share the status fields and the database with hardly a lock.
The status of a job is assigned by its own `run()`, by `kill()` and by
`finishReceived()`; the same `Harvestable` exists as a row, as the scheduler's
copy, and as the copy of whoever edits it, and every save merges all of its
fields.  A job may be killed, edited, deleted or reset in any state; the
container may be stopped or die at any step, and then the row is all that is
left.  A harvest has pages, retries, partial commits and rollbacks, and a time
marker and a token that must never move past what was not stored.

What each component must do:

- *Scheduler.* Not two threads for one job unless the older one has been killed;
  no job RUNNING without a thread; the row says what the scheduler believes;
  interrupted runs resume; runs that end are acknowledged; failures of the
  database do not end it.
- *Jobs.* Only the status changes the scheduler can handle; a job that was killed
  or failed can run again.
- *OAI-PMH job.* Nothing is skipped between runs; every version that stays
  reaches the index.
- *Bulk job.* Commit or rollback according to the allowed errors; a conditional
  request never skips a change.
- *Web crawl.* Every page is fetched at most once, the crawl ends when no page is
  left and no worker is busy, and not before.
- *Transformation.* Records reach the storage in order, once; commit waits for
  all of them; rollback lets none through.
- *Storages.* The last operation on an id wins; a commit flushes both batches; a
  purge removes what the run has not seen, and nothing else.

## 2. The modules

| Module | Models | Proofs |
|---|---|---|
| `HarvestJob` | the job record and what each kind of `run()` may do to it; operators only | `HarvestJob_proofs` (lemmas) |
| `JobScheduler` | the scheduler, the row, the threads, the administrator, deployments | `JobScheduler_proofs` |
| `JobContract` | abstract: the life of a job's record, thread and kill, as the scheduler and a job may rely on it | |
| `OaiHarvestJob` | the OAI-PMH job in detail; implements `JobContract` | `OaiHarvestJob_proofs` |
| `BulkHarvestJob` | the bulk job in detail, in transactions of `TransactionalIndex`; implements `JobContract` | `BulkHarvestJob_proofs` |
| `WebCrawl` | one crawl: the queue, its threads, the proxy they share, `run()` | `WebCrawl_proofs` |
| `RecordPipe` | abstract: what a job may rely on of its transformation | |
| `TransformationPipeline` | the threaded storage proxy and its routers; implements `RecordPipe` | `TransformationPipeline_proofs` |
| `TransactionalIndex` | abstract: what a job may rely on of its storage | |
| `BulkSolrStorage` | the Solr storage with its batches; implements `TransactionalIndex` | `BulkSolrStorage_proofs` |

`MC<module>` extends a module for TLC with a symmetry set and, for `OaiHarvestJob`
and `BulkHarvestJob`, a constraint.  An operator commented as *Mutant* is a
deliberately wrong variant of the definition after it, which the
properties must tell from it; no specification uses it.

The three abstract specifications are where the components meet.  `JobContract` has the
calls of the scheduler and the steps of a job.  `JobScheduler` is proved to give each of
its jobs only such calls (`CallsKeepContract`, with an instance of `JobContract` for every
`JobInstance`), and the two detailed jobs are proved to do no more than it allows.
`BulkHarvestJob` instantiates `TransactionalIndex` as its storage, and
`BulkSolrStorage` is proved to implement it.  `RecordPipe` says what lies between, and
`TransformationPipeline` is proved to implement that.

### HarvestJob

A job record is `[run, job, die, updated]`: `runStatus`, `jobStatus`, `die` and
`updated` of `AbstractRecordHarvestJob`.  `SetStatus`, `KillRequested`,
`KillOverwrite`, `FinishReceived`, `MarkForUpdate`, `ClearUpdated` and `NewJob`
are its methods and the constructor.  `kill()` is synchronized and `setStatus`
is not, so its test of `runStatus` and its assignment are two operators, and
two steps wherever it is used.  `MaySet(kind, s)` is the set of statuses that the
`run()` of a kind of job may assign when it finds `s`; `MayReturn` the statuses
with which it may return.  `MayBegin` has the statuses that may be the first of a run: RUNNING, and
for a bulk job ERROR, too, since `run()` may throw before it has set RUNNING
(`BulkRecordHarvestJob` 76-95) and its handler then sets ERROR (131).  They were read off each `run()`; the proofs of
`ContractHolds` check them against the detailed models.

### JobScheduler

One `Harvestable` is modelled: the instances in the scheduler's map affect each
other only through an exception that ends the loop, which the model has for
one.  Over time the Harvestable has several `JobInstance` objects (`Inst`), since
every edit makes the scheduler drop one and create another.

| Variable | Code |
|---|---|
| `row` | the entity in the database: `currentStatus`, `lastUpdated` (a version number), `harvestImmediately`, `enabled` |
| `jobs` | `JobScheduler.jobs.get(id)` |
| `job[i]`, `thread[i]`, `killer[i]` | the job record, its thread, who is inside `kill()` |
| `last[i]`, `mem[i]`, `enabled[i]` | `lastHarvestStatus`, the copy of the entity, the enabled flag of the instance |
| `pc`, `pass`, `brief`, `changed` | control of the scheduler thread: which `checkJobs` of the round, the brief being matched, the result of `statusChanged()` |
| `keepRunning`, `failed` | the loop condition; history of the exception that ended it |
| `edits`, `boots` | counters of `lastUpdated` stamps and deployments, bounded |

Every branch of the `switch` of `checkJobs` is an action (`CheckNothing`,
`NotifyFinish`, `CheckTime`, `CheckShutdown`, `CheckRunningOrKilled`,
`StartFails` for a storage that throws).  A null status has no branch: it always
meets the `NullPointerException` of `PersistNull` first.  `statusChanged` reads the status twice, so it is `Compare` and
`Remember`; `PersistChanges` is the rest of `checkUpdate` with the merge.
`updateJobs` is `ListBriefs`, then one of `KeepInstance`, `DiscardInstance`,
`CreateInstance`, `CreateNothing`, `NoInstanceNoRow` and their failures; `CreateNothing` is the
`IllegalArgumentException` of a cron line that does not parse, with which the row gets no
instance (`BadSchedules` switches it on).  `RecordShutdown` and
`KillAll` are `stopAllJobs`.  `AdminPut`, `AdminReset`, `AdminDelete`, `StopJob`,
`Shutdown`, `Crash` and `Deploy` are the environment.  A thread takes `JobBegins`,
`JobSetsStatus` and `JobReturns`.

### OaiHarvestJob

| Variable | Code |
|---|---|
| `clock`, `stamp` | the time; when each record last changed at the server.  A record's content is its stamp |
| `settings` | `keepPartial`, `clearRtOnError`, `recordLimit`, whether there is an `oaiSetName` |
| `resource`, `row` | `fromDate`, `untilDate`, `resumptionToken`, `currentStatus` in memory and in the database |
| `sched`, `last` | what of the scheduler concerns the job |
| `job`, `thread`, `killing` | as in `JobContract` |
| `pc`, `response`, `startToken`, `pageToken`, `added` | control and local variables of `run()` and `harvest()`, and the counter of the storage proxy |
| `pending`, `stored` | the versions stored by this run, and committed |
| `spoiled`, `rowState` | history, for `NothingSkipped` only |

A resumption token is the set of records still to come.  Dates are compared by
days of `DayLength` ticks, as `formatDate` sends them, both ends included.  The
catch blocks, the commit, the marker, the rollback and its failures are actions
of their own, because a kill or the scheduler may come between them.  A rollback
deletes what the transaction has added, the overwritten versions included, as
`purgeByTransactionId` does.  The storage proxy tests the kill flag before each
record and the record limit after each added one.

The code does let the time marker and the token stand for records that were not stored, in
four ways (section 4).  `spoiled` says that one of them has happened to the resource in memory,
and `rowState` what a job constructed from the row would be: `"sound"`; `"open"`, which is
sound as soon as the harvest that is going on is committed and spoiled if it is not; or
`"spoiled"`.  Nothing that the job does depends on them.  `NothingSkipped` is for resources
that are not spoiled and rows that are sound, so the claim is that these four are the only
ways.

`ContractHolds` is the refinement: with `job`, `thread` and `killing` mapped to
themselves, every step is a step of `JobContract` for kind `"OAI"` or stutters.

### BulkHarvestJob

| Variable | Code |
|---|---|
| `clock`, `version`, `modified` | the time; what each file holds; the time stamp of its last change |
| `settings` | `allowErrors`, `overwrite`, `allowCondReq` |
| `lastStarted`, `row` | `lastHarvestStarted` in memory; it and `currentStatus` in the database |
| `sched`, `last` | what of the scheduler concerns the job, its `start()`, edits and shutdowns included |
| `job`, `thread`, `killing` | as in `JobContract` |
| `since` | what `initialStatus` and `previousHarvestStarted`, final in the job object, make of `lastDate` |
| `pc`, `todo`, `some` | control of `run()`, the URLs still to come, whether the proxy has counted a record |
| `phase` to `index` | the storage, as in `TransactionalIndex` |
| `failed`, `unfinished`, `excused`, `spoiled` | history, for `NoFileSkipped` only |

The clock goes in the units of the servers' time stamps, and a file may change at any time,
several times within a unit and within that of the start of a run: what it holds is its `version`,
and two versions may bear one time stamp.  `start()` starts the thread and stamps the start
afterwards (`StartJob`, `StampStart`; `JobInstance` 146-149), so the thread may be
anywhere when its date is written.  `Horizon` is that date, or now while it is not written.

A new job object is made by an edit and by a deployment (`Renew`), and only then
is the conditional date renewed: the point of the module.  What may go wrong is
`BeginFails`, `RequestFails`, `FileFails`, `StoreFails`, `CommitFails`, `RollbackFails` and
`HandlerFails`, one per handler of `downloadList`, `XmlMarcClient` and `run()`.  `BeginFails` is
what comes before the first status (lines 76-95): the run ends in ERROR without having been
RUNNING.  A file that breaks off may end the run or, allowed or not, be cut short without a trace
(`XmlMarcClient.storeMarc` 642-656 leaves its loop at a `MarcException`).

### WebCrawl

`queue`, `seen`, `underwork`, `finished` are the fields of `CrawlQueue`; each of its
synchronized methods is one step.  A thread `w` has its control `wpc[w]`, its page,
the links it has still to add and its `running` flag; `GetHead`, `Pop`, `HostReady`,
`NotYet`, `Release` are `get()`, the others `crawlPage()`.  `result` is the queue
of the storage proxy that all threads share, so its `put`, test and `take` are
three steps (`PutRecord`, `TestResult`, `TakeRecord`).  `mpc` and the `MainStep`
actions are `run()` of the job, which does not join its threads.  `visit` is
history.  `PageThrows` is a thread that ends with its page: in the request, or at one of the links,
whose `robots.txt` is looked up (`CrawlThread` 112-116).  What a page contains, whether its host may be visited yet, and whether a
start URL fails, are choices.

### TransformationPipeline

`queue[s]` is the queue after step `s`, `router[s]`, `hand[s]`, `running[s]` are the
thread of that step, `interrupted[s]` its interrupt flag, that of the harvesting
thread at 0.  A blocking call throws when the flag is set and clears it; the
code retries all of them, except that a router loses the message it was passing
on.  A `join` of a thread that has ended returns without a look at the flag, which stays
(`JoinLast`).  `Add`, `Store`, `PutStop`, `Join`, `StoreFinal`, `StopArrives`,
`CommitTarget` are `add`, `store` and `commit`; `ShutDown`, `JoinRollback`,
`RollbackTarget` are `rollback`; `Interrupt` is `kill()`.  A step may reject a
record (`PutError`) or die (`RouterDies`).  The refinement maps the set of records that lie
in the queues and hands to `pending`; records are numbered as they are harvested, so
`RecordPipe` can say which of them is the oldest.

### BulkSolrStorage

`docs` and `deleteIds` are the batches, `isPurged` the mark of the delayed purge.
`core` is what Solr has been sent, `mine` which of it carries the transaction id,
`index` what is committed.  A batch may be sent at any time, which stands for every
batch size.  A request that fails has applied any part of the batch, and the batch is
kept or dropped, depending on the exception.  `OtherCommit` is the commit of
another job on the same core.  `View` is what a commit would show, and the
refinement maps it to `work`.

## 3. Runs

| Run | Properties | Bounds and switches | Distinct states |
|---|---|---|---|
| `edits` | `OrphansKilled`, `RunningHasThread`, `RowAsRemembered`, `RunningIInv` | 2 instances, 1 edit, 1 deployment, bulk job | 0.95 M |
| `restarts` | `InterruptedRunResumes`, `RunIsAcknowledged`, `StopIsObeyed` | 1 instance, 2 deployments, fairness | 94 k |
| `faults` | `TypeOK`, `IInv`, `CallsKeepContract` | 1 instance, 2 deployments, database errors, servlet kills, deletion | 2.6 M |
| `oai_runs` | `TypeOK`, `MarkerIsBehind`, `NothingSkipped` | 2 records, 2 ticks, a day each, pages of 1; every fault, kill, restart and crash | 3.4 M |
| `oai_contract` | `IInv`, `ContractHolds` | 1 record, 1 tick, every fault, kill, restart and crash | 1.1 M |
| `oai_progress` | `EventuallyStored` | 2 records, 2 ticks, fairness, no faults | 0.24 M |
| `bulk` | `TypeOK`, `NoFileSkipped`, `IInv`, `DateIsBehind`, `ContractHolds` | 2 files, 2 versions, 2 times, any 2 of changes, faults, kills, edits, restarts and crashes | 2.4 M |
| `crawl` | `TypeOK`, `UnderworkCounts`, `PagesApart`, `IInv`, `CrawlIsComplete` | 3 pages, 2 threads, depth 2 | 1.3 M |
| `crawl_faults` | `CrawlIsComplete`, `IsCompleted`, `CrawlEnds` | 2 pages, 2 threads, kills, failing storage and start URLs, dying threads, fairness | 0.89 M |
| `storage` | `OneKindOfBatch`, `IInv`, `StorageKeepsPromise` | 3 records, 2 versions, failing requests, commits of other jobs | 0.73 M |
| `pipeline` | `TypeOK`, `StoredInOrder`, `IInv`, `RecordsComeThrough`, `RunEnds`, `ThreadsEnd` | 2 steps, 3 records, 2 interrupts, dying threads, failing storage, fairness | 0.36 M |
| `crawl_swap` | `EveryPageIsReleased`, **violated** | 2 pages, 2 threads, no faults, fairness | |

### Bounds, and why they are enough

- Two instances are one that was dropped, with its thread running on, and the
  current one; a third would need a second edit while the first thread winds down,
  and then differs from the first two by nothing the scheduler looks at.  The
  theorems cover any number of them.
- `faults` has one instance, since a second one together with the second deployment is
  too large for TLC; `edits` has two, without the faults, and the theorem covers both.
- Two deployments are one that is interrupted and one that finds what it left.
- Two OAI records and pages of one make a list with a token between two pages; each
  may change again while the list is read.  Two ticks on two days have windows that
  overlap and windows that do not; that the length of a day does not matter is in the theorem.
- `oai_runs` drops histories that have nothing left to go on with (`SomethingLeft`): of a
  spoiled resource the row has to be worth something, and a job that has been told to die has to
  have something to lose.  A job is killed by the servlet or by a shutdown, not by both
  (`KilledOnce`).  Of settings that come to the same it takes one (`SettingsApart`), and the server
  has a record from the beginning (`ServerInUse`).  `View` makes one state of those that differ only in what nothing reads
  any more.  The theorems need none of this.
- Without any one of the four excuses (`die` in `JobBegins`, the token in `HandleException`,
  `MidHarvest` in `RowSaved`, the token of the row in `JobBegins`), and with `HarvestKept` for
  `HarvestLost`, TLC finds `NothingSkipped` violated in `oai_runs`: each is needed.
- Two files are one that fails and one that does not.  The two events of `bulk` are any two of
  changes of files and incidents: a change and the fault that hides it, a fault and
  an edit that makes the job forget it, a kill and a fault at its handling.  Two times are one
  for the start of a run and one after it, and a change may bear either.
  A job that asks for everything anyway has no date to get wrong; it is followed through one
  incident (`Interesting`).  `Remembered`, the VIEW, drops what a closed
  transaction leaves in the history of the storage, and the history of jobs that ask for
  everything.  The theorems need none of this.
- Three pages and a depth of two have a page that two others link to; `RandomFrom` is 2, so that
  insertion in the middle of the queue (from ten pages in the code) happens.  The
  theorems cover any finite number of pages and any number of threads.
- Three records through two steps fill both queues, a hand and the result at once; two interrupts hit
  `commit` twice, or a wait and its repetition.
- Three records in the storage are one in the core, one in the batch, one in
  neither; the theorems cover any number.

Deadlock is not checked: a run of a job, a crawl or a pipeline that is over, a
system with no deployment left, and a clock at its bound all stop.

### Fairness

`JobScheduler!Fairness` is weak fairness of the scheduler thread, of every thread
inside `run()` and `kill()`, and strong fairness of the return of `run()`: a bulk
job alternates between WARN and OK for its URLs, and the list of URLs is finite.
`OaiHarvestJob!Fairness` is weak fairness of the job's thread, of `kill()`, and of
the scheduler's three steps; that of `StartJob` stands for a schedule that
matches the clock again and again.  `WebCrawl!Fairness` is weak fairness of every
thread, and strong fairness of `HostReady`: a host may be visited again after a
bounded time, so a page is not put back for ever.  `TransformationPipeline!Fairness`
is weak fairness of the harvesting thread and of every router.  Nothing is
assumed of administrators, deployments, servers, clocks, kills or failures.
`EventuallyStored` has no server faults: with them a server may refuse every request.

`CrawlEnds` and `RunEnds` name the ways in which a crawl or a commit does wait for
ever (from some time on `Stuck`, `Broken`): each is a defect that the runs show to be the only ones.

## 4. Where the code disagrees with what is said of it

`crawl_swap`: `CrawlQueue.java:86` says that a thread that takes a page must count it
off.  Two threads share the storage proxy.  Both put a record, the transformation
drops one, both see the other in the result queue, one takes it and the other waits for
ever in `take()` with its page, so the crawl never ends.

The models show more, which have no run of their own:

*Scheduler*

- FINISHED is in the row when the container dies before `finishReceived`.  The next
  deployment makes a job without `jobStatus`, and `PersistNull`, a
  `NullPointerException`, ends the scheduler at every start.
- A web crawl, and a killed OAI-PMH run (`OAIRecordHarvestJob.java:251`), set
  FINISHED while `jobStatus` is still RUNNING; once acknowledged the job
  is RUNNING for ever.
- The scheduler merges its own copy of the `Harvestable` (`JobScheduler.java:152`) and so
  undoes an edit made meanwhile, which `doc/harvester-api.raml:134` says abandons the
  run and restarts it.  In the same way it inserts a deleted job again (`Persist`).
- `ListFails` ends the scheduler: `getCount` (`HarvestablesDAOJPA.java:213`) has no
  catch, while the comment in line 166 says "at least our Scheduler wont stop running".
- A status assigned between `Compare` and `Remember` is taken as seen and not
  recorded until the next one.

*OAI-PMH job*

The first four are what `NothingSkipped` excuses (`spoiled`, `rowState`):

- `die` is never cleared: a job killed while it is idle stores nothing in its next run,
  ends RUNNING or OK and moves the time marker.
- A `StorageException` ends `run()` (`OAIRecordHarvestJob.java:209`) with the token of the
  page, without commit and without rollback, so the next run goes on behind what was lost.
- The resource is saved in the middle of a harvest, by a shutdown or because its status or message has
  changed, with the token of its page.  When the harvest is then rolled back or breaks off, the
  row resumes behind pages that are not there.
- A run begins by dates, or with another token, before the end of the last one has come into the
  row, and its rollback deletes what the row's old token does not stand for.  The window is between
  `start()` (`JobScheduler.java:138` and `143`) and the merge of `checkUpdate`, longer if the merge fails.
- A run that has started from a token and ends in ERROR puts that token back (lines 238,
  265 and 276) after the handler has cleared it (175, 189, 208).
- With `Unset`, every run ends in the exception handler: `URLEncoder.encode`
  does not take the null that the constructor makes of an empty set name.

*Bulk job*

The first four, and the last, are what `NoFileSkipped` excuses (`spoiled`, `excused`):

- A run that was broken off leaves RUNNING or SHUTDOWN in the row, which does not count as a
  failure, so the next job object asks only for what has changed since the start of that run.
- With allowed errors, a file that breaks off is logged and no more
  (`XmlMarcClient.java:113-119` and `190-201`), and a request that was answered "not
  modified" sets OK over a WARN or KILLED.
- With or without them, a `MarcException` that is not the end of the stream ends the file without a
  trace (`XmlMarcClient.java:642-656`), and the run goes on to FINISHED.
- The date of the next requests is the start of the last run, and a server takes for new what has
  changed after it (`HttpClientTransport` 104-108 and 141, `FTPDateFilter`).  A file that the run has
  fetched and that changes within the second of the start, or within the minute or
  day that the listing of an FTP server carries, is not new, and is skipped until it changes again.  The
  start is stamped after the thread has been started (`JobInstance` 146-149), which makes it
  later than what the run may have fetched.
- Overwriting with conditional requests deletes every file that has not changed.

*Solr storage*

- Documents are stored as `<database>-<id>` (`SolrRecordStorage.java:232`) and
  deleted by the plain id (`BulkSolrRecordStorage.java:71-77`, `116`), so deletions
  have no effect.  The models have it so; `NothingDeleted` is proved under `IdAssumption`.
- `RecordStorage.java:29` promises that a rollback rolls back the current write.  Versions that the
  transaction has overwritten do not come back, and what an abandoned transaction has
  sent becomes visible with the next commit of anyone.  `TransactionalIndex` states what is kept.

*Transformation*

- `storeFinal` has no record limit, so "limit the harvest run to a specified number of
  records" (`doc/manual/02-using.md:79`) holds only for what `store` has counted.
- `delete(Record)` is not overridden: it overtakes the additions that are on their way.
- When a router dies from an `Error`, `commit` waits for ever, killed or not, as
  interrupts are retried.  After a `StorageException` the job neither commits nor rolls
  back, and the routers wait for ever.
- The routers for MARC XML and JSON throw `UnsupportedOperationException` from
  `setThread`, so they cannot be used in the threaded proxy.

*Web crawl*

- A `RuntimeException` in `crawlPage` ends the thread with its page, and the crawl
  waits until it is killed; so does a jump page that fails before a good start URL.

## 5. Proofs

Seven modules hold proofs; all are for every value of the constants.  The run of each
component checks the inductive invariant with TLC, too.

**`JobScheduler_proofs`**, for every kind of job, every set of instances and any
number of edits and deployments, with faults switched on or off:
`TypeCorrect` (`[]TypeOK`), `OrphansAreKilled` (`[]OrphansKilled`), `Invariance`
(`[]IInv`), `RowIsAsRemembered` (`~DbErrors` implies `[]RowAsRemembered`),
`RunningInvariance` (`[]RunningIInv`) and `RunningJobHasThread` (`[]RunningHasThread`), both
with hypotheses, and
`SchedulerKeepsContract` (`Spec => CallsKeepContract`).

`OrphansKilled` alone is not inductive.  A scheduler that stops forgets its jobs at
the next deployment, so its current job must have been killed by then; it has not
been when `stopAllJobs` ends with the `NullPointerException` of a null status.  So
the status of a job with a live thread must not be null (`JobStatusIsSet`), which
needs the statuses in the row, in the brief and in the scheduler's copy
(`StatusIsSet`), which needs that the row has not changed under the brief except
back to NEW (`ListIsFresh`).  `StoppedIsKilled` and `LoopHasJob` are the rest.
`RowAsRemembered` is inductive together with the types and `LoopHasJob`; it needs
that merges do not fail, as the DAO swallows their exceptions.

`RunningHasThread` is inductive together with `ListedIsUnkilled` and
`JobStatusIsOwn`, which is `RunningIInv`: `finishReceived` copies `jobStatus`, so a run must have left one of
its own there before it sets FINISHED.  Its hypotheses are where it fails in the
code.  A web crawl, and an OAI-PMH run that is killed, set no status of their own,
hence `Kind` is `"Bulk"` or `"Connector"`.  A kill through the servlet may leave FINISHED
over a `jobStatus` of RUNNING in the same way, and a `start()` that throws when the
next deployment resumes a run leaves RUNNING without a thread (`CreateStartFails`);
hence `~ServletKills` and `~DbErrors`.  Edits, deletions, shutdowns and crashes are all there.

`CallsKeepContract` takes each `JobInstance` by itself.  While the scheduler lists it or
its thread lives, its job is the job of `JobContract`; before and after that the
object is one that nobody refers to, so making an instance and dropping one without a
thread are `Renew`.  Dropping an instance with a thread is `KillBegin`, and its run goes
on in the contract until it returns.  The proof needs `IInv` for the types and for the
status of the row that a new job is made from.

**`OaiHarvestJob_proofs`**, for any finite set of records, any length of a day, page
size and bound of the clock: `Invariance` (`[]IInv`), `TypeCorrect`, `KeepsContract`
(`Spec => ContractHolds`, the refinement), `MarkerStaysBehind` and `SkipsNothing`.  `IInv` says which
statuses the job may have at each place of `run()` (`StatusFits`), that the counter of
the storage proxy is the number of records of this run and that no page meets one of
them again (`StoredOnce`), and that a token stands for records that the server has
(`TokensOnServer`).

`MarkerStaysBehind` (`[]MarkerIsBehind`) and `SkipsNothing` (`[]NothingSkipped`) have no
hypotheses either: every fault, kill, restart and crash is in them, with
`keepPartial`, `clearRtOnError` and the record limit in every combination.  `NothingSkipped` speaks of
the moments between runs, and of the row at any time.  Within a run the
marker, two tokens and the records of the page change one after the other, and either
a commit or a rollback may come, so `MarkerIsBehind` is in three layers:

- `InOrder`, which holds of spoiled resources, too: the dates are in order, and the row's are not
  after the resource's (`DatesInOrder`); a token stands for records that the dates include
  (`TokensAreInRange`); a run that goes on from a token meets only what that stands for
  (`WithinStart`).
- `ResourceIsBehind`, of a resource that is not spoiled, has both outcomes at every `pc`:
  `CanStartAgain` (if the run is rolled back, its start token and its dates still
  cover what is missing) and `CanGoOn` (if it is kept, the token of the page does).
  `EndIsComplete` is why the marker may move: a run that ends well has met every
  record up to its until date.  That needs days that grow with the dates
  (`DayMonotonic`), as windows overlap by whole days, and that a kill is seen (`KilledIsKnown`).
- `RowIsBehind`, of the row.  A sound row covers what the run puts at risk by storing it, since
  its from date is not after the run's and its token is the one that the run has started from, or none
  (`StoreRow`); an open row covers what will be missing after a commit (`KeptRow`).

The proofs follow the layers: `NextInOrder`, `NextResource`, `NextRow`.

**`BulkHarvestJob_proofs`**, for any list of files, bound of the clock and number of
incidents: `KeepsContract` (`Spec => ContractHolds`), the refinement, `Invariance`,
`TypeCorrect`, `DatesAreBehind` (`[]DateIsBehind`) and `SkipsNothing`
(`[]NoFileSkipped`), the last without hypotheses: files change at any time, and
every failure is in them, those before the first status included (`HandlerSteps`: the
handler's ERROR is the first status of such a run, or follows another).  A step of `run()` assigns without
looking (`setStatus(OK)` after a download, `ERROR` in the handler), so the invariant
says which status the job may have at each place of `run()` (`StatusAt`), `KILLED`
always among them, and that the assignment that comes next may follow it.
`JobStatusFollows` is for the scheduler's acknowledgement: it puts the `jobStatus`
back, which is `RUNNING` only in a job that was killed, as the contract says of its
return.  A `jobStatus` is null only in an object made from a row that says FINISHED,
which no scheduler uses.

`DateIsBehind` has one part for each of the places in which the date of the last
start lives before it does harm: the job object (`ObjectDateIsBehind`), the row and the
memory that the next object is made from (`StartIsBehind`, which needs that the last
run has claimed to have finished), and the run that is about to claim it (`Harvested`,
which `commit` and the storage's promise turn into `StartIsBehind`).  All compare
with `Horizon`, which moves with the clock while the start is not stamped: a lemma each says that
time (`TickBehind`) and changes (`ChangeBehind`) keep them.  What the model excuses is written
into the property: a change with a time stamp that the next date does not tell from the start of the run,
a file that the code passes over with a status that says so or with
none (both `excused`, the second only if the date will hide it, and either until the file changes later
or a run has it), and an object made after a run was broken off (`spoiled`).

**`WebCrawl_proofs`**, for any finite set of pages, any finite set of threads, every
depth, with and without kills and failures: `CounterIsRight`
(`[]UnderworkCounts`), `NoPageTwice` (`[]PagesApart`), `TypeCorrect`, `Invariance`,
`CompletionInvariance` (`[]IsCompleted`) and `CommittedIsComplete`
(`[]CrawlIsComplete`).
That the counter counts needs that a thread gives back only a page it has
(`HasPage`); that it is a natural number follows from the count and not the
other way round.  That no page is met twice needs that the set of seen pages is ahead
of the queue, the threads and their visits (`AllSeen`), and that a page put back
leaves the thread's responsibility in the same step.  Two lemmas say what an insertion
somewhere in the queue does; that a start list which names each site has none of them twice is
a counting argument (`FS_SurjSameCardinalityImpliesInj`).  Most steps are
quiet, and one lemma (`QuietStep`) covers them.

A committed crawl is complete because everything that is still to come belongs to a thread
with a page, and `run()` commits when the queue is empty and the counter is zero, hence (by
`UnderworkCounts`) when no thread has one.  `IsCompleted` says so for the three things
that travel: pages (`NothingLost`), links (`LinksComing`) and records (`RecordsComing`).
Records are the hard part, as the threads share the result queue of one proxy and a
thread takes whatever record is first: no record has a thread of its own, so the
invariant counts that there are at least as many threads before their `take` as
records in the queue (`ResultIsAwaited`).

**`TransformationPipeline_proofs`**, for any number of steps, records and interrupts,
with and without dying routers and a failing storage: `TypeCorrect`, `Invariance`
(`[]IInv`), `RecordsArriveInOrder` (`[]StoredInOrder`) and `PipelineIsPipe`
(`Spec => RecordsComeThrough`), the refinement.  The queues and hands are taken
as one line of places (`Line`), the source at 0 and the last queue at `2 * Steps`, and
every step is one of three moves on it, with a lemma each: a message goes on to the
next place (`MovesOn`), the first message of a place leaves (`HeadLeaves`), one joins
at the source (`Joins`).  The line stays in the order of the harvest (`InOrder`), all
of it behind what is stored (`BehindTheStored`).  A commit is complete because the
stop message is the last of the line, also when an interrupt has sent a second one,
because nothing else leaves the line unstored but what is rejected (`NoneLost`), and
because routers are interrupted by a rollback only (`NotInterruptedYet`).  That the
count respects the limit while the harvest goes on (`NoStopYet`), needed for the types,
comes from the same invariant.
For the refinement each step is told from the moves alone: a move to the next place is a
stutter, as is whatever happens to a stop message; a record that leaves the line is
stored, rejected or, once a rollback has begun, lost (`OneLess`); the first of the last queue is
`Oldest` because `HeadLeaves` puts it before all that stays.  That a router's interrupt flag
is set only in a rollback (`NotInterruptedYet`) is why it may lose a record, and that the
line holds nothing but stop messages behind an arrived one (`LastHasArrived`) is why
`CommitTarget` is a commit with nothing on its way.  `Store` of `RecordPipe` needs an open
phase, so the theorem also says that nothing is stored after a rollback has begun.

**`BulkSolrStorage_proofs`**, for any records, versions and failures: `BatchesApart`
(`[]OneKindOfBatch`), `Invariance`, and `Implementation`
(`Spec => StorageKeepsPromise`), the refinement.  The invariant says that what differs in the
core from what the transaction has met carries its id, or was purged and is
gone, and that both have been touched: with it every step is the step of
`TransactionalIndex` that its name tells, or leaves `View` alone.

**`HarvestJob_proofs`** has the lemmas about job records that the others cite.

Assumptions are those of the modules: bounds are natural numbers (the clock runs for at least
one tick), switches are Booleans, the records of an OAI-PMH server, the pages and the
threads of a crawl are finitely many, stand-ins (`NoInst`, `NoRow`, `NoPage`) are not
what they stand in for, and no record is named like a document.  TLC evaluates them in
every run.

Every invariant that a run checks is a theorem.  Only model-checked are:

- `InterruptedRunResumes`, `RunIsAcknowledged`, `StopIsObeyed`, `EventuallyStored`,
  `CrawlEnds`, `RunEnds`, `ThreadsEnd`: liveness under fairness.
- `RunningHasThread` for OAI-PMH jobs and crawls is not true, and no run claims it.

## 6. Not modelled

The program is written in Java: about 36,600 lines without its tests, a large part of them
entities, generated classes and web pages.  The definitions stand for about 2,550 of these
lines in 31 files.  The JavaScript of the
repository is the administration page of Solr and its libraries (`src/webapps/solr/js`), third-party
code with no part in harvesting; none of it is modelled.

- *Scheduler.* Rows affect each other only through an exception that ends the loop,
  so one is modelled.  The cron line is not evaluated (`timeToRun` is a choice).
  `shutdown()` of a job may throw from `getStorage` after it has asked for an update, which ends the
  thread with the status that it was to end with.
  `reset` of the web service is one step, though it purges the storage between its read and its merge.
- *Status job.* With no mail sender configured, `run()` throws in its first line (`StatusJob` 64) and its
  thread ends without a status.
- *Redeployment.* `contextDestroyed` does not join the threads; `JobScheduler` has two
  generations, the modules of the jobs have one.
- *OAI-PMH job.* Runs from the disk cache; the three assignments that move the
  marker are one step.
- *Bulk job.* Servers and harvester have one clock: a server whose clock is behind would extend the
  time in which a change is hidden.  The record limit, the disk cache and runs from it, directories and
  archives, broken FTP downloads that are tried again, the date a user enters for one run.
- *Web crawl.* Overlapping crawls of one job object, the unsynchronized map of hosts,
  the shortest depth of a page, the record limit (which a crawl reports as an ERROR), robots files.
- *Transformation.* What a step makes of a record, splitting and merging; the routers
  that do not work in the threaded proxy; deletions by id, which no job makes.
- *Solr storage.* The fields of a document, the immediate purge of `reset`.
- *FOLIO storage, connector and status jobs beyond the contract, HTTP retries, mail,
  parsing, file storages, administration.* See the notes in `PROJECT.json`.

## 7. What could come next

1. `ConnectorJob` and `HttpRetry`: bounded retries, sessions, redirects.
2. `FolioInventoryUpdater`: batches, error reports, bounds on failed records.

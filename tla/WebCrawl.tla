------------------------------ MODULE WebCrawl ------------------------------
(***************************************************************************)
(* WebRecordHarvestJob: one crawl.  run() fills a CrawlQueue with the      *)
(* start URLs, starts the CrawlThreads that share it, and waits until the  *)
(* queue is empty and no page is under work, or the job is killed.  It     *)
(* does not join its threads, so they may be alive after run() has ended.  *)
(* The threads also share the storage proxy of the job.                    *)
(*                                                                         *)
(* What a page contains is chosen when it is fetched: the links that pass  *)
(* the filter and the robots, or nothing.  Whether a host may be visited   *)
(* yet is a choice as well; the map of hosts is read and written without a *)
(* lock and is a matter of politeness only.                                *)
(***************************************************************************)
EXTENDS Naturals, Sequences, FiniteSets, HarvestJob

CONSTANTS
  Url,           \* the pages
  Worker,        \* the crawl threads
  MaxDepth,      \* recursionDepth of the WebCrawlResource
  RandomFrom,    \* the length from which _add inserts at random (10 in the code)
  Kills,         \* may the job be killed?
  StorageFaults, \* may the storage throw?
  Throws,        \* may fetching a page throw what is not an IOException?
  Filters,       \* may the transformation drop a record?
  JumpFaults,    \* may a start URL fail and a later one be good?
  NoPage         \* a thread has no page

ASSUME CrawlAssumption ==
  /\ IsFiniteSet(Url) /\ IsFiniteSet(Worker)
  /\ MaxDepth \in Nat \ {0}
  /\ RandomFrom \in Nat \ {0, 1}
  /\ {Kills, StorageFaults, Throws, Filters, JumpFaults} \subseteq BOOLEAN
  /\ NoPage \notin Url \X (1..MaxDepth)

VARIABLES
  queue,     \* q of CrawlQueue: page requests, <<url, depth>>
  seen,      \* URLs that have ever been in it
  underwork, \* the counter
  finished,  \* the flag
  wpc,       \* wpc[w]: control of CrawlThread.run()
  page,      \* page[w]: the page request w has taken from the queue
  todo,      \* todo[w]: links of the page that w has not added yet
  running,   \* running[w]: the flag of the thread
  result,    \* the queue of transformed records in the storage proxy
  mpc,       \* control of WebRecordHarvestJob.run()
  job,       \* the job record
  killing,   \* kill() has tested runStatus and not assigned it yet
  added,     \* URLs of the records in the current transaction
  stored,    \* URLs of the records that are committed
  visit      \* visit[u]: how the page was visited, history

queueVars   == <<queue, seen, underwork, finished>>
threadVars  == <<wpc, page, todo, running>>
storageVars == <<result, added, stored>>
vars == <<queueVars, threadVars, storageVars, mpc, job, killing, visit>>

PageRequest == Url \X (1..MaxDepth)
UrlOf(pg)   == pg[1]
DepthOf(pg) == pg[2]

\* outcome: not visited yet, nothing got, or a record made, or one that was dropped.
Outcomes == {"none", "nothing", "record", "dropped"}
Visit    == [outcome : Outcomes, depth : 0..MaxDepth, links : SUBSET Url]
NoVisit  == [outcome |-> "none", depth |-> 0, links |-> {}]

WorkerPlaces ==
  {"none", "starting", "head", "pop", "host", "putback", "check", "fetch", "links", "put",
   "test", "take", "error", "kill", "killing", "release", "left", "dead"}
MainPlaces ==
  {"begin", "init", "wait", "finish", "stop", "status", "killed", "commit", "rollback",
   "setFinished", "ended"}

TypeOK ==
  /\ queue \in Seq(PageRequest)
  /\ seen \subseteq Url
  /\ underwork \in Nat
  /\ finished \in BOOLEAN
  /\ wpc \in [Worker -> WorkerPlaces]
  /\ page \in [Worker -> PageRequest \union {NoPage}]
  /\ todo \in [Worker -> SUBSET Url]
  /\ running \in [Worker -> BOOLEAN]
  /\ result \in Seq(Url)
  /\ mpc \in MainPlaces
  /\ job \in JobRecord
  /\ killing \in BOOLEAN
  /\ added \subseteq Url /\ stored \subseteq Url
  /\ visit \in [Url -> Visit]

Init ==
  /\ queue = <<>> /\ seen = {} /\ underwork = 0 /\ finished = FALSE
  /\ wpc = [w \in Worker |-> "none"]
  /\ page = [w \in Worker |-> NoPage]
  /\ todo = [w \in Worker |-> {}]
  /\ running = [w \in Worker |-> FALSE]
  /\ result = <<>> /\ added = {} /\ stored = {}
  /\ mpc = "begin"
  /\ job \in {NewJob(s) : s \in {"NEW", "FINISHED", "ERROR"}}
  /\ killing = FALSE
  /\ visit = [u \in Url |-> NoVisit]

-----------------------------------------------------------------------------
(* CrawlQueue *)

\* _add: at the end, or somewhere in the second half of a long queue.
Inserted(pg, random) ==
  IF random /\ Len(queue) >= RandomFrom
    THEN LET half == Len(queue) \div 2
         IN {SubSeq(queue, 1, p) \o <<pg>> \o SubSeq(queue, p + 1, Len(queue)) :
               p \in half..(2 * half - 1)}
    ELSE {Append(queue, pg)}

\* Mutant: a page that is under work does not count.
QueueIsEmpty == queue = <<>>

AllDone == queue = <<>> /\ underwork = 0

-----------------------------------------------------------------------------
(* A crawl thread: run() *)

WorkerGoto(w, l) == wpc' = [wpc EXCEPT ![w] = l]

WorkerStarts(w) ==
  /\ wpc[w] = "starting"
  /\ running' = [running EXCEPT ![w] = TRUE]
  /\ WorkerGoto(w, "head")
  /\ UNCHANGED <<queueVars, page, todo, storageVars, mpc, job, killing, visit>>

\* The head of the loop in get(), which returns null when the queue is finished.
GetHead(w) ==
  /\ wpc[w] = "head"
  /\ WorkerGoto(w, IF finished THEN "left" ELSE "pop")
  /\ UNCHANGED <<queueVars, page, todo, running, storageVars, mpc, job, killing, visit>>

Pop(w) ==
  /\ wpc[w] = "pop"
  /\ IF queue = <<>>
       THEN WorkerGoto(w, "head") /\ UNCHANGED <<queue, underwork, page>>
       ELSE /\ queue' = Tail(queue)
            /\ underwork' = underwork + 1
            /\ page' = [page EXCEPT ![w] = Head(queue)]
            /\ WorkerGoto(w, "host")
  /\ UNCHANGED <<seen, finished, todo, running, storageVars, mpc, job, killing, visit>>

HostReady(w) ==
  /\ wpc[w] = "host"
  /\ WorkerGoto(w, "check")
  /\ UNCHANGED <<queueVars, page, todo, running, storageVars, mpc, job, killing, visit>>

\* The host was visited just now: the page goes back to the queue, and only then is
\* it no longer under work.
NotYet(w) ==
  /\ wpc[w] = "host"
  /\ \E random \in BOOLEAN : queue' \in Inserted(page[w], random)
  /\ WorkerGoto(w, "putback")
  /\ UNCHANGED <<seen, underwork, finished, page, todo, running, storageVars, mpc, job, killing, visit>>

\* Mutant: the page goes back without its number being counted off.
ForgetPage(w) ==
  /\ wpc[w] \in {"putback", "release"}
  /\ page' = [page EXCEPT ![w] = NoPage]
  /\ WorkerGoto(w, "head")
  /\ UNCHANGED <<queue, seen, underwork, finished, todo, running, storageVars, mpc, job, killing, visit>>

\* decrementUnderWork, in get() and at the end of the loop in run().
Release(w) ==
  /\ wpc[w] \in {"putback", "release"}
  /\ underwork' = underwork - 1
  /\ page' = [page EXCEPT ![w] = NoPage]
  /\ WorkerGoto(w, "head")
  /\ UNCHANGED <<queue, seen, finished, todo, running, storageVars, mpc, job, killing, visit>>

\* A thread that was told to stop leaves with the page it has got.
CheckRunning(w) ==
  /\ wpc[w] = "check"
  /\ WorkerGoto(w, IF running[w] THEN "fetch" ELSE "left")
  /\ UNCHANGED <<queueVars, page, todo, running, storageVars, mpc, job, killing, visit>>

-----------------------------------------------------------------------------
(* crawlPage() *)

\* Robots, an IOException or a page without content: nothing to do.
FetchNothing(w) ==
  /\ wpc[w] = "fetch"
  /\ visit' = [visit EXCEPT ![UrlOf(page[w])] =
                 [outcome |-> "nothing", depth |-> DepthOf(page[w]), links |-> {}]]
  /\ WorkerGoto(w, "release")
  /\ UNCHANGED <<queueVars, page, todo, running, storageVars, mpc, job, killing>>

FetchPage(w) ==
  /\ wpc[w] = "fetch"
  /\ \E links \in SUBSET Url, o \in {"record", "dropped"} :
       /\ o = "dropped" => Filters
       /\ visit' = [visit EXCEPT ![UrlOf(page[w])] =
                      [outcome |-> o, depth |-> DepthOf(page[w]), links |-> links]]
       /\ todo' = [todo EXCEPT ![w] = links]
  /\ WorkerGoto(w, "links")
  /\ UNCHANGED <<queueVars, page, running, storageVars, mpc, job, killing>>

\* A RuntimeException, as for a port that is out of range in the URL of the page or of
\* one of its links, ends the thread.
PageThrows(w) ==
  /\ Throws
  /\ wpc[w] = "fetch" \/ (wpc[w] = "links" /\ todo[w] # {})
  /\ WorkerGoto(w, "dead")
  /\ UNCHANGED <<queueVars, page, todo, running, storageVars, mpc, job, killing, visit>>

\* Mutant: a link is added whether it was seen or not.
AddLinkAgain(w) ==
  /\ wpc[w] = "links"
  /\ \E u \in todo[w] :
       /\ todo' = [todo EXCEPT ![w] = @ \ {u}]
       /\ IF DepthOf(page[w]) < MaxDepth
            THEN /\ seen' = seen \union {u}
                 /\ queue' \in Inserted(<<u, DepthOf(page[w]) + 1>>, TRUE)
            ELSE UNCHANGED <<queue, seen>>
  /\ UNCHANGED <<underwork, finished, wpc, page, running, storageVars, mpc, job, killing, visit>>

\* Mutant: one level too deep.
AddLinkTooDeep(w) ==
  /\ wpc[w] = "links"
  /\ \E u \in todo[w] :
       /\ todo' = [todo EXCEPT ![w] = @ \ {u}]
       /\ IF DepthOf(page[w]) <= MaxDepth /\ u \notin seen
            THEN /\ seen' = seen \union {u}
                 /\ queue' \in Inserted(<<u, DepthOf(page[w]) + 1>>, TRUE)
            ELSE UNCHANGED <<queue, seen>>
  /\ UNCHANGED <<underwork, finished, wpc, page, running, storageVars, mpc, job, killing, visit>>

\* Mutant: a link that is added is not marked as seen.
AddLinkUnmarked(w) ==
  /\ wpc[w] = "links"
  /\ \E u \in todo[w] :
       /\ todo' = [todo EXCEPT ![w] = @ \ {u}]
       /\ IF DepthOf(page[w]) < MaxDepth /\ u \notin seen
            THEN queue' \in Inserted(<<u, DepthOf(page[w]) + 1>>, TRUE)
            ELSE UNCHANGED queue
  /\ UNCHANGED <<seen, underwork, finished, wpc, page, running, storageVars, mpc, job, killing, visit>>

\* CrawlQueue.add: not below the depth of the site, and not a second time.
AddLink(w) ==
  /\ wpc[w] = "links"
  /\ \E u \in todo[w] :
       /\ todo' = [todo EXCEPT ![w] = @ \ {u}]
       /\ IF DepthOf(page[w]) < MaxDepth /\ u \notin seen
            THEN /\ seen' = seen \union {u}
                 /\ queue' \in Inserted(<<u, DepthOf(page[w]) + 1>>, TRUE)
            ELSE UNCHANGED <<queue, seen>>
  /\ UNCHANGED <<underwork, finished, wpc, page, running, storageVars, mpc, job, killing, visit>>

LinksAdded(w) ==
  /\ wpc[w] = "links" /\ todo[w] = {}
  /\ WorkerGoto(w, "put")
  /\ UNCHANGED <<queueVars, page, todo, running, storageVars, mpc, job, killing, visit>>

\* isKillSent() waits for a kill() that is going on: both are synchronized.
KillSent    == ~killing /\ job.die
NotKillSent == ~killing /\ ~job.die

\* The storage proxy's add: it throws if the job was killed, else the record goes
\* through the transformation into the result queue, unless it is dropped.
PutRecord(w) ==
  /\ wpc[w] = "put"
  /\ \/ KillSent /\ WorkerGoto(w, "error") /\ UNCHANGED result
     \/ /\ NotKillSent
        /\ WorkerGoto(w, "test")
        /\ result' = IF visit[UrlOf(page[w])].outcome = "record"
                       THEN Append(result, UrlOf(page[w])) ELSE result
  /\ UNCHANGED <<queueVars, page, todo, running, added, stored, mpc, job, killing, visit>>

\* Is there a record in the result queue?  It may be another thread's.
TestResult(w) ==
  /\ wpc[w] = "test"
  /\ WorkerGoto(w, IF result = <<>> THEN "release" ELSE "take")
  /\ UNCHANGED <<queueVars, page, todo, running, storageVars, mpc, job, killing, visit>>

\* Mutant: an exception of the storage is logged and the crawl goes on.
TakeAndSwallow(w) ==
  /\ wpc[w] = "take" /\ result # <<>>
  /\ result' = Tail(result)
  /\ \/ added' = added \union {Head(result)}
     \/ StorageFaults /\ UNCHANGED added
  /\ WorkerGoto(w, "release")
  /\ UNCHANGED <<queueVars, page, todo, running, stored, mpc, job, killing, visit>>

\* take() waits for a record, which then goes to the storage.
TakeRecord(w) ==
  /\ wpc[w] = "take" /\ result # <<>>
  /\ result' = Tail(result)
  /\ \/ added' = added \union {Head(result)} /\ WorkerGoto(w, "release")
     \/ StorageFaults /\ WorkerGoto(w, "error") /\ UNCHANGED added
  /\ UNCHANGED <<queueVars, page, todo, running, stored, mpc, job, killing, visit>>

\* Any exception of the storage: setError(), which is synchronized, then kill().
WorkerSetsError(w) ==
  /\ wpc[w] = "error" /\ ~killing
  /\ job' = SetStatus(job, "ERROR")
  /\ finished' = TRUE
  /\ WorkerGoto(w, "kill")
  /\ UNCHANGED <<queue, seen, underwork, page, todo, running, storageVars, mpc, killing, visit>>

WorkerKills(w) ==
  /\ wpc[w] = "kill" /\ ~killing
  /\ job' = KillRequested(job)
  /\ killing' = KillWillOverwrite(job)
  /\ WorkerGoto(w, "killing")
  /\ UNCHANGED <<queueVars, page, todo, running, storageVars, mpc, visit>>

WorkerKilled(w) ==
  /\ wpc[w] = "killing" /\ ~killing
  /\ WorkerGoto(w, "release")
  /\ UNCHANGED <<queueVars, page, todo, running, storageVars, mpc, job, killing, visit>>

-----------------------------------------------------------------------------
(* WebRecordHarvestJob.run() *)

MainGoto(l) == mpc' = l

\* A storage that cannot begin ends run().
JobBegins ==
  /\ mpc = "begin"
  /\ \/ job' = SetStatus(job, "RUNNING") /\ MainGoto("init")
     \/ StorageFaults /\ job' = SetStatus(job, "ERROR") /\ MainGoto("ended")
  /\ UNCHANGED <<queueVars, threadVars, storageVars, killing, visit>>

\* initWorkList and the start of the threads.  A start URL that fails sets an error,
\* finishes the queue and forgets the sites before it; when it is a jump page, the
\* sites after it are crawled all the same.
InitWorkList ==
  /\ mpc = "init"
  /\ \E sites \in SUBSET Url, failed \in BOOLEAN :
       /\ failed /\ sites # {} => JumpFaults
       /\ failed => ~killing
       /\ seen' = sites
       /\ queue' \in {s \in [1..Cardinality(sites) -> sites \X {1}] :
                        {UrlOf(s[i]) : i \in DOMAIN s} = sites}
       /\ finished' = failed
       /\ job' = IF failed THEN SetStatus(job, "ERROR") ELSE job
  /\ wpc' = [w \in Worker |-> "starting"]
  /\ MainGoto("wait")
  /\ UNCHANGED <<underwork, page, todo, running, storageVars, killing, visit>>

\* The loop of harvestLoop is left when all is done or the job was killed.
WaitLoop ==
  /\ mpc = "wait"
  /\ AllDone \/ KillSent
  /\ MainGoto("finish")
  /\ UNCHANGED <<queueVars, threadVars, storageVars, job, killing, visit>>

FinishQueue ==
  /\ mpc = "finish"
  /\ finished' = TRUE
  /\ MainGoto("stop")
  /\ UNCHANGED <<queue, seen, underwork, threadVars, storageVars, job, killing, visit>>

StopWorkers ==
  /\ mpc = "stop"
  /\ running' = [w \in Worker |-> FALSE]
  /\ MainGoto("status")
  /\ UNCHANGED <<queueVars, wpc, page, todo, storageVars, job, killing, visit>>

\* Nothing is committed or rolled back unless the status is RUNNING.
TestStatus ==
  /\ mpc = "status"
  /\ MainGoto(IF job.run = "RUNNING" THEN "killed" ELSE "ended")
  /\ UNCHANGED <<queueVars, threadVars, storageVars, job, killing, visit>>

\* Mutant: a killed crawl is committed too.
CommitAnyway ==
  /\ mpc = "killed" /\ ~killing
  /\ MainGoto("commit")
  /\ UNCHANGED <<queueVars, threadVars, storageVars, job, killing, visit>>

\* The job was killed after all, or before it was RUNNING: setError and rollback.
TestKill ==
  /\ mpc = "killed"
  /\ \/ KillSent /\ job' = SetStatus(job, "ERROR") /\ MainGoto("rollback")
     \/ NotKillSent /\ MainGoto("commit") /\ UNCHANGED job
  /\ UNCHANGED <<queueVars, threadVars, storageVars, killing, visit>>

\* Rolling back deletes the records of the transaction, also those that were there
\* before it.
Rollback ==
  /\ mpc = "rollback"
  /\ \/ added' = {} /\ stored' = stored \ added /\ UNCHANGED job
     \/ /\ StorageFaults /\ ~killing
        /\ job' = SetStatus(job, "ERROR")
        /\ UNCHANGED <<added, stored>>
  /\ MainGoto("ended")
  /\ UNCHANGED <<queueVars, threadVars, result, killing, visit>>

\* A StorageException of commit() is not caught and ends the thread of the job.
Commit ==
  /\ mpc = "commit"
  /\ \/ /\ stored' = stored \union added /\ added' = {}
        /\ job' = MarkForUpdate(job)
        /\ MainGoto("setFinished")
     \/ /\ StorageFaults /\ ~killing
        /\ job' = SetStatus(job, "ERROR")
        /\ MainGoto("ended")
        /\ UNCHANGED <<added, stored>>
     \/ StorageFaults /\ MainGoto("ended") /\ UNCHANGED <<added, stored, job>>
  /\ UNCHANGED <<queueVars, threadVars, result, killing, visit>>

SetFinished ==
  /\ mpc = "setFinished"
  /\ job' = SetStatus(job, "FINISHED")
  /\ MainGoto("ended")
  /\ UNCHANGED <<queueVars, threadVars, storageVars, killing, visit>>

-----------------------------------------------------------------------------
(* kill_job of the status servlet, at any time *)

KillBegin ==
  /\ Kills /\ ~killing
  /\ job' = KillRequested(job)
  /\ killing' = KillWillOverwrite(job)
  /\ UNCHANGED <<queueVars, threadVars, storageVars, mpc, visit>>

KillFinish ==
  /\ killing
  /\ job' = KillOverwrite(job)
  /\ killing' = FALSE
  /\ UNCHANGED <<queueVars, threadVars, storageVars, mpc, visit>>

-----------------------------------------------------------------------------
GetStep(w) ==
  WorkerStarts(w) \/ GetHead(w) \/ Pop(w) \/ HostReady(w) \/ NotYet(w) \/ Release(w)

CrawlPageStep(w) ==
  \/ CheckRunning(w) \/ FetchNothing(w) \/ FetchPage(w) \/ PageThrows(w)
  \/ AddLink(w) \/ LinksAdded(w)
  \/ PutRecord(w) \/ TestResult(w) \/ TakeRecord(w)
  \/ WorkerSetsError(w) \/ WorkerKills(w) \/ WorkerKilled(w)

WorkerStep(w) == GetStep(w) \/ CrawlPageStep(w)

MainStep ==
  \/ JobBegins \/ InitWorkList \/ WaitLoop \/ FinishQueue \/ StopWorkers
  \/ TestStatus \/ TestKill \/ Rollback \/ Commit \/ SetFinished

Next ==
  \/ \E w \in Worker : WorkerStep(w)
  \/ MainStep
  \/ KillBegin \/ KillFinish

Spec == Init /\ [][Next]_vars

\* The JVM runs the threads and a fetch ends, as it has timeouts.  A host that was
\* visited may be visited again after a second at most, so a page that is taken
\* again and again is not put back for ever.
Fairness ==
  /\ WF_vars(MainStep) /\ WF_vars(KillFinish)
  /\ \A w \in Worker : WF_vars(WorkerStep(w)) /\ SF_vars(HostReady(w))

FairSpec == Spec /\ Fairness

-----------------------------------------------------------------------------
(* What a crawl must not do *)

\* The counter on which the end of the crawl depends counts the threads that have
\* taken a page and not given it back, through NotYet pages, exceptions and kills.
\* CrawlQueue._pop and decrementUnderWork.
UnderworkCounts == underwork = Cardinality({w \in Worker : page[w] # NoPage})

\* Threads that work on a page, which is not in the queue any more.
Working == {w \in Worker : page[w] # NoPage /\ wpc[w] # "putback"}

NotVisitedYet(w) == wpc[w] \in {"host", "check", "fetch"}

\* No page is crawled twice, however the threads add and put back: a URL is in the
\* queue once, or with one thread, or was visited.  CrawlQueue._add.
PagesApart ==
  /\ \A i, j \in DOMAIN queue : i # j => UrlOf(queue[i]) # UrlOf(queue[j])
  /\ \A i \in DOMAIN queue :
       /\ visit[UrlOf(queue[i])].outcome = "none"
       /\ \A w \in Working : UrlOf(page[w]) # UrlOf(queue[i])
  /\ \A v, w \in Working : v # w => UrlOf(page[v]) # UrlOf(page[w])
  /\ \A w \in Working : NotVisitedYet(w) => visit[UrlOf(page[w])].outcome = "none"

\* A thread has a page from the moment it takes it until it gives it back.
HasPage ==
  \A w \in Worker :
    /\ wpc[w] \in {"none", "starting", "head", "pop"} => page[w] = NoPage
    /\ wpc[w] \notin {"none", "starting", "head", "pop", "left"} => page[w] # NoPage

\* Every page that is in the queue, with a thread or visited has been seen.
AllSeen ==
  /\ \A i \in DOMAIN queue : UrlOf(queue[i]) \in seen
  /\ \A w \in Worker : page[w] # NoPage => UrlOf(page[w]) \in seen
  /\ \A u \in Url : visit[u].outcome # "none" => u \in seen

NothingBefore ==
  mpc \in {"begin", "init"} =>
    /\ \A w \in Worker : wpc[w] = "none"
    /\ \A u \in Url : visit[u].outcome = "none"

\* What UnderworkCounts and PagesApart rest on, at every step of any number of threads:
\* _add and _pop keep the set of seen pages ahead of the queue, the threads and their
\* visits.
IInv ==
  /\ TypeOK /\ HasPage /\ UnderworkCounts
  /\ AllSeen /\ PagesApart /\ NothingBefore

Records == {u \in Url : visit[u].outcome = "record"}

\* A crawl that is committed is complete, though the threads add links, put pages
\* back, die and swap their records while run() looks at the queue: every page seen
\* was visited, the links above the depth limit were seen, every record is there,
\* and no thread will add another.  harvestLoop 337, run 383-396.
CrawlIsComplete ==
  mpc \in {"commit", "setFinished"} =>
    /\ \A u \in seen : visit[u].outcome # "none"
    /\ \A u \in seen : visit[u].depth < MaxDepth => visit[u].links \subseteq seen
    /\ added \union stored = Records
    /\ \A w \in Worker : page[w] = NoPage

(* Why a committed crawl is complete *)

InQueue(u) == \E i \in DOMAIN queue : UrlOf(queue[i]) = u

AfterFetch == {"links", "put", "test", "take", "error", "kill", "killing", "release"}

\* A page that was seen is in the queue, with a thread or visited: what NotYet puts
\* back is in the queue before the thread lets go of it.
NothingLost ==
  \A u \in seen :
    visit[u].outcome # "none" \/ InQueue(u) \/ \E w \in Working : UrlOf(page[w]) = u

\* A thread that is past its fetch holds a page that was visited, at its depth.
AsVisited ==
  \A w \in Worker : wpc[w] \in AfterFetch =>
    /\ visit[UrlOf(page[w])].outcome # "none"
    /\ visit[UrlOf(page[w])].depth = DepthOf(page[w])

\* The links of a page that was visited were seen, or its thread has them to add yet, or
\* has died with them.
LinksComing ==
  \A u \in Url : visit[u].outcome # "none" /\ visit[u].depth < MaxDepth =>
    \A l \in visit[u].links :
      \/ l \in seen
      \/ \E w \in Worker : wpc[w] \in {"links", "dead"} /\ UrlOf(page[w]) = u /\ l \in todo[w]

Takers == {w \in Worker : wpc[w] \in {"test", "take"}}

\* No record stays in the result queue of the proxy: each has a thread that is still to
\* test the queue or to take from it, though perhaps another record.
ResultIsAwaited == Len(result) <= Cardinality(Takers)

\* What is queued for the storage or has got there is a record of a page.
OnlyRecords ==
  /\ added \union stored \subseteq Records
  /\ \A i \in DOMAIN result : result[i] \in Records

InResult(u) == \E i \in DOMAIN result : result[i] = u

\* A storage has failed or the job was killed, and run() will know of it.
Failing == job.die \/ \E w \in Worker : wpc[w] \in {"error", "kill"}

\* Until the transaction is over, a record is in it, in the result queue, or with the
\* thread that will put it there or that has died; one that is lost otherwise makes the
\* job fail.
RecordsComing ==
  mpc # "ended" => \A u \in Records :
    \/ u \in added \union stored \/ InResult(u)
    \/ \E w \in Worker : wpc[w] \in {"links", "put", "dead"} /\ UrlOf(page[w]) = u
    \/ Failing

NobodyWorks == queue = <<>> /\ \A w \in Worker : page[w] = NoPage

\* When run() has left its loop nobody works any more, or the job was killed.
EndIsIdle ==
  /\ mpc \in {"finish", "stop", "status", "killed"} => job.die \/ NobodyWorks
  /\ mpc \in {"commit", "setFinished"} => NobodyWorks /\ Records \subseteq added \union stored

\* The inductive invariant behind CrawlIsComplete: whatever is still to come is the
\* business of a thread that holds a page, and run() commits when there is none.
IsCompleted ==
  /\ IInv
  /\ NothingLost /\ AsVisited /\ LinksComing
  /\ ResultIsAwaited /\ OnlyRecords /\ RecordsComing /\ EndIsIdle

\* What keeps run() waiting for ever: a thread that died with its page, a thread that
\* waits for a record which another has taken, and pages nobody takes from a queue
\* that was finished before the crawl began.
Stuck ==
  \/ \E w \in Worker : wpc[w] = "dead"
  \/ \E w \in Worker : wpc[w] = "take" /\ result = <<>>
  \/ mpc = "wait" /\ finished /\ ~job.die /\ queue # <<>>

\* Otherwise a crawl comes to its end, whatever the pages link to, and whether it is
\* killed or its storage fails.
CrawlEnds == <>(mpc = "ended") \/ <>[]Stuck

\* "Any thread that gets a value from the queue, must decrement the underwork counter
\* when done with it!" (CrawlQueue.java 85).  A thread that waits in take() for the
\* record that another thread has taken never comes to it.
EveryPageIsReleased ==
  \A w \in Worker : page[w] # NoPage ~> page[w] = NoPage \/ finished
=============================================================================

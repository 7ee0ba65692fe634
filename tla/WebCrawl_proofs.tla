--------------------------- MODULE WebCrawl_proofs ---------------------------
(***************************************************************************)
(* Proofs, for any finite set of pages and any number of crawl threads,    *)
(* with and without kills, failing storages and threads that die, of       *)
(*   TypeCorrect          Spec => []TypeOK                                 *)
(*   CounterIsRight       Spec => []UnderworkCounts                        *)
(*   NoPageTwice          Spec => []PagesApart                             *)
(*   CommittedIsComplete  Spec => []CrawlIsComplete                        *)
(*                                                                         *)
(* Most steps change neither the queue nor who has which page: they are    *)
(* quiet, and one lemma covers them.  The others are pop, put back,        *)
(* release, fetch, add a link, and the start of the crawl.                 *)
(*                                                                         *)
(* That a committed crawl is complete needs more than who has which page:  *)
(* IsCompleted follows every page, link and record from the thread that    *)
(* has found it to the storage, and one lemma per part of it shows that    *)
(* the steps of a thread keep it.                                          *)
(***************************************************************************)
EXTENDS WebCrawl, HarvestJob_proofs, FiniteSetTheorems, SequenceTheorems, TLAPS

-----------------------------------------------------------------------------
(* The queue *)

\* _add makes room for the page somewhere and moves no other page.
LEMMA InsertedAt ==
  ASSUME NEW q \in Seq(PageRequest), NEW pg \in PageRequest, NEW p \in 0..Len(q)
  PROVE  LET n == SubSeq(q, 1, p) \o <<pg>> \o SubSeq(q, p + 1, Len(q))
         IN  /\ n \in Seq(PageRequest) /\ Len(n) = Len(q) + 1
             /\ n[p + 1] = pg
             /\ \A i \in 1..p : n[i] = q[i]
             /\ \A i \in (p + 2)..Len(n) : n[i] = q[i - 1]
<1> DEFINE l == SubSeq(q, 1, p)
           r == SubSeq(q, p + 1, Len(q))
<1>1. Len(q) \in Nat /\ \A i \in 1..Len(q) : q[i] \in PageRequest
  BY LenProperties, ElementOfSeq
<1>2. /\ l \in Seq(PageRequest) /\ Len(l) = p
      /\ \A i \in 1..p : l[i] = q[i]
  BY <1>1, SubSeqProperties
<1>3. /\ r \in Seq(PageRequest) /\ Len(r) = Len(q) - p
      /\ \A i \in 1..(Len(q) - p) : r[i] = q[p + i]
  <2>1. \A i \in (p + 1)..Len(q) : q[i] \in PageRequest
    BY <1>1
  <2>2. /\ r \in Seq(PageRequest)
        /\ Len(r) = IF p + 1 <= Len(q) THEN Len(q) - (p + 1) + 1 ELSE 0
        /\ \A i \in 1..(Len(q) - (p + 1) + 1) : r[i] = q[(p + 1) + i - 1]
    BY <1>1, <2>1, SubSeqProperties
  <2>3. QED
    BY <1>1, <2>2
<1>4. <<pg>> \in Seq(PageRequest) /\ Len(<<pg>>) = 1 /\ <<pg>>[1] = pg
  OBVIOUS
<1> HIDE DEF l, r
<1> DEFINE m == l \o <<pg>>
<1>5. /\ m \in Seq(PageRequest) /\ Len(m) = p + 1
      /\ \A i \in 1..p : m[i] = q[i]
      /\ m[p + 1] = pg
  <2>1. /\ m \in Seq(PageRequest) /\ Len(m) = Len(l) + Len(<<pg>>)
        /\ \A i \in 1..(Len(l) + Len(<<pg>>)) :
             m[i] = IF i <= Len(l) THEN l[i] ELSE <<pg>>[i - Len(l)]
    BY <1>2, <1>4, ConcatProperties
  <2>2. p \in Nat
    BY <1>1
  <2>3. QED
    BY <1>2, <1>4, <2>1, <2>2
<1> HIDE DEF m
<1>6. /\ m \o r \in Seq(PageRequest) /\ Len(m \o r) = Len(q) + 1
      /\ \A i \in 1..(p + 1) : (m \o r)[i] = m[i]
      /\ \A i \in (p + 2)..(Len(q) + 1) : (m \o r)[i] = r[i - (p + 1)]
  BY <1>1, <1>3, <1>5, ConcatProperties
<1>7. \A i \in (p + 2)..(Len(q) + 1) : r[i - (p + 1)] = q[i - 1]
  BY <1>1, <1>3
<1>8. /\ Len(m \o r) = Len(q) + 1
      /\ (m \o r)[p + 1] = pg
      /\ \A i \in 1..p : (m \o r)[i] = q[i]
      /\ \A i \in (p + 2)..Len(m \o r) : (m \o r)[i] = q[i - 1]
  <2>1. p \in Nat
    BY <1>1
  <2>2. (m \o r)[p + 1] = pg
    BY <1>5, <1>6, <2>1
  <2>3. \A i \in 1..p : (m \o r)[i] = q[i]
    BY <1>5, <1>6, <2>1
  <2>4. \A i \in (p + 2)..(Len(q) + 1) : (m \o r)[i] = q[i - 1]
    BY <1>6, <1>7
  <2>5. QED
    BY <1>6, <2>2, <2>3, <2>4
<1>9. m \o r = SubSeq(q, 1, p) \o <<pg>> \o SubSeq(q, p + 1, Len(q))
  BY DEF l, r, m
<1>10. QED
  BY <1>6, <1>8, <1>9

\* Whichever way it is inserted.
LEMMA InsertedSomewhere ==
  ASSUME queue \in Seq(PageRequest), NEW pg \in PageRequest, NEW random \in BOOLEAN,
         NEW n \in Inserted(pg, random)
  PROVE  /\ n \in Seq(PageRequest) /\ Len(n) = Len(queue) + 1
         /\ \E p \in 1..Len(n) :
              /\ n[p] = pg
              /\ \A i \in 1..(p - 1) : n[i] = queue[i]
              /\ \A i \in (p + 1)..Len(n) : n[i] = queue[i - 1]
<1>1. Len(queue) \in Nat
  BY LenProperties
<1>2. CASE random /\ Len(queue) >= RandomFrom
  <2> DEFINE half == Len(queue) \div 2
  <2>1. PICK p \in half..(2 * half - 1) :
          n = SubSeq(queue, 1, p) \o <<pg>> \o SubSeq(queue, p + 1, Len(queue))
    BY <1>2 DEF Inserted
  <2>2. p \in 0..Len(queue)
    BY <1>1
  <2>3. /\ n \in Seq(PageRequest) /\ Len(n) = Len(queue) + 1
        /\ n[p + 1] = pg
        /\ \A i \in 1..p : n[i] = queue[i]
        /\ \A i \in (p + 2)..Len(n) : n[i] = queue[i - 1]
    BY <2>1, <2>2, InsertedAt
  <2>4. p + 1 \in 1..Len(n) /\ (p + 1) - 1 = p /\ (p + 1) + 1 = p + 2
    BY <1>1, <2>2, <2>3
  <2>5. QED
    BY <2>3, <2>4
<1>3. CASE ~(random /\ Len(queue) >= RandomFrom)
  <2>1. n = Append(queue, pg)
    BY <1>3 DEF Inserted
  <2>2. QED
    BY <1>1, <2>1
<1>4. QED
  BY <1>2, <1>3

\* No URL is in the queue twice.
Distinct(q) == \A i, j \in DOMAIN q : i # j => UrlOf(q[i]) # UrlOf(q[j])

\* A page that is not in the queue can be inserted.
LEMMA InsertedApart ==
  ASSUME queue \in Seq(PageRequest), Distinct(queue),
         NEW pg \in PageRequest, NEW random \in BOOLEAN, NEW n \in Inserted(pg, random),
         \A i \in DOMAIN queue : UrlOf(queue[i]) # UrlOf(pg)
  PROVE  /\ n \in Seq(PageRequest) /\ Distinct(n)
         /\ \A i \in DOMAIN n : n[i] = pg \/ \E j \in DOMAIN queue : n[i] = queue[j]
<1>1. /\ n \in Seq(PageRequest) /\ Len(n) = Len(queue) + 1
      /\ Len(queue) \in Nat
      /\ DOMAIN n = 1..Len(n) /\ DOMAIN queue = 1..Len(queue)
  BY InsertedSomewhere, LenProperties
<1>2. PICK p \in 1..Len(n) :
         /\ n[p] = pg
         /\ \A i \in 1..(p - 1) : n[i] = queue[i]
         /\ \A i \in (p + 1)..Len(n) : n[i] = queue[i - 1]
  BY InsertedSomewhere
<1> DEFINE old(i) == IF i < p THEN i ELSE i - 1
<1>3. \A i \in DOMAIN n \ {p} : old(i) \in DOMAIN queue /\ n[i] = queue[old(i)]
  BY <1>1, <1>2
<1>4. \A i, j \in DOMAIN n \ {p} : i # j => old(i) # old(j)
  BY <1>1
<1> HIDE DEF old
<1>5. Distinct(n)
  BY <1>1, <1>2, <1>3, <1>4 DEF Distinct
<1>6. QED
  BY <1>1, <1>2, <1>3, <1>5

\* And it is in the queue then, with all that was there.
LEMMA InsertedKeeps ==
  ASSUME queue \in Seq(PageRequest), NEW pg \in PageRequest, NEW random \in BOOLEAN,
         NEW n \in Inserted(pg, random)
  PROVE  /\ \E i \in DOMAIN n : n[i] = pg
         /\ \A j \in DOMAIN queue : \E i \in DOMAIN n : n[i] = queue[j]
<1>1. /\ Len(n) = Len(queue) + 1 /\ Len(queue) \in Nat
      /\ DOMAIN n = 1..Len(n) /\ DOMAIN queue = 1..Len(queue)
  BY InsertedSomewhere, LenProperties
<1>2. PICK p \in 1..Len(n) :
         /\ n[p] = pg
         /\ \A i \in 1..(p - 1) : n[i] = queue[i]
         /\ \A i \in (p + 1)..Len(n) : n[i] = queue[i - 1]
  BY InsertedSomewhere
<1>3. ASSUME NEW j \in DOMAIN queue
      PROVE  \E i \in DOMAIN n : n[i] = queue[j]
  <2>1. CASE j < p
    <3>1. j \in 1..(p - 1) /\ j \in DOMAIN n
      BY <1>1, <2>1
    <3>2. QED
      BY <1>2, <3>1
  <2>2. CASE ~(j < p)
    <3>1. j + 1 \in (p + 1)..Len(n) /\ j + 1 \in DOMAIN n /\ (j + 1) - 1 = j
      BY <1>1, <2>2
    <3>2. n[j + 1] = queue[j]
      BY <1>2, <3>1
    <3>3. QED
      BY <3>1, <3>2
  <2>3. QED
    BY <2>1, <2>2
<1>4. QED
  BY <1>1, <1>2, <1>3

-----------------------------------------------------------------------------
(* Threads and their pages *)

\* The threads that hold a page.
Holders == {w \in Worker : page[w] # NoPage}

\* They are finitely many.
LEMMA HoldersFinite == IsFiniteSet(Holders) /\ Cardinality(Holders) \in Nat
BY CrawlAssumption, FS_Subset, FS_CardinalityType DEF Holders

\* A thread that takes a page adds to their number.
LEMMA HolderJoins ==
  ASSUME page \in [Worker -> PageRequest \union {NoPage}], NEW w \in Worker,
         NEW pg \in PageRequest, page[w] = NoPage, page' = [page EXCEPT ![w] = pg]
  PROVE  Cardinality(Holders') = Cardinality(Holders) + 1
<1>1. pg # NoPage
  BY CrawlAssumption DEF PageRequest
<1>2. w \notin Holders /\ Holders' = Holders \union {w}
  BY <1>1 DEF Holders
<1>3. QED
  BY <1>2, HoldersFinite, FS_AddElement

\* A thread that gives its page back takes from it.
LEMMA HolderLeaves ==
  ASSUME page \in [Worker -> PageRequest \union {NoPage}], NEW w \in Worker,
         page[w] # NoPage, page' = [page EXCEPT ![w] = NoPage]
  PROVE  /\ Cardinality(Holders) # 0
         /\ Cardinality(Holders') = Cardinality(Holders) - 1
<1>1. w \in Holders /\ Holders' = Holders \ {w}
  BY DEF Holders
<1>2. Cardinality(Holders) # 0
  BY <1>1, HoldersFinite, FS_EmptySet
<1>3. QED
  BY <1>1, <1>2, HoldersFinite, FS_RemoveElement

\* A crawl begins with no thread at work.
LEMMA InitIInv == Init => IInv
<1> SUFFICES ASSUME Init PROVE IInv
  OBVIOUS
<1>1. job \in JobRecord
  BY DEF Init, NewJob, SetStatus, JobRecord, StatusOrNull, HarvestStatus, Null
<1>2. visit \in [Url -> Visit]
  BY CrawlAssumption DEF Init, NoVisit, Visit, Outcomes
<1>3. TypeOK
  <2>1. queue \in Seq(PageRequest) /\ result \in Seq(Url)
    BY DEF Init
  <2>2. /\ wpc \in [Worker -> WorkerPlaces]
        /\ page \in [Worker -> PageRequest \union {NoPage}]
        /\ todo \in [Worker -> SUBSET Url] /\ running \in [Worker -> BOOLEAN]
    BY DEF Init, WorkerPlaces
  <2>3. QED
    BY <1>1, <1>2, <2>1, <2>2 DEF Init, TypeOK, MainPlaces
<1>4. UnderworkCounts
  <2>1. {w \in Worker : page[w] # NoPage} = {}
    BY DEF Init
  <2>2. QED
    BY <2>1, FS_EmptySet DEF Init, UnderworkCounts
<1>5. HasPage /\ AllSeen /\ PagesApart /\ NothingBefore
  BY DEF Init, HasPage, AllSeen, PagesApart, NothingBefore, NoVisit, Working
<1>6. QED
  BY <1>3, <1>4, <1>5 DEF IInv

\* A step that moves no page leaves the invariant as it is.
LEMMA QuietStep ==
  ASSUME IInv, TypeOK',
         UNCHANGED <<queue, seen, underwork, page, visit>>,
         HasPage', NothingBefore',
         \A w \in Worker : wpc'[w] = "putback" <=> wpc[w] = "putback",
         \A w \in Worker : NotVisitedYet(w)' => NotVisitedYet(w)
  PROVE  IInv'
<1>1. UnderworkCounts' /\ AllSeen'
  BY DEF IInv, UnderworkCounts, AllSeen
<1>2. Working' = Working
  BY DEF Working
<1>3. PagesApart'
  BY <1>2 DEF IInv, PagesApart, Working
<1>4. QED
  BY <1>1, <1>3 DEF IInv

-----------------------------------------------------------------------------
(* Type correctness *)

\* The statuses that the crawl sets.
LEMMA CrawlStatuses ==
  ASSUME TypeOK
  PROVE  /\ \A s \in {"RUNNING", "ERROR", "FINISHED"} : SetStatus(job, s) \in JobRecord
         /\ KillRequested(job) \in JobRecord /\ KillWillOverwrite(job) \in BOOLEAN
         /\ KillOverwrite(job) \in JobRecord /\ MarkForUpdate(job) \in JobRecord
BY JobOperationsType DEF TypeOK, StatusOrNull, HarvestStatus, KillWillOverwrite

\* What a thread makes of its page.
LEMMA PageType ==
  ASSUME TypeOK, NEW w \in Worker, page[w] # NoPage
  PROVE  /\ page[w] \in PageRequest
         /\ UrlOf(page[w]) \in Url /\ DepthOf(page[w]) \in 1..MaxDepth
BY DEF TypeOK, PageRequest, UrlOf, DepthOf

\* The steps of a thread, given that it has a page when it should.
LEMMA WorkerTypeOK ==
  ASSUME TypeOK, HasPage, UnderworkCounts, NEW w \in Worker, WorkerStep(w)
  PROVE  TypeOK'
<1> USE DEF queueVars, threadVars, storageVars
<1> USE CrawlStatuses DEF TypeOK, WorkerPlaces, WorkerGoto
<1>1. CASE WorkerStarts(w) \/ GetHead(w) \/ HostReady(w) \/ CheckRunning(w) \/ LinksAdded(w)
  BY <1>1 DEF WorkerStarts, GetHead, HostReady, CheckRunning, LinksAdded
<1>2. CASE Pop(w)
  <2>1. CASE queue = <<>>
    BY <1>2, <2>1 DEF Pop
  <2>2. CASE queue # <<>>
    <3>1. Head(queue) \in PageRequest /\ Tail(queue) \in Seq(PageRequest)
      BY <2>2, HeadTailProperties
    <3>2. /\ queue' = Tail(queue) /\ underwork' = underwork + 1
          /\ page' = [page EXCEPT ![w] = Head(queue)]
          /\ wpc' = [wpc EXCEPT ![w] = "host"]
      BY <1>2, <2>2 DEF Pop
    <3>3. UNCHANGED <<seen, finished, todo, running, storageVars, mpc, job, killing, visit>>
      BY <1>2 DEF Pop
    <3>4. QED
      BY <3>1, <3>2, <3>3
  <2>3. QED
    BY <2>1, <2>2
<1>3. CASE NotYet(w)
  BY <1>3, PageType, InsertedSomewhere DEF NotYet, HasPage
<1>4. CASE Release(w)
  <2>1. page[w] # NoPage
    BY <1>4 DEF Release, HasPage
  <2>2. Cardinality(Holders) # 0 /\ underwork = Cardinality(Holders)
    BY <1>4, <2>1, HolderLeaves DEF Release, Holders, UnderworkCounts
  <2>3. underwork - 1 \in Nat
    BY <2>2
  <2>4. QED
    BY <1>4, <2>3 DEF Release
<1>5. CASE FetchNothing(w) \/ FetchPage(w) \/ PageThrows(w)
  <2>1. wpc[w] \in {"fetch", "links"} /\ page[w] # NoPage
    BY <1>5 DEF FetchNothing, FetchPage, PageThrows, HasPage
  <2>2. UrlOf(page[w]) \in Url /\ DepthOf(page[w]) \in 0..MaxDepth
    BY <2>1, PageType, CrawlAssumption
  <2>3. \A o \in Outcomes, l \in SUBSET Url :
          [outcome |-> o, depth |-> DepthOf(page[w]), links |-> l] \in Visit
    BY <2>2 DEF Visit
  <2>4. visit' \in [Url -> Visit]
    <3>1. CASE PageThrows(w)
      BY <3>1 DEF PageThrows
    <3>2. CASE FetchNothing(w)
      BY <2>2, <2>3, <3>2 DEF FetchNothing, Outcomes
    <3>3. CASE FetchPage(w)
      BY <2>2, <2>3, <3>3 DEF FetchPage, Outcomes
    <3>4. QED
      BY <1>5, <3>1, <3>2, <3>3
  <2>5. CASE FetchNothing(w)
    BY <2>4, <2>5 DEF FetchNothing
  <2>6. CASE FetchPage(w)
    BY <2>4, <2>6 DEF FetchPage
  <2>7. CASE PageThrows(w)
    BY <2>7 DEF PageThrows
  <2>8. QED
    BY <1>5, <2>5, <2>6, <2>7
<1>6. CASE AddLink(w)
  <2>1. PICK u \in todo[w] :
          /\ todo' = [todo EXCEPT ![w] = @ \ {u}]
          /\ IF DepthOf(page[w]) < MaxDepth /\ u \notin seen
               THEN /\ seen' = seen \union {u}
                    /\ queue' \in Inserted(<<u, DepthOf(page[w]) + 1>>, TRUE)
               ELSE UNCHANGED <<queue, seen>>
    BY <1>6 DEF AddLink
  <2>2. u \in Url /\ DepthOf(page[w]) \in 1..MaxDepth /\ MaxDepth \in Nat
    BY <1>6, PageType, CrawlAssumption DEF AddLink, HasPage
  <2>3. queue' \in Seq(PageRequest) /\ seen' \subseteq Url
    <3>1. CASE DepthOf(page[w]) < MaxDepth /\ u \notin seen
      <4>1. <<u, DepthOf(page[w]) + 1>> \in PageRequest
        BY <2>2, <3>1 DEF PageRequest
      <4>2. queue' \in Inserted(<<u, DepthOf(page[w]) + 1>>, TRUE)
        BY <2>1, <3>1
      <4>3. queue' \in Seq(PageRequest)
        BY <4>1, <4>2, InsertedSomewhere
      <4>4. QED
        BY <2>1, <2>2, <3>1, <4>3
    <3>2. CASE ~(DepthOf(page[w]) < MaxDepth /\ u \notin seen)
      BY <2>1, <3>2
    <3>3. QED
      BY <3>1, <3>2
  <2>4. QED
    BY <1>6, <2>1, <2>3 DEF AddLink
<1>7. CASE PutRecord(w)
  <2>1. page[w] # NoPage
    BY <1>7 DEF PutRecord, HasPage
  <2>2. UrlOf(page[w]) \in Url
    BY <2>1, PageType
  <2>3. result' \in Seq(Url)
    BY <1>7, <2>2 DEF PutRecord
  <2>4. QED
    BY <1>7, <2>3 DEF PutRecord
<1>8. CASE TestResult(w)
  BY <1>8 DEF TestResult
<1>9. CASE TakeRecord(w)
  BY <1>9, HeadTailProperties DEF TakeRecord
<1>10. CASE WorkerSetsError(w) \/ WorkerKills(w) \/ WorkerKilled(w)
  BY <1>10 DEF WorkerSetsError, WorkerKills, WorkerKilled
<1>11. QED
  BY <1>1, <1>2, <1>3, <1>4, <1>5, <1>6, <1>7, <1>8, <1>9, <1>10
     DEF WorkerStep, GetStep, CrawlPageStep

\* The steps of run() and of a kill.
LEMMA MainTypeOK ==
  ASSUME TypeOK, MainStep \/ KillBegin \/ KillFinish
  PROVE  TypeOK'
<1> USE DEF queueVars, threadVars, storageVars
<1> USE CrawlStatuses DEF TypeOK, MainPlaces, MainGoto
<1>1. CASE JobBegins
  BY <1>1 DEF JobBegins
<1>2. CASE InitWorkList
  <2>1. PICK sites \in SUBSET Url :
          /\ seen' = sites
          /\ queue' \in [1..Cardinality(sites) -> sites \X {1}]
    BY <1>2 DEF InitWorkList
  <2>2. Cardinality(sites) \in Nat
    BY CrawlAssumption, FS_Subset, FS_CardinalityType
  <2>3. sites \X {1} \subseteq PageRequest
    BY CrawlAssumption DEF PageRequest
  <2>4. queue' \in Seq(PageRequest)
    <3>1. queue' \in [1..Cardinality(sites) -> PageRequest]
      BY <2>1, <2>3
    <3>2. QED
      BY <2>2, <3>1
  <2>5. QED
    BY <1>2, <2>1, <2>4 DEF InitWorkList, WorkerPlaces
<1>3. CASE WaitLoop \/ FinishQueue \/ StopWorkers \/ TestStatus
  BY <1>3 DEF WaitLoop, FinishQueue, StopWorkers, TestStatus
<1>4. CASE TestKill \/ Rollback \/ Commit \/ SetFinished
  BY <1>4 DEF TestKill, Rollback, Commit, SetFinished
<1>5. CASE KillBegin \/ KillFinish
  BY <1>5 DEF KillBegin, KillFinish
<1>6. QED
  BY <1>1, <1>2, <1>3, <1>4, <1>5 DEF MainStep

-----------------------------------------------------------------------------
(* Preservation of the invariant *)

\* The threads run only after run() has made the list.
LEMMA WorkerAfterInit ==
  ASSUME IInv, NEW w \in Worker, WorkerStep(w)
  PROVE  NothingBefore'
<1>1. wpc[w] # "none" /\ mpc' = mpc
  BY DEF WorkerStep, GetStep, CrawlPageStep, WorkerStarts, GetHead, Pop, HostReady, NotYet,
         Release, CheckRunning, FetchNothing, FetchPage, PageThrows, AddLink, LinksAdded,
         PutRecord, TestResult, TakeRecord, WorkerSetsError, WorkerKills, WorkerKilled,
         storageVars
<1>2. mpc \notin {"begin", "init"}
  BY <1>1 DEF IInv, NothingBefore
<1>3. QED
  BY <1>1, <1>2 DEF NothingBefore

\* Steps of a thread within a page or between two.
LEMMA QuietWorker ==
  ASSUME IInv, TypeOK', NEW w \in Worker,
         \/ WorkerStarts(w) \/ GetHead(w) \/ HostReady(w) \/ CheckRunning(w)
         \/ PageThrows(w) \/ LinksAdded(w) \/ PutRecord(w) \/ TestResult(w)
         \/ TakeRecord(w) \/ WorkerSetsError(w) \/ WorkerKills(w) \/ WorkerKilled(w)
  PROVE  IInv'
<1> USE DEF WorkerStarts, GetHead, HostReady, CheckRunning, PageThrows, LinksAdded, PutRecord,
            TestResult, TakeRecord, WorkerSetsError, WorkerKills, WorkerKilled
<1>1. UNCHANGED <<queue, seen, underwork, page, visit>>
  BY DEF queueVars
<1>2. NothingBefore'
  BY WorkerAfterInit DEF WorkerStep, GetStep, CrawlPageStep
<1>3. \E l \in WorkerPlaces \ {"putback", "none"} :
        /\ wpc' = [wpc EXCEPT ![w] = l]
        /\ wpc[w] # "putback"
        /\ l \in {"host", "check", "fetch"} => wpc[w] \in {"host", "check", "fetch"}
        /\ l \in {"starting", "head", "pop"} => page[w] = NoPage
        /\ l \notin {"starting", "head", "pop", "left"} => page[w] # NoPage
  <2> USE DEF WorkerGoto, WorkerPlaces, IInv, HasPage
  <2>1. CASE WorkerStarts(w) \/ GetHead(w) \/ HostReady(w) \/ CheckRunning(w)
    BY <2>1
  <2>2. CASE PageThrows(w) \/ LinksAdded(w) \/ PutRecord(w) \/ TestResult(w)
    BY <2>2
  <2>3. CASE TakeRecord(w) \/ WorkerSetsError(w) \/ WorkerKills(w) \/ WorkerKilled(w)
    BY <2>3
  <2>4. QED
    BY <2>1, <2>2, <2>3
<1>4. PICK l \in WorkerPlaces \ {"putback", "none"} :
        /\ wpc' = [wpc EXCEPT ![w] = l]
        /\ wpc[w] # "putback"
        /\ l \in {"host", "check", "fetch"} => wpc[w] \in {"host", "check", "fetch"}
        /\ l \in {"starting", "head", "pop"} => page[w] = NoPage
        /\ l \notin {"starting", "head", "pop", "left"} => page[w] # NoPage
  BY <1>3
<1>5. wpc \in [Worker -> WorkerPlaces]
  BY DEF IInv, TypeOK
<1>6. HasPage'
  BY <1>1, <1>4, <1>5 DEF IInv, HasPage
<1>7. /\ \A v \in Worker : wpc'[v] = "putback" <=> wpc[v] = "putback"
      /\ \A v \in Worker : NotVisitedYet(v)' => NotVisitedYet(v)
  BY <1>4, <1>5 DEF NotVisitedYet
<1>8. QED
  BY <1>1, <1>2, <1>6, <1>7, QuietStep

\* Steps of run() other than the start of the crawl, and kills.
LEMMA QuietMain ==
  ASSUME IInv, TypeOK',
         \/ JobBegins \/ WaitLoop \/ FinishQueue \/ StopWorkers \/ TestStatus \/ TestKill
         \/ Rollback \/ Commit \/ SetFinished \/ KillBegin \/ KillFinish
  PROVE  IInv'
<1> USE DEF JobBegins, WaitLoop, FinishQueue, StopWorkers, TestStatus, TestKill, Rollback,
            Commit, SetFinished, KillBegin, KillFinish, queueVars, threadVars
<1>1. UNCHANGED <<queue, seen, underwork, page, visit, wpc>>
  OBVIOUS
<1>2. mpc' \in {"begin", "init"} => mpc \in {"begin", "init"}
  BY DEF MainGoto
<1>3. HasPage' /\ NothingBefore'
  BY <1>1, <1>2 DEF IInv, HasPage, NothingBefore
<1>4. \A v \in Worker : NotVisitedYet(v)' => NotVisitedYet(v)
  BY <1>1 DEF NotVisitedYet
<1>5. QED
  BY <1>1, <1>3, <1>4, QuietStep

\* What the invariant says of the queue, in the words of the lemmas about it.
LEMMA QueueFacts ==
  ASSUME IInv
  PROVE  /\ queue \in Seq(PageRequest) /\ Distinct(queue)
         /\ page \in [Worker -> PageRequest \union {NoPage}]
         /\ wpc \in [Worker -> WorkerPlaces]
         /\ visit \in [Url -> Visit]
         /\ \A i \in DOMAIN queue : queue[i] \in PageRequest /\ UrlOf(queue[i]) \in Url
BY ElementOfSeq, LenProperties
   DEF IInv, TypeOK, PagesApart, Distinct, PageRequest, UrlOf

\* The first page leaves the queue, and the others move up.
LEMMA PopFacts ==
  ASSUME IInv, NEW w \in Worker, Pop(w), queue # <<>>
  PROVE  LET pg == Head(queue)
         IN  /\ pg \in PageRequest /\ Len(queue) \in Nat /\ Len(queue) # 0
             /\ DOMAIN queue = 1..Len(queue) /\ pg = queue[1]
             /\ queue' = Tail(queue)
             /\ page' = [page EXCEPT ![w] = pg]
             /\ wpc' = [wpc EXCEPT ![w] = "host"]
             /\ DOMAIN queue' = 1..(Len(queue) - 1)
             /\ \A i \in DOMAIN queue' : queue'[i] = queue[i + 1]
<1>1. Len(queue) \in Nat /\ DOMAIN queue = 1..Len(queue) /\ Len(queue) # 0
  BY QueueFacts, LenProperties, EmptySeq
<1>2. /\ Head(queue) \in PageRequest /\ Tail(queue) \in Seq(PageRequest)
      /\ Len(Tail(queue)) = Len(queue) - 1
      /\ \A i \in 1..Len(Tail(queue)) : Tail(queue)[i] = queue[i + 1]
  BY QueueFacts, HeadTailProperties
<1>3. DOMAIN Tail(queue) = 1..Len(Tail(queue))
  BY <1>2, LenProperties
<1>4. Head(queue) = queue[1]
  BY QueueFacts
<1>5. /\ queue' = Tail(queue)
      /\ page' = [page EXCEPT ![w] = Head(queue)]
      /\ wpc' = [wpc EXCEPT ![w] = "host"]
  BY DEF Pop, WorkerGoto
<1>6. QED
  BY <1>1, <1>2, <1>3, <1>4, <1>5

\* The page leaves the queue and is the thread's.
LEMMA PopIInv ==
  ASSUME IInv, TypeOK', NEW w \in Worker, Pop(w)
  PROVE  IInv'
<1>1. NothingBefore'
  BY WorkerAfterInit DEF WorkerStep, GetStep
<1>2. wpc[w] = "pop" /\ page[w] = NoPage
  BY DEF Pop, IInv, HasPage
<1>3. UNCHANGED <<seen, visit>>
  BY DEF Pop, storageVars
<1>4. CASE queue = <<>>
  <2>1. wpc' = [wpc EXCEPT ![w] = "head"] /\ UNCHANGED <<queue, underwork, page>>
    BY <1>4 DEF Pop, WorkerGoto
  <2>2. HasPage'
    BY <1>2, <2>1, QueueFacts DEF IInv, HasPage
  <2>3. /\ \A v \in Worker : wpc'[v] = "putback" <=> wpc[v] = "putback"
        /\ \A v \in Worker : NotVisitedYet(v)' => NotVisitedYet(v)
    BY <1>2, <2>1, QueueFacts DEF NotVisitedYet
  <2>4. QED
    BY <1>1, <1>3, <2>1, <2>2, <2>3, QuietStep
<1>5. CASE queue # <<>>
  <2> DEFINE pg == Head(queue)
  <2>1. /\ queue' = Tail(queue) /\ underwork' = underwork + 1
        /\ page' = [page EXCEPT ![w] = pg]
        /\ wpc' = [wpc EXCEPT ![w] = "host"]
    BY <1>5 DEF Pop, WorkerGoto
  <2>2. /\ pg \in PageRequest /\ Len(queue) \in Nat /\ Len(queue) # 0
        /\ DOMAIN queue = 1..Len(queue) /\ pg = queue[1]
        /\ DOMAIN queue' = 1..(Len(queue) - 1)
        /\ \A i \in DOMAIN queue' : queue'[i] = queue[i + 1]
    BY <1>5, PopFacts
  <2> HIDE DEF pg
  <2>3. pg # NoPage /\ UrlOf(pg) \in seen /\ visit[UrlOf(pg)].outcome = "none"
    BY <2>2, CrawlAssumption DEF IInv, AllSeen, PagesApart, PageRequest
  <2>4. UnderworkCounts'
    BY <1>2, <2>1, <2>2, QueueFacts, HolderJoins DEF IInv, UnderworkCounts, Holders
  <2>5. HasPage'
    BY <2>1, <2>3, QueueFacts DEF IInv, HasPage
  <2>6. AllSeen'
    <3>1. \A i \in DOMAIN queue' : i + 1 \in DOMAIN queue
      BY <2>2
    <3>2. QED
      BY <1>3, <2>1, <2>2, <2>3, <3>1, QueueFacts DEF IInv, AllSeen
  <2>7. Working' = Working \union {w} /\ w \notin Working
    BY <1>2, <2>1, <2>3, QueueFacts DEF Working
  <2>8. PagesApart'
    <3>1. \A i \in DOMAIN queue' : /\ i + 1 \in DOMAIN queue /\ i + 1 # 1 /\ 1 \in DOMAIN queue
                                   /\ queue'[i] = queue[i + 1]
                                   /\ \A j \in DOMAIN queue' : i # j => i + 1 # j + 1
      BY <2>2
    <3>2. \A i \in DOMAIN queue' : UrlOf(queue'[i]) # UrlOf(pg)
      BY <2>2, <3>1 DEF IInv, PagesApart
    <3>3. \A v \in Working : UrlOf(page[v]) # UrlOf(pg)
      BY <1>5, <2>2 DEF IInv, PagesApart
    <3>4. \A v \in Working' : /\ page'[v] = IF v = w THEN pg ELSE page[v]
                              /\ v # w => v \in Working /\ wpc'[v] = wpc[v]
      BY <2>1, <2>7, QueueFacts DEF Working
    <3>5. /\ \A i, j \in DOMAIN queue' : i # j => UrlOf(queue'[i]) # UrlOf(queue'[j])
          /\ \A i \in DOMAIN queue' : visit'[UrlOf(queue'[i])].outcome = "none"
      BY <1>3, <3>1 DEF IInv, PagesApart
    <3>6. \A i \in DOMAIN queue' : \A v \in Working' : UrlOf(page'[v]) # UrlOf(queue'[i])
      BY <3>1, <3>2, <3>4 DEF IInv, PagesApart
    <3>7. \A u, v \in Working' : u # v => UrlOf(page'[u]) # UrlOf(page'[v])
      BY <3>3, <3>4 DEF IInv, PagesApart
    <3>8. \A v \in Working' : NotVisitedYet(v)' => visit'[UrlOf(page'[v])].outcome = "none"
      BY <1>3, <2>3, <3>4 DEF IInv, PagesApart, NotVisitedYet
    <3>9. QED
      BY <3>5, <3>6, <3>7, <3>8 DEF PagesApart
  <2>9. QED
    BY <1>1, <2>4, <2>5, <2>6, <2>8 DEF IInv
<1>6. QED
  BY <1>4, <1>5

\* The page is in the queue again before it is counted off.
LEMMA NotYetIInv ==
  ASSUME IInv, TypeOK', NEW w \in Worker, NotYet(w)
  PROVE  IInv'
<1>1. NothingBefore'
  BY WorkerAfterInit DEF WorkerStep, GetStep
<1>2. /\ wpc[w] = "host" /\ page[w] # NoPage /\ page[w] \in PageRequest
      /\ wpc' = [wpc EXCEPT ![w] = "putback"]
      /\ UNCHANGED <<seen, underwork, page, visit>>
  BY QueueFacts DEF NotYet, WorkerGoto, IInv, HasPage, storageVars
<1>3. PICK random \in BOOLEAN : queue' \in Inserted(page[w], random)
  BY DEF NotYet
<1>4. w \in Working /\ Working' = Working \ {w}
  BY <1>2, QueueFacts DEF Working
<1>5. /\ visit[UrlOf(page[w])].outcome = "none" /\ UrlOf(page[w]) \in seen
      /\ \A i \in DOMAIN queue : UrlOf(queue[i]) # UrlOf(page[w])
  BY <1>2, <1>4 DEF IInv, PagesApart, AllSeen, NotVisitedYet
<1>6. /\ Distinct(queue')
      /\ \A i \in DOMAIN queue' :
           queue'[i] = page[w] \/ \E j \in DOMAIN queue : queue'[i] = queue[j]
  BY <1>2, <1>3, <1>5, QueueFacts, InsertedApart
<1>7. HasPage' /\ UnderworkCounts'
  BY <1>2, QueueFacts DEF IInv, HasPage, UnderworkCounts
<1>8. AllSeen'
  BY <1>2, <1>5, <1>6 DEF IInv, AllSeen
<1>9. PagesApart'
  <2>1. \A v \in Working' : v \in Working /\ v # w /\ page'[v] = page[v] /\ wpc'[v] = wpc[v]
    BY <1>2, <1>4, QueueFacts DEF Working
  <2>2. \A i \in DOMAIN queue' :
          /\ visit'[UrlOf(queue'[i])].outcome = "none"
          /\ \A v \in Working' : UrlOf(page'[v]) # UrlOf(queue'[i])
    BY <1>2, <1>4, <1>5, <1>6, <2>1 DEF IInv, PagesApart
  <2>3. \A v \in Working' : NotVisitedYet(v)' => visit'[UrlOf(page'[v])].outcome = "none"
    BY <1>2, <2>1 DEF IInv, PagesApart, NotVisitedYet
  <2>4. \A u, v \in Working' : u # v => UrlOf(page'[u]) # UrlOf(page'[v])
    BY <2>1 DEF IInv, PagesApart
  <2>5. QED
    BY <1>6, <2>2, <2>3, <2>4 DEF PagesApart, Distinct
<1>10. QED
  BY <1>1, <1>7, <1>8, <1>9 DEF IInv

\* A page is given back, and counted off.
LEMMA ReleaseIInv ==
  ASSUME IInv, TypeOK', NEW w \in Worker, Release(w)
  PROVE  IInv'
<1>1. NothingBefore'
  BY WorkerAfterInit DEF WorkerStep, GetStep
<1>2. /\ page[w] # NoPage
      /\ page' = [page EXCEPT ![w] = NoPage]
      /\ wpc' = [wpc EXCEPT ![w] = "head"]
      /\ underwork' = underwork - 1
      /\ UNCHANGED <<queue, seen, visit>>
  BY DEF Release, WorkerGoto, IInv, HasPage, storageVars
<1>3. UnderworkCounts'
  BY <1>2, QueueFacts, HolderLeaves DEF IInv, UnderworkCounts, Holders
<1>4. HasPage' /\ AllSeen'
  BY <1>2, QueueFacts DEF IInv, HasPage, AllSeen
<1>5. \A v \in Working' : v \in Working /\ page'[v] = page[v] /\ wpc'[v] = wpc[v]
  BY <1>2, QueueFacts DEF Working
<1>6. PagesApart'
  BY <1>2, <1>5 DEF IInv, PagesApart, NotVisitedYet
<1>7. QED
  BY <1>1, <1>3, <1>4, <1>6 DEF IInv

\* The page is visited, which no other thread will do and which is not in the queue.
LEMMA FetchIInv ==
  ASSUME IInv, TypeOK', NEW w \in Worker, FetchNothing(w) \/ FetchPage(w)
  PROVE  IInv'
<1> DEFINE url == UrlOf(page[w])
<1>1. NothingBefore'
  BY WorkerAfterInit DEF WorkerStep, CrawlPageStep
<1>2. /\ wpc[w] = "fetch" /\ page[w] # NoPage /\ url \in Url
      /\ \E l \in {"release", "links"} : wpc' = [wpc EXCEPT ![w] = l]
      /\ UNCHANGED <<queue, seen, underwork, page>>
  <2>1. wpc[w] = "fetch" /\ page[w] # NoPage
    BY DEF FetchNothing, FetchPage, IInv, HasPage
  <2>2. url \in Url
    BY <2>1, PageType DEF IInv
  <2>3. QED
    BY <2>1, <2>2 DEF FetchNothing, FetchPage, WorkerGoto, queueVars
<1>3. \E x : visit' = [visit EXCEPT ![url] = x]
  BY DEF FetchNothing, FetchPage
<1>4. \A u \in Url : u # url => visit'[u] = visit[u]
  BY <1>3, QueueFacts
<1>5. PICK l \in {"release", "links"} : wpc' = [wpc EXCEPT ![w] = l]
  BY <1>2
<1>6. w \in Working /\ Working' = Working
  BY <1>2, <1>5, QueueFacts DEF Working
<1>7. HasPage' /\ UnderworkCounts'
  BY <1>2, <1>5, QueueFacts DEF IInv, HasPage, UnderworkCounts
<1>8. AllSeen'
  BY <1>2, <1>4 DEF IInv, AllSeen
<1>9. PagesApart'
  <2>1. \A i \in DOMAIN queue : UrlOf(queue[i]) # url /\ UrlOf(queue[i]) \in Url
    BY <1>6, QueueFacts DEF IInv, PagesApart
  <2>2. \A v \in Working : v # w => /\ UrlOf(page[v]) # url /\ UrlOf(page[v]) \in Url
                                    /\ wpc'[v] = wpc[v]
    BY <1>5, <1>6, QueueFacts, PageType DEF IInv, PagesApart, Working
  <2>3. ~NotVisitedYet(w)'
    BY <1>5, QueueFacts DEF NotVisitedYet
  <2>4. \A i \in DOMAIN queue' : visit'[UrlOf(queue'[i])].outcome = "none"
    BY <1>2, <1>4, <2>1 DEF IInv, PagesApart
  <2>5. \A v \in Working' : NotVisitedYet(v)' => visit'[UrlOf(page'[v])].outcome = "none"
    BY <1>2, <1>4, <1>6, <2>2, <2>3 DEF IInv, PagesApart, NotVisitedYet
  <2>6. QED
    BY <1>2, <1>6, <2>4, <2>5 DEF IInv, PagesApart
<1>10. QED
  BY <1>1, <1>7, <1>8, <1>9 DEF IInv

\* A link is seen from now on, and was not in the queue, with a thread or visited.
LEMMA AddLinkIInv ==
  ASSUME IInv, TypeOK', NEW w \in Worker, AddLink(w)
  PROVE  IInv'
<1>1. NothingBefore'
  BY WorkerAfterInit DEF WorkerStep, CrawlPageStep
<1>2. UNCHANGED <<underwork, wpc, page, visit>>
  BY DEF AddLink
<1>3. HasPage' /\ UnderworkCounts' /\ Working' = Working
  BY <1>2 DEF IInv, HasPage, UnderworkCounts, Working
<1>4. PICK u \in todo[w] :
        IF DepthOf(page[w]) < MaxDepth /\ u \notin seen
          THEN /\ seen' = seen \union {u}
               /\ queue' \in Inserted(<<u, DepthOf(page[w]) + 1>>, TRUE)
          ELSE UNCHANGED <<queue, seen>>
  BY DEF AddLink
<1>5. CASE ~(DepthOf(page[w]) < MaxDepth /\ u \notin seen)
  <2>1. UNCHANGED <<queue, seen>>
    BY <1>4, <1>5
  <2>2. AllSeen' /\ PagesApart'
    BY <1>2, <1>3, <2>1 DEF IInv, AllSeen, PagesApart, NotVisitedYet
  <2>3. QED
    BY <1>1, <1>3, <2>2 DEF IInv
<1>6. CASE DepthOf(page[w]) < MaxDepth /\ u \notin seen
  <2> DEFINE pg == <<u, DepthOf(page[w]) + 1>>
  <2>1. u \in Url /\ pg \in PageRequest /\ UrlOf(pg) = u
    <3>1. u \in Url
      BY DEF IInv, TypeOK
    <3>2. DepthOf(page[w]) \in 1..MaxDepth /\ MaxDepth \in Nat
      BY PageType, CrawlAssumption DEF AddLink, IInv, HasPage
    <3>3. QED
      BY <1>6, <3>1, <3>2 DEF PageRequest, UrlOf
  <2>2. seen' = seen \union {u} /\ queue' \in Inserted(pg, TRUE)
    BY <1>4, <1>6
  <2> HIDE DEF pg
  <2>3. /\ visit[u].outcome = "none"
        /\ \A i \in DOMAIN queue : UrlOf(queue[i]) # u
        /\ \A v \in Worker : page[v] # NoPage => UrlOf(page[v]) # u
    BY <1>6, <2>1 DEF IInv, AllSeen
  <2>4. /\ Distinct(queue')
        /\ \A i \in DOMAIN queue' : queue'[i] = pg \/ \E j \in DOMAIN queue : queue'[i] = queue[j]
    BY <2>1, <2>2, <2>3, QueueFacts, InsertedApart
  <2>5. AllSeen'
    BY <1>2, <2>1, <2>2, <2>4 DEF IInv, AllSeen
  <2>6. \A i \in DOMAIN queue' :
          /\ visit[UrlOf(queue'[i])].outcome = "none"
          /\ \A v \in Working : UrlOf(page[v]) # UrlOf(queue'[i])
    BY <2>1, <2>3, <2>4 DEF IInv, PagesApart, Working
  <2>7. PagesApart'
    BY <1>2, <1>3, <2>4, <2>6 DEF IInv, PagesApart, Distinct, NotVisitedYet
  <2>8. QED
    BY <1>1, <1>3, <2>5, <2>7 DEF IInv
<1>7. QED
  BY <1>5, <1>6

\* The list of start URLs holds each of them once, as there are no more of them than places.
LEMMA InitListIInv ==
  ASSUME IInv, TypeOK', InitWorkList
  PROVE  IInv'
<1>1. PICK sites \in SUBSET Url :
        /\ seen' = sites
        /\ queue' \in [1..Cardinality(sites) -> sites \X {1}]
        /\ {UrlOf(queue'[i]) : i \in DOMAIN queue'} = sites
  BY DEF InitWorkList
<1>2. /\ mpc = "init" /\ mpc' = "wait"
      /\ wpc' = [v \in Worker |-> "starting"]
      /\ UNCHANGED <<underwork, page, visit>>
  BY DEF InitWorkList, MainGoto
<1>3. /\ \A v \in Worker : page[v] = NoPage
      /\ \A u \in Url : visit[u].outcome = "none"
  BY <1>2 DEF IInv, NothingBefore, HasPage
<1>4. HasPage' /\ UnderworkCounts' /\ NothingBefore'
  BY <1>2, <1>3 DEF IInv, HasPage, UnderworkCounts, NothingBefore
<1>5. \A i \in DOMAIN queue' : UrlOf(queue'[i]) \in sites
  BY <1>1
<1>6. AllSeen'
  BY <1>1, <1>2, <1>3, <1>5 DEF AllSeen
<1>7. Distinct(queue')
  <2> DEFINE S == 1..Cardinality(sites)
             f == [i \in S |-> UrlOf(queue'[i])]
  <2>1. IsFiniteSet(sites) /\ Cardinality(sites) \in Nat
    BY CrawlAssumption, FS_Subset, FS_CardinalityType
  <2>2. IsFiniteSet(S) /\ Cardinality(S) = Cardinality(sites)
    BY <2>1, FS_Interval
  <2>3. DOMAIN queue' = S
    BY <1>1
  <2>4. f \in Surjection(S, sites)
    BY <1>1, <1>5, <2>3 DEF Surjection
  <2>5. f \in Injection(S, sites)
    BY <2>2, <2>4, FS_SurjSameCardinalityImpliesInj
  <2>6. QED
    BY <2>3, <2>5 DEF Injection, IsInjective, Distinct
<1>8. PagesApart'
  BY <1>1, <1>2, <1>3, <1>5, <1>7 DEF PagesApart, Distinct, Working
<1>9. QED
  BY <1>4, <1>6, <1>8 DEF IInv

\* Every step of the crawl preserves the invariant.
LEMMA NextIInv == IInv /\ [Next]_vars => IInv'
<1> SUFFICES ASSUME IInv, [Next]_vars PROVE IInv'
  OBVIOUS
<1>1. ASSUME NEW w \in Worker, WorkerStep(w)
      PROVE  IInv'
  <2>1. TypeOK'
    BY <1>1, WorkerTypeOK DEF IInv
  <2>2. QED
    BY <1>1, <2>1, QuietWorker, PopIInv, NotYetIInv, ReleaseIInv, FetchIInv, AddLinkIInv
       DEF WorkerStep, GetStep, CrawlPageStep
<1>2. CASE MainStep \/ KillBegin \/ KillFinish
  <2>1. TypeOK'
    BY <1>2, MainTypeOK DEF IInv
  <2>2. QED
    BY <1>2, <2>1, QuietMain, InitListIInv DEF MainStep
<1>3. CASE UNCHANGED vars
  BY <1>3 DEF vars, queueVars, threadVars, storageVars, IInv, TypeOK, HasPage, UnderworkCounts,
              AllSeen, PagesApart, NothingBefore, Working, NotVisitedYet
<1>4. QED
  BY <1>1, <1>2, <1>3 DEF Next

-----------------------------------------------------------------------------
(* A committed crawl is complete *)

\* Steps of a thread that leave the queue, the pages and the visits alone.
Within(w) ==
  \/ WorkerStarts(w) \/ GetHead(w) \/ HostReady(w) \/ CheckRunning(w)
  \/ PageThrows(w) \/ LinksAdded(w) \/ PutRecord(w) \/ TestResult(w)
  \/ TakeRecord(w) \/ WorkerSetsError(w) \/ WorkerKills(w) \/ WorkerKilled(w)

\* They move one thread, and past its fetch only when it is past it.
LEMMA WithinMoves ==
  ASSUME IInv, NEW w \in Worker, Within(w)
  PROVE  /\ UNCHANGED <<queue, seen, page, visit, todo, mpc, stored>>
         /\ wpc[w] \notin {"pop", "putback", "release"}
         /\ \E l \in WorkerPlaces \ {"putback", "links"} :
              /\ wpc' = [wpc EXCEPT ![w] = l]
              /\ l \in AfterFetch => wpc[w] \in AfterFetch
<1> USE DEF queueVars, storageVars, WorkerGoto, WorkerPlaces, AfterFetch
<1>1. CASE WorkerStarts(w) \/ GetHead(w) \/ HostReady(w) \/ CheckRunning(w)
  BY <1>1 DEF WorkerStarts, GetHead, HostReady, CheckRunning
<1>2. CASE PageThrows(w) \/ LinksAdded(w) \/ TestResult(w)
  BY <1>2 DEF PageThrows, LinksAdded, TestResult
<1>3. CASE PutRecord(w) \/ TakeRecord(w)
  BY <1>3 DEF PutRecord, TakeRecord
<1>4. CASE WorkerSetsError(w) \/ WorkerKills(w) \/ WorkerKilled(w)
  BY <1>4 DEF WorkerSetsError, WorkerKills, WorkerKilled
<1>5. QED
  BY <1>1, <1>2, <1>3, <1>4 DEF Within

\* What a fetch does, whether it brings a page or nothing.
LEMMA FetchFacts ==
  ASSUME IInv, NEW w \in Worker, FetchNothing(w) \/ FetchPage(w)
  PROVE  /\ wpc[w] = "fetch" /\ page[w] # NoPage /\ w \in Working
         /\ UrlOf(page[w]) \in Url /\ visit[UrlOf(page[w])].outcome = "none"
         /\ UNCHANGED <<queue, seen, page, mpc, job, added, stored, result>>
         /\ \E o \in Outcomes \ {"none"}, links \in SUBSET Url, l \in {"release", "links"} :
              /\ visit' = [visit EXCEPT ![UrlOf(page[w])] =
                             [outcome |-> o, depth |-> DepthOf(page[w]), links |-> links]]
              /\ wpc' = [wpc EXCEPT ![w] = l]
              /\ l = "links" => todo' = [todo EXCEPT ![w] = links]
              /\ l = "release" => o = "nothing" /\ links = {} /\ todo' = todo
<1>1. wpc[w] = "fetch" /\ page[w] # NoPage
  BY DEF FetchNothing, FetchPage, IInv, HasPage
<1>2. w \in Working
  BY <1>1 DEF Working
<1>3. UrlOf(page[w]) \in Url /\ visit[UrlOf(page[w])].outcome = "none"
  BY <1>1, <1>2, PageType DEF IInv, PagesApart, NotVisitedYet
<1>4. UNCHANGED <<queue, seen, page, mpc, job, added, stored, result>>
  BY DEF FetchNothing, FetchPage, queueVars, storageVars
<1>5. CASE FetchNothing(w)
  <2>1. /\ visit' = [visit EXCEPT ![UrlOf(page[w])] =
                       [outcome |-> "nothing", depth |-> DepthOf(page[w]), links |-> {}]]
        /\ wpc' = [wpc EXCEPT ![w] = "release"] /\ todo' = todo
    BY <1>5 DEF FetchNothing, WorkerGoto
  <2>2. "nothing" \in Outcomes \ {"none"}
    BY DEF Outcomes
  <2>3. QED
    BY <1>1, <1>2, <1>3, <1>4, <2>1, <2>2
<1>6. CASE FetchPage(w)
  <2>1. PICK links \in SUBSET Url, o \in {"record", "dropped"} :
          /\ visit' = [visit EXCEPT ![UrlOf(page[w])] =
                         [outcome |-> o, depth |-> DepthOf(page[w]), links |-> links]]
          /\ todo' = [todo EXCEPT ![w] = links]
    BY <1>6 DEF FetchPage
  <2>2. wpc' = [wpc EXCEPT ![w] = "links"]
    BY <1>6 DEF FetchPage, WorkerGoto
  <2>3. o \in Outcomes \ {"none"}
    BY DEF Outcomes
  <2>4. QED
    BY <1>1, <1>2, <1>3, <1>4, <2>1, <2>2, <2>3
<1>7. QED
  BY <1>5, <1>6

\* The link that is added.
LEMMA AddLinkFacts ==
  ASSUME IInv, NEW w \in Worker, AddLink(w)
  PROVE  /\ wpc[w] = "links" /\ page[w] # NoPage
         /\ UNCHANGED <<wpc, page, visit, mpc, job, added, stored, result>>
         /\ \E u \in todo[w] :
              /\ u \in Url /\ todo' = [todo EXCEPT ![w] = @ \ {u}]
              /\ IF DepthOf(page[w]) < MaxDepth /\ u \notin seen
                   THEN /\ seen' = seen \union {u}
                        /\ <<u, DepthOf(page[w]) + 1>> \in PageRequest
                        /\ UrlOf(<<u, DepthOf(page[w]) + 1>>) = u
                        /\ queue' \in Inserted(<<u, DepthOf(page[w]) + 1>>, TRUE)
                   ELSE UNCHANGED <<queue, seen>>
<1>1. wpc[w] = "links" /\ page[w] # NoPage
  BY DEF AddLink, IInv, HasPage
<1>2. UNCHANGED <<wpc, page, visit, mpc, job, added, stored, result>>
  BY DEF AddLink, storageVars
<1>3. PICK u \in todo[w] :
        /\ todo' = [todo EXCEPT ![w] = @ \ {u}]
        /\ IF DepthOf(page[w]) < MaxDepth /\ u \notin seen
             THEN /\ seen' = seen \union {u}
                  /\ queue' \in Inserted(<<u, DepthOf(page[w]) + 1>>, TRUE)
             ELSE UNCHANGED <<queue, seen>>
  BY DEF AddLink
<1>4. u \in Url
  BY DEF IInv, TypeOK
<1>5. DepthOf(page[w]) \in 1..MaxDepth /\ MaxDepth \in Nat
  BY <1>1, PageType, CrawlAssumption DEF IInv
<1>6. /\ DepthOf(page[w]) < MaxDepth => <<u, DepthOf(page[w]) + 1>> \in PageRequest
      /\ UrlOf(<<u, DepthOf(page[w]) + 1>>) = u
  BY <1>4, <1>5 DEF PageRequest, UrlOf
<1>7. QED
  BY <1>1, <1>2, <1>3, <1>4, <1>6

\* Popped, put back, released, visited or linked, a page that was seen stays where it
\* can be found.
LEMMA NothingLostStep ==
  ASSUME IsCompleted, IInv', NEW w \in Worker, WorkerStep(w)
  PROVE  NothingLost'
<1>1. IInv /\ NothingLost /\ AsVisited
  BY DEF IsCompleted
<1>2. /\ wpc \in [Worker -> WorkerPlaces] /\ visit \in [Url -> Visit]
      /\ page \in [Worker -> PageRequest \union {NoPage}] /\ queue \in Seq(PageRequest)
      /\ seen \subseteq Url
  BY <1>1 DEF IInv, TypeOK
<1>3. CASE Within(w)
  <2>1. UNCHANGED <<queue, seen, page, visit>> /\ Working' = Working
    BY <1>1, <1>2, <1>3, WithinMoves DEF Working
  <2>2. QED
    BY <1>1, <2>1 DEF NothingLost, InQueue
<1>4. CASE Pop(w)
  <2>1. UNCHANGED <<seen, visit>> /\ wpc[w] = "pop" /\ page[w] = NoPage
    BY <1>1, <1>4 DEF Pop, storageVars, IInv, HasPage
  <2>2. CASE queue = <<>>
    <3>1. UNCHANGED <<queue, page>> /\ wpc' = [wpc EXCEPT ![w] = "head"]
      BY <1>4, <2>2 DEF Pop, WorkerGoto
    <3>2. Working' = Working
      BY <1>2, <2>1, <3>1 DEF Working
    <3>3. QED
      BY <1>1, <2>1, <3>1, <3>2 DEF NothingLost, InQueue
  <2>3. CASE queue # <<>>
    <3> DEFINE pg == Head(queue)
    <3>1. /\ pg \in PageRequest /\ Len(queue) \in Nat
          /\ DOMAIN queue = 1..Len(queue) /\ pg = queue[1]
          /\ page' = [page EXCEPT ![w] = pg] /\ wpc' = [wpc EXCEPT ![w] = "host"]
          /\ DOMAIN queue' = 1..(Len(queue) - 1)
          /\ \A i \in DOMAIN queue' : queue'[i] = queue[i + 1]
      BY <1>1, <1>4, <2>3, PopFacts
    <3> HIDE DEF pg
    <3>2. pg # NoPage
      BY <3>1, CrawlAssumption DEF PageRequest
    <3>3. /\ w \in Working' /\ page'[w] = pg
          /\ \A v \in Working : v \in Working' /\ page'[v] = page[v]
      BY <1>2, <2>1, <3>1, <3>2 DEF Working
    <3>4. \A i \in DOMAIN queue : i = 1 \/ (i - 1 \in DOMAIN queue' /\ queue'[i - 1] = queue[i])
      BY <3>1
    <3>5. \A u : InQueue(u) => UrlOf(pg) = u \/ InQueue(u)'
      BY <3>1, <3>4 DEF InQueue
    <3>6. QED
      BY <1>1, <2>1, <3>3, <3>5 DEF NothingLost
  <2>4. QED
    BY <2>2, <2>3
<1>5. CASE NotYet(w)
  <2>1. /\ wpc[w] = "host" /\ page[w] \in PageRequest
        /\ wpc' = [wpc EXCEPT ![w] = "putback"] /\ UNCHANGED <<seen, page, visit>>
    BY <1>1, <1>2, <1>5 DEF NotYet, WorkerGoto, IInv, HasPage, storageVars
  <2>2. \A u : InQueue(u) \/ UrlOf(page[w]) = u => InQueue(u)'
    <3>1. PICK random \in BOOLEAN : queue' \in Inserted(page[w], random)
      BY <1>5 DEF NotYet
    <3>2. QED
      BY <1>2, <2>1, <3>1, InsertedKeeps DEF InQueue
  <2>3. \A v \in Working : v = w \/ (v \in Working' /\ page'[v] = page[v])
    BY <1>2, <2>1 DEF Working
  <2>4. QED
    BY <1>1, <2>1, <2>2, <2>3 DEF NothingLost
<1>6. CASE Release(w)
  <2>1. /\ wpc[w] \in {"putback", "release"}
        /\ page' = [page EXCEPT ![w] = NoPage] /\ wpc' = [wpc EXCEPT ![w] = "head"]
        /\ UNCHANGED <<queue, seen, visit>>
    BY <1>6 DEF Release, WorkerGoto, storageVars
  <2>2. \A v \in Working : v = w \/ (v \in Working' /\ page'[v] = page[v])
    BY <1>2, <2>1 DEF Working
  <2>3. w \in Working => visit[UrlOf(page[w])].outcome # "none"
    BY <1>1, <2>1 DEF Working, AsVisited, AfterFetch
  <2>4. QED
    BY <1>1, <2>1, <2>2, <2>3 DEF NothingLost, InQueue
<1>7. CASE FetchNothing(w) \/ FetchPage(w)
  <2>1. PICK o \in Outcomes \ {"none"}, links \in SUBSET Url, l \in {"release", "links"} :
          /\ visit' = [visit EXCEPT ![UrlOf(page[w])] =
                         [outcome |-> o, depth |-> DepthOf(page[w]), links |-> links]]
          /\ wpc' = [wpc EXCEPT ![w] = l]
          /\ l = "links" => todo' = [todo EXCEPT ![w] = links]
          /\ l = "release" => o = "nothing" /\ links = {} /\ todo' = todo
    BY <1>1, <1>7, FetchFacts
  <2>2. UNCHANGED <<queue, seen, page>> /\ wpc[w] = "fetch" /\ UrlOf(page[w]) \in Url
    BY <1>1, <1>7, FetchFacts
  <2>3. Working' = Working
    BY <1>2, <2>1, <2>2 DEF Working
  <2>4. \A u \in Url : visit[u].outcome # "none" => visit'[u].outcome # "none"
    BY <1>2, <2>1, <2>2
  <2>5. QED
    BY <1>1, <1>2, <2>2, <2>3, <2>4 DEF NothingLost, InQueue
<1>8. CASE AddLink(w)
  <2>1. UNCHANGED <<wpc, page, visit>> /\ Working' = Working
    BY <1>1, <1>8, AddLinkFacts DEF Working
  <2>2. PICK u \in todo[w] :
          IF DepthOf(page[w]) < MaxDepth /\ u \notin seen
            THEN /\ seen' = seen \union {u}
                 /\ <<u, DepthOf(page[w]) + 1>> \in PageRequest
                 /\ UrlOf(<<u, DepthOf(page[w]) + 1>>) = u
                 /\ queue' \in Inserted(<<u, DepthOf(page[w]) + 1>>, TRUE)
            ELSE UNCHANGED <<queue, seen>>
    BY <1>1, <1>8, AddLinkFacts
  <2>3. CASE DepthOf(page[w]) < MaxDepth /\ u \notin seen
    <3> DEFINE pg == <<u, DepthOf(page[w]) + 1>>
    <3>1. /\ seen' = seen \union {u} /\ pg \in PageRequest /\ UrlOf(pg) = u
          /\ queue' \in Inserted(pg, TRUE)
      BY <2>2, <2>3
    <3> HIDE DEF pg
    <3>2. \A x : InQueue(x) \/ x = u => InQueue(x)'
      <4>1. /\ \E i \in DOMAIN queue' : queue'[i] = pg
            /\ \A j \in DOMAIN queue : \E i \in DOMAIN queue' : queue'[i] = queue[j]
        BY <1>2, <3>1, InsertedKeeps
      <4>2. QED
        BY <3>1, <4>1 DEF InQueue
    <3>3. QED
      BY <1>1, <2>1, <3>1, <3>2 DEF NothingLost
  <2>4. CASE ~(DepthOf(page[w]) < MaxDepth /\ u \notin seen)
    <3>1. UNCHANGED <<queue, seen>>
      BY <2>2, <2>4
    <3>2. QED
      BY <1>1, <2>1, <3>1 DEF NothingLost, InQueue
  <2>5. QED
    BY <2>3, <2>4
<1>9. QED
  BY <1>3, <1>4, <1>5, <1>6, <1>7, <1>8 DEF WorkerStep, GetStep, CrawlPageStep, Within

\* A thread past its fetch holds a page that no other thread visits.
LEMMA AsVisitedStep ==
  ASSUME IsCompleted, IInv', NEW w \in Worker, WorkerStep(w)
  PROVE  AsVisited'
<1>1. IInv /\ AsVisited
  BY DEF IsCompleted
<1>2. /\ wpc \in [Worker -> WorkerPlaces] /\ visit \in [Url -> Visit]
      /\ page \in [Worker -> PageRequest \union {NoPage}]
  BY <1>1 DEF IInv, TypeOK
<1>3. CASE Within(w)
  <2>1. UNCHANGED <<page, visit>>
    BY <1>1, <1>3, WithinMoves
  <2>2. \A v \in Worker : wpc'[v] \in AfterFetch => wpc[v] \in AfterFetch
    BY <1>1, <1>2, <1>3, WithinMoves
  <2>3. QED
    BY <1>1, <2>1, <2>2 DEF AsVisited
<1>4. CASE Pop(w) \/ NotYet(w) \/ Release(w)
  <2>1. UNCHANGED visit /\ \A v \in Worker : v # w => page'[v] = page[v] /\ wpc'[v] = wpc[v]
    BY <1>2, <1>4 DEF Pop, NotYet, Release, WorkerGoto, storageVars
  <2>2. wpc'[w] \in {"host", "head", "putback"}
    BY <1>2, <1>4 DEF Pop, NotYet, Release, WorkerGoto
  <2>3. QED
    BY <1>1, <2>1, <2>2 DEF AsVisited, AfterFetch
<1>5. CASE FetchNothing(w) \/ FetchPage(w)
  <2>1. PICK o \in Outcomes \ {"none"}, links \in SUBSET Url, l \in {"release", "links"} :
          /\ visit' = [visit EXCEPT ![UrlOf(page[w])] =
                         [outcome |-> o, depth |-> DepthOf(page[w]), links |-> links]]
          /\ wpc' = [wpc EXCEPT ![w] = l]
          /\ l = "links" => todo' = [todo EXCEPT ![w] = links]
          /\ l = "release" => o = "nothing" /\ links = {} /\ todo' = todo
    BY <1>1, <1>5, FetchFacts
  <2>2. /\ UNCHANGED page /\ wpc[w] = "fetch" /\ UrlOf(page[w]) \in Url
        /\ w \in Working
    BY <1>1, <1>5, FetchFacts
  <2>3. visit'[UrlOf(page[w])].outcome # "none" /\ visit'[UrlOf(page[w])].depth = DepthOf(page[w])
    BY <1>2, <2>1, <2>2
  <2>4. ASSUME NEW v \in Worker, v # w, wpc'[v] \in AfterFetch
        PROVE  wpc[v] \in AfterFetch /\ visit'[UrlOf(page[v])] = visit[UrlOf(page[v])]
    <3>1. wpc[v] \in AfterFetch
      BY <1>2, <2>1, <2>4
    <3>2. v \in Working
      BY <1>1, <3>1 DEF Working, AfterFetch, IInv, HasPage
    <3>3. UrlOf(page[v]) # UrlOf(page[w]) /\ UrlOf(page[v]) \in Url
      BY <1>1, <2>2, <2>4, <3>2, PageType DEF IInv, PagesApart, Working
    <3>4. QED
      BY <1>2, <2>1, <3>1, <3>3
  <2>5. QED
    BY <1>1, <2>2, <2>3, <2>4 DEF AsVisited
<1>6. CASE AddLink(w)
  BY <1>1, <1>6, AddLinkFacts DEF AsVisited
<1>7. QED
  BY <1>3, <1>4, <1>5, <1>6 DEF WorkerStep, GetStep, CrawlPageStep, Within

\* A link leaves the list of a thread when it is seen, or when the page is as deep as
\* the crawl goes.
LEMMA LinksComingStep ==
  ASSUME IsCompleted, IInv', NEW w \in Worker, WorkerStep(w)
  PROVE  LinksComing'
<1>1. IInv /\ LinksComing /\ AsVisited
  BY DEF IsCompleted
<1>2. /\ wpc \in [Worker -> WorkerPlaces] /\ visit \in [Url -> Visit]
      /\ page \in [Worker -> PageRequest \union {NoPage}] /\ todo \in [Worker -> SUBSET Url]
  BY <1>1 DEF IInv, TypeOK
<1>3. CASE LinksAdded(w)
  <2>1. /\ UNCHANGED <<seen, page, visit, todo>>
        /\ todo[w] = {} /\ wpc' = [wpc EXCEPT ![w] = "put"]
    BY <1>3 DEF LinksAdded, WorkerGoto, queueVars
  <2>2. \A v \in Worker : v # w => wpc'[v] = wpc[v]
    BY <1>2, <2>1
  <2>3. wpc[w] = "links"
    BY <1>3 DEF LinksAdded
  <2>4. QED
    BY <1>1, <2>1, <2>2, <2>3 DEF LinksComing
<1>4. CASE Within(w) /\ ~LinksAdded(w)
  <2>1. UNCHANGED <<seen, page, visit, todo>>
    BY <1>1, <1>4, WithinMoves
  <2>2. wpc[w] \notin {"links", "dead"} \/ wpc'[w] = "dead"
    <3>1. CASE PageThrows(w)
      BY <1>2, <3>1 DEF PageThrows, WorkerGoto
    <3>2. CASE ~PageThrows(w)
      BY <1>4, <3>2 DEF Within, WorkerStarts, GetHead, HostReady, CheckRunning, PutRecord,
                        TestResult, TakeRecord, WorkerSetsError, WorkerKills, WorkerKilled
    <3>3. QED
      BY <3>1, <3>2
  <2>3. \A v \in Worker : wpc[v] \in {"links", "dead"} => wpc'[v] \in {"links", "dead"}
    BY <1>1, <1>2, <1>4, <2>2, WithinMoves
  <2>4. QED
    BY <1>1, <2>1, <2>3 DEF LinksComing
<1>5. CASE Pop(w) \/ NotYet(w) \/ Release(w)
  <2>1. /\ UNCHANGED <<seen, visit, todo>> /\ wpc[w] \notin {"links", "dead"}
        /\ \A v \in Worker : v # w => page'[v] = page[v] /\ wpc'[v] = wpc[v]
    BY <1>2, <1>5 DEF Pop, NotYet, Release, WorkerGoto, storageVars
  <2>2. QED
    BY <1>1, <2>1 DEF LinksComing
<1>6. CASE FetchNothing(w) \/ FetchPage(w)
  <2>1. PICK o \in Outcomes \ {"none"}, links \in SUBSET Url, l \in {"release", "links"} :
          /\ visit' = [visit EXCEPT ![UrlOf(page[w])] =
                         [outcome |-> o, depth |-> DepthOf(page[w]), links |-> links]]
          /\ wpc' = [wpc EXCEPT ![w] = l]
          /\ l = "links" => todo' = [todo EXCEPT ![w] = links]
          /\ l = "release" => o = "nothing" /\ links = {} /\ todo' = todo
    BY <1>1, <1>6, FetchFacts
  <2>2. UNCHANGED <<seen, page>> /\ wpc[w] = "fetch" /\ UrlOf(page[w]) \in Url
    BY <1>1, <1>6, FetchFacts
  <2>3. \A v \in Worker : wpc[v] \in {"links", "dead"} => wpc'[v] = wpc[v] /\ todo'[v] = todo[v]
    BY <1>2, <2>1, <2>2
  <2>4. ASSUME NEW u \in Url, visit'[u].outcome # "none", visit'[u].depth < MaxDepth,
               NEW x \in visit'[u].links
        PROVE  \/ x \in seen'
               \/ \E v \in Worker :
                    wpc'[v] \in {"links", "dead"} /\ UrlOf(page'[v]) = u /\ x \in todo'[v]
    <3>1. CASE u = UrlOf(page[w])
      <4>1. x \in links
        BY <1>2, <2>1, <2>2, <2>4, <3>1
      <4>2. l = "links"
        BY <2>1, <4>1
      <4>3. wpc'[w] = "links" /\ x \in todo'[w]
        BY <1>2, <2>1, <4>1, <4>2
      <4>4. QED
        BY <2>2, <3>1, <4>3
    <3>2. CASE u # UrlOf(page[w])
      <4>1. visit'[u] = visit[u]
        BY <1>2, <2>1, <2>2, <3>2
      <4>2. QED
        BY <1>1, <2>2, <2>3, <2>4, <4>1 DEF LinksComing
    <3>3. QED
      BY <3>1, <3>2
  <2>5. QED
    BY <2>4 DEF LinksComing
<1>7. CASE AddLink(w)
  <2>1. PICK y \in todo[w] :
          /\ y \in Url /\ todo' = [todo EXCEPT ![w] = @ \ {y}]
          /\ IF DepthOf(page[w]) < MaxDepth /\ y \notin seen
               THEN /\ seen' = seen \union {y}
                    /\ <<y, DepthOf(page[w]) + 1>> \in PageRequest
                    /\ UrlOf(<<y, DepthOf(page[w]) + 1>>) = y
                    /\ queue' \in Inserted(<<y, DepthOf(page[w]) + 1>>, TRUE)
               ELSE UNCHANGED <<queue, seen>>
    BY <1>1, <1>7, AddLinkFacts
  <2>2. wpc[w] = "links" /\ UNCHANGED <<wpc, page, visit>>
    BY <1>1, <1>7, AddLinkFacts
  <2>3. visit[UrlOf(page[w])].depth = DepthOf(page[w])
    BY <1>1, <2>2 DEF AsVisited, AfterFetch
  <2>4. seen \subseteq seen' /\ (DepthOf(page[w]) < MaxDepth => y \in seen')
    BY <2>1
  <2>5. \A v \in Worker : \A x \in todo[v] : x \in todo'[v] \/ (v = w /\ x = y)
    BY <1>2, <2>1
  <2>6. ASSUME NEW u \in Url, visit'[u].outcome # "none", visit'[u].depth < MaxDepth,
               NEW x \in visit'[u].links
        PROVE  \/ x \in seen'
               \/ \E v \in Worker :
                    wpc'[v] \in {"links", "dead"} /\ UrlOf(page'[v]) = u /\ x \in todo'[v]
    <3>1. CASE x \in seen
      BY <2>4, <3>1
    <3>2. CASE x \notin seen
      <4>1. PICK v \in Worker :
              wpc[v] \in {"links", "dead"} /\ UrlOf(page[v]) = u /\ x \in todo[v]
        BY <1>1, <2>2, <2>6, <3>2 DEF LinksComing
      <4>2. CASE v = w /\ x = y
        BY <2>2, <2>3, <2>4, <2>6, <4>1, <4>2
      <4>3. CASE ~(v = w /\ x = y)
        BY <2>2, <2>5, <4>1, <4>3
      <4>4. QED
        BY <4>2, <4>3
    <3>3. QED
      BY <3>1, <3>2
  <2>7. QED
    BY <2>6 DEF LinksComing
<1>8. QED
  BY <1>3, <1>4, <1>5, <1>6, <1>7 DEF WorkerStep, GetStep, CrawlPageStep, Within

\* The threads at the result queue are finitely many.
LEMMA TakersFinite == IsFiniteSet(Takers) /\ Cardinality(Takers) \in Nat
BY CrawlAssumption, FS_Subset, FS_CardinalityType DEF Takers

\* A record comes with a thread that will take one, and a thread leaves the result
\* queue with a record or because it has found none.
LEMMA ResultIsAwaitedStep ==
  ASSUME IsCompleted, IInv', NEW w \in Worker, WorkerStep(w)
  PROVE  ResultIsAwaited'
<1>1. IInv /\ ResultIsAwaited
  BY DEF IsCompleted
<1>2. wpc \in [Worker -> WorkerPlaces] /\ result \in Seq(Url) /\ Len(result) \in Nat
  BY <1>1, LenProperties DEF IInv, TypeOK
<1>3. CASE PutRecord(w)
  <2>1. wpc[w] = "put"
    BY <1>3 DEF PutRecord
  <2>2. CASE wpc' = [wpc EXCEPT ![w] = "error"] /\ UNCHANGED result
    <3>1. Takers' = Takers
      BY <1>2, <2>1, <2>2 DEF Takers
    <3>2. QED
      BY <1>1, <2>2, <3>1 DEF ResultIsAwaited
  <2>3. CASE /\ wpc' = [wpc EXCEPT ![w] = "test"]
             /\ result' = result \/ result' = Append(result, UrlOf(page[w]))
    <3>1. w \notin Takers /\ Takers' = Takers \union {w}
      BY <1>2, <2>1, <2>3 DEF Takers
    <3>2. Cardinality(Takers') = Cardinality(Takers) + 1
      BY <3>1, TakersFinite, FS_AddElement
    <3>3. Len(result') <= Len(result) + 1
      BY <1>2, <2>3
    <3>4. QED
      BY <1>1, <1>2, <3>2, <3>3, TakersFinite DEF ResultIsAwaited
  <2>4. QED
    BY <1>3, <2>2, <2>3 DEF PutRecord, WorkerGoto
<1>4. CASE TestResult(w)
  <2>1. wpc[w] = "test" /\ UNCHANGED result
    BY <1>4 DEF TestResult, storageVars
  <2>2. CASE result = <<>>
    <3>1. Cardinality(Takers)' \in Nat
      <4>1. Takers' \subseteq Worker
        BY DEF Takers
      <4>2. QED
        BY <4>1, CrawlAssumption, FS_Subset, FS_CardinalityType
    <3>2. Len(result') = 0
      BY <2>1, <2>2
    <3>3. QED
      BY <3>1, <3>2 DEF ResultIsAwaited
  <2>3. CASE result # <<>>
    <3>1. Takers' = Takers
      BY <1>2, <1>4, <2>1, <2>3 DEF TestResult, WorkerGoto, Takers
    <3>2. QED
      BY <1>1, <2>1, <3>1 DEF ResultIsAwaited
  <2>4. QED
    BY <2>2, <2>3
<1>5. CASE TakeRecord(w)
  <2>1. /\ wpc[w] = "take" /\ result # <<>> /\ result' = Tail(result)
        /\ \E l \in {"release", "error"} : wpc' = [wpc EXCEPT ![w] = l]
    BY <1>5 DEF TakeRecord, WorkerGoto
  <2>2. w \in Takers /\ Takers' = Takers \ {w}
    BY <1>2, <2>1 DEF Takers
  <2>3. Cardinality(Takers') = Cardinality(Takers) - 1
    BY <2>2, TakersFinite, FS_RemoveElement
  <2>4. Len(result') = Len(result) - 1
    BY <1>2, <2>1, HeadTailProperties
  <2>5. QED
    BY <1>1, <1>2, <2>3, <2>4, TakersFinite DEF ResultIsAwaited
<1>6. CASE /\ UNCHANGED result /\ wpc[w] \notin {"test", "take"}
           /\ \E l \in WorkerPlaces \ {"test", "take"} : wpc' = [wpc EXCEPT ![w] = l]
  <2>1. Takers' = Takers
    BY <1>2, <1>6 DEF Takers
  <2>2. QED
    BY <1>1, <1>6, <2>1 DEF ResultIsAwaited
<1>7. ASSUME ~PutRecord(w), ~TestResult(w), ~TakeRecord(w), ~AddLink(w)
      PROVE  /\ UNCHANGED result /\ wpc[w] \notin {"test", "take"}
             /\ \E l \in WorkerPlaces \ {"test", "take"} : wpc' = [wpc EXCEPT ![w] = l]
  <2> USE DEF storageVars, WorkerGoto, WorkerPlaces
  <2>1. CASE WorkerStarts(w) \/ GetHead(w) \/ HostReady(w) \/ CheckRunning(w) \/ LinksAdded(w)
    BY <2>1 DEF WorkerStarts, GetHead, HostReady, CheckRunning, LinksAdded
  <2>2. CASE FetchNothing(w) \/ FetchPage(w) \/ PageThrows(w)
    BY <2>2 DEF FetchNothing, FetchPage, PageThrows
  <2>3. CASE WorkerSetsError(w) \/ WorkerKills(w) \/ WorkerKilled(w)
    BY <2>3 DEF WorkerSetsError, WorkerKills, WorkerKilled
  <2>4. CASE Pop(w) \/ NotYet(w) \/ Release(w)
    BY <2>4 DEF Pop, NotYet, Release
  <2>5. QED
    BY <1>7, <2>1, <2>2, <2>3, <2>4 DEF WorkerStep, GetStep, CrawlPageStep
<1>8. CASE AddLink(w)
  BY <1>1, <1>8, AddLinkFacts DEF ResultIsAwaited, Takers
<1>9. QED
  BY <1>3, <1>4, <1>5, <1>6, <1>7, <1>8

\* A record stays the record of its page, which is visited once.
LEMMA RecordsGrow ==
  ASSUME IsCompleted, NEW w \in Worker, WorkerStep(w)
  PROVE  /\ Records \subseteq Records'
         /\ \A u \in Records' \ Records : u = UrlOf(page[w]) /\ wpc'[w] = "links"
         /\ ~(FetchNothing(w) \/ FetchPage(w)) => visit' = visit
<1>1. IInv
  BY DEF IsCompleted
<1>2. /\ wpc \in [Worker -> WorkerPlaces] /\ visit \in [Url -> Visit]
  BY <1>1 DEF IInv, TypeOK
<1>3. CASE FetchNothing(w) \/ FetchPage(w)
  <2>1. PICK o \in Outcomes \ {"none"}, links \in SUBSET Url, l \in {"release", "links"} :
          /\ visit' = [visit EXCEPT ![UrlOf(page[w])] =
                         [outcome |-> o, depth |-> DepthOf(page[w]), links |-> links]]
          /\ wpc' = [wpc EXCEPT ![w] = l]
          /\ l = "links" => todo' = [todo EXCEPT ![w] = links]
          /\ l = "release" => o = "nothing" /\ links = {} /\ todo' = todo
    BY <1>1, <1>3, FetchFacts
  <2>2. UrlOf(page[w]) \in Url /\ visit[UrlOf(page[w])].outcome = "none"
    BY <1>1, <1>3, FetchFacts
  <2>3. \A u \in Url : u # UrlOf(page[w]) => visit'[u] = visit[u]
    BY <1>2, <2>1, <2>2
  <2>4. visit'[UrlOf(page[w])].outcome = o
    BY <1>2, <2>1, <2>2
  <2>5. \A u \in Records : u \in Url /\ u # UrlOf(page[w])
    BY <2>2 DEF Records
  <2>6. Records \subseteq Records'
    BY <2>3, <2>5 DEF Records
  <2>7. ASSUME NEW u \in Records' \ Records
        PROVE  u = UrlOf(page[w]) /\ wpc'[w] = "links"
    <3>1. u = UrlOf(page[w])
      BY <2>3, <2>7 DEF Records
    <3>2. o = "record"
      BY <2>4, <2>7, <3>1 DEF Records
    <3>3. QED
      BY <1>2, <2>1, <3>1, <3>2
  <2>8. QED
    BY <1>3, <2>6, <2>7
<1>4. ASSUME ~(FetchNothing(w) \/ FetchPage(w))
      PROVE  visit' = visit
  <2>1. CASE Within(w)
    BY <1>1, <2>1, WithinMoves
  <2>2. CASE Pop(w) \/ NotYet(w) \/ Release(w) \/ AddLink(w)
    BY <2>2 DEF Pop, NotYet, Release, AddLink, storageVars
  <2>3. QED
    BY <1>4, <2>1, <2>2 DEF WorkerStep, GetStep, CrawlPageStep, Within
<1>5. CASE ~(FetchNothing(w) \/ FetchPage(w))
  <2>1. Records' = Records
    BY <1>4, <1>5 DEF Records
  <2>2. QED
    BY <1>4, <1>5, <2>1
<1>6. QED
  BY <1>3, <1>5

\* Only the steps that put or take a record change what there is of records.
LEMMA RecordsStay ==
  ASSUME IInv, NEW w \in Worker, WorkerStep(w), ~PutRecord(w), ~TakeRecord(w)
  PROVE  UNCHANGED <<result, added, stored>>
<1> USE DEF storageVars
<1>1. CASE WorkerStarts(w) \/ GetHead(w) \/ HostReady(w) \/ CheckRunning(w) \/ LinksAdded(w)
  BY <1>1 DEF WorkerStarts, GetHead, HostReady, CheckRunning, LinksAdded
<1>2. CASE FetchNothing(w) \/ FetchPage(w) \/ PageThrows(w) \/ AddLink(w) \/ TestResult(w)
  BY <1>2 DEF FetchNothing, FetchPage, PageThrows, AddLink, TestResult
<1>3. CASE WorkerSetsError(w) \/ WorkerKills(w) \/ WorkerKilled(w)
  BY <1>3 DEF WorkerSetsError, WorkerKills, WorkerKilled
<1>4. CASE Pop(w) \/ NotYet(w) \/ Release(w)
  BY <1>4 DEF Pop, NotYet, Release
<1>5. QED
  BY <1>1, <1>2, <1>3, <1>4 DEF WorkerStep, GetStep, CrawlPageStep

\* What putting and taking do to the result queue.
LEMMA ResultFacts ==
  ASSUME IInv, NEW w \in Worker, PutRecord(w) \/ TakeRecord(w)
  PROVE  /\ UNCHANGED <<queue, page, visit, mpc, job, stored>>
         /\ wpc[w] \in {"put", "take"} /\ page[w] # NoPage
         /\ \/ /\ KillSent /\ wpc' = [wpc EXCEPT ![w] = "error"]
               /\ UNCHANGED <<result, added>>
            \/ /\ visit[UrlOf(page[w])].outcome # "record"
               /\ wpc' = [wpc EXCEPT ![w] = "test"]
               /\ UNCHANGED <<result, added>>
            \/ /\ visit[UrlOf(page[w])].outcome = "record"
               /\ wpc' = [wpc EXCEPT ![w] = "test"] /\ UNCHANGED added
               /\ \A u : InResult(u)' <=> InResult(u) \/ u = UrlOf(page[w])
            \/ /\ wpc[w] = "take"
               /\ InResult(Head(result))
               /\ \A u : InResult(u) => InResult(u)' \/ u = Head(result)
               /\ \A u : InResult(u)' => InResult(u)
               /\ \/ /\ added' = added \union {Head(result)}
                     /\ wpc' = [wpc EXCEPT ![w] = "release"]
                  \/ /\ UNCHANGED added /\ wpc' = [wpc EXCEPT ![w] = "error"]
<1>1. result \in Seq(Url) /\ Len(result) \in Nat /\ DOMAIN result = 1..Len(result)
  BY LenProperties DEF IInv, TypeOK
<1>2. /\ UNCHANGED <<queue, page, visit, mpc, job, stored>>
      /\ wpc[w] \in {"put", "take"} /\ page[w] # NoPage
  BY DEF PutRecord, TakeRecord, queueVars, IInv, HasPage
<1>3. CASE PutRecord(w)
  <2>1. CASE KillSent /\ wpc' = [wpc EXCEPT ![w] = "error"] /\ UNCHANGED result
    BY <1>2, <1>3, <2>1 DEF PutRecord
  <2>2. CASE /\ wpc' = [wpc EXCEPT ![w] = "test"]
             /\ result' = IF visit[UrlOf(page[w])].outcome = "record"
                            THEN Append(result, UrlOf(page[w])) ELSE result
    <3>1. CASE visit[UrlOf(page[w])].outcome # "record"
      BY <1>2, <1>3, <2>2, <3>1 DEF PutRecord
    <3>2. CASE visit[UrlOf(page[w])].outcome = "record"
      <4>1. UrlOf(page[w]) \in Url
        BY <1>2, PageType DEF IInv
      <4>2. /\ DOMAIN result' = 1..(Len(result) + 1)
            /\ result'[Len(result) + 1] = UrlOf(page[w])
            /\ \A i \in 1..Len(result) : result'[i] = result[i]
        BY <1>1, <2>2, <3>2, <4>1, AppendProperties
      <4>3. \A i \in DOMAIN result : i \in DOMAIN result' /\ result'[i] = result[i]
        BY <1>1, <4>2
      <4>4. \A i \in DOMAIN result' : i = Len(result) + 1 \/ i \in DOMAIN result
        BY <1>1, <4>2
      <4>5. Len(result) + 1 \in DOMAIN result'
        BY <1>1, <4>2
      <4>6. \A u : InResult(u)' <=> InResult(u) \/ u = UrlOf(page[w])
        BY <4>2, <4>3, <4>4, <4>5 DEF InResult
      <4>7. QED
        BY <1>2, <1>3, <2>2, <3>2, <4>6 DEF PutRecord
    <3>3. QED
      BY <3>1, <3>2
  <2>3. QED
    BY <1>3, <2>1, <2>2 DEF PutRecord, WorkerGoto
<1>4. CASE TakeRecord(w)
  <2>1. wpc[w] = "take" /\ result # <<>> /\ result' = Tail(result)
    BY <1>4 DEF TakeRecord
  <2>2. /\ Len(result) # 0 /\ Head(result) = result[1]
        /\ DOMAIN result' = 1..(Len(result) - 1)
        /\ \A i \in DOMAIN result' : result'[i] = result[i + 1]
    <3>1. Len(result) # 0
      BY <1>1, <2>1, EmptySeq
    <3>2. /\ Tail(result) \in Seq(Url) /\ Len(Tail(result)) = Len(result) - 1
          /\ \A i \in 1..Len(Tail(result)) : Tail(result)[i] = result[i + 1]
      BY <1>1, <2>1, HeadTailProperties
    <3>3. DOMAIN Tail(result) = 1..Len(Tail(result))
      BY <3>2, LenProperties
    <3>4. QED
      BY <1>1, <2>1, <3>1, <3>2, <3>3
  <2>3. \A i \in DOMAIN result : i = 1 \/ (i - 1 \in DOMAIN result' /\ result'[i - 1] = result[i])
    BY <1>1, <2>2
  <2>4. \A i \in DOMAIN result' : i + 1 \in DOMAIN result
    BY <1>1, <2>2
  <2>5. 1 \in DOMAIN result
    BY <1>1, <2>2
  <2>6. InResult(Head(result))
    BY <2>2, <2>5 DEF InResult
  <2>7. \A u : InResult(u) => InResult(u)' \/ u = Head(result)
    BY <2>2, <2>3 DEF InResult
  <2>8. \A u : InResult(u)' => InResult(u)
    BY <2>2, <2>4 DEF InResult
  <2>9. \/ added' = added \union {Head(result)} /\ wpc' = [wpc EXCEPT ![w] = "release"]
        \/ UNCHANGED added /\ wpc' = [wpc EXCEPT ![w] = "error"]
    BY <1>4 DEF TakeRecord, WorkerGoto
  <2>10. QED
    BY <1>2, <2>1, <2>6, <2>7, <2>8, <2>9
<1>5. QED
  BY <1>3, <1>4

\* The storage gets records of pages and nothing else.
LEMMA OnlyRecordsStep ==
  ASSUME IsCompleted, IInv', NEW w \in Worker, WorkerStep(w)
  PROVE  OnlyRecords'
<1>1. IInv /\ OnlyRecords /\ Records \subseteq Records'
  BY RecordsGrow DEF IsCompleted
<1>2. /\ added \union stored \subseteq Records
      /\ \A u : InResult(u) => u \in Records
  BY <1>1 DEF OnlyRecords, InResult
<1>3. CASE PutRecord(w) \/ TakeRecord(w)
  <2>1. page[w] # NoPage /\ stored' = stored
    BY <1>1, <1>3, ResultFacts
  <2>2. visit[UrlOf(page[w])].outcome = "record" => UrlOf(page[w]) \in Records
    BY <1>1, <2>1, PageType DEF IInv, Records
  <2>3. CASE UNCHANGED <<result, added>>
    BY <1>1, <2>1, <2>3 DEF OnlyRecords
  <2>4. CASE /\ visit[UrlOf(page[w])].outcome = "record" /\ UNCHANGED added
             /\ \A u : InResult(u)' <=> InResult(u) \/ u = UrlOf(page[w])
    <3>1. \A u : InResult(u)' => u \in Records'
      BY <1>1, <1>2, <2>2, <2>4
    <3>2. QED
      BY <1>1, <1>2, <2>1, <2>4, <3>1 DEF OnlyRecords, InResult
  <2>5. CASE /\ InResult(Head(result)) /\ \A u : InResult(u)' => InResult(u)
             /\ added' = added \union {Head(result)} \/ UNCHANGED added
    <3>1. \A u : InResult(u)' => u \in Records'
      BY <1>1, <1>2, <2>5
    <3>2. added' \subseteq Records' /\ stored' \subseteq Records'
      BY <1>1, <1>2, <2>1, <2>5
    <3>3. QED
      BY <3>1, <3>2 DEF OnlyRecords, InResult
  <2>6. QED
    BY <1>1, <1>3, <2>3, <2>4, <2>5, ResultFacts
<1>4. CASE ~(PutRecord(w) \/ TakeRecord(w))
  <2>1. UNCHANGED <<result, added, stored>>
    BY <1>1, <1>4, RecordsStay
  <2>2. QED
    BY <1>1, <2>1 DEF OnlyRecords
<1>5. QED
  BY <1>3, <1>4

\* A thread moves itself only.
LEMMA OthersStay ==
  ASSUME IInv, NEW w \in Worker, WorkerStep(w)
  PROVE  /\ mpc' = mpc /\ stored' = stored
         /\ \A v \in Worker : v # w => wpc'[v] = wpc[v] /\ page'[v] = page[v]
<1>1. /\ wpc \in [Worker -> WorkerPlaces]
      /\ page \in [Worker -> PageRequest \union {NoPage}]
  BY DEF IInv, TypeOK
<1>2. CASE Within(w)
  BY <1>1, <1>2, WithinMoves
<1>3. CASE FetchNothing(w) \/ FetchPage(w) \/ AddLink(w)
  BY <1>1, <1>3 DEF FetchNothing, FetchPage, AddLink, WorkerGoto, storageVars
<1>4. CASE Pop(w) \/ NotYet(w) \/ Release(w)
  BY <1>1, <1>4 DEF Pop, NotYet, Release, WorkerGoto, storageVars
<1>5. QED
  BY <1>2, <1>3, <1>4 DEF WorkerStep, GetStep, CrawlPageStep, Within

\* A thread whose storage has failed kills the job, and a job is killed for good.
LEMMA FailingStays ==
  ASSUME IInv, NEW w \in Worker, WorkerStep(w)
  PROVE  /\ job.die => job'.die
         /\ Failing => Failing'
<1>1. wpc \in [Worker -> WorkerPlaces] /\ job \in JobRecord
  BY DEF IInv, TypeOK
<1>2. CASE WorkerSetsError(w)
  <2>1. job'.die = job.die
    BY <1>1, <1>2 DEF WorkerSetsError, SetStatus, JobRecord
  <2>2. wpc' = [wpc EXCEPT ![w] = "kill"]
    BY <1>2 DEF WorkerSetsError, WorkerGoto
  <2>3. wpc'[w] = "kill"
    BY <1>1, <2>2
  <2>4. QED
    BY <2>1, <2>3 DEF Failing
<1>3. CASE WorkerKills(w)
  <2>1. job'.die
    BY <1>1, <1>3 DEF WorkerKills, KillRequested, JobRecord
  <2>2. QED
    BY <2>1 DEF Failing
<1>4. CASE ~(WorkerSetsError(w) \/ WorkerKills(w))
  <2>1. job' = job /\ wpc[w] \notin {"error", "kill"}
    <3>1. CASE WorkerStarts(w) \/ GetHead(w) \/ HostReady(w) \/ CheckRunning(w) \/ LinksAdded(w)
      BY <3>1 DEF WorkerStarts, GetHead, HostReady, CheckRunning, LinksAdded
    <3>2. CASE FetchNothing(w) \/ FetchPage(w) \/ PageThrows(w) \/ AddLink(w)
      BY <3>2 DEF FetchNothing, FetchPage, PageThrows, AddLink
    <3>3. CASE PutRecord(w) \/ TestResult(w) \/ TakeRecord(w) \/ WorkerKilled(w)
      BY <3>3 DEF PutRecord, TestResult, TakeRecord, WorkerKilled
    <3>4. CASE Pop(w) \/ NotYet(w) \/ Release(w)
      BY <3>4 DEF Pop, NotYet, Release
    <3>5. QED
      BY <1>4, <3>1, <3>2, <3>3, <3>4 DEF WorkerStep, GetStep, CrawlPageStep
  <2>2. QED
    BY <2>1, OthersStay DEF Failing
<1>5. QED
  BY <1>2, <1>3, <1>4

\* A record goes from the thread to the result queue and from there, by this thread or
\* another, to the storage.
LEMMA RecordsComingStep ==
  ASSUME IsCompleted, IInv', NEW w \in Worker, WorkerStep(w)
  PROVE  RecordsComing'
<1>1. IInv /\ RecordsComing
  BY DEF IsCompleted
<1>2. /\ wpc \in [Worker -> WorkerPlaces]
      /\ page \in [Worker -> PageRequest \union {NoPage}]
  BY <1>1 DEF IInv, TypeOK
<1> SUFFICES ASSUME mpc' # "ended", NEW u \in Records'
             PROVE  \/ u \in added' \union stored' \/ InResult(u)'
                    \/ \E v \in Worker : /\ wpc'[v] \in {"links", "put", "dead"}
                                         /\ UrlOf(page'[v]) = u
                    \/ Failing'
  BY DEF RecordsComing
<1>3. CASE u \notin Records
  <2>1. u = UrlOf(page[w]) /\ wpc'[w] = "links"
    BY <1>3, RecordsGrow
  <2>2. FetchNothing(w) \/ FetchPage(w)
    BY <1>3, RecordsGrow DEF Records
  <2>3. page' = page
    BY <1>1, <2>2, FetchFacts
  <2>4. QED
    BY <2>1, <2>3
<1>4. CASE u \in Records /\ Failing
  BY <1>1, <1>4, FailingStays
<1>5. CASE u \in added \union stored
  <2>1. CASE PutRecord(w) \/ TakeRecord(w)
    BY <1>1, <1>5, <2>1, ResultFacts
  <2>2. CASE ~(PutRecord(w) \/ TakeRecord(w))
    BY <1>1, <1>5, <2>2, RecordsStay
  <2>3. QED
    BY <2>1, <2>2
<1>6. CASE InResult(u)
  <2>1. CASE ~(PutRecord(w) \/ TakeRecord(w))
    BY <1>1, <1>6, <2>1, RecordsStay DEF InResult
  <2>2. CASE UNCHANGED result
    BY <1>6, <2>2 DEF InResult
  <2>3. CASE \A x : InResult(x)' <=> InResult(x) \/ x = UrlOf(page[w])
    BY <1>6, <2>3
  <2>4. CASE /\ \A x : InResult(x) => InResult(x)' \/ x = Head(result)
             /\ \/ added' = added \union {Head(result)}
                \/ wpc' = [wpc EXCEPT ![w] = "error"]
    <3>1. CASE InResult(u)'
      BY <3>1
    <3>2. CASE u = Head(result) /\ added' = added \union {Head(result)}
      BY <3>2
    <3>3. CASE wpc' = [wpc EXCEPT ![w] = "error"]
      BY <1>2, <3>3 DEF Failing
    <3>4. QED
      BY <1>6, <2>4, <3>1, <3>2, <3>3
  <2>5. QED
    BY <1>1, <2>1, <2>2, <2>3, <2>4, ResultFacts
<1>7. ASSUME u \in Records, NEW v \in Worker, wpc[v] \in {"links", "put", "dead"},
             UrlOf(page[v]) = u
      PROVE  \/ InResult(u)' \/ Failing'
             \/ \E x \in Worker : wpc'[x] \in {"links", "put", "dead"} /\ UrlOf(page'[x]) = u
  <2>1. CASE v # w
    BY <1>1, <1>7, <2>1, OthersStay
  <2>2. CASE v = w /\ AddLink(w)
    BY <1>1, <1>7, <2>2, AddLinkFacts
  <2>3. CASE v = w /\ LinksAdded(w)
    <3>1. wpc' = [wpc EXCEPT ![w] = "put"] /\ page' = page
      BY <2>3 DEF LinksAdded, WorkerGoto
    <3>2. wpc'[w] = "put"
      BY <1>2, <3>1
    <3>3. QED
      BY <1>7, <2>3, <3>1, <3>2
  <2>4. CASE v = w /\ PutRecord(w)
    <3>1. wpc[w] # "take" /\ visit[UrlOf(page[w])].outcome = "record"
      BY <1>7, <2>4 DEF Records
    <3>2. CASE wpc' = [wpc EXCEPT ![w] = "error"]
      BY <1>2, <3>2 DEF Failing
    <3>3. CASE \A x : InResult(x)' <=> InResult(x) \/ x = UrlOf(page[w])
      BY <1>7, <2>4, <3>3
    <3>4. QED
      BY <1>1, <2>4, <3>1, <3>2, <3>3, ResultFacts
  <2>5. CASE v = w /\ PageThrows(w)
    <3>1. wpc' = [wpc EXCEPT ![w] = "dead"] /\ page' = page
      BY <2>5 DEF PageThrows, WorkerGoto
    <3>2. wpc'[w] = "dead"
      BY <1>2, <3>1
    <3>3. QED
      BY <1>7, <2>5, <3>1, <3>2
  <2>6. ASSUME ~AddLink(w), ~LinksAdded(w), ~PutRecord(w), ~PageThrows(w)
        PROVE  wpc[w] \notin {"links", "put", "dead"}
    <3>1. CASE WorkerStarts(w) \/ GetHead(w) \/ HostReady(w) \/ CheckRunning(w)
      BY <3>1 DEF WorkerStarts, GetHead, HostReady, CheckRunning
    <3>2. CASE FetchNothing(w) \/ FetchPage(w) \/ Pop(w) \/ NotYet(w) \/ Release(w)
      BY <3>2 DEF FetchNothing, FetchPage, Pop, NotYet, Release
    <3>3. CASE \/ TestResult(w) \/ TakeRecord(w)
               \/ WorkerSetsError(w) \/ WorkerKills(w) \/ WorkerKilled(w)
      BY <3>3 DEF TestResult, TakeRecord, WorkerSetsError, WorkerKills, WorkerKilled
    <3>4. QED
      BY <2>6, <3>1, <3>2, <3>3 DEF WorkerStep, GetStep, CrawlPageStep
  <2>7. QED
    BY <1>7, <2>1, <2>2, <2>3, <2>4, <2>5, <2>6
<1>8. QED
  BY <1>1, <1>3, <1>4, <1>5, <1>6, <1>7, OthersStay DEF RecordsComing

\* When nobody works, no thread can begin to: the queue is empty.
LEMMA EndIsIdleStep ==
  ASSUME IsCompleted, IInv', NEW w \in Worker, WorkerStep(w)
  PROVE  EndIsIdle'
<1>1. IInv /\ EndIsIdle /\ mpc' = mpc
  BY OthersStay DEF IsCompleted
<1>2. /\ wpc \in [Worker -> WorkerPlaces]
      /\ page \in [Worker -> PageRequest \union {NoPage}]
  BY <1>1 DEF IInv, TypeOK
<1>3. ASSUME NobodyWorks
      PROVE  NobodyWorks' /\ Records' = Records /\ UNCHANGED <<added, stored>>
  <2>1. queue = <<>> /\ page[w] = NoPage
    BY <1>3 DEF NobodyWorks
  <2>2. WorkerStarts(w) \/ GetHead(w) \/ Pop(w)
    <3>1. wpc[w] \in {"none", "starting", "head", "pop", "left"}
      BY <1>1, <2>1 DEF IInv, HasPage
    <3>2. QED
      BY <3>1
         DEF WorkerStep, GetStep, CrawlPageStep, HostReady, NotYet, Release, CheckRunning,
             FetchNothing, FetchPage, PageThrows, AddLink, LinksAdded, PutRecord, TestResult,
             TakeRecord, WorkerSetsError, WorkerKills, WorkerKilled
  <2>3. UNCHANGED <<queue, page, visit, added, stored>>
    BY <2>1, <2>2 DEF WorkerStarts, GetHead, Pop, queueVars, storageVars
  <2>4. QED
    BY <1>3, <2>3 DEF NobodyWorks, Records
<1>4. QED
  BY <1>1, <1>3, FailingStays DEF EndIsIdle

\* Steps of run() and of a kill after the list of start URLs.
LEMMA MainCompleted ==
  ASSUME IsCompleted, IInv',
         \/ JobBegins \/ WaitLoop \/ FinishQueue \/ StopWorkers \/ TestStatus \/ TestKill
         \/ Rollback \/ Commit \/ SetFinished \/ KillBegin \/ KillFinish
  PROVE  IsCompleted'
<1>1. IInv /\ job \in JobRecord /\ result \in Seq(Url)
  BY DEF IsCompleted, IInv, TypeOK
<1>2. UNCHANGED <<queue, seen, underwork, page, visit, wpc, todo, result>>
  BY DEF JobBegins, WaitLoop, FinishQueue, StopWorkers, TestStatus, TestKill, Rollback, Commit,
         SetFinished, KillBegin, KillFinish, queueVars, threadVars, storageVars
<1>3. NothingLost' /\ AsVisited' /\ LinksComing' /\ ResultIsAwaited'
  BY <1>2 DEF IsCompleted, NothingLost, InQueue, Working, AsVisited, LinksComing,
              ResultIsAwaited, Takers
<1>4. Records' = Records
  BY <1>2 DEF Records
<1>5. job.die => job'.die
  <2>1. \A s : SetStatus(job, s).die = job.die
    BY <1>1 DEF SetStatus, JobRecord
  <2>2. KillRequested(job).die /\ KillOverwrite(job).die = job.die
    BY <1>1 DEF KillRequested, KillOverwrite, JobRecord
  <2>3. MarkForUpdate(job).die = job.die
    BY <1>1 DEF MarkForUpdate, JobRecord
  <2>4. QED
    BY <2>1, <2>2, <2>3
       DEF JobBegins, WaitLoop, FinishQueue, StopWorkers, TestStatus, TestKill, Rollback, Commit,
           SetFinished, KillBegin, KillFinish
<1>6. Failing => Failing'
  BY <1>2, <1>5 DEF Failing
<1>7. CASE Rollback
  <2>1. mpc' = "ended" /\ added' \union stored' \subseteq added \union stored
    BY <1>7 DEF Rollback, MainGoto
  <2>2. OnlyRecords'
    BY <1>2, <1>4, <2>1 DEF IsCompleted, OnlyRecords
  <2>3. RecordsComing' /\ EndIsIdle'
    BY <2>1 DEF RecordsComing, EndIsIdle
  <2>4. QED
    BY <1>3, <2>2, <2>3 DEF IsCompleted
<1>8. CASE ~Rollback
  <2>1. added' \union stored' = added \union stored /\ (mpc' # "ended" => mpc # "ended")
    <3>1. CASE Commit
      BY <3>1 DEF Commit, MainGoto
    <3>2. CASE JobBegins \/ WaitLoop \/ FinishQueue \/ StopWorkers \/ TestStatus
      BY <3>2 DEF JobBegins, WaitLoop, FinishQueue, StopWorkers, TestStatus, storageVars,
                  MainGoto
    <3>3. CASE TestKill \/ SetFinished \/ KillBegin \/ KillFinish
      BY <3>3 DEF TestKill, SetFinished, KillBegin, KillFinish, storageVars, MainGoto
    <3>4. QED
      BY <1>8, <3>1, <3>2, <3>3
  <2>2. OnlyRecords'
    BY <1>2, <1>4, <2>1 DEF IsCompleted, OnlyRecords
  <2>3. RecordsComing'
    BY <1>2, <1>4, <1>6, <2>1 DEF IsCompleted, RecordsComing, InResult
  <2>4. NobodyWorks' = NobodyWorks
    BY <1>2 DEF NobodyWorks
  <2>5. EndIsIdle'
    <3>1. CASE WaitLoop
      <4>1. AllDone => NobodyWorks
        <5>1. ASSUME AllDone
              PROVE  Holders = {}
          BY <1>1, <5>1, HoldersFinite, FS_EmptySet DEF AllDone, IInv, UnderworkCounts, Holders
        <5>2. QED
          BY <5>1 DEF AllDone, NobodyWorks, Holders
      <4>2. job' = job /\ mpc' = "finish" /\ (AllDone \/ job.die)
        BY <3>1 DEF WaitLoop, MainGoto, KillSent
      <4>3. QED
        BY <2>4, <4>1, <4>2 DEF EndIsIdle
    <3>2. CASE FinishQueue \/ StopWorkers
      BY <1>5, <2>4, <3>2
         DEF FinishQueue, StopWorkers, MainGoto, IsCompleted, EndIsIdle
    <3>3. CASE TestStatus
      BY <1>5, <2>4, <3>3 DEF TestStatus, MainGoto, IsCompleted, EndIsIdle
    <3>4. CASE TestKill
      <4>1. CASE mpc' = "rollback"
        BY <4>1 DEF EndIsIdle
      <4>2. CASE mpc' = "commit" /\ ~job.die
        <5>1. mpc = "killed"
          BY <3>4 DEF TestKill
        <5>2. NobodyWorks
          BY <4>2, <5>1 DEF IsCompleted, EndIsIdle
        <5>3. \A w \in Worker : wpc[w] \in {"none", "starting", "head", "pop", "left"}
          BY <1>1, <5>2 DEF NobodyWorks, IInv, HasPage
        <5>4. Len(result) = 0
          <6>1. Takers = {}
            BY <5>3 DEF Takers
          <6>2. Len(result) <= 0 /\ Len(result) \in Nat
            BY <1>1, <6>1, FS_EmptySet, LenProperties DEF IsCompleted, ResultIsAwaited
          <6>3. QED
            BY <6>2
        <5>5. \A u : ~InResult(u)
          BY <1>1, <5>4, LenProperties DEF InResult
        <5>6. ~Failing
          BY <4>2, <5>3 DEF Failing
        <5>7. Records \subseteq added \union stored
          BY <5>1, <5>3, <5>5, <5>6 DEF IsCompleted, RecordsComing
        <5>8. QED
          BY <1>4, <2>1, <2>4, <4>2, <5>2, <5>7 DEF EndIsIdle
      <4>3. QED
        BY <3>4, <4>1, <4>2 DEF TestKill, MainGoto, NotKillSent
    <3>5. CASE Commit
      <4>1. mpc = "commit" /\ mpc' \in {"setFinished", "ended"}
        BY <3>5 DEF Commit, MainGoto
      <4>2. QED
        BY <1>4, <2>1, <2>4, <4>1 DEF IsCompleted, EndIsIdle
    <3>6. CASE JobBegins \/ SetFinished
      BY <3>6 DEF JobBegins, SetFinished, MainGoto, EndIsIdle
    <3>7. CASE KillBegin \/ KillFinish
      <4>1. mpc' = mpc
        BY <3>7 DEF KillBegin, KillFinish
      <4>2. QED
        BY <1>4, <1>5, <2>1, <2>4, <4>1 DEF IsCompleted, EndIsIdle
    <3>8. QED
      BY <1>8, <3>1, <3>2, <3>3, <3>4, <3>5, <3>6, <3>7
  <2>6. QED
    BY <1>3, <2>2, <2>3, <2>5 DEF IsCompleted
<1>9. QED
  BY <1>7, <1>8

\* The start URLs are in the queue, and nothing has been visited.
LEMMA InitListCompleted ==
  ASSUME IsCompleted, IInv', InitWorkList
  PROVE  IsCompleted'
<1>1. /\ IInv /\ OnlyRecords /\ ResultIsAwaited
      /\ mpc = "init" /\ mpc' = "wait"
      /\ wpc' = [v \in Worker |-> "starting"]
      /\ UNCHANGED <<page, todo, visit, added, stored, result>>
  BY DEF IsCompleted, InitWorkList, MainGoto, storageVars
<1>2. PICK sites \in SUBSET Url :
        seen' = sites /\ {UrlOf(queue'[i]) : i \in DOMAIN queue'} = sites
  BY DEF InitWorkList
<1>3. \A u \in Url : visit[u].outcome = "none"
  BY <1>1 DEF IInv, NothingBefore
<1>4. Records' = Records /\ Records = {}
  BY <1>1, <1>3 DEF Records
<1>5. NothingLost'
  BY <1>2 DEF NothingLost, InQueue
<1>6. AsVisited'
  BY <1>1 DEF AsVisited, AfterFetch
<1>7. LinksComing'
  BY <1>1, <1>3 DEF LinksComing
<1>8. ResultIsAwaited'
  <2>1. Takers = {} /\ Takers' = {}
    BY <1>1 DEF Takers, IInv, NothingBefore
  <2>2. QED
    BY <1>1, <2>1 DEF ResultIsAwaited
<1>9. OnlyRecords'
  BY <1>1, <1>4 DEF OnlyRecords
<1>10. RecordsComing' /\ EndIsIdle'
  BY <1>1, <1>4 DEF RecordsComing, EndIsIdle
<1>11. QED
  BY <1>5, <1>6, <1>7, <1>8, <1>9, <1>10 DEF IsCompleted

\* A crawl begins with nothing seen.
LEMMA InitCompleted == Init => IsCompleted
<1> SUFFICES ASSUME Init PROVE IsCompleted
  OBVIOUS
<1>1. Records = {}
  BY DEF Init, NoVisit, Records
<1>2. Len(result) = 0 /\ DOMAIN result = {}
  BY DEF Init
<1>3. ResultIsAwaited
  BY <1>2, TakersFinite DEF ResultIsAwaited
<1>4. NothingLost /\ AsVisited /\ LinksComing
  BY DEF Init, NoVisit, NothingLost, AsVisited, AfterFetch, LinksComing
<1>5. OnlyRecords /\ RecordsComing /\ EndIsIdle
  BY <1>1, <1>2 DEF Init, OnlyRecords, RecordsComing, EndIsIdle
<1>6. QED
  BY <1>3, <1>4, <1>5, InitIInv DEF IsCompleted

\* Every step of the crawl preserves it.
LEMMA NextCompleted == IsCompleted /\ [Next]_vars => IsCompleted'
<1> SUFFICES ASSUME IsCompleted, [Next]_vars PROVE IsCompleted'
  OBVIOUS
<1>1. IInv'
  BY NextIInv DEF IsCompleted
<1>2. ASSUME NEW w \in Worker, WorkerStep(w)
      PROVE  IsCompleted'
  BY <1>1, <1>2, NothingLostStep, AsVisitedStep, LinksComingStep, ResultIsAwaitedStep,
     OnlyRecordsStep, RecordsComingStep, EndIsIdleStep DEF IsCompleted
<1>3. CASE MainStep \/ KillBegin \/ KillFinish
  BY <1>1, <1>3, MainCompleted, InitListCompleted DEF MainStep
<1>4. CASE UNCHANGED vars
  <2> USE <1>1, <1>4 DEF vars, queueVars, threadVars, storageVars, IsCompleted
  <2>1. NothingLost' /\ AsVisited' /\ LinksComing' /\ ResultIsAwaited'
    BY DEF NothingLost, InQueue, Working, AsVisited, LinksComing, ResultIsAwaited, Takers
  <2>2. OnlyRecords' /\ RecordsComing' /\ EndIsIdle'
    BY DEF OnlyRecords, Records, RecordsComing, InResult, Failing, EndIsIdle, NobodyWorks
  <2>3. QED
    BY <2>1, <2>2
<1>5. QED
  BY <1>2, <1>3, <1>4 DEF Next

-----------------------------------------------------------------------------
\* The invariant of the crawl: CrawlQueue, CrawlThread.run and WebRecordHarvestJob.run,
\* at any interleaving.
THEOREM Invariance == Spec => []IInv
<1>1. IInv /\ [Next]_vars => IInv'
  BY NextIInv
<1>2. QED
  BY <1>1, InitIInv, PTL DEF Spec

\* Every reachable state of a crawl is well typed; the counter of pages under work, in
\* particular, never goes below zero.
THEOREM TypeCorrect == Spec => []TypeOK
<1>1. IInv => TypeOK
  BY DEF IInv
<1>2. QED
  BY <1>1, Invariance, PTL

\* The counter that ends the crawl is the number of threads that hold a page:
\* CrawlQueue._pop and decrementUnderWork.
THEOREM CounterIsRight == Spec => []UnderworkCounts
<1>1. IInv => UnderworkCounts
  BY DEF IInv
<1>2. QED
  BY <1>1, Invariance, PTL

\* No page is in the queue, with a thread or visited twice: CrawlQueue._add.
THEOREM NoPageTwice == Spec => []PagesApart
<1>1. IInv => PagesApart
  BY DEF IInv
<1>2. QED
  BY <1>1, Invariance, PTL

\* Nothing that was seen is lost on its way through the queue, the threads, the result
\* queue and the storage: the invariant behind the next theorem.
THEOREM CompletionInvariance == Spec => []IsCompleted
<1>1. IsCompleted /\ [Next]_vars => IsCompleted'
  BY NextCompleted
<1>2. QED
  BY <1>1, InitCompleted, PTL DEF Spec

\* What a crawl commits is complete: WebRecordHarvestJob.harvestLoop and run.
THEOREM CommittedIsComplete == Spec => []CrawlIsComplete
<1>1. IsCompleted => CrawlIsComplete
  <2> SUFFICES ASSUME IsCompleted, mpc \in {"commit", "setFinished"}
               PROVE  /\ \A u \in seen : visit[u].outcome # "none"
                      /\ \A u \in seen :
                           visit[u].depth < MaxDepth => visit[u].links \subseteq seen
                      /\ added \union stored = Records
                      /\ \A w \in Worker : page[w] = NoPage
    BY DEF CrawlIsComplete
  <2>1. NobodyWorks /\ Records \subseteq added \union stored
    BY DEF IsCompleted, EndIsIdle
  <2>2. \A u : ~InQueue(u)
    BY <2>1 DEF NobodyWorks, InQueue
  <2>3. Working = {} /\ \A w \in Worker : wpc[w] \notin {"links", "dead"}
    BY <2>1 DEF NobodyWorks, Working, IsCompleted, IInv, HasPage
  <2>4. \A u \in seen : visit[u].outcome # "none"
    BY <2>2, <2>3 DEF IsCompleted, NothingLost
  <2>5. \A u \in seen : visit[u].depth < MaxDepth => visit[u].links \subseteq seen
    BY <2>3, <2>4 DEF IsCompleted, LinksComing, IInv, TypeOK
  <2>6. added \union stored \subseteq Records
    BY DEF IsCompleted, OnlyRecords
  <2>7. QED
    BY <2>1, <2>4, <2>5, <2>6 DEF NobodyWorks
<1>2. QED
  BY <1>1, CompletionInvariance, PTL

=============================================================================

------------------------- MODULE OaiHarvestJob_proofs -------------------------
(***************************************************************************)
(* Proofs about OaiHarvestJob, for any finite set of records, any bound of *)
(* the clock, any length of a day and any size of a page:                  *)
(*   Invariance          Spec => []IInv                                    *)
(*   TypeCorrect         Spec => []TypeOK                                  *)
(*   KeepsContract       Spec => ContractHolds                             *)
(*   MarkerStaysBehind   Spec => []MarkerIsBehind                          *)
(*   SkipsNothing        Spec => []NothingSkipped                          *)
(* The last two are for all faults, kills, restarts and crashes; what they *)
(* leave out is what spoils the resource or its row, see History there.    *)
(***************************************************************************)
EXTENDS OaiHarvestJob, HarvestJob_proofs, FiniteSetTheorems, TLAPS

-----------------------------------------------------------------------------
(* Dates and pages *)

\* Days are numbers.
LEMMA DayType ==
  ASSUME NEW t \in Nat
  PROVE  Day(t) \in Nat
BY TimeAssumption DEF Day

\* A later time is not on an earlier day.
LEMMA DayMonotonic ==
  ASSUME NEW s \in Nat, NEW t \in Nat, s <= t
  PROVE  Day(s) <= Day(t)
<1> DEFINE a == s \div DayLength
           b == t \div DayLength
<1>1. /\ a \in Nat /\ s = DayLength * a + (s % DayLength)
      /\ s % DayLength \in 0..(DayLength - 1)
  BY TimeAssumption
<1>2. /\ b \in Nat /\ t = DayLength * b + (t % DayLength)
      /\ t % DayLength \in 0..(DayLength - 1)
  BY TimeAssumption
<1>3. SUFFICES ASSUME a > b PROVE FALSE
  BY <1>1, <1>2 DEF Day
<1>4. DayLength * a >= DayLength * (b + 1)
  BY <1>1, <1>2, <1>3, TimeAssumption
<1>5. QED
  BY <1>1, <1>2, <1>4, TimeAssumption

\* A response to a request for a list is its first records and the token for the others.
LEMMA PagesOfList ==
  ASSUME NEW list \in SUBSET Rec, NEW p \in Pages(list)
  PROVE  /\ p \in Response
         /\ p.recs \union p.next = list /\ p.recs \intersect p.next = {}
         /\ p.kind \in {"page", "noRecordsMatch"}
         /\ p.kind = "noRecordsMatch" => list = {}
BY DEF Pages, Response, Tokens

LEMMA NoResponseType == NoResponse \in Response
BY DEF NoResponse, Response, Tokens

\* What a transaction leaves behind, however it ends.
LEMMA StorageType ==
  ASSUME TypeOK, CommitStorage \/ RollbackStorage \/ AbandonStorage
  PROVE  pending' = Nothing /\ pending' \in [Rec -> Time] /\ stored' \in [Rec -> Time]
<1>1. pending \in [Rec -> Time] /\ stored \in [Rec -> Time] /\ 0 \in Time
  BY TimeAssumption DEF TypeOK, Time
<1>2. pending' = Nothing /\ Nothing \in [Rec -> Time]
  BY <1>1 DEF CommitStorage, RollbackStorage, AbandonStorage, Nothing
<1>3. stored' \in [Rec -> Time]
  BY <1>1 DEF CommitStorage, RollbackStorage, AbandonStorage
<1>4. QED
  BY <1>2, <1>3

-----------------------------------------------------------------------------
(* Types *)

\* A new job is well typed.
LEMMA InitTypeOK == Init => TypeOK
<1> SUFFICES ASSUME Init PROVE TypeOK
  OBVIOUS
<1>1. {0, 1} \subseteq Time
  BY TimeAssumption DEF Time
<1>2. resource \in Resource
  BY <1>1 DEF Init, Resource, Tokens, NoToken, HarvestStatus
<1>3. job \in JobRecord /\ "NEW" \in HarvestStatus
  BY NewJobStatus DEF Init, HarvestStatus
<1>4. Nothing \in [Rec -> Time] /\ stamp \in [Rec -> Time]
  BY <1>1 DEF Init, Nothing
<1>5. Cardinality(Rec) \in Nat
  BY RecAssumption, FS_CardinalityType
<1>6. response \in Response
  BY NoResponseType DEF Init
<1>7. 0 \in 0..Cardinality(Rec) /\ settings \in Settings
  BY <1>5 DEF Init
<1>8. QED
  BY <1>1, <1>2, <1>3, <1>4, <1>6, <1>7 DEF Init, TypeOK, Places, Tokens, NoToken

\* What is recorded of the resource and of the row.
LEMMA HistoryType ==
  ASSUME TypeOK
  PROVE  /\ RowSaved \/ HarvestKept \/ HarvestLost => rowState' \in {"sound", "open", "spoiled"}
         /\ RowLoaded => spoiled' \in BOOLEAN /\ rowState' \in {"sound", "open", "spoiled"}
BY DEF TypeOK, RowSaved, HarvestKept, HarvestLost, RowLoaded

\* The server, the scheduler and kill().
LEMMA OutsideTypeOK ==
  ASSUME IInv,
         \/ Tick \/ \E r \in Rec : Publish(r)
         \/ SchedulerStep \/ StopJob \/ KillFinish \/ Crash
  PROVE  TypeOK'
<1> USE DEF IInv
<1>1. CASE Tick
  BY <1>1, TimeAssumption DEF Tick, TypeOK, Time, schedVars, runVars, storeVars, history
<1>2. CASE \E r \in Rec : Publish(r)
  <2>1. stamp' \in [Rec -> Time]
    BY <1>2 DEF Publish, TypeOK
  <2>2. QED
    BY <1>2, <2>1 DEF Publish, TypeOK, schedVars, runVars, storeVars, history
<1>3. CASE StartJob
  BY <1>3 DEF StartJob, TypeOK, serverVars, schedVars, runVars, storeVars, history
<1>4. CASE Persist
  <2>1. job.run \in HarvestStatus /\ ClearUpdated(job) \in JobRecord
    BY JobOperationsType DEF TypeOK, StatusFits, JobRecord, StatusOrNull
  <2>2. resource' \in Resource /\ row' = resource'
    BY <1>4, <2>1 DEF Persist, TypeOK, Resource
  <2>3. QED
    BY <1>4, <2>1, <2>2, HistoryType DEF Persist, TypeOK, serverVars, runVars, storeVars
<1>5. CASE NotifyFinish
  <2>1. FinishReceived(job) \in JobRecord
    BY JobOperationsType DEF TypeOK
  <2>2. QED
    BY <1>5, <2>1, HistoryType DEF NotifyFinish, TypeOK, serverVars, runVars, storeVars
<1>6. CASE StopJob \/ KillAll
  <2>1. KillRequested(job) \in JobRecord /\ KillWillOverwrite(job) \in BOOLEAN
    BY JobOperationsType DEF TypeOK, KillWillOverwrite
  <2>2. sched' \in {"up", "stopping", "down"}
    BY <1>6 DEF StopJob, KillAll, TypeOK
  <2>3. KillBegin
    BY <1>6 DEF StopJob, KillAll
  <2>4. QED
    BY <2>1, <2>2, <2>3 DEF KillBegin, TypeOK, serverVars, runVars, storeVars, history
<1>7. CASE KillFinish
  <2>1. KillOverwrite(job) \in JobRecord
    BY JobOperationsType DEF TypeOK
  <2>2. QED
    BY <1>7, <2>1 DEF KillFinish, TypeOK, serverVars, schedVars, runVars, storeVars, history
<1>8. CASE RecordShutdown
  <2>1. resource' \in Resource /\ row' \in Resource
    BY <1>8 DEF RecordShutdown, TypeOK, Resource, HarvestStatus
  <2>2. QED
    BY <1>8, <2>1, HistoryType DEF RecordShutdown, TypeOK, serverVars, runVars, storeVars
<1>9. CASE Crash
  <2>1. NewJob(row.status) \in JobRecord /\ row.status \in HarvestStatus
    BY NewJobStatus DEF TypeOK, Resource
  <2>2. 0 \in 0..Cardinality(Rec)
    BY RecAssumption, FS_CardinalityType
  <2>3. pending' \in [Rec -> Time] /\ stored' \in [Rec -> Time]
    BY <1>9, StorageType DEF Crash, ForgetRun
  <2>4. response' \in Response
    BY <1>9, NoResponseType DEF Crash, ForgetRun
  <2>5. QED
    BY <1>9, <2>1, <2>2, <2>3, <2>4, HistoryType
       DEF Crash, ForgetRun, Goto, TypeOK, serverVars, Tokens, NoToken, Places
<1>10. CASE Deploy
  <2>1. NewJob(row.status) \in JobRecord /\ row.status \in HarvestStatus
    BY NewJobStatus DEF TypeOK, Resource
  <2>2. QED
    BY <1>10, <2>1, HistoryType DEF Deploy, TypeOK, serverVars, runVars, storeVars
<1>11. QED
  BY <1>1, <1>2, <1>3, <1>4, <1>5, <1>6, <1>7, <1>8, <1>9, <1>10 DEF SchedulerStep

\* The job record that a step of run() leaves.
LEMMA RunJobType ==
  ASSUME TypeOK, RunStep
  PROVE  job' \in JobRecord
<1>1. /\ {"RUNNING", "OK", "WARN", "ERROR", "FINISHED"} \subseteq StatusOrNull
      /\ job \in JobRecord
  BY DEF TypeOK, StatusOrNull, HarvestStatus
<1>2. \A s \in StatusOrNull : /\ SetStatus(job, s) \in JobRecord
                              /\ MarkForUpdate(SetStatus(job, s)) \in JobRecord
  BY <1>1, JobOperationsType
<1>3. MarkForUpdate(job) \in JobRecord /\ AtReturn("OAI", job) \in JobRecord
  BY <1>1, JobOperationsType
<1>4. QED
  BY <1>1, <1>2, <1>3
     DEF RunStep, JobBegins, Request, CheckResponse, StoreRecord, PageDone, Ending, MakeOk,
         HandleOaiError, HandleException, Marker, Commit, Advance, Finish, SetFinished,
         Premature, ResetStatus, Partial, JobReturns

\* The resource that a step of run() leaves.
LEMMA RunResourceType ==
  ASSUME TypeOK, RunStep
  PROVE  resource' \in Resource
<1>1. /\ resource \in Resource /\ clock \in Time /\ 0 \in Time
      /\ {startToken, pageToken, NoToken, response.next} \subseteq Tokens
  BY TimeAssumption DEF TypeOK, Tokens, NoToken, Response, Time
<1>2. \A k \in Tokens : [resource EXCEPT !.token = k] \in Resource
  BY <1>1 DEF Resource
<1>3. CASE JobBegins
  BY <1>1, <1>3 DEF JobBegins, Resource
<1>4. CASE Advance
  BY <1>1, <1>4 DEF Advance, Resource
<1>5. CASE HandleException
  BY <1>1, <1>5 DEF HandleException, Resource
<1>6. QED
  BY <1>1, <1>2, <1>3, <1>4, <1>5
     DEF RunStep, Request, CheckResponse, StoreRecord, PageDone, Ending, MakeOk,
         HandleOaiError, Marker, Commit, Finish, SetFinished,
         Premature, ResetStatus, Partial, JobReturns

\* A record that is stored has not been stored before: there is room in the count.
LEMMA CountOfStored ==
  ASSUME IInv, pc = "store", NEW r \in response.recs,
         pending' = [pending EXCEPT ![r] = stamp[r]]
  PROVE  LET given == {q \in Rec : pending[q] # 0}
         IN  /\ r \in Rec /\ r \notin given /\ stamp[r] \in Time \ {0}
             /\ given' = given \union {r}
             /\ Cardinality(given') = added + 1
             /\ added + 1 \in 0..Cardinality(Rec)
<1> DEFINE given == {q \in Rec : pending[q] # 0}
<1>1. /\ r \in Rec /\ pending \in [Rec -> Time] /\ stamp \in [Rec -> Time]
      /\ stamp[r] # 0 /\ stamp[r] \in Time
  BY DEF IInv, TypeOK, Response, Tokens, TokensOnServer
<1>2. r \notin given /\ added = Cardinality(given)
  BY DEF IInv, StoredOnce
<1>3. given' = given \union {r}
  BY <1>1
<1>4. IsFiniteSet(given) /\ IsFiniteSet(given \union {r})
  BY <1>1, RecAssumption, FS_Subset
<1>5. Cardinality(given \union {r}) = Cardinality(given) + 1
  BY <1>2, <1>4, FS_AddElement
<1>6. /\ Cardinality(given \union {r}) <= Cardinality(Rec)
      /\ Cardinality(Rec) \in Nat /\ Cardinality(given) \in Nat
  <2>1. given \union {r} \subseteq Rec
    BY <1>1
  <2>2. QED
    BY <1>4, <2>1, RecAssumption, FS_Subset, FS_CardinalityType
<1>7. added + 1 \in 0..Cardinality(Rec) /\ Cardinality(given \union {r}) = added + 1
  BY <1>2, <1>5, <1>6
<1>8. stamp[r] \in Time \ {0}
  BY <1>1
<1>9. QED
  BY <1>1, <1>2, <1>3, <1>7, <1>8

\* The steps of run().
LEMMA RunTypeOK ==
  ASSUME IInv, RunStep
  PROVE  TypeOK'
<1>1. job' \in JobRecord /\ resource' \in Resource
  BY RunJobType, RunResourceType DEF IInv
<1>2. UNCHANGED <<clock, stamp, settings, row, sched, last, killing>>
  BY DEF RunStep, JobBegins, Request, CheckResponse, StoreRecord, PageDone, Ending, MakeOk,
         HandleOaiError, HandleException, Marker, Commit, Advance, Finish, SetFinished,
         Premature, ResetStatus, Partial, JobReturns, Elsewhere, NotOfTheJob, serverVars, schedVars
<1>3. thread' \in {"none", "started", "running"} /\ pc' \in Places
  BY DEF IInv, TypeOK, Places, Goto, ForgetRun, RunStep, JobBegins, Request, CheckResponse,
         StoreRecord, PageDone, Ending, MakeOk, HandleOaiError, HandleException, Marker, Commit,
         Advance, Finish, SetFinished, Premature, ResetStatus, Partial, JobReturns
<1>4. startToken' \in Tokens /\ pageToken' \in Tokens
  BY DEF IInv, TypeOK, Resource, Response, Tokens, NoToken, ForgetRun, RunStep, JobBegins,
         Request, CheckResponse, StoreRecord, PageDone, Ending, MakeOk, HandleOaiError,
         HandleException, Marker, Commit, Advance, Finish, SetFinished, Premature, ResetStatus,
         Partial, JobReturns, runVars
<1>5. response' \in Response
  <2>1. CASE Request
    <3>1. [kind |-> "error", recs |-> {}, next |-> {}] \in Response
      BY DEF Response, Tokens
    <3>2. Matching(resource.from, resource.until) \subseteq Rec /\ pageToken \subseteq Rec
      BY DEF Matching, IInv, TypeOK, Tokens
    <3>3. QED
      BY <2>1, <3>1, <3>2, PagesOfList, NoResponseType DEF Request
  <2>2. CASE StoreRecord
    BY <2>2 DEF StoreRecord, IInv, TypeOK, Response, Tokens
  <2>3. CASE JobReturns
    BY <2>3, NoResponseType DEF JobReturns, ForgetRun
  <2>4. QED
    BY <2>1, <2>2, <2>3 DEF IInv, TypeOK, RunStep, JobBegins, CheckResponse,
         PageDone, Ending, MakeOk, HandleOaiError, HandleException, Marker, Commit,
         Advance, Finish, SetFinished, Premature, ResetStatus, Partial, runVars
<1>6. /\ added' \in 0..Cardinality(Rec)
      /\ pending' \in [Rec -> Time] /\ stored' \in [Rec -> Time]
  <2>1. CASE StoreRecord
    <3>1. CASE pending' = pending /\ added' = added
      BY <2>1, <3>1 DEF StoreRecord, IInv, TypeOK
    <3>2. ASSUME NEW r \in response.recs, pending' = [pending EXCEPT ![r] = stamp[r]],
                 added' = added + 1
          PROVE  added' \in 0..Cardinality(Rec) /\ pending' \in [Rec -> Time]
      <4>1. stamp[r] \in Time /\ added + 1 \in 0..Cardinality(Rec)
        BY <2>1, <3>2, CountOfStored DEF StoreRecord
      <4>2. QED
        BY <3>2, <4>1 DEF IInv, TypeOK
    <3>3. QED
      BY <2>1, <3>1, <3>2 DEF StoreRecord, IInv, TypeOK
  <2>2. CASE Commit \/ Partial \/ JobReturns
    <3>1. \/ CommitStorage \/ RollbackStorage \/ AbandonStorage
          \/ UNCHANGED storeVars
      BY <2>2 DEF Commit, Partial, JobReturns, ForgetRun
    <3>2. pending' \in [Rec -> Time] /\ stored' \in [Rec -> Time]
      BY <3>1, StorageType DEF IInv, TypeOK, storeVars
    <3>3. 0 \in 0..Cardinality(Rec) /\ added \in 0..Cardinality(Rec)
      BY RecAssumption, FS_CardinalityType DEF IInv, TypeOK
    <3>4. added' \in {0, added}
      BY <2>2 DEF Commit, Partial, JobReturns, ForgetRun, runVars
    <3>5. QED
      BY <3>2, <3>3, <3>4
  <2>3. QED
    BY <2>1, <2>2 DEF IInv, TypeOK, RunStep, JobBegins, Request, CheckResponse, ForgetRun,
         PageDone, Ending, MakeOk, HandleOaiError, HandleException, Marker, Commit,
         Advance, Finish, SetFinished, Premature, ResetStatus, Partial, JobReturns, runVars,
         storeVars
<1>7. spoiled' \in BOOLEAN /\ rowState' \in {"sound", "open", "spoiled"}
  <2>1. CASE UNCHANGED rowState \/ HarvestKept \/ HarvestLost
    <3>1. rowState' \in {"sound", "open", "spoiled"}
      BY <2>1, HistoryType DEF IInv, TypeOK
    <3>2. spoiled' \in BOOLEAN
      BY DEF IInv, TypeOK, JobRecord, RunStep, JobBegins, Request, CheckResponse, StoreRecord,
         PageDone, Ending, MakeOk, HandleOaiError, HandleException, Marker, Commit, Advance,
         Finish, SetFinished, Premature, ResetStatus, Partial, JobReturns, Elsewhere, history
    <3>3. QED
      BY <3>1, <3>2
  <2>2. CASE JobBegins
    BY <2>2 DEF JobBegins, IInv, TypeOK, JobRecord
  <2>3. QED
    BY <2>1, <2>2
    DEF RunStep, Request, CheckResponse, StoreRecord, PageDone, Ending, MakeOk,
        HandleOaiError, HandleException, Marker, Commit, Advance, Finish, SetFinished,
        Premature, ResetStatus, Partial, JobReturns, CommitStorage, RollbackStorage, Elsewhere,
        history
<1>8. QED
  BY <1>1, <1>2, <1>3, <1>4, <1>5, <1>6, <1>7 DEF IInv, TypeOK

-----------------------------------------------------------------------------
(* The count of the records and the tokens *)

\* No step of run() takes a record from the server, or brings one that is not there.
LEMMA TokensStayOnServer ==
  ASSUME IInv, [Next]_vars
  PROVE  TokensOnServer'
<1> USE DEF IInv, TokensOnServer
<1>1. \A r \in Rec : stamp[r] # 0 => stamp'[r] # 0
  <2>1. CASE \E q \in Rec : Publish(q)
    <3>1. PICK q \in Rec : Publish(q)
      BY <2>1
    <3>2. clock # 0 /\ stamp \in [Rec -> Time] /\ stamp' = [stamp EXCEPT ![q] = clock]
      <4>1. clock \in Nat /\ stamp[q] \in Nat /\ stamp[q] < clock
        BY <3>1, TimeAssumption DEF Publish, TypeOK, Time
      <4>2. QED
        BY <3>1, <4>1 DEF Publish, TypeOK
    <3>3. QED
      BY <3>2
  <2>2. CASE UNCHANGED stamp
    BY <2>2
  <2>3. QED
    BY <2>1, <2>2 DEF Next, RunStep, SchedulerStep, Tick, StopJob, KillFinish, Crash, StartJob,
         Persist, NotifyFinish, RecordShutdown, KillAll, KillBegin, Deploy, JobBegins, Request,
         CheckResponse, StoreRecord, PageDone, Ending, MakeOk, HandleOaiError,
         HandleException, Marker, Commit, Advance, Finish, SetFinished, Premature, ResetStatus,
         Partial, JobReturns, Elsewhere, NotOfTheJob, serverVars, vars
<1> DEFINE all == resource.token \union row.token \union startToken \union pageToken
                    \union response.recs \union response.next
<1>2. all \subseteq Rec
  BY DEF TypeOK, Resource, Response, Tokens
<1>3. \A r \in all' : r \in all \/ (r \in Rec /\ stamp[r] # 0)
  <2> USE DEF NoToken, NoResponse
  <2>1. CASE Request
    <3>1. Matching(resource.from, resource.until) \subseteq {r \in Rec : stamp[r] # 0}
      BY DEF Matching
    <3>2. UNCHANGED <<resource, row, startToken, pageToken>>
      BY <2>1 DEF Request, Elsewhere, NotOfTheJob, schedVars
    <3>3. \/ response'.recs = {} /\ response'.next = {}
          \/ response' \in Pages(IF pageToken = NoToken
                                   THEN Matching(resource.from, resource.until) ELSE pageToken)
      BY <2>1 DEF Request
    <3>4. response'.recs \union response'.next \subseteq
             pageToken \union {r \in Rec : stamp[r] # 0}
      <4>1. pageToken \subseteq Rec /\ Matching(resource.from, resource.until) \subseteq Rec
        BY <3>1 DEF TypeOK, Tokens
      <4>2. QED
        BY <3>1, <3>3, <4>1, PagesOfList
    <3>5. QED
      BY <3>2, <3>4
  <2>2. CASE StoreRecord
    <3>1. UNCHANGED <<row, startToken, pageToken>> /\ response'.next = response.next
          /\ response'.recs \subseteq response.recs
      BY <2>2 DEF StoreRecord, Elsewhere, NotOfTheJob, schedVars, TypeOK, Response
    <3>2. resource'.token \in {resource.token, pageToken}
      BY <2>2 DEF StoreRecord, TypeOK, Resource
    <3>3. QED
      BY <3>1, <3>2
  <2>3. CASE RunStep /\ ~Request /\ ~StoreRecord
    <3>1. UNCHANGED row
      BY <2>3 DEF RunStep, JobBegins, CheckResponse, PageDone, Ending, MakeOk, HandleOaiError,
         HandleException, Marker, Commit, Advance, Finish, SetFinished, Premature, ResetStatus,
         Partial, JobReturns, Elsewhere, NotOfTheJob, schedVars
    <3>2. /\ response' = response \/ (response'.recs = {} /\ response'.next = {})
          /\ startToken' \in {startToken, resource.token, {}}
          /\ pageToken' \in {pageToken, resource.token, response.next, {}}
      BY <2>3 DEF RunStep, JobBegins, CheckResponse, PageDone, Ending, MakeOk, HandleOaiError,
         HandleException, Marker, Commit, Advance, Finish, SetFinished, Premature, ResetStatus,
         Partial, JobReturns, ForgetRun, runVars
    <3>3. resource'.token \in {resource.token, response.next, startToken, {}}
      BY <2>3 DEF TypeOK, Resource, RunStep, JobBegins, CheckResponse, PageDone, Ending, MakeOk,
         HandleOaiError, HandleException, Marker, Commit, Advance, Finish, SetFinished,
         Premature, ResetStatus, Partial, JobReturns
    <3>4. QED
      BY <3>1, <3>2, <3>3
  <2>4. CASE Tick \/ (\E r \in Rec : Publish(r)) \/ StopJob \/ KillFinish \/ UNCHANGED vars
             \/ StartJob \/ NotifyFinish \/ KillAll
    <3>1. UNCHANGED <<resource, startToken, pageToken, response>>
      BY <2>4 DEF Tick, Publish, StopJob, KillFinish, KillAll, KillBegin, StartJob,
                  NotifyFinish, vars, runVars
    <3>2. row' \in {row, resource}
      BY <2>4 DEF Tick, Publish, StopJob, KillFinish, KillAll, KillBegin, StartJob,
                  NotifyFinish, vars, schedVars
    <3>3. QED
      BY <3>1, <3>2
  <2>5. CASE Persist \/ RecordShutdown
    <3>1. UNCHANGED <<startToken, pageToken, response>>
      BY <2>5 DEF Persist, RecordShutdown, runVars
    <3>2. resource'.token = resource.token /\ row' \in {row, resource'}
      BY <2>5 DEF Persist, RecordShutdown, TypeOK, Resource
    <3>3. QED
      BY <3>1, <3>2
  <2>6. CASE Crash \/ Deploy
    BY <2>6 DEF Crash, Deploy, ForgetRun, runVars
  <2>7. QED
    BY <2>1, <2>2, <2>3, <2>4, <2>5, <2>6 DEF Next, SchedulerStep
<1>4. \A r \in all' : stamp'[r] # 0
  BY <1>1, <1>2, <1>3
<1>5. QED
  BY <1>4

\* Nothing is added between the requests and outside of a run.
LEMMA CountKept ==
  ASSUME IInv,
         \/ UNCHANGED <<thread, pc, pending, added, pageToken, response>>
         \/ /\ UNCHANGED <<pc, pending, added, pageToken, response>>
            /\ thread = "none" /\ thread' = "started"
         \/ /\ pc' \notin {"request", "check", "store"}
            /\ thread' = "running" \/ (pending' = Nothing /\ added' = 0)
  PROVE  StoredOnce'
BY DEF IInv, StoredOnce

\* The count is right while the pages come in.
LEMMA PagesStoredOnce ==
  ASSUME IInv, JobBegins \/ Request \/ CheckResponse \/ StoreRecord \/ PageDone
  PROVE  StoredOnce'
<1> DEFINE given == {r \in Rec : pending[r] # 0}
<1>1. thread' = "running"
  BY DEF IInv, StatusFits, JobBegins, Request, CheckResponse, StoreRecord, PageDone
<1>2. CASE JobBegins
  <2>1. pending = Nothing /\ added = 0
    BY <1>2 DEF JobBegins, IInv, StoredOnce
  <2>2. given = {} /\ Cardinality(given) = 0
    BY <2>1, FS_EmptySet DEF Nothing
  <2>3. UNCHANGED <<pending, added>> /\ pc' \in {"request", "exception"}
    BY <1>2 DEF JobBegins, storeVars, Goto
  <2>4. QED
    BY <1>1, <2>1, <2>2, <2>3 DEF StoredOnce
<1>3. CASE Request
  <2>1. /\ pc = "request" /\ UNCHANGED <<pending, added, pageToken>>
        /\ pc' \in {"check", "exception"}
    BY <1>3 DEF Request, storeVars, Goto
  <2>2. /\ added = Cardinality(given) /\ pageToken \intersect given = {}
        /\ pageToken = NoToken => given = {}
    BY <2>1 DEF IInv, StoredOnce
  <2>3. /\ (response'.recs \union response'.next) \intersect given = {}
        /\ response'.recs \intersect response'.next = {}
    <3>1. CASE response'.recs = {} /\ response'.next = {}
      BY <3>1
    <3>2. CASE response' \in Pages(IF pageToken = NoToken
                                     THEN Matching(resource.from, resource.until)
                                     ELSE pageToken)
      <4>1. pageToken \subseteq Rec /\ Matching(resource.from, resource.until) \subseteq Rec
        BY DEF IInv, TypeOK, Tokens, Matching
      <4>2. QED
        BY <2>2, <3>2, <4>1, PagesOfList
    <3>3. QED
      BY <1>3, <3>1, <3>2 DEF Request, NoResponse
  <2>4. QED
    BY <1>1, <2>1, <2>2, <2>3 DEF StoredOnce
<1>4. CASE CheckResponse
  <2>1. /\ pc = "check" /\ pc' \in {"ending", "store", "oaiError"}
        /\ UNCHANGED <<pending, added, pageToken, response>>
    BY <1>4 DEF CheckResponse, Goto, runVars, storeVars
  <2>2. QED
    BY <1>1, <2>1 DEF IInv, StoredOnce
<1>5. CASE StoreRecord
  <2>1. pc = "store"
    BY <1>5 DEF StoreRecord
  <2>2. CASE pc' = "store"
    <3>1. PICK r \in response.recs :
            /\ pending' = [pending EXCEPT ![r] = stamp[r]]
            /\ added' = added + 1
            /\ response' = [response EXCEPT !.recs = @ \ {r}]
      BY <1>5, <2>1, <2>2 DEF StoreRecord, Goto
    <3>2. /\ given' = given \union {r} /\ Cardinality(given') = added + 1
      BY <2>1, <3>1, CountOfStored
    <3>3. /\ response'.recs = response.recs \ {r} /\ response'.next = response.next
      BY <3>1 DEF IInv, TypeOK, Response
    <3>4. /\ (response.recs \union response.next) \intersect given = {}
          /\ response.recs \intersect response.next = {}
      BY <2>1 DEF IInv, StoredOnce
    <3>5. (response'.recs \union response'.next) \intersect given' = {}
      BY <3>1, <3>2, <3>3, <3>4
    <3>6. QED
      BY <1>1, <2>2, <3>1, <3>2, <3>3, <3>4, <3>5 DEF StoredOnce
  <2>3. CASE pc' # "store"
    BY <1>1, <1>5, <2>3, CountKept DEF StoreRecord, Goto
  <2>4. QED
    BY <2>2, <2>3
<1>6. CASE PageDone
  <2>1. /\ pc = "store" /\ UNCHANGED <<pending, added>> /\ pageToken' = response.next
        /\ pc' = "ending" \/ (pc' = "request" /\ response.next # NoToken)
    BY <1>6 DEF PageDone, Goto, storeVars
  <2>2. added = Cardinality(given) /\ response.next \intersect given = {}
    BY <2>1 DEF IInv, StoredOnce
  <2>3. QED
    BY <1>1, <2>1, <2>2 DEF StoredOnce
<1>7. QED
  BY <1>2, <1>3, <1>4, <1>5, <1>6

\* Every step keeps the count.
LEMMA NextStoredOnce ==
  ASSUME IInv, [Next]_vars
  PROVE  StoredOnce'
<1>1. CASE JobBegins \/ Request \/ CheckResponse \/ StoreRecord \/ PageDone
  BY <1>1, PagesStoredOnce
<1>2. CASE \/ Ending \/ MakeOk \/ HandleOaiError \/ HandleException \/ Marker
           \/ Commit \/ Advance \/ Finish \/ SetFinished \/ Premature \/ ResetStatus \/ Partial
  <2>1. thread' = "running"
    BY <1>2 DEF Ending, MakeOk, HandleOaiError, HandleException, Marker, Commit, Advance,
         Finish, SetFinished, Premature, ResetStatus, Partial, IInv, StatusFits
  <2>2. pc' \notin {"request", "check", "store"}
    BY <1>2 DEF Ending, MakeOk, HandleOaiError, HandleException, Marker, Commit, Advance,
         Finish, SetFinished, Premature, ResetStatus, Partial, Goto
  <2>3. QED
    BY <2>1, <2>2, CountKept
<1>3. CASE JobReturns \/ Crash
  <2>1. pc' = "idle" /\ added' = 0 /\ AbandonStorage
    BY <1>3 DEF JobReturns, Crash, ForgetRun, Goto
  <2>2. QED
    BY <2>1, CountKept, StorageType DEF IInv
<1>4. CASE StartJob \/ Deploy
  BY <1>4, CountKept DEF StartJob, Deploy, runVars, storeVars
<1>5. CASE \/ Tick \/ (\E r \in Rec : Publish(r)) \/ StopJob \/ KillFinish \/ UNCHANGED vars
           \/ Persist \/ NotifyFinish \/ RecordShutdown \/ KillAll
  BY <1>5, CountKept DEF Tick, Publish, StopJob, KillFinish, Persist, NotifyFinish,
     RecordShutdown, KillAll, KillBegin, runVars, storeVars, vars
<1>6. QED
  BY <1>1, <1>2, <1>3, <1>4, <1>5 DEF Next, RunStep, SchedulerStep

-----------------------------------------------------------------------------
(* The status of the job, and the contract *)

\* The contract has the operators on job records from the same module.
LEMMA ContractOperators ==
  /\ Contract!HarvestStatus = HarvestStatus
  /\ \A j, s : Contract!SetStatus(j, s) = SetStatus(j, s)
  /\ \A s : Contract!NewJob(s) = NewJob(s)
  /\ \A j : /\ Contract!MarkForUpdate(j) = MarkForUpdate(j)
            /\ Contract!ClearUpdated(j) = ClearUpdated(j)
            /\ Contract!FinishReceived(j) = FinishReceived(j)
            /\ Contract!KillRequested(j) = KillRequested(j)
            /\ Contract!KillWillOverwrite(j) = KillWillOverwrite(j)
            /\ Contract!KillOverwrite(j) = KillOverwrite(j)
            /\ Contract!AtReturn("OAI", j) = AtReturn("OAI", j)
  /\ \A d : Contract!MayReturn("OAI", d) = MayReturn("OAI", d)
  /\ \A s : Contract!MaySet("OAI", s) = OaiMaySet(s)
  /\ Contract!MayBegin("OAI") = {"RUNNING"}
BY DEF Contract!HarvestStatus, HarvestStatus, Contract!SetStatus, SetStatus,
       Contract!NewJob, NewJob, Contract!Null, Null, Contract!MarkForUpdate, MarkForUpdate,
       Contract!ClearUpdated, ClearUpdated, Contract!FinishReceived, FinishReceived,
       Contract!KillRequested, KillRequested, Contract!KillWillOverwrite, KillWillOverwrite,
       Contract!KillOverwrite, KillOverwrite, Contract!AtReturn, AtReturn,
       Contract!MayReturn, MayReturn, Contract!MaySet, Contract!OaiMaySet, OaiMaySet,
       Contract!MayBegin

\* A step of run() that sets no status keeps what is known of it, if it is one of those
\* at the place where it leads.
LEMMA QuietStep ==
  ASSUME IInv, thread = "running", UNCHANGED <<thread, killing, sched>>,
         job' \in {job, MarkForUpdate(job)}, job.run \in StatusAt(pc')
  PROVE  StatusFits' /\ [Contract!Next]_Contract!vars
<1>1. job \in JobRecord
  BY DEF IInv, TypeOK
<1>2. /\ job'.run = job.run /\ job'.job = job.job /\ job'.die = job.die
  BY <1>1, MarkIsUpdate
<1>3. StatusAt(pc)' = StatusAt(pc')
  BY <1>2 DEF StatusAt
<1>4. StatusFits'
  BY <1>2, <1>3 DEF IInv, StatusFits, JobStatusFollows
<1>5. job' = job \/ Contract!JobAsksForUpdate
  BY ContractOperators DEF Contract!JobAsksForUpdate
<1>6. QED
  BY <1>4, <1>5 DEF Contract!Next, Contract!vars

\* A step of run() that sets OK, WARN or ERROR, or that leaves the status as it is.
LEMMA StatusStep ==
  ASSUME IInv, thread = "running", UNCHANGED <<thread, killing, sched>>,
         NEW s \in {"OK", "WARN", "ERROR"}, s \in OaiMaySet(job.run) \/ s = job.run,
         job' \in {SetStatus(job, s), MarkForUpdate(SetStatus(job, s))},
         s \in StatusAt(pc')
  PROVE  StatusFits' /\ [Contract!Next]_Contract!vars
<1> DEFINE j == SetStatus(job, s)
<1>1. /\ j \in JobRecord /\ j.run = s /\ j.job = s /\ j.die = job.die
      /\ job.run = s => j = job
  BY DEF IInv, TypeOK, StatusFits, JobStatusFollows, SetStatus, JobRecord, StatusOrNull,
         HarvestStatus
<1>2. CASE job.run = s
  BY <1>1, <1>2, QuietStep
<1>3. CASE job.run # s
  <2>1. job'.run = s /\ job'.job = s /\ job'.die = job.die
    BY <1>1, MarkIsUpdate
  <2>2. StatusAt(pc)' = StatusAt(pc')
    BY <2>1 DEF StatusAt
  <2>3. StatusFits'
    BY <2>1, <2>2 DEF IInv, StatusFits, JobStatusFollows, Null
  <2>4. Contract!JobSetsStatus
    BY <1>3, ContractOperators DEF Contract!JobSetsStatus
  <2>5. QED
    BY <2>3, <2>4 DEF Contract!Next
<1>4. QED
  BY <1>2, <1>3

\* harvest(): a page after the other, until the list, the job or the limit ends it.
LEMMA HarvestSteps ==
  ASSUME IInv, Request \/ CheckResponse \/ StoreRecord \/ PageDone
  PROVE  StatusFits' /\ [Contract!Next]_Contract!vars
<1>1. /\ pc \in {"request", "check", "store"}
      /\ UNCHANGED <<thread, killing, sched>>
  BY DEF Request, CheckResponse, StoreRecord, PageDone, Elsewhere, NotOfTheJob, schedVars
<1>2. thread = "running" /\ job.run \in {"RUNNING", "KILLED"}
  BY <1>1 DEF IInv, StatusFits, StatusAt
<1>3. \/ job' = job /\ pc' \in {"check", "exception", "ending", "store", "oaiError",
                                "storageError", "request"}
      \/ \E s \in {"OK", "WARN"} :
           job' \in {SetStatus(job, s), MarkForUpdate(SetStatus(job, s))} /\ pc' = "ending"
  BY DEF Request, CheckResponse, StoreRecord, PageDone, Goto
<1>4. CASE job' = job /\ pc' \in {"check", "exception", "ending", "store", "oaiError",
                                  "storageError", "request"}
  <2>1. job.run \in StatusAt(pc')
    BY <1>2, <1>4 DEF StatusAt
  <2>2. QED
    BY <1>1, <1>2, <1>4, <2>1, QuietStep
<1>5. ASSUME NEW s \in {"OK", "WARN"}, pc' = "ending",
             job' \in {SetStatus(job, s), MarkForUpdate(SetStatus(job, s))}
      PROVE  StatusFits' /\ [Contract!Next]_Contract!vars
  <2>1. s \in OaiMaySet(job.run) /\ s \in StatusAt(pc')
    BY <1>2, <1>5 DEF OaiMaySet, StatusAt
  <2>2. QED
    BY <1>1, <1>2, <1>5, <2>1, StatusStep
<1>6. QED
  BY <1>3, <1>4, <1>5

\* The steps of the end of run() that only look at the status.
LEMMA LookingSteps ==
  ASSUME IInv, Ending \/ Marker \/ Advance \/ Finish \/ Premature
  PROVE  StatusFits' /\ [Contract!Next]_Contract!vars
<1>1. job' = job /\ UNCHANGED <<thread, killing, sched>>
  BY DEF Ending, Marker, Advance, Finish, Premature, Elsewhere, NotOfTheJob, schedVars
<1>2. thread = "running" /\ job.run \in StatusAt(pc)
  BY DEF IInv, StatusFits, Ending, Marker, Advance, Finish, Premature
<1>3. job.run \in StatusAt(pc')
  <2>1. \/ pc = "ending" /\ pc' = "makeOk" /\ job.run = "RUNNING"
        \/ pc = "ending" /\ pc' = "marker" /\ job.run # "RUNNING"
        \/ pc = "marker" /\ pc' = "commit" /\ job.run \in {"OK", "WARN"}
        \/ pc = "marker" /\ pc' = "premature" /\ job.run \notin {"OK", "WARN"}
        \/ pc = "advance" /\ pc' \in {"finish", "return"}
        \/ pc = "finish" /\ pc' = "setFinished" /\ job.run = "OK"
        \/ pc = "finish" /\ pc' = "return" /\ job.run # "OK"
        \/ pc = "premature" /\ pc' = "reset" /\ job.run \in {"KILLED", "RUNNING"}
        \/ pc = "premature" /\ pc' = "fail" /\ job.run \notin {"KILLED", "RUNNING"}
    BY DEF Ending, Marker, Advance, Finish, Premature, Goto
  <2>2. QED
    BY <1>2, <2>1 DEF StatusAt, MayReturn
<1>4. QED
  BY <1>1, <1>2, <1>3, QuietStep

\* The handlers of run(), the commit, and a run that was not killed but failed.
LEMMA AssigningSteps ==
  ASSUME IInv,
         \/ MakeOk \/ HandleOaiError \/ HandleException \/ Commit \/ Partial
         \/ ResetStatus /\ pc = "fail"
  PROVE  StatusFits' /\ [Contract!Next]_Contract!vars
<1>1. UNCHANGED <<thread, killing, sched>>
  BY DEF MakeOk, HandleOaiError, HandleException, Commit, Partial, ResetStatus, Elsewhere, NotOfTheJob,
         schedVars
<1>2. thread = "running" /\ job.run \in StatusAt(pc)
  BY DEF IInv, StatusFits, MakeOk, HandleOaiError, HandleException, Commit, Partial, ResetStatus
<1>3. CASE job' \in {job, MarkForUpdate(job)} /\ job.run \in StatusAt(pc')
  BY <1>1, <1>2, <1>3, QuietStep
<1>4. CASE \E s \in {"OK", "WARN", "ERROR"} :
             /\ job' \in {SetStatus(job, s), MarkForUpdate(SetStatus(job, s))}
             /\ s \in OaiMaySet(job.run) \/ s = job.run
             /\ s \in StatusAt(pc')
  BY <1>1, <1>2, <1>4, StatusStep
<1>5. CASE MakeOk
  <2>1. pc = "makeOk" /\ pc' = "marker" /\ job' = SetStatus(job, "OK")
    BY <1>5 DEF MakeOk, Goto
  <2>2. QED
    BY <1>2, <1>4, <2>1 DEF StatusAt, OaiMaySet
<1>6. CASE HandleOaiError \/ HandleException
  <2>1. /\ pc \in {"oaiError", "exception", "storageError"}
        /\ \/ job.die /\ job' = job /\ pc' = "marker"
           \/ job' = SetStatus(job, "ERROR") /\ pc' \in {"marker", "return"}
    BY <1>6 DEF HandleOaiError, HandleException, Goto, KillSent
  <2>2. job.run \in {"RUNNING", "KILLED"}
    BY <1>2, <2>1 DEF StatusAt
  <2>3. CASE job.die /\ job' = job /\ pc' = "marker"
    BY <1>3, <2>2, <2>3 DEF StatusAt
  <2>4. CASE job' = SetStatus(job, "ERROR") /\ pc' \in {"marker", "return"}
    BY <1>4, <2>2, <2>4 DEF StatusAt, OaiMaySet, MayReturn
  <2>5. QED
    BY <2>1, <2>3, <2>4
<1>7. CASE Commit
  <2>1. /\ pc = "commit"
        /\ \/ job' = MarkForUpdate(job) /\ pc' = "advance"
           \/ /\ job' = MarkForUpdate(SetStatus(job, "WARN")) /\ job.run = "OK"
              /\ pc' = "advance"
           \/ job' = SetStatus(job, "ERROR") /\ pc' = "return"
    BY <1>7 DEF Commit, Goto
  <2>2. job.run \in {"OK", "WARN", "KILLED"}
    BY <1>2, <2>1 DEF StatusAt
  <2>3. CASE job' = MarkForUpdate(job) /\ pc' = "advance"
    BY <1>3, <2>2, <2>3 DEF StatusAt
  <2>4. CASE job' = MarkForUpdate(SetStatus(job, "WARN")) /\ job.run = "OK" /\ pc' = "advance"
    BY <1>4, <2>4 DEF StatusAt, OaiMaySet
  <2>5. CASE job' = SetStatus(job, "ERROR") /\ pc' = "return"
    BY <1>4, <2>2, <2>5 DEF StatusAt, OaiMaySet, MayReturn
  <2>6. QED
    BY <2>1, <2>3, <2>4, <2>5
<1>8. CASE ResetStatus /\ pc = "fail"
  <2>1. pc = "fail" /\ pc' = "partialError" /\ job' = SetStatus(job, "ERROR")
    BY <1>8 DEF ResetStatus, Goto
  <2>2. QED
    BY <1>2, <1>4, <2>1 DEF StatusAt, OaiMaySet
<1>9. CASE Partial
  <2>1. /\ pc \in {"partial", "partialError"} /\ pc' = "return"
        /\ \/ pc = "partial" /\ job' \in {job, MarkForUpdate(job)}
           \/ job' \in {SetStatus(job, "ERROR"), MarkForUpdate(SetStatus(job, "ERROR"))}
    BY <1>9 DEF Partial, Goto
  <2>2. job.run \in MayReturn("OAI", job.die)
    BY <1>2, <2>1 DEF StatusAt, MayReturn
  <2>3. CASE pc = "partial" /\ job' \in {job, MarkForUpdate(job)}
    BY <1>3, <2>1, <2>2, <2>3 DEF StatusAt
  <2>4. CASE job' \in {SetStatus(job, "ERROR"), MarkForUpdate(SetStatus(job, "ERROR"))}
    <3>1. "ERROR" \in OaiMaySet(job.run) \/ "ERROR" = job.run
      BY <2>2 DEF OaiMaySet, MayReturn
    <3>2. "ERROR" \in StatusAt(pc')
      BY <2>1 DEF StatusAt, MayReturn
    <3>3. QED
      BY <1>4, <2>4, <3>1, <3>2
  <2>5. QED
    BY <2>1, <2>3, <2>4
<1>10. QED
  BY <1>5, <1>6, <1>7, <1>8, <1>9

\* run() sets RUNNING, FINISHED when the run has gone well or was killed, and returns with
\* a status that the contract has.
LEMMA BoundarySteps ==
  ASSUME IInv, JobBegins \/ SetFinished \/ (ResetStatus /\ pc = "reset") \/ JobReturns
  PROVE  StatusFits' /\ [Contract!Next]_Contract!vars
<1>1. UNCHANGED <<killing, sched>>
  BY DEF JobBegins, SetFinished, ResetStatus, JobReturns, Elsewhere, NotOfTheJob, schedVars
<1>2. CASE JobBegins
  <2>1. /\ thread = "started" /\ thread' = "running" /\ pc' \in {"request", "exception"}
        /\ job' = SetStatus(job, "RUNNING")
    BY <1>2 DEF JobBegins, Goto
  <2>2. job'.run = "RUNNING" /\ job'.job = "RUNNING" /\ job'.die = job.die
    BY <2>1 DEF IInv, TypeOK, SetStatus, JobRecord
  <2>3. StatusFits'
    BY <1>1, <2>1, <2>2 DEF IInv, StatusFits, StatusAt, JobStatusFollows, Null
  <2>4. Contract!JobBegins
    BY <1>1, <2>1, ContractOperators DEF Contract!JobBegins
  <2>5. QED
    BY <2>3, <2>4 DEF Contract!Next
<1>3. CASE SetFinished \/ (ResetStatus /\ pc = "reset")
  <2>1. /\ thread' = thread /\ job' = SetStatus(job, "FINISHED")
        /\ \/ pc = "setFinished" /\ pc' = "return"
           \/ pc = "reset" /\ pc' = "partial"
    BY <1>3 DEF SetFinished, ResetStatus, Goto
  <2>2. thread = "running" /\ job.run \in StatusAt(pc) /\ JobStatusFollows
    BY <2>1 DEF IInv, StatusFits
  <2>3. job.run \in {"OK", "KILLED"} \/ (job.run = "RUNNING" /\ job.die)
    BY <2>1, <2>2 DEF StatusAt
  <2>4. job'.run = "FINISHED" /\ job'.job = job.job /\ job'.die = job.die
    BY <2>1 DEF IInv, TypeOK, SetStatus, JobRecord
  <2>5. "FINISHED" \in StatusAt(pc)'
    BY <2>1 DEF StatusAt, MayReturn
  <2>6. JobStatusFollows'
    BY <2>2, <2>3, <2>4 DEF JobStatusFollows
  <2>7. StatusFits'
    BY <1>1, <2>1, <2>2, <2>4, <2>5, <2>6 DEF IInv, StatusFits, Null
  <2>8. "FINISHED" \in OaiMaySet(job.run)
    BY <2>3 DEF OaiMaySet
  <2>9. Contract!JobSetsStatus
    BY <1>1, <2>1, <2>2, <2>8, ContractOperators DEF Contract!JobSetsStatus
  <2>10. QED
    BY <2>7, <2>9 DEF Contract!Next
<1>4. CASE JobReturns
  <2>1. /\ pc = "return" /\ thread' = "none" /\ pc' = "idle" /\ job' = AtReturn("OAI", job)
    BY <1>4 DEF JobReturns, ForgetRun, Goto
  <2>2. thread = "running" /\ job.run \in MayReturn("OAI", job.die)
    BY <2>1 DEF IInv, StatusFits, StatusAt
  <2>3. job' = MarkForUpdate(job)
    BY <2>1 DEF AtReturn
  <2>4. job'.run = job.run /\ job'.job = job.job /\ job'.die = job.die
    BY <2>3, MarkIsUpdate DEF IInv, TypeOK
  <2>5. StatusFits'
    BY <1>1, <2>1, <2>2, <2>4 DEF IInv, StatusFits
  <2>6. Contract!JobReturns
    BY <1>1, <2>1, <2>2, ContractOperators DEF Contract!JobReturns
  <2>7. QED
    BY <2>5, <2>6 DEF Contract!Next
<1>5. QED
  BY <1>2, <1>3, <1>4

\* A kill may overwrite the status at any place of run().
LEMMA KillSteps ==
  ASSUME IInv, StopJob \/ KillAll \/ KillFinish
  PROVE  StatusFits' /\ [Contract!Next]_Contract!vars
<1>1. UNCHANGED <<thread, pc>> /\ (sched' = sched \/ sched' = "down")
  BY DEF StopJob, KillAll, KillFinish, KillBegin, schedVars
<1>2. CASE StopJob \/ KillAll
  <2>1. ~killing /\ job' = KillRequested(job) /\ killing' = KillWillOverwrite(job)
    BY <1>2 DEF StopJob, KillAll, KillBegin
  <2>2. job'.run = job.run /\ job'.job = job.job /\ job'.die = TRUE
    BY <2>1 DEF IInv, TypeOK, KillRequested, JobRecord
  <2>3. job.run \in StatusAt(pc) => job.run \in StatusAt(pc)'
    BY <1>1, <2>2 DEF StatusAt, MayReturn
  <2>4. JobStatusFollows => JobStatusFollows'
    BY <2>2 DEF JobStatusFollows
  <2>5. StatusFits'
    BY <1>1, <2>2, <2>3, <2>4 DEF IInv, StatusFits
  <2>6. Contract!KillBegin
    BY <1>1, <2>1, ContractOperators DEF Contract!KillBegin
  <2>7. QED
    BY <2>5, <2>6 DEF Contract!Next
<1>3. CASE KillFinish
  <2>1. killing /\ killing' = FALSE /\ job' = KillOverwrite(job)
    BY <1>3 DEF KillFinish
  <2>2. job.die
    BY <2>1 DEF IInv, StatusFits
  <2>3. job'.run = "KILLED" /\ job'.job = job.job /\ job'.die = job.die
    BY <2>1 DEF IInv, TypeOK, KillOverwrite, JobRecord
  <2>4. ASSUME thread = "running"
        PROVE  "KILLED" \in StatusAt(pc)'
    <3>1. pc \in Places /\ job.run \in StatusAt(pc)
      BY <2>4 DEF IInv, StatusFits, TypeOK
    <3>2. QED
      BY <1>1, <3>1 DEF StatusAt, MayReturn
  <2>5. JobStatusFollows => JobStatusFollows'
    BY <2>2, <2>3 DEF JobStatusFollows
  <2>6. StatusFits'
    BY <1>1, <2>1, <2>3, <2>4, <2>5 DEF IInv, StatusFits, Null
  <2>7. Contract!KillFinish
    BY <1>1, <2>1, ContractOperators DEF Contract!KillFinish
  <2>8. QED
    BY <2>6, <2>7 DEF Contract!Next
<1>4. QED
  BY <1>2, <1>3

\* What the scheduler records is a status, and what it acknowledges has one to go on with.
LEMMA RecordSteps ==
  ASSUME IInv, StartJob \/ Persist \/ NotifyFinish \/ RecordShutdown
  PROVE  StatusFits' /\ [Contract!Next]_Contract!vars
<1>1. UNCHANGED <<killing, pc>> /\ sched = "up" /\ sched' \in {"up", "stopping"}
  BY DEF StartJob, Persist, NotifyFinish, RecordShutdown, schedVars
<1>2. job.job # Null
  BY <1>1 DEF IInv, StatusFits
<1>3. CASE StartJob
  <2>1. thread = "none" /\ thread' = "started" /\ UNCHANGED job
    BY <1>3 DEF StartJob
  <2>2. StatusFits'
    BY <1>1, <1>2, <2>1 DEF IInv, StatusFits
  <2>3. Contract!Start
    BY <1>1, <2>1 DEF Contract!Start
  <2>4. QED
    BY <2>2, <2>3 DEF Contract!Next
<1>4. CASE Persist
  <2>1. job' = ClearUpdated(job) /\ UNCHANGED thread
    BY <1>4 DEF Persist
  <2>2. job'.run = job.run /\ job'.job = job.job /\ job'.die = job.die
    BY <2>1 DEF IInv, TypeOK, ClearUpdated, JobRecord
  <2>3. StatusAt(pc)' = StatusAt(pc)
    BY <1>1, <2>2 DEF StatusAt
  <2>4. JobStatusFollows => JobStatusFollows'
    BY <2>2 DEF JobStatusFollows
  <2>5. StatusFits'
    BY <1>1, <1>2, <2>1, <2>2, <2>3, <2>4 DEF IInv, StatusFits
  <2>6. Contract!Persisted
    BY <1>1, <2>1, ContractOperators DEF Contract!Persisted
  <2>7. QED
    BY <2>5, <2>6 DEF Contract!Next
<1>5. CASE NotifyFinish
  <2>1. job.run = "FINISHED" /\ ~killing /\ job' = FinishReceived(job) /\ UNCHANGED thread
    BY <1>5 DEF NotifyFinish
  <2>2. job'.run = job.job /\ job'.job = job.job /\ job'.die = job.die
    BY <2>1 DEF IInv, TypeOK, FinishReceived, JobRecord
  <2>3. ASSUME thread = "running"
        PROVE  job'.run \in StatusAt(pc)' /\ JobStatusFollows'
    <3>1. pc \in {"partial", "return"} /\ JobStatusFollows
      BY <2>1, <2>3 DEF IInv, StatusFits, StatusAt
    <3>2. job.job \in {"RUNNING", "OK", "WARN", "ERROR"} /\ (job.job = "RUNNING" => job.die)
      BY <2>1, <3>1 DEF JobStatusFollows
    <3>3. QED
      BY <1>1, <2>2, <3>1, <3>2 DEF StatusAt, MayReturn, JobStatusFollows
  <2>4. StatusFits'
    BY <1>1, <1>2, <2>1, <2>2, <2>3 DEF IInv, StatusFits
  <2>5. Contract!NotifyFinish
    BY <1>1, <2>1, ContractOperators DEF Contract!NotifyFinish
  <2>6. QED
    BY <2>4, <2>5 DEF Contract!Next
<1>6. CASE RecordShutdown
  <2>1. UNCHANGED <<job, thread>>
    BY <1>6 DEF RecordShutdown
  <2>2. StatusFits'
    BY <1>1, <1>2, <2>1 DEF IInv, StatusFits, StatusAt, JobStatusFollows
  <2>3. QED
    BY <1>1, <2>1, <2>2 DEF Contract!vars
<1>7. QED
  BY <1>3, <1>4, <1>5, <1>6

\* A job object made from a row that says FINISHED has no jobStatus, and no scheduler.
LEMMA NewObjectSteps ==
  ASSUME IInv, Crash \/ Deploy
  PROVE  StatusFits' /\ [Contract!Next]_Contract!vars
<1>1. row.status \in HarvestStatus /\ killing' = FALSE /\ job' = NewJob(row.status)
  BY DEF Crash, Deploy, IInv, TypeOK, Resource
<1>2. /\ pc' = "idle" /\ thread' \in {"none", "started"}
      /\ thread = "none" \/ thread' = "none"
      /\ \/ sched' = "down" /\ thread' = "none"
         \/ row.status # "FINISHED"
  BY DEF Crash, Deploy, ForgetRun, Goto, IInv, StatusFits
<1>3. job'.run # Null /\ (row.status # "FINISHED" => job'.job # Null)
  BY <1>1, NewJobStatus DEF HarvestStatus, Null
<1>4. StatusFits'
  BY <1>1, <1>2, <1>3 DEF StatusFits
<1>5. Contract!Renew
  BY <1>1, <1>2, ContractOperators DEF Contract!Renew
<1>6. QED
  BY <1>4, <1>5 DEF Contract!Next

-----------------------------------------------------------------------------
\* A new job satisfies the invariant.
LEMMA InitIInv == Init => IInv
<1> SUFFICES ASSUME Init PROVE IInv
  OBVIOUS
<1>1. job = NewJob("NEW") /\ "NEW" \in HarvestStatus
  BY DEF Init, HarvestStatus
<1>2. job.run # Null /\ job.job # Null
  BY <1>1, NewJobStatus DEF HarvestStatus, Null
<1>3. StatusFits
  BY <1>2 DEF Init, StatusFits
<1>4. StoredOnce /\ TokensOnServer
  BY DEF Init, StoredOnce, TokensOnServer, NoToken, NoResponse
<1>5. QED
  BY <1>3, <1>4, InitTypeOK DEF IInv

\* Every step preserves the invariant, and is a step of the contract or none.
LEMMA NextKeeps == IInv /\ [Next]_vars => IInv' /\ [Contract!Next]_Contract!vars
<1> SUFFICES ASSUME IInv, [Next]_vars PROVE IInv' /\ [Contract!Next]_Contract!vars
  OBVIOUS
<1>1. StoredOnce' /\ TokensOnServer'
  BY NextStoredOnce, TokensStayOnServer
<1>2. CASE Tick \/ (\E r \in Rec : Publish(r)) \/ UNCHANGED vars
  <2>1. UNCHANGED <<job, thread, killing, sched, pc>>
    BY <1>2 DEF Tick, Publish, vars, schedVars
  <2>2. TypeOK'
    <3>1. CASE UNCHANGED vars
      BY <3>1 DEF IInv, TypeOK, vars, serverVars, schedVars, runVars, storeVars,
                      history
    <3>2. QED
      BY <1>2, <3>1, OutsideTypeOK
  <2>3. QED
    BY <1>1, <2>1, <2>2 DEF IInv, StatusFits, StatusAt, JobStatusFollows, Contract!vars
<1>3. CASE RunStep
  <2>1. TypeOK'
    BY <1>3, RunTypeOK
  <2>2. CASE Request \/ CheckResponse \/ StoreRecord \/ PageDone
    BY <1>1, <2>1, <2>2, HarvestSteps DEF IInv
  <2>3. CASE Ending \/ Marker \/ Advance \/ Finish \/ Premature
    BY <1>1, <2>1, <2>3, LookingSteps DEF IInv
  <2>4. CASE MakeOk \/ HandleOaiError \/ HandleException \/ Commit \/ Partial
    BY <1>1, <2>1, <2>4, AssigningSteps DEF IInv
  <2>5. CASE JobBegins \/ SetFinished \/ JobReturns
    BY <1>1, <2>1, <2>5, BoundarySteps DEF IInv
  <2>6. CASE ResetStatus
    <3>1. pc \in {"reset", "fail"}
      BY <2>6 DEF ResetStatus
    <3>2. QED
      BY <1>1, <2>1, <2>6, <3>1, AssigningSteps, BoundarySteps DEF IInv
  <2>7. QED
    BY <1>3, <2>2, <2>3, <2>4, <2>5, <2>6 DEF RunStep
<1>4. CASE SchedulerStep \/ StopJob \/ KillFinish \/ Crash
  <2>1. TypeOK'
    BY <1>4, OutsideTypeOK
  <2>2. StatusFits' /\ [Contract!Next]_Contract!vars
    BY <1>4, KillSteps, RecordSteps, NewObjectSteps DEF SchedulerStep
  <2>3. QED
    BY <1>1, <2>1, <2>2 DEF IInv
<1>5. QED
  BY <1>2, <1>3, <1>4 DEF Next

\* A new job is one of the contract's.
LEMMA InitRefines == Init => Contract!Init
<1> SUFFICES ASSUME Init PROVE Contract!Init
  OBVIOUS
<1>1. job = NewJob("NEW") /\ thread = "none" /\ killing = FALSE /\ "NEW" \in HarvestStatus
  BY DEF Init, HarvestStatus
<1>2. QED
  BY <1>1, ContractOperators DEF Contract!Init

\* At every place of OAIRecordHarvestJob.run and harvest, whatever the server, the
\* storage, a kill or the scheduler has done, the status is one that the next assignment
\* may follow, and the records of a run are counted once.
THEOREM Invariance == Spec => []IInv
<1>1. IInv /\ [Next]_vars => IInv'
  BY NextKeeps
<1>2. QED
  BY <1>1, InitIInv, PTL DEF Spec

\* Every reachable state is well typed: in particular, a run never counts more records
\* than the server has.
THEOREM TypeCorrect == Spec => []TypeOK
<1>1. IInv => TypeOK
  BY DEF IInv
<1>2. QED
  BY <1>1, Invariance, PTL

\* The OAI-PMH job implements the contract that JobScheduler's jobs are made of: its
\* run() changes the status as OaiMaySet and MayReturn say and in no other way.
THEOREM KeepsContract == Spec => ContractHolds
<1>1. Init => Contract!Init
  BY InitRefines
<1>2. IInv /\ [Next]_vars => [Contract!Next]_Contract!vars
  BY NextKeeps
<1>3. QED
  BY <1>1, <1>2, Invariance, PTL DEF Spec, ContractHolds, Contract!Spec

-----------------------------------------------------------------------------
(* Dates, tokens and what is due *)

\* Times are numbers.
LEMMA Numbers ==
  ASSUME TypeOK
  PROVE  /\ Time \subseteq Nat /\ 0 \in Time
         /\ clock \in Nat /\ resource.from \in Nat /\ resource.until \in Nat
         /\ row.from \in Nat /\ row.until \in Nat
         /\ \A r \in Rec : stamp[r] \in Nat /\ pending[r] \in Nat /\ stored[r] \in Nat
BY TimeAssumption DEF TypeOK, Time, Resource

\* Only the token is another.
LEMMA WithTokenFields ==
  ASSUME TypeOK, NEW k
  PROVE  /\ WithToken(k).token = k
         /\ WithToken(k).from = resource.from /\ WithToken(k).until = resource.until
BY DEF TypeOK, Resource, WithToken

\* The until date is not before the from date.
LEMMA SinceUntilIsSince ==
  ASSUME TypeOK, DatesInOrder, NEW r \in Rec, SinceUntil(r)
  PROVE  SinceFrom(r)
<1>1. /\ resource.from \in Nat /\ resource.until \in Nat /\ stamp[r] \in Nat
      /\ resource.from <= resource.until
      /\ Day(resource.until) <= Day(stamp[r])
  BY Numbers DEF DatesInOrder, SinceUntil
<1>2. /\ Day(resource.from) <= Day(resource.until)
      /\ Day(resource.from) \in Nat /\ Day(resource.until) \in Nat /\ Day(stamp[r]) \in Nat
  BY <1>1, DayMonotonic, DayType
<1>3. QED
  BY <1>1, <1>2 DEF SinceFrom

\* Whatever the token, a record that will be asked for has changed since the from date,
\* so it will be asked for without the token, too.
LEMMA DueIsSince ==
  ASSUME TypeOK, DatesInOrder, NEW h, NEW r \in Rec, Due(h, r),
         h.from = resource.from, h.until = resource.until, InRange(resource, h.token)
  PROVE  SinceFrom(r)
BY SinceUntilIsSince DEF Due, InRange, SinceFrom, SinceUntil

\* What is at risk has changed since the from date.
LEMMA AtRiskIsSince ==
  ASSUME TypeOK, DatesInOrder, TokensAreInRange, CanStartAgain, NEW r \in Rec, AtRisk(r)
  PROVE  SinceFrom(r)
<1> DEFINE h == IF Harvesting THEN WithToken(startToken) ELSE resource
<1>1. h.from = resource.from /\ h.until = resource.until /\ InRange(resource, h.token)
  BY WithTokenFields DEF TokensAreInRange
<1>2. Due(h, r)
  BY DEF CanStartAgain
<1>3. QED
  BY <1>1, <1>2, DueIsSince

\* Due without a token is being changed since the from date.
LEMMA DueByDates ==
  ASSUME NEW h, NEW r \in Rec, h.token = NoToken, h.from = resource.from
  PROVE  Due(h, r) <=> SinceFrom(r)
BY DEF Due, SinceFrom

-----------------------------------------------------------------------------
(* The dates are in order, and the tokens are of records that the dates include *)

\* A step that leaves the dates alone, and brings only tokens that are in their range.
LEMMA StaysInOrder ==
  ASSUME IInv, InOrder, TypeOK', UNCHANGED <<clock, stamp>>,
         resource'.from = resource.from, resource'.until = resource.until,
         InRange(resource, resource'.token),
         \/ row' = row
         \/ /\ row'.from = resource.from /\ row'.until = resource.until
            /\ row'.token = resource'.token,
         Harvesting' => /\ Harvesting
                        /\ InRange(resource, startToken') /\ InRange(resource, pageToken'),
         pc' \in {"check", "store"} =>
           InRange(resource, response'.recs) /\ InRange(resource, response'.next),
         WithinStart'
  PROVE  InOrder'
<1> USE DEF InOrder
<1>1. DatesInOrder'
  <2>1. resource.from \in Nat
    BY Numbers DEF IInv
  <2>2. QED
    BY <2>1 DEF DatesInOrder
<1>2. TokensAreInRange'
  BY DEF TokensAreInRange, InRange
<1>3. QED
  BY <1>1, <1>2

\* The steps of run() that ask for nothing.
LEMMA RunInOrder ==
  ASSUME IInv, InOrder, TypeOK',
         \/ CheckResponse \/ Ending \/ MakeOk \/ HandleOaiError \/ HandleException \/ Marker
         \/ Commit \/ Finish \/ SetFinished \/ Premature \/ ResetStatus \/ Partial \/ JobReturns
  PROVE  InOrder'
<1>1. /\ UNCHANGED <<clock, stamp, row>>
      /\ \/ UNCHANGED <<thread, startToken, pageToken, response>>
         \/ thread' = "none" /\ pc' = "idle"
      /\ pc' = "idle" => thread' = "none"
      /\ pc \notin {"request", "store"} /\ pc' # "request"
      /\ pc' \in {"check", "store"} => pc = "check"
      /\ pc \in {"finish", "setFinished", "return"} =>
           pc' \in {"setFinished", "return", "idle"} /\ resource' = resource
  BY DEF CheckResponse, Ending, MakeOk, HandleOaiError, HandleException, Marker, Commit, Finish,
         SetFinished, Premature, ResetStatus, Partial, JobReturns, ForgetRun, Goto, Elsewhere,
         NotOfTheJob, serverVars, schedVars, runVars
<1>2. \/ resource' = resource
      \/ \E k \in {NoToken, startToken, resource.token} : resource' = [resource EXCEPT !.token = k]
  BY DEF CheckResponse, Ending, MakeOk, HandleOaiError, HandleException, Marker, Commit, Finish,
         SetFinished, Premature, ResetStatus, Partial, JobReturns
<1>3. /\ resource'.from = resource.from /\ resource'.until = resource.until
      /\ \/ resource' = resource
         \/ resource'.token \in {NoToken, startToken, resource.token}
  BY <1>2 DEF IInv, TypeOK, Resource
<1>4. thread = "running"
  BY DEF IInv, StatusFits, CheckResponse, Ending, MakeOk, HandleOaiError, HandleException, Marker,
         Commit, Finish, SetFinished, Premature, ResetStatus, Partial, JobReturns
<1>5. Harvesting' => Harvesting /\ UNCHANGED <<startToken, pageToken>>
  BY <1>1, <1>4 DEF Harvesting
<1>6. InRange(resource, resource'.token)
  BY <1>1, <1>3, <1>4 DEF InOrder, TokensAreInRange, InRange, NoToken, Harvesting
<1>7. WithinStart'
  BY <1>1 DEF InOrder, WithinStart
<1>8. QED
  BY <1>1, <1>3, <1>5, <1>6, <1>7, StaysInOrder DEF InOrder, TokensAreInRange

\* run() begins: with the until date of now, if it has none.
LEMMA BeginInOrder ==
  ASSUME IInv, InOrder, TypeOK', JobBegins
  PROVE  InOrder'
<1> USE DEF InOrder
<1>1. /\ UNCHANGED <<clock, stamp, row>>
      /\ startToken' = resource.token /\ pageToken' = resource.token
      /\ pc' \in {"request", "exception"}
      /\ resource' = [resource EXCEPT !.until = IF @ = 0 THEN clock ELSE @]
  BY DEF JobBegins, Goto, NotOfTheJob, serverVars, schedVars
<1>2. /\ resource'.from = resource.from /\ resource'.token = resource.token
      /\ resource'.until = IF resource.until = 0 THEN clock ELSE resource.until
  BY <1>1 DEF IInv, TypeOK, Resource
<1>3. /\ clock \in Nat /\ clock # 0 /\ resource.from <= clock
      /\ resource.until # 0 => resource.from <= resource.until
      /\ resource.until <= clock
  BY Numbers DEF IInv, DatesInOrder
<1>4. DatesInOrder'
  BY <1>1, <1>2, <1>3 DEF DatesInOrder
<1>5. TokensAreInRange'
  BY <1>1, <1>2 DEF TokensAreInRange, InRange
<1>6. WithinStart'
  BY <1>1 DEF WithinStart
<1>7. QED
  BY <1>4, <1>5, <1>6

\* The response to a request.
LEMMA RequestInOrder ==
  ASSUME IInv, InOrder, TypeOK', Request
  PROVE  InOrder'
<1> USE DEF InOrder
<1>1. /\ UNCHANGED <<clock, stamp, row, resource, startToken, pageToken, thread>>
      /\ pc = "request" /\ pc' \in {"check", "exception"}
  BY DEF Request, Goto, Elsewhere, NotOfTheJob, serverVars, schedVars
<1>2. thread = "running" /\ Harvesting
  BY <1>1 DEF Harvesting, IInv, StatusFits
<1> DEFINE list == IF pageToken = NoToken THEN Matching(resource.from, resource.until)
                                          ELSE pageToken
<1>3. list \subseteq Rec /\ \A k \in SUBSET list : InRange(resource, k)
  BY <1>2 DEF IInv, TypeOK, Tokens, Matching, TokensAreInRange, InRange, DatesInOrder
<1>4. \/ response'.recs = {} /\ response'.next = {}
      \/ pc' = "check" /\ response'.recs \union response'.next = list
  BY <1>3, PagesOfList DEF Request, NoResponse, Goto
<1>5. InRange(resource, response'.recs) /\ InRange(resource, response'.next)
  <2>1. {} \subseteq list
    OBVIOUS
  <2>2. QED
    BY <1>3, <1>4, <2>1
<1>6. WithinStart'
  BY <1>1, <1>4 DEF WithinStart
<1>7. QED
  BY <1>1, <1>2, <1>5, <1>6, StaysInOrder DEF TokensAreInRange

\* The records of a page are stored, one by one, and then its token taken.
LEMMA StoreInOrder ==
  ASSUME IInv, InOrder, TypeOK', StoreRecord \/ PageDone
  PROVE  InOrder'
<1> USE DEF InOrder
<1>1. /\ UNCHANGED <<clock, stamp, row, startToken, thread>> /\ pc = "store"
      /\ pc' \in {"store", "exception", "storageError", "ending", "request"}
      /\ pageToken' \in {pageToken, response.next}
      /\ pc' = "request" => response.next # NoToken /\ pageToken' = response.next
      /\ \/ resource' = resource
         \/ \E k \in {pageToken, response.next} : resource' = [resource EXCEPT !.token = k]
      /\ \/ response' = response
         \/ \E r \in response.recs : response' = [response EXCEPT !.recs = @ \ {r}]
  BY DEF StoreRecord, PageDone, Goto, Elsewhere, NotOfTheJob, serverVars, schedVars
<1>2. thread = "running" /\ Harvesting
  BY <1>1 DEF Harvesting, IInv, StatusFits
<1>3. /\ resource'.from = resource.from /\ resource'.until = resource.until
      /\ resource'.token \in {resource.token, pageToken, response.next}
      /\ response'.next = response.next /\ response'.recs \subseteq response.recs
  BY <1>1 DEF IInv, TypeOK, Resource, Response
<1>4. \A k \in {resource.token, pageToken, response.next, response.recs, startToken} :
        InRange(resource, k)
  BY <1>1, <1>2 DEF TokensAreInRange
<1>5. InRange(resource, response'.recs)
  BY <1>3, <1>4 DEF InRange, NoToken
<1>6. WithinStart'
  BY <1>1, <1>3 DEF WithinStart
<1>7. QED
  BY <1>1, <1>2, <1>3, <1>4, <1>5, <1>6, StaysInOrder

\* The time marker moves on to the until date.
LEMMA AdvanceInOrder ==
  ASSUME IInv, InOrder, TypeOK', Advance
  PROVE  InOrder'
<1> USE DEF InOrder
<1>1. /\ UNCHANGED <<clock, stamp, row, startToken, pageToken, response, thread>>
      /\ pc = "advance"
      /\ \/ /\ resource' = [resource EXCEPT !.from = resource.until, !.until = 0, !.token = {}]
            /\ pc' = "finish"
         \/ pc' = "return" /\ resource' = [resource EXCEPT !.token = startToken]
  BY DEF Advance, Goto, NoToken, Elsewhere, NotOfTheJob, serverVars, schedVars, runVars
<1>2. Harvesting /\ ~Harvesting'
  BY <1>1 DEF Harvesting, IInv, StatusFits
<1>3. WithinStart'
  BY <1>1 DEF WithinStart
<1>4. CASE resource' = [resource EXCEPT !.from = resource.until, !.until = 0, !.token = {}]
  <2>1. resource'.from = resource.until /\ resource'.until = 0 /\ resource'.token = {}
    BY <1>4 DEF IInv, TypeOK, Resource
  <2>2. DatesInOrder'
    <3>1. row.from <= resource.until
      BY <1>2, Numbers DEF IInv, DatesInOrder
    <3>2. QED
      BY <1>1, <1>2, <2>1, <3>1, Numbers DEF IInv, DatesInOrder
  <2>3. TokensAreInRange'
    BY <1>1, <1>2, <2>1 DEF TokensAreInRange, InRange, NoToken
  <2>4. QED
    BY <1>3, <2>2, <2>3
<1>5. CASE resource' = [resource EXCEPT !.token = startToken]
  <2>1. /\ resource'.from = resource.from /\ resource'.until = resource.until
        /\ resource'.token = startToken
    BY <1>5 DEF IInv, TypeOK, Resource
  <2>2. QED
    BY <1>1, <1>2, <1>3, <2>1, StaysInOrder DEF TokensAreInRange
<1>6. QED
  BY <1>1, <1>4, <1>5

\* The scheduler saves the resource or leaves the row alone; kill() touches neither.
LEMMA SchedulerInOrder ==
  ASSUME IInv, InOrder, TypeOK',
         \/ StartJob \/ Persist \/ NotifyFinish \/ RecordShutdown \/ KillAll \/ StopJob
         \/ KillFinish \/ UNCHANGED vars
  PROVE  InOrder'
<1>1. /\ UNCHANGED <<clock, stamp, startToken, pageToken, response, pc>>
      /\ thread' = thread \/ (thread = "none" /\ thread' = "started")
      /\ row' \in {row, resource'}
  BY DEF StartJob, Persist, NotifyFinish, RecordShutdown, KillAll, StopJob, KillBegin, KillFinish,
         vars, serverVars, schedVars, runVars
<1>2. /\ resource'.from = resource.from /\ resource'.until = resource.until
      /\ resource'.token = resource.token
  BY DEF StartJob, Persist, NotifyFinish, RecordShutdown, KillAll, StopJob, KillBegin, KillFinish,
         vars, schedVars, IInv, TypeOK, Resource
<1>3. Harvesting' => Harvesting
  BY <1>1 DEF Harvesting
<1>4. WithinStart'
  BY <1>1 DEF InOrder, WithinStart
<1>5. QED
  BY <1>1, <1>2, <1>3, <1>4, StaysInOrder DEF InOrder, TokensAreInRange

\* A job is constructed from the row.
LEMMA LoadInOrder ==
  ASSUME IInv, InOrder, TypeOK', Crash \/ Deploy
  PROVE  InOrder'
<1> USE DEF InOrder
<1>1. /\ UNCHANGED <<clock, stamp, row>> /\ resource' = row /\ pc' = "idle"
      /\ thread' # "running"
  BY DEF Crash, Deploy, ForgetRun, Goto, serverVars, IInv, StatusFits
<1>2. ~Harvesting'
  BY <1>1 DEF Harvesting
<1>3. DatesInOrder'
  BY <1>1, <1>2, Numbers DEF IInv, DatesInOrder
<1>4. TokensAreInRange' /\ WithinStart'
  BY <1>1, <1>2 DEF TokensAreInRange, InRange, WithinStart
<1>5. QED
  BY <1>3, <1>4

\* The clock goes on, and changes on the server are later than all dates.
LEMMA ServerInOrder ==
  ASSUME IInv, InOrder, TypeOK', Tick \/ \E r \in Rec : Publish(r)
  PROVE  InOrder'
<1> USE DEF InOrder
<1>1. /\ UNCHANGED <<resource, row, thread, pc, response, startToken, pageToken>>
      /\ clock' \in {clock, clock + 1}
      /\ \/ stamp' = stamp
         \/ clock' = clock /\ \E q \in Rec : stamp' = [stamp EXCEPT ![q] = clock]
  BY DEF Tick, Publish, schedVars, runVars
<1>2. /\ clock \in Nat /\ stamp \in [Rec -> Nat]
      /\ \A h \in {resource, row} : h.from \in Nat /\ h.until \in Nat
  BY Numbers DEF IInv, TypeOK
<1>3. \A r \in Rec : stamp'[r] \in {stamp[r], clock}
  BY <1>1, <1>2
<1>4. DatesInOrder'
  BY <1>1, <1>2, <1>3 DEF DatesInOrder, Harvesting
<1>5. \A h \in {resource, row} : \A k \in SUBSET Rec : InRange(h, k) => InRange(h, k)'
  <2> SUFFICES ASSUME NEW h \in {resource, row}, NEW k \in SUBSET Rec, InRange(h, k),
                      NEW r \in k
               PROVE  h.from = 0 \/ Day(h.from) <= Day(stamp'[r])
    BY DEF InRange
  <2>1. h.from <= clock
    BY DEF DatesInOrder
  <2>2. Day(h.from) <= Day(clock)
    BY <1>2, <2>1, DayMonotonic
  <2>3. QED
    BY <1>3, <2>2 DEF InRange
<1>6. TokensAreInRange'
  <2>1. /\ \A k \in {resource.token, startToken, pageToken, response.recs, response.next} :
             k \subseteq Rec
        /\ row.token \subseteq Rec
    BY DEF IInv, TypeOK, Resource, Response, Tokens
  <2>2. Harvesting' = Harvesting
    BY <1>1 DEF Harvesting
  <2>3. QED
    BY <1>1, <1>5, <2>1, <2>2 DEF TokensAreInRange, InRange
<1>7. WithinStart'
  BY <1>1 DEF WithinStart
<1>8. QED
  BY <1>4, <1>6, <1>7

\* Every step.
LEMMA NextInOrder ==
  ASSUME IInv, InOrder, TypeOK', [Next]_vars
  PROVE  InOrder'
BY RunInOrder, BeginInOrder, RequestInOrder, StoreInOrder, AdvanceInOrder, SchedulerInOrder,
   LoadInOrder, ServerInOrder
DEF Next, RunStep, SchedulerStep

-----------------------------------------------------------------------------
(***************************************************************************)
(* The resource, as long as it is not spoiled: what is missing is still to *)
(* come, or due when the run is done again or gone on with                 *)
(***************************************************************************)

Behind == IInv /\ InOrder /\ ResourceIsBehind

\* Steps that change no more than the place, the job record and the status of the resource.
LEMMA SameData ==
  ASSUME Behind, TypeOK',
         UNCHANGED <<stamp, startToken, pageToken, pending, stored>>,
         resource'.from = resource.from, resource'.until = resource.until,
         resource'.token = resource.token,
         Harvesting' = Harvesting,
         pc' \in {"request", "check", "store"} => pc \in {"request", "check", "store"}
  PROVE  CanStartAgain' /\ CanGoOn'
<1> USE DEF Behind, ResourceIsBehind
<1>1. \A r \in Rec : /\ Missing(r)' = Missing(r) /\ AtRisk(r)' = AtRisk(r)
                     /\ SinceUntil(r)' = SinceUntil(r)
                     /\ Due(resource, r)' = Due(resource, r)
                     /\ Due(WithToken(startToken), r)' = Due(WithToken(startToken), r)
                     /\ Due(WithToken(pageToken), r)' = Due(WithToken(pageToken), r)
  <2>1. /\ WithToken(startToken)'.token = startToken /\ WithToken(pageToken)'.token = pageToken
        /\ WithToken(startToken)'.from = resource.from
        /\ WithToken(pageToken)'.from = resource.from
        /\ WithToken(startToken)'.until = resource.until
        /\ WithToken(pageToken)'.until = resource.until
    BY DEF TypeOK, Resource, WithToken
  <2>2. QED
    BY <2>1, WithTokenFields DEF IInv, Missing, AtRisk, SinceUntil, Due
<1>2. CanStartAgain'
  BY <1>1 DEF CanStartAgain
<1>3. CanGoOn'
  BY <1>1 DEF CanGoOn
<1>4. QED
  BY <1>2, <1>3

\* The steps of run() that only look at the status, or set it to RUNNING or FINISHED.
LEMMA LookingBehind ==
  ASSUME Behind, TypeOK',
         \/ Ending \/ MakeOk \/ Marker \/ Finish \/ SetFinished \/ Premature \/ ResetStatus
  PROVE  ResourceIsBehind'
<1>1. /\ UNCHANGED <<clock, stamp, settings, startToken, pageToken, response, pending,
                     stored, resource, thread, killing>>
  BY DEF Ending, MakeOk, Marker, Finish, SetFinished, Premature, ResetStatus, Elsewhere,
         NotOfTheJob, serverVars, schedVars, runVars, storeVars
<1>2. /\ pc # "makeOk" /\ thread = "running" /\ job.run \in StatusAt(pc)
      /\ pc = "ending" => job.run # "RUNNING"
  BY DEF Behind, ResourceIsBehind, KilledIsKnown, IInv, StatusFits, Ending, MakeOk, Marker, Finish,
         SetFinished, Premature, ResetStatus
<1>3. \/ pc = "ending" /\ pc' = "marker" /\ job' = job
      \/ pc = "marker" /\ pc' = "commit" /\ job' = job /\ job.run \in {"OK", "WARN"}
      \/ pc = "marker" /\ pc' = "premature" /\ job' = job
      \/ pc = "finish" /\ pc' \in {"setFinished", "return"}
      \/ pc = "setFinished" /\ pc' = "return"
      \/ pc = "premature" /\ pc' \in {"reset", "fail"}
      \/ pc \in {"reset", "fail"} /\ pc' \in {"partial", "partialError"}
  BY <1>2 DEF Ending, MakeOk, Marker, Finish, SetFinished, Premature, ResetStatus, Goto
<1>4. Harvesting' = Harvesting
  BY <1>1, <1>3 DEF Harvesting
<1>5. CanStartAgain' /\ CanGoOn'
  BY <1>1, <1>3, <1>4, SameData
<1>6. EndIsComplete'
  <2>1. StillToCome({})' = StillToCome({})
    BY <1>1 DEF StillToCome, Missing, SinceUntil
  <2>2. QED
    BY <1>1, <1>3, <2>1 DEF Behind, ResourceIsBehind, EndIsComplete
<1>7. KilledIsKnown'
  BY <1>3 DEF KilledIsKnown
<1>8. QED
  BY <1>5, <1>6, <1>7 DEF ResourceIsBehind

\* run() begins: what was due of the resource is due of its token and its dates.
LEMMA BeginBehind ==
  ASSUME Behind, TypeOK', JobBegins, ~spoiled'
  PROVE  ResourceIsBehind'
<1>1. /\ UNCHANGED <<clock, stamp, settings, response, pending, stored, killing>>
      /\ thread = "started" /\ thread' = "running"
      /\ startToken' = resource.token /\ pageToken' = resource.token
      /\ pc' \in {"request", "exception"}
      /\ job' = SetStatus(job, "RUNNING")
      /\ resource' = [resource EXCEPT !.until = IF @ = 0 THEN clock ELSE @]
  BY DEF JobBegins, Goto, NotOfTheJob, serverVars, schedVars, storeVars
<1>2. /\ resource'.from = resource.from /\ resource'.token = resource.token
      /\ resource'.until = IF resource.until = 0 THEN clock ELSE resource.until
  BY <1>1 DEF Behind, IInv, TypeOK, Resource
<1>3. ~Harvesting /\ Harvesting' /\ pending = Nothing /\ TokensAreInRange /\ CanStartAgain
  BY <1>1 DEF Harvesting, Behind, InOrder, ResourceIsBehind, IInv, StoredOnce
<1>4. ASSUME NEW r \in Rec, AtRisk(r)'
      PROVE  /\ Due(resource, r)' /\ Due(WithToken(startToken), r)'
             /\ Due(WithToken(pageToken), r)'
  <2>1. AtRisk(r) /\ Due(resource, r)
    BY <1>1, <1>3, <1>4 DEF AtRisk, Missing, CanStartAgain
  <2>2. resource.token # NoToken => resource.until # 0
    BY <1>3 DEF TokensAreInRange, InRange
  <2>3. Due(resource, r)'
    BY <1>1, <1>2, <2>1, <2>2 DEF Due
  <2>4. /\ WithToken(resource.token)'.token = resource.token
        /\ WithToken(resource.token)'.from = resource'.from
        /\ WithToken(resource.token)'.until = resource'.until
    BY <1>2 DEF WithToken, TypeOK, Resource
  <2>5. QED
    BY <1>1, <1>2, <2>3, <2>4 DEF Due, WithToken
<1>5. CanStartAgain'
  BY <1>3, <1>4 DEF CanStartAgain
<1>6. CanGoOn'
  <2>1. \A r \in Rec : pending'[r] = 0
    BY <1>1, <1>3 DEF Nothing
  <2>2. QED
    BY <1>4, <2>1 DEF CanGoOn, AtRisk
<1>7. EndIsComplete'
  BY <1>1 DEF EndIsComplete
<1>8. KilledIsKnown'
  <2>1. job'.die = job.die /\ ~job.die
    BY <1>1 DEF Behind, IInv, TypeOK, SetStatus, JobRecord, JobBegins
  <2>2. QED
    BY <1>1, <2>1 DEF KilledIsKnown
<1>9. QED
  BY <1>5, <1>6, <1>7, <1>8 DEF ResourceIsBehind

\* A request: what it asks for is what is missing up to the until date.
LEMMA RequestBehind ==
  ASSUME Behind, TypeOK', Request
  PROVE  ResourceIsBehind'
<1> USE DEF Behind, InOrder, ResourceIsBehind
<1>1. /\ UNCHANGED <<clock, stamp, settings, resource, startToken, pageToken, pending,
                     stored, thread, job, killing>>
      /\ pc = "request" /\ pc' \in {"check", "exception"}
  BY DEF Request, Goto, Elsewhere, NotOfTheJob, serverVars, schedVars, storeVars
<1>2. thread = "running" /\ Harvesting /\ Harvesting' /\ resource.until # 0
  BY <1>1 DEF Harvesting, IInv, StatusFits, DatesInOrder
<1>3. CanStartAgain' /\ CanGoOn'
  BY <1>1, <1>2, SameData
<1> DEFINE list == IF pageToken = NoToken THEN Matching(resource.from, resource.until)
                                          ELSE pageToken
<1>4. list \subseteq Rec
  BY DEF IInv, TypeOK, Tokens, Matching
<1>5. \A r \in Rec : Missing(r) => pending[r] = stamp[r] \/ r \in list \/ SinceUntil(r)
  <2> SUFFICES ASSUME NEW r \in Rec, Missing(r), pending[r] # stamp[r]
               PROVE  r \in list \/ SinceUntil(r)
    OBVIOUS
  <2>1. Due(WithToken(pageToken), r)
    BY <1>1, <1>2 DEF CanGoOn
  <2>2. CASE pageToken # NoToken
    BY <2>1, <2>2, WithTokenFields DEF Due, SinceUntil, IInv
  <2>3. CASE pageToken = NoToken
    <3>1. SinceFrom(r) /\ stamp[r] # 0
      BY <2>1, <2>3, WithTokenFields, DueByDates DEF IInv, Missing
    <3>2. Day(stamp[r]) \in Nat /\ Day(resource.until) \in Nat
      BY Numbers, DayType DEF IInv
    <3>3. QED
      BY <1>2, <2>3, <3>1, <3>2 DEF Matching, SinceFrom, SinceUntil
  <2>4. QED
    BY <2>2, <2>3
<1>6. EndIsComplete'
  <2>1. CASE response' \in Pages(list) /\ pc' = "check"
    <3>1. /\ response'.recs \union response'.next = list
          /\ response'.kind = "noRecordsMatch" => response'.recs = {} /\ response'.next = {}
      BY <1>4, <2>1, PagesOfList
    <3>2. QED
      BY <1>1, <1>5, <2>1, <3>1 DEF EndIsComplete, StillToCome, Missing, SinceUntil
  <2>2. CASE pc' = "check" => response'.kind = "error"
    BY <1>1, <2>2 DEF EndIsComplete
  <2>3. QED
    BY <2>1, <2>2 DEF Request, Goto
<1>7. KilledIsKnown'
  BY <1>1 DEF KilledIsKnown
<1>8. QED
  BY <1>3, <1>6, <1>7

\* The head of the loop.
LEMMA CheckBehind ==
  ASSUME Behind, TypeOK', CheckResponse
  PROVE  ResourceIsBehind'
<1> USE DEF Behind, ResourceIsBehind
<1>1. /\ UNCHANGED <<clock, stamp, settings, resource, startToken, pageToken, response,
                     pending, stored, thread, killing>>
      /\ pc = "check" /\ pc' \in {"ending", "store", "oaiError"}
  BY DEF CheckResponse, Goto, Elsewhere, NotOfTheJob, serverVars, schedVars, runVars, storeVars
<1>2. Harvesting' = Harvesting
  BY <1>1 DEF Harvesting
<1>3. CanStartAgain' /\ CanGoOn'
  BY <1>1, <1>2, SameData
<1>4. \/ KillSent /\ pc' = "ending" /\ job' = job
      \/ NotKillSent /\ response.kind = "page" /\ pc' = "store" /\ job' = job
      \/ /\ NotKillSent /\ response.kind = "noRecordsMatch" /\ pc' = "ending"
         /\ job'.run = "WARN"
      \/ NotKillSent /\ response.kind = "error" /\ pc' = "oaiError" /\ job' = job
  BY DEF CheckResponse, Goto, MarkForUpdate, SetStatus, IInv, TypeOK, JobRecord
<1>5. pc = "check" /\ KillSent => job.run = "KILLED"
  BY DEF KillSent, KilledIsKnown
<1>6. EndIsComplete'
  <2>1. response.kind # "error" => StillToCome(response.recs \union response.next)
    BY <1>1 DEF EndIsComplete
  <2>2. response.kind # "error" => StillToCome(response.recs \union response.next)'
    BY <1>1, <2>1 DEF StillToCome, Missing, SinceUntil
  <2>3. response.kind = "noRecordsMatch" => StillToCome({})'
    BY <1>1, <2>2 DEF EndIsComplete, StillToCome
  <2>4. QED
    BY <1>1, <1>4, <1>5, <2>2, <2>3 DEF EndIsComplete
<1>7. KilledIsKnown'
  BY <1>1, <1>4, <1>5 DEF KilledIsKnown, KillSent, NotKillSent
<1>8. QED
  BY <1>3, <1>6, <1>7

\* A record is stored: it is not missing any more, but at risk until the commit.
LEMMA StoreBehind ==
  ASSUME Behind, TypeOK', StoreRecord
  PROVE  ResourceIsBehind'
<1> USE DEF Behind, InOrder, ResourceIsBehind
<1>1. /\ UNCHANGED <<clock, stamp, settings, startToken, pageToken, stored, thread, killing>>
      /\ pc = "store"
  BY DEF StoreRecord, Elsewhere, NotOfTheJob, serverVars, schedVars
<1>2. thread = "running" /\ Harvesting /\ resource.until # 0 /\ response.kind = "page"
      /\ response.recs \subseteq Rec
  BY <1>1 DEF Harvesting, IInv, StatusFits, EndIsComplete, TypeOK, Response, Tokens, DatesInOrder
<1>3. PICK r0 \in response.recs :
        \/ /\ (KillSent /\ pc' = "exception") \/ (NotKillSent /\ pc' = "storageError")
           /\ UNCHANGED <<job, resource, response, pending>>
        \/ /\ NotKillSent
           /\ pending' = [pending EXCEPT ![r0] = stamp[r0]]
           /\ response' = [response EXCEPT !.recs = @ \ {r0}]
           /\ \/ UNCHANGED <<job, resource, pc>>
              \/ /\ settings.recordLimit > 0
                 /\ job' = SetStatus(job, "OK")
                 /\ resource' = [resource EXCEPT !.token = pageToken]
                 /\ pc' = "ending"
  BY <1>1 DEF StoreRecord, Goto, LimitReached
<1>4. CASE /\ (KillSent /\ pc' = "exception") \/ (NotKillSent /\ pc' = "storageError")
           /\ UNCHANGED <<job, resource, response, pending>>
  <2>1. Harvesting' = Harvesting
    BY <1>1, <1>2, <1>4 DEF Harvesting
  <2>2. CanStartAgain' /\ CanGoOn'
    BY <1>1, <1>4, <2>1, SameData
  <2>3. EndIsComplete' /\ KilledIsKnown'
    BY <1>1, <1>4 DEF EndIsComplete, KilledIsKnown, KillSent, NotKillSent
  <2>4. QED
    BY <2>2, <2>3
<1>5. CASE /\ NotKillSent
           /\ pending' = [pending EXCEPT ![r0] = stamp[r0]]
           /\ response' = [response EXCEPT !.recs = @ \ {r0}]
           /\ \/ UNCHANGED <<job, resource, pc>>
              \/ /\ settings.recordLimit > 0
                 /\ job' = SetStatus(job, "OK")
                 /\ resource' = [resource EXCEPT !.token = pageToken]
                 /\ pc' = "ending"
  <2>1. /\ resource'.from = resource.from /\ resource'.until = resource.until
        /\ resource'.token \in {resource.token, pageToken}
        /\ response'.kind = response.kind /\ response'.next = response.next
        /\ response'.recs = response.recs \ {r0}
    BY <1>5 DEF IInv, TypeOK, Resource, Response
  <2>2. /\ r0 \in Rec /\ pending'[r0] = stamp[r0]
        /\ \A r \in Rec : r # r0 => pending'[r] = pending[r]
    BY <1>2, <1>5 DEF IInv, TypeOK
  <2>3. /\ Harvesting'
        /\ \/ pc' = "store" /\ resource' = resource /\ job' = job
           \/ /\ pc' = "ending" /\ settings.recordLimit > 0
              /\ resource'.token = pageToken /\ job' = SetStatus(job, "OK")
    BY <1>1, <1>2, <1>5 DEF Harvesting, IInv, TypeOK, Resource
  <2>4. \A r \in Rec : Missing(r)' = Missing(r) /\ SinceUntil(r)' = SinceUntil(r)
    BY <1>1, <2>1 DEF Missing, SinceUntil
  <2>5. CanStartAgain'
    <3>1. ASSUME NEW r \in Rec, AtRisk(r)'
          PROVE  Due(WithToken(startToken), r)'
      <4>1. CASE r = r0
        <5>1. SinceFrom(r)
          BY <1>1, <4>1 DEF TokensAreInRange, InRange, SinceFrom
        <5>2. startToken # NoToken => r \in startToken
          BY <1>1, <4>1 DEF WithinStart
        <5>3. QED
          BY <1>1, <2>1, <5>1, <5>2 DEF IInv, TypeOK, Resource, Due, WithToken, SinceFrom
      <4>2. CASE r # r0
        <5>1. AtRisk(r)
          BY <1>1, <2>2, <2>4, <3>1, <4>2 DEF AtRisk
        <5>2. Due(WithToken(startToken), r)
          BY <1>2, <5>1 DEF CanStartAgain
        <5>3. QED
          BY <1>1, <2>1, <5>2, WithTokenFields DEF IInv, TypeOK, Resource, Due, WithToken
      <4>3. QED
        BY <4>1, <4>2
    <3>2. QED
      BY <2>3, <3>1 DEF CanStartAgain
  <2>6. CanGoOn'
    <3>1. ASSUME NEW r \in Rec, Missing(r), pending'[r] # stamp[r]
          PROVE  Due(resource, r)' /\ Due(WithToken(pageToken), r)'
      <4>1. pending[r] # stamp[r]
        BY <2>2, <3>1
      <4>2. Due(resource, r) /\ Due(WithToken(pageToken), r)
        BY <1>1, <1>2, <3>1, <4>1 DEF CanGoOn
      <4>3. /\ WithToken(pageToken)'.token = pageToken
            /\ WithToken(pageToken)'.from = resource.from
            /\ WithToken(pageToken)'.until = resource.until
        BY <1>1, <2>1 DEF TypeOK, Resource, WithToken
      <4>4. Due(WithToken(pageToken), r)'
        BY <1>1, <4>2, <4>3, WithTokenFields DEF IInv, Due
      <4>5. QED
        BY <1>1, <2>1, <2>3, <4>2, <4>4, WithTokenFields DEF IInv, Due
    <3>2. \A r \in Rec : pending'[r] # 0 /\ pending'[r] # stamp[r] => SinceUntil(r)
      BY <1>1, <1>2, <2>2 DEF CanGoOn
    <3>3. QED
      BY <1>1, <2>3, <2>4, <3>1, <3>2 DEF CanGoOn
  <2>7. EndIsComplete'
    <3>1. StillToCome(response.recs \union response.next)
      BY <1>1, <1>2 DEF EndIsComplete
    <3>2. \A r \in Rec : Missing(r) => \/ pending'[r] = stamp[r]
                                       \/ r \in response'.recs \union response'.next
                                       \/ SinceUntil(r)
      BY <2>1, <2>2, <3>1 DEF StillToCome
    <3>3. QED
      BY <1>1, <1>2, <2>1, <2>3, <2>4, <3>2 DEF EndIsComplete, StillToCome
  <2>8. KilledIsKnown'
    BY <1>1, <2>3 DEF KilledIsKnown, SetStatus, IInv, TypeOK, JobRecord
  <2>9. QED
    BY <2>5, <2>6, <2>7, <2>8
<1>6. QED
  BY <1>3, <1>4, <1>5

\* The page is stored: its token stands for what is still to come.
LEMMA PageDoneBehind ==
  ASSUME Behind, TypeOK', PageDone
  PROVE  ResourceIsBehind'
<1> USE DEF Behind, InOrder, ResourceIsBehind
<1>1. /\ UNCHANGED <<clock, stamp, settings, startToken, response, pending, stored, thread,
                     killing>>
      /\ pc = "store" /\ response.recs = {} /\ pageToken' = response.next
      /\ \/ /\ response.next = {} /\ job' = SetStatus(job, "OK") /\ pc' = "ending"
            /\ resource' = resource
         \/ /\ response.next # {} /\ resource' = [resource EXCEPT !.token = response.next]
            /\ pc' = "request" /\ job' = job
  BY DEF PageDone, Goto, NoToken, Elsewhere, NotOfTheJob, serverVars, schedVars, storeVars
<1>2. thread = "running" /\ Harvesting /\ resource.until # 0 /\ response.kind = "page"
  BY <1>1 DEF Harvesting, IInv, StatusFits, EndIsComplete, DatesInOrder
<1>3. Harvesting'
  BY <1>1, <1>2 DEF Harvesting
<1>4. /\ resource'.from = resource.from /\ resource'.until = resource.until
      /\ response.next # {} => resource'.token = response.next
  BY <1>1 DEF IInv, TypeOK, Resource
<1>5. \A r \in Rec : /\ Missing(r)' = Missing(r) /\ AtRisk(r)' = AtRisk(r)
                     /\ SinceUntil(r)' = SinceUntil(r)
                     /\ Due(WithToken(startToken), r)' = Due(WithToken(startToken), r)
  <2>1. /\ WithToken(startToken)'.token = startToken
        /\ WithToken(startToken)'.from = resource.from
        /\ WithToken(startToken)'.until = resource.until
    BY <1>1, <1>4 DEF TypeOK, Resource, WithToken
  <2>2. QED
    BY <1>1, <1>4, <2>1, WithTokenFields
    DEF IInv, Missing, AtRisk, SinceUntil, Due
<1>6. CanStartAgain'
  <2>1. \A r \in Rec : AtRisk(r)' => Due(WithToken(startToken), r)'
    BY <1>2, <1>5 DEF CanStartAgain
  <2>2. QED
    BY <1>3, <2>1 DEF CanStartAgain
<1>7. \A r \in Rec : Missing(r) => \/ pending[r] = stamp[r] \/ r \in response.next
                                   \/ SinceUntil(r)
  BY <1>1, <1>2 DEF EndIsComplete, StillToCome
<1>8. CanGoOn'
  <2>1. ASSUME NEW r \in Rec, Missing(r), pending[r] # stamp[r]
        PROVE  Due(resource, r)'
    <3>1. CASE response.next = {}
      BY <1>1, <1>2, <2>1, <3>1 DEF CanGoOn, Due
    <3>2. CASE response.next # {}
      BY <1>1, <1>4, <1>7, <2>1, <3>2 DEF Due, SinceUntil, NoToken
    <3>3. QED
      BY <3>1, <3>2
  <2>2. ASSUME NEW r \in Rec, Missing(r), pending[r] # stamp[r], pc' = "request"
        PROVE  Due(WithToken(pageToken), r)'
    <3>1. /\ WithToken(pageToken)'.token = resource'.token
          /\ WithToken(pageToken)'.from = resource'.from
          /\ WithToken(pageToken)'.until = resource'.until
      BY <1>1, <1>4, <2>2 DEF TypeOK, Resource, WithToken
    <3>2. QED
      BY <2>1, <2>2, <3>1 DEF Due
  <2>3. \A r \in Rec : pending[r] # 0 /\ pending[r] # stamp[r] => SinceUntil(r)
    BY <1>1, <1>2 DEF CanGoOn
  <2>4. QED
    BY <1>1, <1>5, <2>1, <2>2, <2>3 DEF CanGoOn
<1>9. EndIsComplete'
  BY <1>1, <1>5, <1>7 DEF EndIsComplete, StillToCome
<1>10. KilledIsKnown'
  BY <1>1 DEF KilledIsKnown, SetStatus, IInv, TypeOK, JobRecord
<1>11. QED
  BY <1>6, <1>8, <1>9, <1>10

\* The token is put back to where the run has started from, or cleared.
LEMMA BackToStart ==
  ASSUME Behind, TypeOK', Harvesting, pc' = "return",
         resource'.from = resource.from, resource'.until = resource.until,
         resource'.token \in {startToken, NoToken},
         UNCHANGED stamp,
         \A r \in Rec : AtRisk(r)' => AtRisk(r)
  PROVE  ResourceIsBehind'
<1> USE DEF Behind, InOrder, ResourceIsBehind
<1>1. ~Harvesting'
  BY DEF Harvesting
<1>2. CanStartAgain'
  <2>1. ASSUME NEW r \in Rec, AtRisk(r)'
        PROVE  Due(resource, r)'
    <3>1. SinceFrom(r) /\ Due(WithToken(startToken), r)
      BY <2>1, AtRiskIsSince DEF IInv, CanStartAgain
    <3>2. QED
      BY <3>1, WithTokenFields DEF IInv, Due, SinceFrom
  <2>2. QED
    BY <1>1, <2>1 DEF CanStartAgain
<1>3. CanGoOn' /\ EndIsComplete' /\ KilledIsKnown'
  BY <1>1 DEF CanGoOn, EndIsComplete, KilledIsKnown
<1>4. QED
  BY <1>2, <1>3

\* The handlers: without a token, what is missing is asked for by dates.
LEMMA HandlerBehind ==
  ASSUME Behind, TypeOK', HandleOaiError \/ HandleException, pc' = "marker"
  PROVE  ResourceIsBehind'
<1> USE DEF Behind, InOrder, ResourceIsBehind
<1>1. /\ UNCHANGED <<clock, stamp, settings, startToken, pageToken, response, pending,
                     stored, thread, killing>>
      /\ pc \in {"oaiError", "exception", "storageError"}
      /\ \/ KillSent /\ UNCHANGED <<job, resource>>
         \/ /\ NotKillSent /\ job' = SetStatus(job, "ERROR")
            /\ \/ resource' = [resource EXCEPT !.token = NoToken]
               \/ resource' = [resource EXCEPT !.token = resource.token]
  BY DEF HandleOaiError, HandleException, Goto, Elsewhere, NotOfTheJob, serverVars, schedVars,
         runVars, storeVars
<1>2. /\ resource'.from = resource.from /\ resource'.until = resource.until
      /\ resource'.token \in {resource.token, NoToken}
  BY <1>1 DEF IInv, TypeOK, Resource
<1>3. Harvesting /\ Harvesting'
  BY <1>1 DEF Harvesting, IInv, StatusFits
<1>4. job'.run \in {"KILLED", "ERROR"}
  BY <1>1 DEF KilledIsKnown, KillSent, SetStatus, IInv, TypeOK, JobRecord
<1>5. \A r \in Rec : /\ Missing(r)' = Missing(r) /\ AtRisk(r)' = AtRisk(r)
                     /\ SinceUntil(r)' = SinceUntil(r)
                     /\ Due(WithToken(startToken), r)' = Due(WithToken(startToken), r)
  <2>1. /\ WithToken(startToken)'.token = startToken
        /\ WithToken(startToken)'.from = resource.from
        /\ WithToken(startToken)'.until = resource.until
    BY <1>1, <1>2 DEF TypeOK, Resource, WithToken
  <2>2. QED
    BY <1>1, <1>2, <2>1, WithTokenFields
    DEF IInv, Missing, AtRisk, SinceUntil, Due
<1>6. CanStartAgain'
  <2>1. \A r \in Rec : AtRisk(r)' => Due(WithToken(startToken), r)'
    BY <1>3, <1>5 DEF CanStartAgain
  <2>2. QED
    BY <1>3, <2>1 DEF CanStartAgain
<1>7. CanGoOn'
  <2>1. ASSUME NEW r \in Rec, Missing(r), pending[r] # stamp[r]
        PROVE  Due(resource, r)'
    <3>1. CASE resource'.token = resource.token
      BY <1>1, <1>2, <1>3, <2>1, <3>1 DEF CanGoOn, Due
    <3>2. CASE resource'.token = NoToken
      <4>1. SinceFrom(r)
        BY <2>1, AtRiskIsSince DEF IInv, AtRisk
      <4>2. QED
        BY <1>1, <1>2, <3>2, <4>1 DEF Due, SinceFrom
    <3>3. QED
      BY <1>2, <3>1, <3>2
  <2>2. \A r \in Rec : pending[r] # 0 /\ pending[r] # stamp[r] => SinceUntil(r)
    BY <1>1, <1>3 DEF CanGoOn
  <2>3. QED
    BY <1>1, <1>5, <2>1, <2>2 DEF CanGoOn
<1>8. EndIsComplete' /\ KilledIsKnown'
  BY <1>1, <1>4 DEF EndIsComplete, KilledIsKnown
<1>9. QED
  BY <1>6, <1>7, <1>8

\* A StorageException ends the run; its resource is not spoiled if the token is cleared, or
\* is the one that the run has started from.
LEMMA StorageErrorBehind ==
  ASSUME Behind, TypeOK', HandleException, pc' = "return", ~spoiled'
  PROVE  ResourceIsBehind'
<1>1. /\ UNCHANGED <<stamp, pending, stored>> /\ pc = "storageError"
      /\ resource'.token \in {startToken, NoToken}
      /\ \E k : resource' = [resource EXCEPT !.token = k]
  BY DEF HandleException, Goto, NotOfTheJob, serverVars, storeVars
<1>2. resource'.from = resource.from /\ resource'.until = resource.until /\ Harvesting
  BY <1>1 DEF Behind, IInv, TypeOK, Resource, StatusFits, Harvesting
<1>3. \A r \in Rec : AtRisk(r)' => AtRisk(r)
  BY <1>1 DEF AtRisk, Missing
<1>4. QED
  BY <1>1, <1>2, <1>3, BackToStart

\* A commit takes away what was missing, but for what has changed since it was stored.
LEMMA CommittedIsStored ==
  ASSUME TypeOK, CommitStorage, UNCHANGED stamp, NEW r \in Rec, Missing(r)'
  PROVE  /\ pending'[r] = 0
         /\ \/ Missing(r) /\ pending[r] = 0
            \/ pending[r] # 0 /\ pending[r] # stamp[r]
BY DEF CommitStorage, Nothing, Missing

\* What is missing after a commit is due, whether the run was complete or not.
LEMMA CommittedIsDue ==
  ASSUME Behind, CommitStorage, UNCHANGED stamp, Harvesting, NEW r \in Rec, Missing(r)'
  PROVE  Due(resource, r)
<1> USE DEF Behind, InOrder, ResourceIsBehind, IInv
<1>1. CASE Missing(r) /\ pending[r] = 0
  BY <1>1 DEF CanGoOn, Missing
<1>2. CASE pending[r] # 0 /\ pending[r] # stamp[r]
  <2>1. SinceUntil(r)
    BY <1>2 DEF CanGoOn
  <2>2. QED
    BY <2>1, SinceUntilIsSince DEF Due, SinceUntil, SinceFrom
<1>3. QED
  BY <1>1, <1>2, CommittedIsStored

\* The commit at the end of a run that has met everything up to its until date.
LEMMA CommitBehind ==
  ASSUME Behind, TypeOK', Commit
  PROVE  ResourceIsBehind'
<1> USE DEF Behind, InOrder, ResourceIsBehind
<1>1. /\ UNCHANGED <<clock, stamp, settings, startToken, pageToken, response, thread, killing>>
      /\ pc = "commit"
      /\ \/ CommitStorage /\ pc' = "advance" /\ resource' = resource
         \/ /\ pc' = "return" /\ resource' = [resource EXCEPT !.token = startToken]
            /\ UNCHANGED <<pending, stored>>
  BY DEF Commit, Goto, NotOfTheJob, serverVars, schedVars, runVars, storeVars
<1>2. Harvesting
  BY <1>1 DEF Harvesting, IInv, StatusFits
<1>3. CASE CommitStorage /\ pc' = "advance" /\ resource' = resource
  <2>1. Harvesting'
    BY <1>1, <1>2, <1>3 DEF Harvesting
  <2>2. pending' = Nothing
    BY <1>3 DEF CommitStorage
  <2>3. \A r \in Rec : pending'[r] = 0
    BY <2>2 DEF Nothing
  <2>4. CanStartAgain'
    <3>1. ASSUME NEW r \in Rec, AtRisk(r)'
          PROVE  Due(WithToken(startToken), r)'
      <4>1. AtRisk(r)
        BY <1>1, <1>3, <2>3, <3>1, CommittedIsStored DEF IInv, AtRisk
      <4>2. Due(WithToken(startToken), r)
        BY <1>2, <4>1 DEF CanStartAgain
      <4>3. QED
        BY <1>1, <1>3, <4>2 DEF Due, WithToken
    <3>2. QED
      BY <2>1, <3>1 DEF CanStartAgain
  <2>5. CanGoOn'
    <3>1. ASSUME NEW r \in Rec, Missing(r)'
          PROVE  Due(resource, r)'
      <4>1. Due(resource, r)
        BY <1>1, <1>2, <1>3, <3>1, CommittedIsDue
      <4>2. QED
        BY <1>1, <1>3, <4>1 DEF Due
    <3>2. QED
      BY <1>3, <2>3, <3>1 DEF CanGoOn
  <2>6. EndIsComplete'
    <3>1. ASSUME settings.recordLimit = 0, NEW r \in Rec, Missing(r)'
          PROVE  SinceUntil(r)'
      <4>1. CASE pending[r] # 0 /\ pending[r] # stamp[r]
        BY <1>1, <1>2, <1>3, <4>1 DEF CanGoOn, SinceUntil
      <4>2. CASE Missing(r) /\ pending[r] = 0
        <5>1. StillToCome({})
          BY <1>1, <3>1 DEF EndIsComplete
        <5>2. SinceUntil(r)
          BY <4>2, <5>1 DEF StillToCome, Missing
        <5>3. QED
          BY <1>1, <1>3, <5>2 DEF SinceUntil
      <4>3. QED
        BY <1>1, <1>3, <3>1, <4>1, <4>2, CommittedIsStored DEF IInv
    <3>2. settings.recordLimit = 0 => StillToCome({})'
      BY <3>1 DEF StillToCome
    <3>3. QED
      BY <1>1, <1>3, <2>2, <3>2 DEF EndIsComplete
  <2>7. KilledIsKnown'
    BY <1>3 DEF KilledIsKnown
  <2>8. QED
    BY <2>4, <2>5, <2>6, <2>7
<1>4. CASE /\ pc' = "return" /\ resource' = [resource EXCEPT !.token = startToken]
           /\ UNCHANGED <<pending, stored>>
  <2>1. \A r \in Rec : AtRisk(r)' => AtRisk(r)
    BY <1>1, <1>4 DEF AtRisk, Missing
  <2>2. /\ resource'.from = resource.from /\ resource'.until = resource.until
        /\ resource'.token = startToken
    BY <1>4 DEF IInv, TypeOK, Resource
  <2>3. QED
    BY <1>1, <1>2, <1>4, <2>1, <2>2, BackToStart
<1>5. QED
  BY <1>1, <1>3, <1>4

\* The time marker moves on to the until date, up to which nothing is missing.
LEMMA AdvanceBehind ==
  ASSUME Behind, TypeOK', Advance
  PROVE  ResourceIsBehind'
<1> USE DEF Behind, InOrder, ResourceIsBehind
<1>1. /\ UNCHANGED <<clock, stamp, settings, startToken, pending, stored>>
      /\ pc = "advance"
      /\ \/ /\ settings.recordLimit = 0 /\ pc' = "finish"
            /\ resource' = [resource EXCEPT !.from = resource.until, !.until = 0, !.token = {}]
         \/ pc' = "return" /\ resource' = [resource EXCEPT !.token = startToken]
  BY DEF Advance, Goto, NoToken, Elsewhere, NotOfTheJob, serverVars, runVars, storeVars
<1>2. Harvesting /\ resource.until # 0 /\ pending = Nothing
  BY <1>1 DEF Harvesting, IInv, StatusFits, EndIsComplete, DatesInOrder
<1>3. CASE /\ settings.recordLimit = 0 /\ pc' = "finish"
           /\ resource' = [resource EXCEPT !.from = resource.until, !.until = 0, !.token = {}]
  <2>1. resource'.from = resource.until /\ resource'.until = 0 /\ resource'.token = {}
    BY <1>3 DEF IInv, TypeOK, Resource
  <2>2. ~Harvesting'
    BY <1>3 DEF Harvesting
  <2>3. ASSUME NEW r \in Rec, AtRisk(r)'
        PROVE  Due(resource, r)'
    <3>1. pending[r] = 0 /\ Missing(r)
      BY <1>1, <1>2, <2>3 DEF AtRisk, Missing, Nothing
    <3>2. SinceUntil(r)
      BY <1>1, <1>3, <3>1 DEF EndIsComplete, StillToCome, Missing
    <3>3. QED
      BY <1>1, <2>1, <3>2 DEF Due, SinceUntil, NoToken
  <2>4. CanStartAgain'
    BY <2>2, <2>3 DEF CanStartAgain
  <2>5. CanGoOn' /\ EndIsComplete' /\ KilledIsKnown'
    BY <1>1, <1>2, <1>3, <2>2 DEF CanGoOn, EndIsComplete, KilledIsKnown
  <2>6. QED
    BY <2>4, <2>5
<1>4. CASE pc' = "return" /\ resource' = [resource EXCEPT !.token = startToken]
  <2>1. /\ resource'.from = resource.from /\ resource'.until = resource.until
        /\ resource'.token = startToken
    BY <1>4 DEF IInv, TypeOK, Resource
  <2>2. \A r \in Rec : AtRisk(r)' => AtRisk(r)
    BY <1>1 DEF AtRisk, Missing
  <2>3. QED
    BY <1>1, <1>2, <1>4, <2>1, <2>2, BackToStart
<1>5. QED
  BY <1>1, <1>3, <1>4

\* A partial harvest that is kept is gone on with; one that is not is done again.
LEMMA PartialBehind ==
  ASSUME Behind, TypeOK', Partial
  PROVE  ResourceIsBehind'
<1> USE DEF Behind, InOrder, ResourceIsBehind
<1>1. /\ UNCHANGED stamp
      /\ pc \in {"partial", "partialError"} /\ pc' = "return"
      /\ \/ CommitStorage /\ resource' = resource
         \/ /\ RollbackStorage \/ UNCHANGED <<pending, stored>>
            /\ resource' = [resource EXCEPT !.token = startToken]
  BY DEF Partial, Goto, NotOfTheJob, serverVars, storeVars
<1>2. Harvesting /\ ~Harvesting'
  BY <1>1 DEF Harvesting, IInv, StatusFits
<1>3. CASE CommitStorage /\ resource' = resource
  <2>1. ASSUME NEW r \in Rec, AtRisk(r)'
        PROVE  Due(resource, r)'
    <3>1. Missing(r)'
      BY <1>3, <2>1 DEF AtRisk, CommitStorage, Nothing
    <3>2. Due(resource, r)
      BY <1>1, <1>2, <1>3, <3>1, CommittedIsDue
    <3>3. QED
      BY <1>1, <1>3, <3>2 DEF Due
  <2>2. CanStartAgain'
    BY <1>2, <2>1 DEF CanStartAgain
  <2>3. CanGoOn' /\ EndIsComplete' /\ KilledIsKnown'
    BY <1>1, <1>2 DEF CanGoOn, EndIsComplete, KilledIsKnown
  <2>4. QED
    BY <2>2, <2>3
<1>4. CASE /\ RollbackStorage \/ UNCHANGED <<pending, stored>>
           /\ resource' = [resource EXCEPT !.token = startToken]
  <2>1. /\ resource'.from = resource.from /\ resource'.until = resource.until
        /\ resource'.token = startToken
    BY <1>4 DEF IInv, TypeOK, Resource
  <2>2. \A r \in Rec : AtRisk(r)' => AtRisk(r)
    BY <1>1, <1>4 DEF RollbackStorage, Nothing, AtRisk, Missing
  <2>3. QED
    BY <1>1, <1>2, <1>4, <2>1, <2>2, BackToStart
<1>5. QED
  BY <1>1, <1>3, <1>4

\* The end of run(): what it has left in the storage without commit or rollback is due.
LEMMA ReturnBehind ==
  ASSUME Behind, TypeOK', JobReturns
  PROVE  ResourceIsBehind'
<1> USE DEF Behind, ResourceIsBehind
<1>1. /\ UNCHANGED <<stamp, resource>>
      /\ pc = "return" /\ pc' = "idle" /\ thread' = "none" /\ AbandonStorage
  BY DEF JobReturns, ForgetRun, Goto, Elsewhere, NotOfTheJob, serverVars
<1>2. ~Harvesting /\ ~Harvesting'
  BY <1>1 DEF Harvesting
<1>3. \A r \in Rec : AtRisk(r)' => AtRisk(r)
  BY <1>1 DEF AbandonStorage, Nothing, AtRisk, Missing
<1>4. CanStartAgain'
  <2>1. ASSUME NEW r \in Rec, AtRisk(r)'
        PROVE  Due(resource, r)'
    BY <1>1, <1>2, <1>3, <2>1 DEF CanStartAgain, Due
  <2>2. QED
    BY <1>2, <2>1 DEF CanStartAgain
<1>5. CanGoOn' /\ EndIsComplete' /\ KilledIsKnown'
  BY <1>1, <1>2 DEF CanGoOn, EndIsComplete, KilledIsKnown
<1>6. QED
  BY <1>4, <1>5

\* The clock goes on.
LEMMA TickBehind ==
  ASSUME Behind, TypeOK', Tick
  PROVE  ResourceIsBehind'
<1>1. UNCHANGED <<stamp, settings, resource, job, thread, killing, pc, response,
                  startToken, pageToken, pending, stored>>
  BY DEF Tick, runVars, storeVars
<1>2. EndIsComplete' /\ KilledIsKnown'
  BY <1>1 DEF Behind, ResourceIsBehind, EndIsComplete, StillToCome, Missing, SinceUntil,
              KilledIsKnown
<1>3. Harvesting' = Harvesting
  BY <1>1 DEF Harvesting
<1>4. CanStartAgain' /\ CanGoOn'
  BY <1>1, <1>3, SameData
<1>5. QED
  BY <1>2, <1>4 DEF ResourceIsBehind

\* A change on the server is later than the dates of the harvest: it is due whatever the
\* token.
LEMMA PublishedIsDue ==
  ASSUME TypeOK, DatesInOrder, NEW r0 \in Rec, Publish(r0), NEW h,
         \E g \in {resource, row} : h.from = g.from /\ h.until = g.until
  PROVE  /\ stamp'[r0] = clock
         /\ h.from = 0 \/ Day(h.from) <= Day(clock)
         /\ h.until # 0 => Day(h.until) <= Day(clock)
<1>1. /\ clock \in Nat /\ h.from \in Nat /\ h.until \in Nat
      /\ h.from <= clock /\ h.until <= clock
  BY Numbers DEF DatesInOrder
<1>2. Day(h.from) <= Day(clock) /\ Day(h.until) <= Day(clock)
  BY <1>1, DayMonotonic
<1>3. QED
  BY <1>2 DEF Publish, TypeOK

\* What the change does to the resource: not before its until date.
LEMMA PublishBehind ==
  ASSUME Behind, TypeOK', NEW r0 \in Rec, Publish(r0)
  PROVE  ResourceIsBehind'
<1> USE DEF Behind, InOrder, ResourceIsBehind
<1>1. /\ UNCHANGED <<settings, resource, job, thread, killing, pc, response,
                     startToken, pageToken, pending, stored>>
      /\ stamp' = [stamp EXCEPT ![r0] = clock]
      /\ Harvesting' = Harvesting
  BY DEF Publish, runVars, storeVars, Harvesting
<1>2. stamp'[r0] = clock /\ \A r \in Rec : r # r0 => stamp'[r] = stamp[r]
  BY <1>1 DEF IInv, TypeOK
<1>3. /\ SinceFrom(r0)'
      /\ resource.until # 0 => SinceUntil(r0)'
  BY <1>1, <1>2, PublishedIsDue DEF IInv, SinceFrom, SinceUntil
<1>4. \A r \in Rec : r # r0 =>
        /\ Missing(r)' = Missing(r) /\ AtRisk(r)' = AtRisk(r)
        /\ SinceFrom(r)' = SinceFrom(r) /\ SinceUntil(r)' = SinceUntil(r)
        /\ Due(resource, r)' = Due(resource, r)
        /\ Due(WithToken(startToken), r)' = Due(WithToken(startToken), r)
        /\ Due(WithToken(pageToken), r)' = Due(WithToken(pageToken), r)
  BY <1>1, <1>2 DEF Missing, AtRisk, SinceFrom, SinceUntil, Due, WithToken
<1>5. Due(resource, r0)'
  BY <1>1, <1>3 DEF Due, SinceFrom, SinceUntil, TokensAreInRange, InRange
<1>6. Harvesting => Due(WithToken(startToken), r0)' /\ Due(WithToken(pageToken), r0)'
  <2>1. \A k : /\ WithToken(k).token = k /\ WithToken(k).from = resource.from
               /\ WithToken(k).until = resource.until
    BY WithTokenFields DEF IInv
  <2>2. QED
    BY <1>1, <1>3, <2>1 DEF Due, SinceFrom, SinceUntil, WithToken, DatesInOrder
<1>7. CanStartAgain'
  <2>1. CASE Harvesting
    <3>1. \A r \in Rec : AtRisk(r)' => Due(WithToken(startToken), r)'
      BY <1>4, <1>6, <2>1 DEF CanStartAgain
    <3>2. QED
      BY <1>1, <2>1, <3>1 DEF CanStartAgain
  <2>2. CASE ~Harvesting
    <3>1. \A r \in Rec : AtRisk(r)' => Due(resource, r)'
      BY <1>4, <1>5, <2>2 DEF CanStartAgain
    <3>2. QED
      BY <1>1, <2>2, <3>1 DEF CanStartAgain
  <2>3. QED
    BY <2>1, <2>2
<1>8. CanGoOn'
  <2>1. ASSUME Harvesting, NEW r \in Rec
        PROVE  /\ Missing(r)' => pending'[r] = stamp'[r] \/ Due(resource, r)'
               /\ pc \in {"request", "check", "store"} /\ Missing(r)' =>
                    pending'[r] = stamp'[r] \/ Due(WithToken(pageToken), r)'
               /\ pending'[r] # 0 /\ pending'[r] # stamp'[r] => SinceUntil(r)'
    <3>1. CASE r = r0
      BY <1>1, <1>3, <1>5, <1>6, <2>1, <3>1 DEF DatesInOrder
    <3>2. CASE r # r0
      BY <1>1, <1>2, <1>4, <2>1, <3>2 DEF CanGoOn
    <3>3. QED
      BY <3>1, <3>2
  <2>2. QED
    BY <1>1, <2>1 DEF CanGoOn
<1>9. EndIsComplete'
  <2>1. \A k \in SUBSET Rec : Harvesting /\ StillToCome(k) => StillToCome(k)'
    BY <1>1, <1>2, <1>3, <1>4 DEF StillToCome, DatesInOrder
  <2>2. pc \in {"check", "store", "ending", "marker", "commit", "advance"} => Harvesting
    BY DEF Harvesting, IInv, StatusFits
  <2>3. response.recs \union response.next \subseteq Rec /\ {} \subseteq Rec
    BY DEF IInv, TypeOK, Response, Tokens
  <2>4. QED
    BY <1>1, <2>1, <2>2, <2>3 DEF EndIsComplete
<1>10. KilledIsKnown'
  BY <1>1 DEF KilledIsKnown
<1>11. QED
  BY <1>7, <1>8, <1>9, <1>10

\* The scheduler and the kill() change no more than the job record, the status of the
\* resource and the row.
LEMMA SchedulerBehind ==
  ASSUME Behind, TypeOK',
         \/ StartJob \/ Persist \/ NotifyFinish \/ RecordShutdown \/ KillAll \/ StopJob
         \/ KillFinish \/ UNCHANGED vars
  PROVE  ResourceIsBehind'
<1> USE DEF Behind, ResourceIsBehind
<1>1. /\ UNCHANGED <<clock, stamp, settings, startToken, pageToken, response, pending,
                     stored, pc>>
      /\ thread' = thread \/ (thread = "none" /\ thread' = "started")
  BY DEF StartJob, Persist, NotifyFinish, RecordShutdown, KillAll, StopJob, KillBegin, KillFinish,
         vars, serverVars, runVars, storeVars
<1>2. /\ resource'.from = resource.from /\ resource'.until = resource.until
      /\ resource'.token = resource.token
  BY DEF StartJob, Persist, NotifyFinish, RecordShutdown, KillAll, StopJob, KillBegin, KillFinish,
         vars, schedVars, IInv, TypeOK, Resource
<1>3. Harvesting' = Harvesting
  BY <1>1 DEF Harvesting
<1>4. CanStartAgain' /\ CanGoOn'
  BY <1>1, <1>2, <1>3, SameData
<1>5. \/ job'.run = job.run /\ job'.die = job.die /\ killing' = killing
      \/ job'.run = job.run /\ killing' = (job.run = "RUNNING")
      \/ job'.run = "KILLED"
      \/ job.run = "FINISHED" /\ UNCHANGED killing
  BY DEF StartJob, Persist, NotifyFinish, RecordShutdown, KillAll, StopJob, KillBegin, KillFinish,
         KillRequested, KillWillOverwrite, KillOverwrite, FinishReceived, ClearUpdated, vars,
         schedVars, IInv, TypeOK, JobRecord
<1>6. /\ pc \in {"request", "check", "store", "oaiError", "exception", "storageError"} =>
           job.run \in {"RUNNING", "KILLED"}
      /\ pc \in {"ending", "marker", "commit"} => job.run # "FINISHED"
  BY DEF IInv, StatusFits, StatusAt
<1>7. EndIsComplete'
  <2>1. \A r \in Rec : Missing(r)' = Missing(r) /\ SinceUntil(r)' = SinceUntil(r)
    BY <1>1, <1>2 DEF Missing, SinceUntil
  <2>2. /\ StillToCome(response.recs \union response.next) =>
             StillToCome(response.recs \union response.next)'
        /\ StillToCome({}) => StillToCome({})'
    BY <1>1, <2>1 DEF StillToCome
  <2>3. QED
    BY <1>1, <1>5, <1>6, <2>2 DEF EndIsComplete
<1>8. KilledIsKnown'
  BY <1>1, <1>5, <1>6 DEF KilledIsKnown
<1>9. QED
  BY <1>4, <1>7, <1>8

\* A job that is constructed from a row that it may be constructed from.
LEMMA LoadBehind ==
  ASSUME IInv, InOrder, RowIsBehind, TypeOK', Crash \/ Deploy, ~spoiled'
  PROVE  ResourceIsBehind'
<1>1. /\ UNCHANGED stamp /\ resource' = row /\ pc' = "idle" /\ thread' # "running"
      /\ rowState = "sound"
      /\ AbandonStorage \/ UNCHANGED <<pending, stored>>
  BY DEF Crash, Deploy, RowLoaded, ForgetRun, Goto, serverVars, storeVars, IInv, StatusFits
<1>2. ~Harvesting'
  BY <1>1 DEF Harvesting
<1>3. \A r \in Rec : AtRisk(r)' => AtRisk(r)
  BY <1>1 DEF AbandonStorage, Nothing, AtRisk, Missing
<1>4. ASSUME NEW r \in Rec, AtRisk(r)'
      PROVE  Due(resource, r)'
  BY <1>1, <1>3, <1>4 DEF RowIsBehind, Due
<1>5. CanStartAgain'
  BY <1>2, <1>4 DEF CanStartAgain
<1>6. CanGoOn' /\ EndIsComplete' /\ KilledIsKnown'
  BY <1>1, <1>2 DEF CanGoOn, EndIsComplete, KilledIsKnown
<1>7. QED
  BY <1>5, <1>6 DEF ResourceIsBehind

\* Every step keeps a resource that it does not spoil behind what is missing.
LEMMA NextResource ==
  ASSUME IInv, MarkerIsBehind, TypeOK', [Next]_vars, ~spoiled'
  PROVE  ResourceIsBehind'
<1>1. CASE Crash \/ Deploy
  BY <1>1, LoadBehind DEF MarkerIsBehind
<1>2. CASE ~(Crash \/ Deploy)
  <2>1. ~spoiled
    BY <1>2 DEF Next, RunStep, SchedulerStep, JobBegins, HandleException, Tick, Publish, Request,
           CheckResponse, StoreRecord, PageDone, Ending, MakeOk, HandleOaiError, Marker, Commit,
           Advance, Finish, SetFinished, Premature, ResetStatus, Partial, JobReturns, StartJob,
           Persist, NotifyFinish, RecordShutdown, KillAll, StopJob, KillBegin, KillFinish,
           Elsewhere, history, vars
  <2>2. Behind
    BY <2>1 DEF Behind, MarkerIsBehind
  <2>3. HandleOaiError \/ HandleException => pc' \in {"marker", "return"}
    BY DEF HandleOaiError, HandleException, Goto
  <2>4. HandleOaiError => pc' = "marker"
    BY DEF HandleOaiError, Goto
  <2>5. QED
    BY <1>2, <2>2, <2>3, <2>4, BeginBehind, RequestBehind, CheckBehind, StoreBehind, PageDoneBehind,
       LookingBehind, HandlerBehind, StorageErrorBehind, CommitBehind, AdvanceBehind,
       PartialBehind, ReturnBehind, TickBehind, PublishBehind, SchedulerBehind
    DEF Next, RunStep, SchedulerStep
<1>3. QED
  BY <1>1, <1>2

-----------------------------------------------------------------------------
(***************************************************************************)
(* The row, as long as it is not spoiled: what is missing is due of it, or *)
(* will be when the harvest that is going on is committed                  *)
(***************************************************************************)

Loop == {"request", "check", "store"}

\* Steps with which nothing comes to be at risk, and no harvest is under way or lost.
LEMMA SoundStays ==
  ASSUME RowIsBehind, UNCHANGED <<row, stamp>>,
         rowState' # "open", rowState' = "sound" => rowState = "sound",
         \A r \in Rec : AtRisk(r)' => AtRisk(r),
         pc' \in Loop => pc \in Loop /\ startToken' = startToken
  PROVE  RowIsBehind'
BY DEF RowIsBehind, Due, Loop

\* Steps that leave the storage alone, and a harvest that is under way too.
LEMMA OpenStays ==
  ASSUME RowIsBehind, UNCHANGED <<row, rowState, spoiled, stamp, pending, stored>>,
         rowState = "open" => /\ Harvesting' /\ pc' # "advance"
                              /\ resource'.from = resource.from
                              /\ resource'.until = resource.until,
         pc' \in Loop => pc \in Loop /\ startToken' = startToken
  PROVE  RowIsBehind'
<1>1. \A r \in Rec : AtRisk(r)' = AtRisk(r) /\ Missing(r)' = Missing(r)
                     /\ Due(row, r)' = Due(row, r)
  BY DEF AtRisk, Missing, Due
<1>2. QED
  BY <1>1 DEF RowIsBehind, Loop

\* A harvest is under way only in a run that harvests.
LEMMA NotOpen ==
  ASSUME RowIsBehind, ~Harvesting \/ pc = "advance"
  PROVE  rowState # "open"
BY DEF RowIsBehind

\* The steps of run() that leave the storage alone.
LEMMA RunRow ==
  ASSUME IInv, RowIsBehind, TypeOK',
         \/ Request \/ CheckResponse \/ PageDone \/ Ending \/ MakeOk \/ HandleOaiError
         \/ HandleException \/ Marker \/ Finish \/ SetFinished \/ Premature \/ ResetStatus
  PROVE  RowIsBehind'
<1>1. /\ UNCHANGED <<stamp, row, pending, stored, thread, startToken>>
      /\ pc \notin {"advance", "idle", "return"} /\ pc' # "advance"
      /\ pc \in {"finish", "setFinished"} \/ pc' \notin {"finish", "setFinished"}
      /\ pc' \in Loop => pc \in Loop
      /\ \/ UNCHANGED <<spoiled, rowState>> /\ (pc' = "return" => pc \in {"finish", "setFinished"})
         \/ HarvestLost /\ pc' = "return"
      /\ resource' = resource \/ \E k : resource' = [resource EXCEPT !.token = k]
  BY DEF Request, CheckResponse, PageDone, Ending, MakeOk, HandleOaiError, HandleException, Marker,
         Finish, SetFinished, Premature, ResetStatus, Goto, Elsewhere, NotOfTheJob, history,
         serverVars, schedVars, runVars, storeVars, Loop
<1>2. resource'.from = resource.from /\ resource'.until = resource.until
  BY <1>1 DEF IInv, TypeOK, Resource
<1>3. \A r \in Rec : AtRisk(r)' => AtRisk(r)
  BY <1>1 DEF AtRisk, Missing
<1>4. CASE HarvestLost /\ pc' = "return"
  BY <1>1, <1>3, <1>4, SoundStays DEF HarvestLost, Loop
<1>5. CASE UNCHANGED <<spoiled, rowState>> /\ (pc' = "return" => pc \in {"finish", "setFinished"})
  <2>1. rowState = "open" => Harvesting' /\ pc' # "advance"
    BY <1>1, <1>5, NotOpen DEF Harvesting
  <2>2. QED
    BY <1>1, <1>2, <1>5, <2>1, OpenStays
<1>6. QED
  BY <1>1, <1>4, <1>5

\* run() begins: the row has the token of the run, or none, or is spoiled.
LEMMA BeginRow ==
  ASSUME IInv, RowIsBehind, JobBegins
  PROVE  RowIsBehind'
<1>1. /\ UNCHANGED <<stamp, row, pending, stored>> /\ thread = "started"
      /\ startToken' = resource.token
      /\ rowState' = IF row.token \in {NoToken, resource.token} THEN rowState ELSE "spoiled"
  BY DEF JobBegins, NotOfTheJob, serverVars, schedVars, storeVars
<1>2. rowState # "open"
  BY <1>1, NotOpen DEF Harvesting
<1>3. \A r \in Rec : AtRisk(r)' = AtRisk(r) /\ Due(row, r)' = Due(row, r)
  BY <1>1 DEF AtRisk, Missing, Due
<1>4. QED
  BY <1>1, <1>2, <1>3 DEF RowIsBehind

\* A record that is stored is one that the run has asked for since the row's from date, or
\* one that the row's token stands for.
LEMMA StoreRow ==
  ASSUME IInv, InOrder, RowIsBehind, TypeOK', StoreRecord
  PROVE  RowIsBehind'
<1> USE DEF InOrder
<1>1. /\ UNCHANGED <<stamp, row, spoiled, rowState, stored, thread, startToken>>
      /\ pc = "store" /\ pc' \in {"store", "ending", "exception", "storageError"}
      /\ resource' = resource \/ \E k : resource' = [resource EXCEPT !.token = k]
      /\ \/ pending' = pending
         \/ \E r \in response.recs : pending' = [pending EXCEPT ![r] = stamp[r]]
  BY DEF StoreRecord, Goto, Elsewhere, NotOfTheJob, history, serverVars, schedVars
<1>2. thread = "running" /\ Harvesting /\ Harvesting' /\ response.recs \subseteq Rec
  BY <1>1 DEF Harvesting, IInv, StatusFits, TypeOK, Response, Tokens
<1>3. resource'.from = resource.from /\ resource'.until = resource.until
  BY <1>1 DEF IInv, TypeOK, Resource
<1>4. CASE pending' = pending
  BY <1>1, <1>2, <1>3, <1>4, OpenStays DEF Loop
<1>5. CASE \E r \in response.recs : pending' = [pending EXCEPT ![r] = stamp[r]]
  <2>1. PICK r0 \in response.recs : pending' = [pending EXCEPT ![r0] = stamp[r0]]
    BY <1>5
  <2>2. /\ r0 \in Rec /\ pending'[r0] = stamp[r0]
        /\ \A r \in Rec : r # r0 => pending'[r] = pending[r]
    BY <1>2, <2>1 DEF IInv, TypeOK
  <2>3. \A r \in Rec : Missing(r)' = Missing(r) /\ Due(row, r)' = Due(row, r)
    BY <1>1 DEF Missing, Due
  <2>4. row.token \in {NoToken, startToken} => Due(row, r0)
    <3>1. SinceFrom(r0)
      BY <1>1 DEF TokensAreInRange, InRange, SinceFrom
    <3>2. row.from = 0 \/ Day(row.from) <= Day(stamp[r0])
      <4>1. /\ row.from \in Nat /\ resource.from \in Nat /\ stamp[r0] \in Nat
            /\ row.from <= resource.from
        BY <2>2, Numbers DEF IInv, DatesInOrder
      <4>2. /\ Day(row.from) <= Day(resource.from) /\ Day(row.from) \in Nat
            /\ Day(resource.from) \in Nat /\ Day(stamp[r0]) \in Nat
        BY <4>1, DayMonotonic, DayType
      <4>3. QED
        BY <3>1, <4>1, <4>2 DEF SinceFrom
    <3>3. startToken # NoToken => r0 \in startToken
      BY <1>1 DEF WithinStart
    <3>4. QED
      BY <3>2, <3>3 DEF Due
  <2>5. ASSUME rowState = "sound"
        PROVE  /\ \A r \in Rec : AtRisk(r)' => Due(row, r)'
               /\ row.token \in {NoToken, startToken}
    <3>1. row.token \in {NoToken, startToken} /\ \A r \in Rec : AtRisk(r) => Due(row, r)
      BY <1>1, <2>5 DEF RowIsBehind
    <3>2. \A r \in Rec : r # r0 /\ AtRisk(r)' => AtRisk(r)
      BY <2>2, <2>3 DEF AtRisk
    <3>3. QED
      BY <2>3, <2>4, <3>1, <3>2
  <2>6. ASSUME rowState = "open", NEW r \in Rec, Missing(r)'
        PROVE  pending'[r] = stamp[r] \/ Due(row, r)'
    BY <2>2, <2>3, <2>6 DEF RowIsBehind
  <2>7. QED
    BY <1>1, <1>2, <1>3, <2>5, <2>6 DEF RowIsBehind
<1>6. QED
  BY <1>1, <1>4, <1>5

\* A harvest that is kept is one that the row may be gone on with.
LEMMA KeptRow ==
  ASSUME IInv, MarkerIsBehind, CommitStorage, UNCHANGED <<stamp, row>>, pc' \notin Loop
  PROVE  RowIsBehind'
<1>1. /\ pending' = Nothing /\ rowState' # "open"
      /\ rowState' = "sound" => rowState \in {"sound", "open"}
  BY DEF CommitStorage, HarvestKept, IInv, TypeOK
<1>2. \A r \in Rec : AtRisk(r)' => Missing(r)'
  BY <1>1 DEF AtRisk, Nothing
<1>3. ASSUME NEW r \in Rec, Missing(r)', rowState \in {"sound", "open"}
      PROVE  Due(row, r)
  <2>1. \/ Missing(r) /\ pending[r] = 0
        \/ pending[r] # 0 /\ pending[r] # stamp[r]
    BY <1>3, CommittedIsStored DEF IInv
  <2>2. CASE rowState = "sound"
    BY <2>1, <2>2 DEF MarkerIsBehind, RowIsBehind, AtRisk
  <2>3. CASE rowState = "open"
    <3>1. /\ row.until = resource.until /\ row.token # NoToken /\ Harvesting /\ ~spoiled
          /\ Missing(r) => pending[r] = stamp[r] \/ Due(row, r)
      BY <2>3 DEF MarkerIsBehind, RowIsBehind
    <3>2. pending[r] # 0 /\ pending[r] # stamp[r] => SinceUntil(r)
      BY <3>1 DEF MarkerIsBehind, ResourceIsBehind, CanGoOn
    <3>3. QED
      BY <2>1, <3>1, <3>2 DEF Due, SinceUntil, Missing
  <2>4. QED
    BY <1>3, <2>2, <2>3
<1>4. \A r \in Rec : Due(row, r)' = Due(row, r)
  BY DEF Due
<1>5. QED
  BY <1>1, <1>2, <1>3, <1>4 DEF RowIsBehind, Loop

\* The steps that end the transaction.
LEMMA TransactionRow ==
  ASSUME IInv, MarkerIsBehind, TypeOK', Commit \/ Partial \/ Advance \/ JobReturns
  PROVE  RowIsBehind'
<1>1. /\ UNCHANGED <<stamp, row>> /\ pc' \notin Loop
      /\ \/ CommitStorage
         \/ RollbackStorage
         \/ HarvestLost /\ UNCHANGED <<pending, stored>>
         \/ /\ AbandonStorage \/ UNCHANGED <<pending, stored>>
            /\ rowState' = rowState /\ pc \in {"return", "advance"}
  BY DEF Commit, Partial, Advance, JobReturns, ForgetRun, Goto, Elsewhere, NotOfTheJob, history,
         serverVars, schedVars, storeVars, Loop
<1>2. CASE CommitStorage
  BY <1>1, <1>2, KeptRow
<1>3. CASE ~CommitStorage
  <2>1. \A r \in Rec : AtRisk(r)' => AtRisk(r)
    BY <1>1, <1>3 DEF RollbackStorage, AbandonStorage, Nothing, AtRisk, Missing
  <2>2. rowState' # "open" /\ (rowState' = "sound" => rowState = "sound")
    BY <1>1, <1>3, NotOpen DEF MarkerIsBehind, RollbackStorage, HarvestLost, Harvesting
  <2>3. QED
    BY <1>1, <2>1, <2>2, SoundStays DEF MarkerIsBehind
<1>4. QED
  BY <1>2, <1>3

\* The clock goes on; a change on the server is later than the row's dates.
LEMMA ServerRow ==
  ASSUME IInv, MarkerIsBehind, TypeOK', Tick \/ \E r \in Rec : Publish(r)
  PROVE  RowIsBehind'
<1>1. /\ UNCHANGED <<resource, row, pc, thread, startToken, pending, stored, spoiled, rowState>>
      /\ Harvesting' = Harvesting
  BY DEF Tick, Publish, schedVars, runVars, storeVars, history, Harvesting
<1>2. CASE Tick
  BY <1>1, <1>2, OpenStays DEF Tick, MarkerIsBehind, RowIsBehind
<1>3. ASSUME NEW r0 \in Rec, Publish(r0)
      PROVE  RowIsBehind'
  <2>1. stamp' = [stamp EXCEPT ![r0] = clock]
    BY <1>3 DEF Publish
  <2>2. stamp'[r0] = clock /\ \A r \in Rec : r # r0 => stamp'[r] = stamp[r]
    BY <2>1 DEF IInv, TypeOK
  <2>3. Due(row, r0)'
    <3>1. /\ row.from = 0 \/ Day(row.from) <= Day(clock)
          /\ row.until # 0 => Day(row.until) <= Day(clock)
      BY <1>3, PublishedIsDue DEF MarkerIsBehind, InOrder, IInv
    <3>2. row.token # NoToken => row.until # 0
      BY DEF MarkerIsBehind, InOrder, TokensAreInRange, InRange
    <3>3. QED
      BY <1>1, <2>2, <3>1, <3>2 DEF Due
  <2>4. \A r \in Rec : r # r0 => /\ Missing(r)' = Missing(r) /\ AtRisk(r)' = AtRisk(r)
                                 /\ Due(row, r)' = Due(row, r)
    BY <1>1, <2>2 DEF Missing, AtRisk, Due
  <2>5. ASSUME rowState = "sound", NEW r \in Rec, AtRisk(r)'
        PROVE  Due(row, r)'
    BY <2>3, <2>4, <2>5 DEF MarkerIsBehind, RowIsBehind
  <2>6. ASSUME rowState = "open", NEW r \in Rec, Missing(r)'
        PROVE  pending'[r] = stamp'[r] \/ Due(row, r)'
    BY <1>1, <2>2, <2>3, <2>4, <2>6 DEF MarkerIsBehind, RowIsBehind
  <2>7. QED
    BY <1>1, <2>5, <2>6 DEF MarkerIsBehind, RowIsBehind
<1>4. QED
  BY <1>2, <1>3

\* The resource is saved: the row may be gone on with, or will when the harvest is kept.
LEMMA SavedRow ==
  ASSUME IInv, MarkerIsBehind, TypeOK', RowSaved, row' = resource',
         UNCHANGED <<spoiled, stamp, thread, pc, startToken, pending, stored>>,
         resource'.from = resource.from, resource'.until = resource.until,
         resource'.token = resource.token
  PROVE  RowIsBehind'
<1> USE DEF MarkerIsBehind, InOrder
<1>1. CASE spoiled
  BY <1>1 DEF RowSaved, RowIsBehind
<1>2. CASE ~spoiled
  <2>1. CanStartAgain /\ CanGoOn /\ EndIsComplete /\ Harvesting' = Harvesting
    BY <1>2 DEF ResourceIsBehind, Harvesting
  <2>2. \A r \in Rec : /\ AtRisk(r)' = AtRisk(r) /\ Missing(r)' = Missing(r)
                       /\ Due(row, r)' = Due(resource, r)
    BY DEF AtRisk, Missing, Due
  <2>3. CASE MidHarvest
    BY <1>2, <2>1, <2>2, <2>3 DEF RowSaved, MidHarvest, RowIsBehind, CanGoOn
  <2>4. CASE ~MidHarvest
    <3>1. ASSUME NEW r \in Rec, AtRisk(r)
          PROVE  Due(resource, r)
      <4>1. CASE ~Harvesting
        BY <2>1, <3>1, <4>1 DEF CanStartAgain
      <4>2. CASE Harvesting /\ pc = "advance"
        <5>1. pending[r] = 0 /\ Missing(r)
          BY <2>1, <3>1, <4>2 DEF EndIsComplete, Nothing, AtRisk
        <5>2. QED
          BY <2>1, <4>2, <5>1 DEF CanGoOn, Missing
      <4>3. CASE Harvesting /\ resource.token = NoToken
        BY <2>1, <3>1, <4>3, AtRiskIsSince, DueByDates DEF IInv
      <4>4. CASE Harvesting /\ resource.token = startToken
        <5>1. Due(WithToken(startToken), r)
          BY <2>1, <3>1, <4>4 DEF CanStartAgain
        <5>2. QED
          BY <4>4, <5>1, WithTokenFields DEF IInv, Due
      <4>5. QED
        BY <2>4, <4>1, <4>2, <4>3, <4>4 DEF MidHarvest
    <3>2. pc \in Loop => resource.token \in {NoToken, startToken}
      BY <2>4 DEF MidHarvest, Harvesting, Loop, IInv, StatusFits
    <3>3. rowState' = "sound"
      BY <1>2, <2>4 DEF RowSaved
    <3>4. QED
      BY <2>2, <3>1, <3>2, <3>3 DEF RowIsBehind, Loop
  <2>5. QED
    BY <2>3, <2>4
<1>3. QED
  BY <1>1, <1>2

\* The scheduler and the kill().
LEMMA SchedulerRow ==
  ASSUME IInv, MarkerIsBehind, TypeOK',
         \/ StartJob \/ Persist \/ NotifyFinish \/ RecordShutdown \/ KillAll \/ StopJob
         \/ KillFinish \/ UNCHANGED vars
  PROVE  RowIsBehind'
<1>1. /\ UNCHANGED <<spoiled, stamp, startToken, pending, stored, pc>>
      /\ thread' = thread \/ (thread = "none" /\ thread' = "started")
      /\ \/ RowSaved /\ row' = resource' /\ thread' = thread
         \/ UNCHANGED <<row, rowState>>
  BY DEF StartJob, Persist, NotifyFinish, RecordShutdown, KillAll, StopJob, KillBegin, KillFinish,
         vars, serverVars, schedVars, runVars, storeVars, history
<1>2. /\ resource'.from = resource.from /\ resource'.until = resource.until
      /\ resource'.token = resource.token
  BY DEF StartJob, Persist, NotifyFinish, RecordShutdown, KillAll, StopJob, KillBegin, KillFinish,
         vars, schedVars, IInv, TypeOK, Resource
<1>3. CASE RowSaved /\ row' = resource' /\ thread' = thread
  BY <1>1, <1>2, <1>3, SavedRow
<1>4. CASE UNCHANGED <<row, rowState>>
  <2>1. rowState = "open" => Harvesting' /\ pc' # "advance"
    BY <1>1 DEF MarkerIsBehind, RowIsBehind, Harvesting
  <2>2. QED
    BY <1>1, <1>2, <1>4, <2>1, OpenStays DEF MarkerIsBehind
<1>5. QED
  BY <1>1, <1>3, <1>4

\* A job is constructed from the row, which it leaves as it is.
LEMMA LoadRow ==
  ASSUME IInv, RowIsBehind, Crash \/ Deploy
  PROVE  RowIsBehind'
<1>1. /\ UNCHANGED <<row, stamp>> /\ pc' = "idle"
      /\ rowState' # "open" /\ (rowState' = "sound" => rowState = "sound")
      /\ AbandonStorage \/ UNCHANGED <<pending, stored>>
  BY DEF Crash, Deploy, RowLoaded, ForgetRun, Goto, serverVars, storeVars, IInv, StatusFits
<1>2. \A r \in Rec : AtRisk(r)' => AtRisk(r)
  BY <1>1 DEF AbandonStorage, Nothing, AtRisk, Missing
<1>3. QED
  BY <1>1, <1>2, SoundStays DEF Loop

\* Every step.
LEMMA NextRow ==
  ASSUME IInv, MarkerIsBehind, TypeOK', [Next]_vars
  PROVE  RowIsBehind'
<1>1. InOrder /\ RowIsBehind
  BY DEF MarkerIsBehind
<1>2. QED
  BY <1>1, RunRow, BeginRow, StoreRow, TransactionRow, ServerRow, SchedulerRow, LoadRow
  DEF Next, RunStep, SchedulerStep

-----------------------------------------------------------------------------
(* All of it *)

\* A new job asks for everything.
LEMMA InitBehind == Init => MarkerIsBehind
<1> SUFFICES ASSUME Init PROVE MarkerIsBehind
  OBVIOUS
<1>1. /\ clock = 1 /\ stamp \in [Rec -> {0, 1}] /\ row = resource /\ rowState = "sound"
      /\ resource.from = 0 /\ resource.until = 0 /\ resource.token = {} /\ thread = "none"
      /\ pc = "idle" /\ startToken = {} /\ pending = Nothing
  BY DEF Init, NoToken
<1>2. ~Harvesting
  BY <1>1 DEF Harvesting
<1>3. InOrder
  BY <1>1, <1>2 DEF InOrder, DatesInOrder, TokensAreInRange, InRange, NoToken, WithinStart
<1>4. ResourceIsBehind
  BY <1>1, <1>2 DEF ResourceIsBehind, CanStartAgain, CanGoOn, EndIsComplete, KilledIsKnown, Due,
     NoToken
<1>5. RowIsBehind
  BY <1>1 DEF RowIsBehind, Due, NoToken
<1>6. QED
  BY <1>3, <1>4, <1>5 DEF MarkerIsBehind

\* It is inductive, over IInv.
LEMMA NextBehind ==
  ASSUME IInv, MarkerIsBehind, TypeOK', [Next]_vars
  PROVE  MarkerIsBehind'
<1>1. InOrder'
  BY NextInOrder DEF MarkerIsBehind
<1>2. ~spoiled' => ResourceIsBehind'
  BY NextResource
<1>3. RowIsBehind'
  BY NextRow
<1>4. QED
  BY <1>1, <1>2, <1>3 DEF MarkerIsBehind

\* Between its runs, nothing is pending and no harvest goes on.
LEMMA BehindCovers ==
  ASSUME IInv, MarkerIsBehind
  PROVE  NothingSkipped
<1>1. ASSUME thread = "none", ~spoiled
      PROVE  Covers(resource)
  BY <1>1 DEF MarkerIsBehind, ResourceIsBehind, CanStartAgain, Harvesting, AtRisk, Missing, Covers
<1>2. ASSUME rowState = "sound"
      PROVE  Covers(row)
  BY <1>2 DEF MarkerIsBehind, RowIsBehind, AtRisk, Missing, Covers
<1>3. QED
  BY <1>1, <1>2 DEF NothingSkipped

\* In every behaviour, with every fault, kill, restart and crash: the dates and the
\* tokens are in order, the resource stands for everything that is missing as long as it
\* is not spoiled, and the row as long as it is sound.  harvest(), run() 216-278, kill(),
\* JobScheduler.checkJobs and stopAllJobs.
THEOREM MarkerStaysBehind == Spec => []MarkerIsBehind
<1>1. IInv /\ MarkerIsBehind /\ IInv' /\ [Next]_vars => MarkerIsBehind'
  BY NextBehind DEF IInv
<1>2. QED
  BY <1>1, InitBehind, Invariance, PTL DEF Spec

\* Between its runs a job would ask for every record whose current version is not in the
\* storage, unless its resource is spoiled; and so would at any time the job that is
\* constructed from the row, unless that is.  harvest(), run() 216-278,
\* JobScheduler.checkJobs.
THEOREM SkipsNothing == Spec => []NothingSkipped
<1>1. IInv /\ MarkerIsBehind => NothingSkipped
  BY BehindCovers
<1>2. QED
  BY <1>1, Invariance, MarkerStaysBehind, PTL

=============================================================================

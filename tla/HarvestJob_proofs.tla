------------------------- MODULE HarvestJob_proofs -------------------------
(***************************************************************************)
(* What the operators on job records return, for the modules that prove    *)
(* something about the jobs.                                               *)
(***************************************************************************)
EXTENDS HarvestJob, TLAPS

\* Whatever kind of job it is and whatever status it finds, run() assigns statuses.
LEMMA MaySetType ==
  ASSUME NEW k \in JobKind, NEW s
  PROVE  MaySet(k, s) \subseteq HarvestStatus
BY DEF MaySet, JobKind, HarvestStatus, OaiMaySet, BulkMaySet, WebMaySet, ConnectorMaySet,
       StatusMaySet

\* A run() that has set no status yet sets RUNNING or ERROR.
LEMMA MayBeginType == ASSUME NEW k PROVE MayBegin(k) \subseteq {"RUNNING", "ERROR"}
BY DEF MayBegin

\* The operations of AbstractRecordHarvestJob map job records to job records.
LEMMA JobOperationsType ==
  ASSUME NEW j \in JobRecord
  PROVE  /\ \A s \in StatusOrNull : SetStatus(j, s) \in JobRecord
         /\ KillRequested(j) \in JobRecord
         /\ KillOverwrite(j) \in JobRecord
         /\ FinishReceived(j) \in JobRecord
         /\ MarkForUpdate(j) \in JobRecord
         /\ ClearUpdated(j) \in JobRecord
         /\ \A k : AtReturn(k, j) \in JobRecord
BY DEF JobRecord, SetStatus, KillRequested, KillOverwrite, FinishReceived, ClearUpdated,
       AtReturn, MarkForUpdate, StatusOrNull, HarvestStatus

\* A new job object has a status.
LEMMA NewJobStatus ==
  ASSUME NEW s \in HarvestStatus
  PROVE  /\ NewJob(s) \in JobRecord /\ NewJob(s).run = s
         /\ s # "FINISHED" => NewJob(s).job # Null
         /\ s = "FINISHED" => NewJob(s).job = Null
BY DEF NewJob, SetStatus, JobRecord, StatusOrNull, HarvestStatus, Null

\* MarkForUpdate changes no status.
LEMMA MarkIsUpdate ==
  ASSUME NEW j \in JobRecord
  PROVE  /\ MarkForUpdate(j) \in JobRecord
         /\ MarkForUpdate(j).run = j.run /\ MarkForUpdate(j).job = j.job
         /\ MarkForUpdate(j).die = j.die
BY DEF MarkForUpdate, JobRecord

=============================================================================

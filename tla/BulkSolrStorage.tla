--------------------------- MODULE BulkSolrStorage ---------------------------
(***************************************************************************)
(* BulkSolrRecordStorage on SolrRecordStorage: a transaction of one job on *)
(* its database in a Solr core.  Adds and deletes are collected in batches *)
(* of the client; the core applies a batch when it is sent, and shows it   *)
(* when it is committed.  A rollback is a deletion of what carries the     *)
(* transaction id, and a purge is put off until the commit, where it       *)
(* deletes what does not carry it.                                         *)
(*                                                                         *)
(* Documents are stored under the id of the database and the id of the     *)
(* record, and deleted by the id of the record.                            *)
(*                                                                         *)
(* A batch is sent when it has reached its limit.  The limit is left out:  *)
(* any batch may be sent after any operation.  Every run of a job has a    *)
(* new storage object (JobInstance.start), so a batch that was not sent    *)
(* and the mark of the purge are forgotten with the transaction.           *)
(***************************************************************************)
EXTENDS Naturals

CONSTANTS
  Rec,          \* the records of the database
  Ver,          \* the versions of a record; 0 is no record
  SolrFaults,   \* may requests to Solr fail?
  Shared        \* do other jobs commit to the same core?

ASSUME StorageAssumption ==
  Ver \subseteq Nat \ {0} /\ SolrFaults \in BOOLEAN /\ Shared \in BOOLEAN

\* What Solr knows a record by: createDocument.
DocumentId(r) == <<"database", r>>

\* No record of a provider is named like a document.
ASSUME IdAssumption == \A r \in Rec : DocumentId(r) \notin Rec

VARIABLES
  phase,    \* "closed", "open", or "failed" after an exception
  docs,     \* docs[r]: the version of r in the batch of adds, the last one counts
  deleteIds,\* the batch of deletes, ids of records
  isPurged, \* the mark of a delayed purge
  core,     \* core[r]: the version of r that Solr holds, committed or not
  mine,     \* the records in the core that carry the transaction id
  index,    \* index[r]: the version of r that a search finds
  base,     \* the core when the transaction began, history
  touched   \* records that this transaction has added or purged, history

batchVars == <<docs, deleteIds>>
solrVars  == <<core, mine>>
vars == <<phase, batchVars, isPurged, solrVars, index, base, touched>>

Content == [Rec -> Ver \union {0}]
Nothing == [r \in Rec |-> 0]
In(d)   == {r \in Rec : d[r] # 0}

TypeOK ==
  /\ phase \in {"closed", "open", "failed"}
  /\ docs \in Content
  /\ deleteIds \subseteq Rec
  /\ isPurged \in BOOLEAN
  /\ core \in Content /\ mine \subseteq Rec
  /\ index \in Content
  /\ base \in Content /\ touched \subseteq Rec

Init ==
  /\ phase = "closed"
  /\ docs = Nothing /\ deleteIds = {} /\ isPurged = FALSE
  /\ index \in Content
  /\ core = index /\ base = index
  /\ mine = {} /\ touched = {}

-----------------------------------------------------------------------------
(* The client *)

Begin ==
  /\ phase = "closed" /\ phase' = "open"
  /\ mine' = {}
  /\ base' = core /\ touched' = {}
  /\ UNCHANGED <<batchVars, isPurged, core, index>>

\* purge(false) with delayedPurge, which is the default.  Jobs that overwrite call it
\* before they add anything.
Purge ==
  /\ phase = "open"
  /\ isPurged' = TRUE
  /\ touched' = Rec
  /\ docs = Nothing /\ deleteIds = {} /\ mine = {}
  /\ UNCHANGED <<phase, batchVars, solrVars, index, base>>

\* Mutant: a deletion is collected without sending the documents before it.
DeleteLater(r) ==
  /\ phase = "open"
  /\ deleteIds' = deleteIds \union {r}
  /\ UNCHANGED <<phase, docs, isPurged, solrVars, index, base, touched>>

\* addRecords and deleteRecords: Solr applies the batch.
Overlay(c, d)   == [r \in Rec |-> IF d[r] # 0 THEN d[r] ELSE c[r]]
Without(c, ids) == [r \in Rec |-> IF DocumentId(r) \in ids THEN 0 ELSE c[r]]
Deleted(ids)    == {r \in Rec : DocumentId(r) \in ids}

AddDocument(r, v) ==
  /\ phase = "open" /\ v # 0
  /\ docs' = [docs EXCEPT ![r] = v]
  /\ touched' = touched \union {r}
  /\ deleteIds' = {}
  /\ core' = Without(core, deleteIds)
  /\ mine' = mine \ Deleted(deleteIds)
  /\ UNCHANGED <<phase, isPurged, index, base>>

DeleteDocument(r) ==
  /\ phase = "open"
  /\ deleteIds' = deleteIds \union {r}
  /\ docs' = Nothing
  /\ core' = Overlay(core, docs)
  /\ mine' = mine \union In(docs)
  /\ UNCHANGED <<phase, isPurged, index, base, touched>>

\* The limit is reached.
SendBatch ==
  /\ phase = "open"
  /\ docs # Nothing \/ deleteIds # {}
  /\ core' = Without(Overlay(core, docs), deleteIds)
  /\ mine' = (mine \union In(docs)) \ Deleted(deleteIds)
  /\ docs' = Nothing /\ deleteIds' = {}
  /\ UNCHANGED <<phase, isPurged, index, base, touched>>

\* Sending a batch throws: Solr may have applied some of it, and the batch is kept
\* or dropped, depending on the exception.  The operation that has sent it, for a
\* record of the other kind, is lost.
SendFails ==
  /\ SolrFaults
  /\ phase \in {"open", "failed"}
  /\ docs # Nothing \/ deleteIds # {}
  /\ \E S \in SUBSET Rec :
       /\ core' = [r \in Rec |-> IF r \in S THEN Without(Overlay(core, docs), deleteIds)[r]
                                            ELSE core[r]]
       /\ mine' = (mine \union (In(docs) \intersect S)) \ (Deleted(deleteIds) \intersect S)
  /\ \/ UNCHANGED batchVars
     \/ docs' = Nothing /\ deleteIds' = {}
  /\ phase' = "failed"
  /\ UNCHANGED <<isPurged, index, base, touched>>

\* A job that goes on after an exception.
GoOn ==
  /\ phase = "failed" /\ phase' = "open"
  /\ UNCHANGED <<batchVars, isPurged, solrVars, index, base, touched>>

Closed ==
  /\ phase' = "closed"
  /\ docs' = Nothing /\ deleteIds' = {} /\ isPurged' = FALSE
  /\ UNCHANGED <<base, touched>>

Sent     == Without(Overlay(core, docs), deleteIds)
SentMine == (mine \union In(docs)) \ Deleted(deleteIds)

\* The delayed purge: what does not carry the transaction id is deleted.
Purged(c, ids) == [r \in Rec |-> IF r \in ids THEN c[r] ELSE 0]
Committed      == IF isPurged THEN Purged(Sent, SentMine) ELSE Sent

\* Mutant: what was purged comes back.
CommitWithoutPurge ==
  /\ phase = "open"
  /\ core' = Sent /\ mine' = SentMine
  /\ index' = core'
  /\ Closed

\* commit: the last batch, the delayed purge, and the commit of the core.
Commit ==
  /\ phase = "open"
  /\ core' = Committed /\ mine' = SentMine
  /\ index' = core'
  /\ Closed

\* The purge or the commit throws, done or not.
CommitFails ==
  /\ SolrFaults
  /\ phase = "open" /\ phase' = "failed"
  /\ mine' = SentMine
  /\ \/ core' \in {Sent, Committed} /\ UNCHANGED index
     \/ core' = Committed /\ index' = core'
  /\ docs' = Nothing /\ deleteIds' = {}
  /\ UNCHANGED <<isPurged, base, touched>>

\* Mutant: the query is that of the purge.
RollbackOthers ==
  /\ phase \in {"open", "failed"}
  /\ core' = Purged(core, mine)
  /\ UNCHANGED <<mine, index>>
  /\ Closed

\* rollback deletes what carries the transaction id, and commits nothing.
Rollback ==
  /\ phase \in {"open", "failed"}
  /\ core' = [r \in Rec |-> IF r \in mine THEN 0 ELSE core[r]]
  /\ mine' = {}
  /\ UNCHANGED index
  /\ Closed

\* rollback throws, the job gives up after a StorageException, or the container dies:
\* Solr keeps what it was sent, for whoever commits next.
Abandon ==
  /\ phase = "failed" \/ (SolrFaults /\ phase = "open")
  /\ UNCHANGED <<solrVars, index>>
  /\ Closed

\* The commit of another job is one of the whole core.
OtherCommit ==
  /\ Shared
  /\ index' = core
  /\ UNCHANGED <<phase, batchVars, isPurged, solrVars, base, touched>>

Next ==
  \/ Begin \/ Purge
  \/ \E r \in Rec, v \in Ver : AddDocument(r, v)
  \/ \E r \in Rec : DeleteDocument(r)
  \/ SendBatch \/ SendFails \/ GoOn
  \/ Commit \/ CommitFails \/ Rollback \/ Abandon
  \/ OtherCommit

Spec == Init /\ [][Next]_vars

-----------------------------------------------------------------------------
\* A batch is of adds or of deletes, so their order is not lost, also after a batch
\* that was not sent.  commit 133: "Should either be add or delete, not both".
OneKindOfBatch == docs = Nothing \/ deleteIds = {}

\* What a commit would make visible.
View ==
  [r \in Rec |-> IF docs[r] # 0 THEN docs[r]
                 ELSE IF isPurged /\ r \notin mine THEN 0 ELSE core[r]]

\* What it rests on: the core differs from what the transaction has met by what carries
\* its id and by what was purged, which was all touched.
IInv ==
  /\ TypeOK
  /\ OneKindOfBatch
  /\ phase = "closed" => docs = Nothing /\ ~isPurged
  /\ In(docs) \union mine \subseteq touched
  /\ isPurged => touched = Rec
  /\ \A r \in Rec \ mine : core[r] = base[r] \/ (r \in touched /\ core[r] = 0)

\* Whatever batches the operations come in, and whatever part of them Solr was sent or
\* has failed to take, the storage is the index they promise: a commit shows all of
\* them and nothing before it, a delayed purge spares what was added after it and
\* nothing else, and a rollback harms no record that was not touched.
Promise == INSTANCE TransactionalIndex WITH work <- View
StorageKeepsPromise == Promise!Spec
=============================================================================

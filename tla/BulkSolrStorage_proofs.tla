----------------------- MODULE BulkSolrStorage_proofs -----------------------
(***************************************************************************)
(* Proofs, for any records, versions and faults, of                        *)
(*   BatchesApart     Spec => []OneKindOfBatch                             *)
(*   Invariance       Spec => []IInv                                       *)
(*   Implementation   Spec => StorageKeepsPromise                          *)
(*                                                                         *)
(* The refinement is proved action by action.  Each step of the storage is *)
(* the step of TransactionalIndex that its name tells, or leaves what a    *)
(* commit would show, View, as it is.                                      *)
(***************************************************************************)
EXTENDS BulkSolrStorage, TLAPS

\* A deletion by the ids of records deletes no document, as none is named so.
LEMMA NothingDeleted ==
  ASSUME NEW c \in Content, NEW ids \in SUBSET Rec
  PROVE  Without(c, ids) = c /\ Deleted(ids) = {}
BY IdAssumption DEF Without, Deleted, Content

\* What the operators on contents return.
LEMMA ContentType ==
  ASSUME NEW c \in Content, NEW d \in Content, NEW ids
  PROVE  /\ Nothing \in Content
         /\ Overlay(c, d) \in Content
         /\ Purged(c, ids) \in Content
BY DEF Content, Nothing, Overlay, Purged

\* Under TypeOK, what the batch, the commit and the purge come to.
LEMMA Batches ==
  ASSUME TypeOK
  PROVE  /\ Sent = Overlay(core, docs) /\ Sent \in Content
         /\ SentMine = mine \union In(docs) /\ SentMine \subseteq Rec
         /\ Committed \in Content
         /\ In(docs) \subseteq Rec
         /\ Without(core, deleteIds) = core
         /\ Deleted(deleteIds) = {}
<1>1. /\ core \in Content /\ docs \in Content /\ deleteIds \in SUBSET Rec
      /\ mine \subseteq Rec
  BY DEF TypeOK
<1>2. Overlay(core, docs) \in Content
  BY <1>1, ContentType
<1>3. /\ Without(Overlay(core, docs), deleteIds) = Overlay(core, docs)
      /\ Without(core, deleteIds) = core
      /\ Deleted(deleteIds) = {}
  BY <1>1, <1>2, NothingDeleted
<1>4. In(docs) \subseteq Rec
  BY DEF In
<1>5. Sent = Overlay(core, docs) /\ SentMine = mine \union In(docs)
  BY <1>3 DEF Sent, SentMine
<1>6. Committed \in Content
  BY <1>2, <1>5, ContentType DEF Committed
<1>7. QED
  BY <1>1, <1>2, <1>3, <1>4, <1>5, <1>6

-----------------------------------------------------------------------------
(* The invariant *)

\* The storage starts with an empty batch and what the index holds.
LEMMA InitIInv == Init => IInv
BY ContentType DEF Init, IInv, TypeOK, OneKindOfBatch, In, Nothing, Content

\* Each operation keeps every conjunct.
LEMMA NextIInv == IInv /\ [Next]_vars => IInv'
<1> SUFFICES ASSUME IInv, [Next]_vars PROVE IInv'
  OBVIOUS
<1>t. TypeOK
  BY DEF IInv
<1>b. /\ Sent = Overlay(core, docs) /\ Sent \in Content
      /\ SentMine = mine \union In(docs) /\ SentMine \subseteq Rec
      /\ Committed \in Content
      /\ In(docs) \subseteq Rec
      /\ Without(core, deleteIds) = core
      /\ Deleted(deleteIds) = {}
  BY <1>t, Batches
<1>n. Nothing \in Content /\ In(Nothing) = {}
  BY DEF Content, Nothing, In
<1> USE DEF batchVars, solrVars
<1>1. CASE Begin
  BY <1>1, <1>n DEF Begin, IInv, TypeOK, OneKindOfBatch
<1>2. CASE Purge
  BY <1>2 DEF Purge, IInv, TypeOK, OneKindOfBatch, In
<1>3. ASSUME NEW r \in Rec, NEW v \in Ver, AddDocument(r, v)
      PROVE  IInv'
  <2>1. /\ docs' \in Content
        /\ In(docs') \subseteq In(docs) \union {r}
    BY <1>3, <1>t DEF AddDocument, TypeOK, Content, In
  <2>2. core' = core /\ mine' = mine /\ deleteIds' = {}
    BY <1>3, <1>b DEF AddDocument
  <2>3. QED
    BY <1>3, <2>1, <2>2 DEF AddDocument, IInv, TypeOK, OneKindOfBatch
<1>4. ASSUME NEW r \in Rec, DeleteDocument(r)
      PROVE  IInv'
  <2>1. core' \in Content /\ mine' \subseteq Rec
    BY <1>4, <1>b DEF DeleteDocument
  <2>2. \A q \in Rec \ mine' : core'[q] = core[q]
    BY <1>4 DEF DeleteDocument, Overlay, In
  <2>3. QED
    BY <1>4, <1>b, <1>n, <2>1, <2>2 DEF DeleteDocument, IInv, TypeOK, OneKindOfBatch
<1>5. CASE SendBatch
  <2>1. core' = Sent /\ mine' = SentMine
    BY <1>5 DEF SendBatch, Sent, SentMine
  <2>2. \A q \in Rec \ mine' : core'[q] = core[q]
    BY <2>1, <1>b DEF Overlay, In
  <2>3. QED
    BY <1>5, <1>b, <1>n, <2>1, <2>2 DEF SendBatch, IInv, TypeOK, OneKindOfBatch
<1>6. CASE SendFails
  <2>1. PICK S \in SUBSET Rec :
          /\ core' = [r \in Rec |-> IF r \in S THEN Sent[r] ELSE core[r]]
          /\ mine' = (mine \union (In(docs) \intersect S)) \ (Deleted(deleteIds) \intersect S)
    BY <1>6 DEF SendFails, Sent
  <2>2. core' \in Content
    BY <2>1, <1>b, <1>t DEF Content, TypeOK
  <2>3. mine' = mine \union (In(docs) \intersect S)
    BY <2>1, <1>b
  <2>4. \A q \in Rec \ mine' : core'[q] = core[q]
    BY <2>1, <2>3, <1>b DEF Overlay, In
  <2>5. \/ docs' = docs /\ deleteIds' = deleteIds
        \/ docs' = Nothing /\ deleteIds' = {}
    BY <1>6 DEF SendFails
  <2>6. /\ phase' = "failed"
        /\ UNCHANGED <<isPurged, index, base, touched>>
    BY <1>6 DEF SendFails
  <2>7. TypeOK'
    BY <2>2, <2>3, <2>5, <2>6, <1>b, <1>n, <1>t DEF TypeOK
  <2>8. mine \subseteq mine' /\ (In(docs) \union mine)' \subseteq touched'
    BY <2>3, <2>5, <2>6, <1>b, <1>n DEF IInv
  <2>9. QED
    BY <2>4, <2>5, <2>6, <2>7, <2>8 DEF IInv, OneKindOfBatch
<1>7. CASE GoOn
  BY <1>7 DEF GoOn, IInv, TypeOK, OneKindOfBatch, In
<1>8. CASE Commit \/ CommitFails
  <2>1. mine' = SentMine /\ core' \in {Sent, Committed} /\ index' \in {index, core'}
    BY <1>8 DEF Commit, CommitFails
  <2>2. docs' = Nothing /\ deleteIds' = {} /\ UNCHANGED <<base, touched>>
    BY <1>8 DEF Commit, CommitFails, Closed
  <2>3. \/ phase' = "closed" /\ isPurged' = FALSE
        \/ phase' = "failed" /\ isPurged' = isPurged
    BY <1>8 DEF Commit, CommitFails, Closed
  <2>4. \A q \in Rec \ mine' : core'[q] = core[q] \/ (isPurged /\ core'[q] = 0)
    BY <2>1, <1>b DEF Committed, Purged, Overlay, In
  <2>5. TypeOK'
    BY <2>1, <2>2, <2>3, <1>b, <1>n, <1>t DEF TypeOK
  <2>6. QED
    BY <2>1, <2>2, <2>3, <2>4, <2>5, <1>b, <1>n DEF IInv, OneKindOfBatch
<1>9. CASE Rollback
  <2>1. core' \in Content
    BY <1>9, <1>t DEF Rollback, TypeOK, Content
  <2>2. \A q \in Rec : core'[q] = core[q] \/ (q \in mine /\ core'[q] = 0)
    BY <1>9 DEF Rollback
  <2>3. QED
    BY <1>9, <1>n, <2>1, <2>2 DEF Rollback, Closed, IInv, TypeOK, OneKindOfBatch
<1>10. CASE Abandon
  BY <1>10, <1>n DEF Abandon, Closed, IInv, TypeOK, OneKindOfBatch
<1>11. CASE OtherCommit
  BY <1>11 DEF OtherCommit, IInv, TypeOK, OneKindOfBatch, In
<1>12. CASE UNCHANGED vars
  BY <1>12 DEF vars, IInv, TypeOK, OneKindOfBatch, In
<1>13. QED
  BY <1>1, <1>2, <1>3, <1>4, <1>5, <1>6, <1>7, <1>8, <1>9, <1>10, <1>11, <1>12 DEF Next

\* Whatever is sent, fails, is rolled back or given up: what was not touched is in the
\* core as it was when the transaction began.  SolrRecordStorage, BulkSolrRecordStorage.
THEOREM Invariance == Spec => []IInv
BY InitIInv, NextIInv, PTL DEF Spec

\* There is never a batch of adds and a batch of deletes at the same time.
\* BulkSolrRecordStorage.commit 133.
THEOREM BatchesApart == Spec => []OneKindOfBatch
<1>1. IInv => OneKindOfBatch
  BY DEF IInv
<1>2. QED
  BY <1>1, Invariance, PTL

-----------------------------------------------------------------------------
(* The refinement *)

\* What a commit would show, by cases.
LEMMA ViewOf ==
  ASSUME TypeOK
  PROVE  /\ View \in Content
         /\ \A r \in Rec : View[r] = IF docs[r] # 0 THEN docs[r]
                                     ELSE IF isPurged /\ r \notin mine THEN 0 ELSE core[r]
BY DEF View, TypeOK, Content

\* A transaction starts where the storage is, which the index shows.
LEMMA InitRefines == Init => Promise!Init
<1> SUFFICES ASSUME Init PROVE Promise!Init
  OBVIOUS
<1>1. View = index
  BY ContentType DEF Init, View, Content, Nothing
<1>2. QED
  BY <1>1 DEF Init, Promise!Init, Promise!Content, Content

\* Every step of the storage is a step of the promise, or changes nothing of it.
LEMMA NextRefines == IInv /\ IInv' /\ [Next]_vars => [Promise!Next]_Promise!vars
<1> SUFFICES ASSUME IInv, IInv', [Next]_vars PROVE [Promise!Next]_Promise!vars
  OBVIOUS
<1>t. TypeOK /\ TypeOK'
  BY DEF IInv
<1>b. /\ Sent = Overlay(core, docs) /\ Sent \in Content
      /\ SentMine = mine \union In(docs)
      /\ Without(core, deleteIds) = core
      /\ Deleted(deleteIds) = {}
  BY <1>t, Batches
<1>v. /\ View \in Content
      /\ \A r \in Rec : View[r] = IF docs[r] # 0 THEN docs[r]
                                  ELSE IF isPurged /\ r \notin mine THEN 0 ELSE core[r]
  BY <1>t, ViewOf
<1>w. /\ View' \in Content
      /\ \A r \in Rec : View'[r] = IF docs'[r] # 0 THEN docs'[r]
                                   ELSE IF isPurged' /\ r \notin mine' THEN 0 ELSE core'[r]
  <2>1. View' \in Content
    BY <1>t DEF View, TypeOK, Content
  <2>2. QED
    BY <2>1 DEF View
<1>e. ASSUME NEW c \in Content, NEW d \in Content, \A r \in Rec : c[r] = d[r]
      PROVE  c = d
  BY <1>e DEF Content
<1>n. \A r \in Rec : Nothing[r] = 0
  BY DEF Nothing
<1>s. \A r \in Rec : Sent[r] = IF docs[r] # 0 THEN docs[r] ELSE core[r]
  BY <1>b DEF Overlay
<1>i. \A r \in Rec : r \in In(docs) <=> docs[r] # 0
  BY DEF In
<1>c. Committed = View
  <2>1. Committed \in Content
    BY <1>t, Batches
  <2>2. \A r \in Rec : Committed[r] = View[r]
    BY <1>b, <1>v, <1>s, <1>i DEF Committed, Purged
  <2>3. QED
    BY <1>v, <1>e, <2>1, <2>2
<1>p. Promise!Content = Content
  BY DEF Promise!Content, Content
<1>f. \A r \in Rec \ touched : docs[r] = 0 /\ r \notin mine /\ core[r] = base[r] /\ ~isPurged
  BY <1>i DEF IInv
<1>g. \A r \in Rec \ touched' : docs'[r] = 0 /\ core'[r] = base'[r] /\ ~isPurged'
  BY DEF IInv, In
<1> USE DEF batchVars, solrVars
<1>1. CASE Begin
  <2>1. docs = Nothing /\ ~isPurged
    BY <1>1 DEF Begin, IInv
  <2>2. View = core /\ View' = View
    <3>1. \A r \in Rec : View[r] = core[r] /\ View'[r] = core[r]
      BY <1>1, <2>1, <1>v, <1>w, <1>n DEF Begin
    <3>2. QED
      BY <1>v, <1>w, <1>e, <1>t, <3>1 DEF TypeOK
  <2>3. QED
    BY <1>1, <2>2 DEF Begin, Promise!Begin, Promise!Next
<1>2. CASE Purge
  <2>1. \A r \in Rec : View'[r] = 0
    BY <1>2, <1>w, <1>n DEF Purge
  <2>2. View' = Promise!Empty
    BY <1>w, <2>1 DEF Promise!Empty, Content
  <2>3. QED
    BY <1>2, <2>2 DEF Purge, Promise!Purge, Promise!Next
<1>3. ASSUME NEW r \in Rec, NEW v \in Ver, AddDocument(r, v)
      PROVE  Promise!Put(r, v)
  <2>1. core' = core /\ mine' = mine
    BY <1>3, <1>b DEF AddDocument
  <2>2. docs' = [docs EXCEPT ![r] = v] /\ v # 0 /\ isPurged' = isPurged
    BY <1>3 DEF AddDocument
  <2>3. \A q \in Rec : View'[q] = [View EXCEPT ![r] = v][q]
    BY <1>v, <1>w, <1>t, <2>1, <2>2 DEF TypeOK, Content
  <2>4. [View EXCEPT ![r] = v] \in Content
    BY <1>v DEF Content
  <2>5. View' = [View EXCEPT ![r] = v]
    BY <1>w, <1>e, <2>3, <2>4
  <2>6. QED
    BY <1>3, <2>5 DEF AddDocument, Promise!Put
<1>4. ASSUME NEW r \in Rec, DeleteDocument(r)
      PROVE  UNCHANGED Promise!vars
  <2>1. core' = Sent /\ mine' = SentMine /\ docs' = Nothing /\ isPurged' = isPurged
    BY <1>4, <1>b DEF DeleteDocument
  <2>2. \A q \in Rec : View'[q] = View[q]
    BY <1>v, <1>w, <1>s, <1>i, <1>n, <1>b, <2>1
  <2>3. View' = View
    BY <1>v, <1>w, <1>e, <2>2
  <2>4. QED
    BY <1>4, <2>3 DEF DeleteDocument, Promise!vars
<1>5. CASE SendBatch
  <2>1. core' = Sent /\ mine' = SentMine /\ docs' = Nothing /\ isPurged' = isPurged
    BY <1>5 DEF SendBatch, Sent, SentMine
  <2>2. \A q \in Rec : View'[q] = View[q]
    BY <1>v, <1>w, <1>s, <1>i, <1>n, <1>b, <2>1
  <2>3. View' = View
    BY <1>v, <1>w, <1>e, <2>2
  <2>4. QED
    BY <1>5, <2>3 DEF SendBatch, Promise!vars
\* Untouched records are out of reach of what fails or is given up.
<1>u. ASSUME touched' = touched, base' = base
      PROVE  \A r \in Rec \ touched : View'[r] = View[r]
  BY <1>u, <1>v, <1>w, <1>f, <1>g
<1>6. CASE SendFails
  <2>1. UNCHANGED <<base, touched, index>> /\ phase # "closed" /\ phase' = "failed"
    BY <1>6 DEF SendFails
  <2>2. QED
    BY <2>1, <1>u, <1>w, <1>p DEF Promise!Fail, Promise!SomeOfWork, Promise!Next
<1>7. CASE GoOn
  <2>1. View' = View
    BY <1>7 DEF GoOn, View
  <2>2. QED
    BY <1>7, <2>1 DEF GoOn, Promise!GoOn, Promise!Next
<1>8. CASE Commit
  <2>1. \A r \in Rec : View'[r] = View[r]
    BY <1>8, <1>c, <1>w, <1>n DEF Commit, Closed
  <2>2. View' = View
    BY <1>v, <1>w, <1>e, <2>1
  <2>3. QED
    BY <1>8, <1>c, <2>2 DEF Commit, Closed, Promise!Commit, Promise!Next
<1>9. CASE CommitFails
  <2>1. UNCHANGED <<base, touched>> /\ phase # "closed" /\ phase' = "failed"
    BY <1>9 DEF CommitFails
  <2>2. CASE UNCHANGED index
    BY <2>1, <2>2, <1>u, <1>w, <1>p DEF Promise!Fail, Promise!SomeOfWork, Promise!Next
  <2>3. CASE core' = Committed /\ index' = core'
    <3>1. docs' = Nothing /\ isPurged' = isPurged /\ mine' = SentMine
      BY <1>9 DEF CommitFails
    <3>2. \A r \in Rec : View'[r] = View[r]
      BY <2>3, <3>1, <1>v, <1>w, <1>c, <1>n, <1>i, <1>b
    <3>3. View' = View
      BY <1>v, <1>w, <1>e, <3>2
    <3>4. index' = View'
      BY <2>3, <3>3, <1>c
    <3>5. QED
      BY <2>1, <3>4, <1>u, <1>w, <1>p DEF Promise!Fail, Promise!SomeOfWork, Promise!Next
  <2>4. QED
    BY <1>9, <2>2, <2>3 DEF CommitFails
<1>10. CASE Rollback
  <2>1. /\ docs' = Nothing /\ ~isPurged'
        /\ core' = [r \in Rec |-> IF r \in mine THEN 0 ELSE core[r]]
        /\ UNCHANGED <<base, touched, index>>
        /\ phase # "closed" /\ phase' = "closed"
    BY <1>10 DEF Rollback, Closed
  <2>2. \A r \in Rec : View'[r] = IF r \in mine THEN 0 ELSE core[r]
    BY <2>1, <1>w, <1>n
  <2>3. QED
    BY <2>1, <2>2, <1>f, <1>w, <1>p DEF Promise!Rollback, Promise!Next, IInv
<1>11. CASE Abandon
  <2>1. UNCHANGED <<base, touched, index>> /\ phase # "closed" /\ phase' = "closed"
    BY <1>11 DEF Abandon, Closed
  <2>2. QED
    BY <2>1, <1>u, <1>w, <1>p DEF Promise!GiveUp, Promise!SomeOfWork, Promise!Next
<1>12. CASE OtherCommit
  <2>1. View' = View
    BY <1>12 DEF OtherCommit, View
  <2>2. QED
    BY <1>12, <2>1, <1>t, <1>p DEF OtherCommit, TypeOK, Promise!Leak, Promise!Next
<1>13. CASE UNCHANGED vars
  <2>1. View' = View
    BY <1>13 DEF vars, View
  <2>2. QED
    BY <1>13, <2>1 DEF vars, Promise!vars
<1>14. QED
  BY <1>1, <1>2, <1>3, <1>4, <1>5, <1>6, <1>7, <1>8, <1>9, <1>10, <1>11, <1>12, <1>13
  DEF Next, Promise!Next

\* What the users of the index find is what the promise says, for any order of
\* operations, batches, faults and commits of other jobs.  BulkSolrRecordStorage.
THEOREM Implementation == Spec => StorageKeepsPromise
<1>1. Init => Promise!Init
  BY InitRefines
<1>2. IInv /\ IInv' /\ [Next]_vars => [Promise!Next]_Promise!vars
  BY NextRefines
<1>3. QED
  BY <1>1, <1>2, Invariance, PTL DEF Spec, Promise!Spec, StorageKeepsPromise
=============================================================================

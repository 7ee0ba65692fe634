------------------------- MODULE TransactionalIndex -------------------------
(***************************************************************************)
(* What a harvest job may rely on of its record storage (RecordStorage):   *)
(* begin, then purge and add in any order, then commit or rollback.  What  *)
(* the users of the index find changes with a commit only, and then to the *)
(* effect of all operations in the order of the calls.                     *)
(*                                                                         *)
(* It is the promise the code can keep.  After a rollback, records that    *)
(* the transaction has not touched are as before, the others are as before *)
(* or gone.  A storage that has thrown promises no more than that it has   *)
(* not touched other records.  Deletions of single records are left out:   *)
(* they have no effect (see BulkSolrStorage).                              *)
(***************************************************************************)
EXTENDS Naturals

CONSTANTS
  Rec,    \* the records of one database of the index
  Ver,    \* the versions of a record, positive numbers; 0 is no record
  Shared  \* do other jobs commit to the same Solr core?

VARIABLES
  phase,    \* "closed", "open" in a transaction, or "failed" after an exception
  base,     \* what its first operation has met
  work,     \* what a commit would make visible
  touched,  \* the records it has added or purged
  index     \* what the users of the index find

vars == <<phase, base, work, touched, index>>

Content == [Rec -> Ver \union {0}]
Empty   == [r \in Rec |-> 0]

Init ==
  /\ phase = "closed"
  /\ index \in Content
  /\ base = index /\ work = index
  /\ touched = {}

Begin ==
  /\ phase = "closed" /\ phase' = "open"
  /\ base' = work
  /\ touched' = {}
  /\ UNCHANGED <<work, index>>

\* The data harvested so far is dropped, with the next commit.
Purge ==
  /\ phase = "open"
  /\ work' = Empty
  /\ touched' = Rec
  /\ UNCHANGED <<phase, base, index>>

Put(r, v) ==
  /\ phase = "open"
  /\ work' = [work EXCEPT ![r] = v]
  /\ touched' = touched \union {r}
  /\ UNCHANGED <<phase, base, index>>

Commit ==
  /\ phase = "open" /\ phase' = "closed"
  /\ index' = work
  /\ UNCHANGED <<base, work, touched>>

Rollback ==
  /\ phase # "closed" /\ phase' = "closed"
  /\ work' \in Content
  /\ \A r \in Rec : work'[r] = base[r] \/ (r \in touched /\ work'[r] = 0)
  /\ UNCHANGED <<base, touched, index>>

SomeOfWork ==
  /\ work' \in Content
  /\ \A r \in Rec \ touched : work'[r] = work[r]
  /\ UNCHANGED <<base, touched>>

\* An operation throws.  A commit that throws may have been done.
Fail ==
  /\ phase # "closed" /\ phase' = "failed"
  /\ SomeOfWork
  /\ index' \in {index, work'}

\* The client goes on after an exception, or gives the storage up.
GoOn ==
  /\ phase = "failed" /\ phase' = "open"
  /\ UNCHANGED <<base, work, touched, index>>

GiveUp ==
  /\ phase # "closed" /\ phase' = "closed"
  /\ SomeOfWork
  /\ UNCHANGED index

\* Another job commits: what this one has sent so far is visible.
Leak ==
  /\ Shared
  /\ index' \in Content
  /\ UNCHANGED <<phase, base, work, touched>>

Next ==
  \/ Begin \/ Purge
  \/ \E r \in Rec, v \in Ver : Put(r, v)
  \/ Commit \/ Rollback \/ Fail \/ GoOn \/ GiveUp \/ Leak

Spec == Init /\ [][Next]_vars
=============================================================================

----------------------------- MODULE HarvestJob -----------------------------
(***************************************************************************)
(* The status bookkeeping every harvest job inherits from                  *)
(* AbstractRecordHarvestJob, as operators on a job record, and what the    *)
(* run() method of each kind of job may do to it.                          *)
(*                                                                         *)
(* A job record has the four fields of AbstractRecordHarvestJob that the   *)
(* scheduler reads or writes:                                              *)
(*   run      runStatus, what getStatus() returns                          *)
(*   job      jobStatus, what runStatus becomes when the scheduler has     *)
(*            been told of the end of the run                              *)
(*   die      the kill flag; no method ever clears it                      *)
(*   updated  the job asks for its Harvestable to be persisted             *)
(***************************************************************************)

\* The enum HarvestStatus, and Java's null for a field no one has assigned.
HarvestStatus ==
  {"NEW", "OK", "WARN", "RUNNING", "FINISHED", "KILLED", "SHUTDOWN", "ERROR"}
Null == "null"
StatusOrNull == HarvestStatus \union {Null}

JobRecord == [run : StatusOrNull, job : StatusOrNull, die : BOOLEAN, updated : BOOLEAN]

\* Mutant: jobStatus is left to what follows OK as well.
SetStatusLate(j, s) ==
  [j EXCEPT !.run = s, !.job = IF s \in {"OK", "FINISHED"} THEN @ ELSE s]

\* setStatus: FINISHED is never copied to jobStatus.
SetStatus(j, s) ==
  [j EXCEPT !.run = s, !.job = IF s = "FINISHED" THEN @ ELSE s]

\* A job constructed from a Harvestable whose currentStatus is s.
NewJob(s) ==
  SetStatus([run |-> Null, job |-> Null, die |-> FALSE, updated |-> FALSE], s)

\* kill() is synchronized but setStatus is not, so kill's test of runStatus and
\* its assignment are two steps.
KillRequested(j) == [j EXCEPT !.die = TRUE]
KillWillOverwrite(j) == j.run = "RUNNING"
KillOverwrite(j) == [j EXCEPT !.run = "KILLED"]

\* Mutant: runStatus stays FINISHED.
FinishNotReceived(j) == j

\* finishReceived: the job may be started again.
FinishReceived(j) == [j EXCEPT !.run = j.job]

MarkForUpdate(j) == [j EXCEPT !.updated = TRUE]
ClearUpdated(j)  == [j EXCEPT !.updated = FALSE]

-----------------------------------------------------------------------------
(***************************************************************************)
(* What run() of each kind of job may assign first and what next, given    *)
(* the runStatus it finds, and with which runStatus it may return.  The    *)
(* test of a status and the assignment that follows it are not atomic, so  *)
(* a kill may turn RUNNING into KILLED in between: whatever may follow     *)
(* RUNNING may follow KILLED.                                              *)
(***************************************************************************)
JobKind == {"OAI", "Bulk", "Web", "Connector", "Status"}

\* Every run() begins by setting RUNNING, but for that of a bulk job, which opens its
\* storage first and may come to its exception handler from there.
MayBegin(kind) == IF kind = "Bulk" THEN {"RUNNING", "ERROR"} ELSE {"RUNNING"}

OaiMaySet(s) ==
  CASE s \in {"RUNNING", "KILLED"}  -> {"OK", "WARN", "ERROR", "FINISHED"}
    [] s = "OK"                     -> {"FINISHED", "WARN", "ERROR"}
    [] s \in {"WARN", "FINISHED"}   -> {"ERROR"}
    [] OTHER                        -> {}

\* Mutant: FINISHED may come without a status of the run's own before it.
BulkMayFinishAtOnce(s) ==
  CASE s \in {"RUNNING", "KILLED"}  -> {"OK", "WARN", "ERROR", "FINISHED"}
    [] s = "OK"                     -> {"FINISHED", "WARN", "ERROR"}
    [] s = "WARN"                   -> {"OK", "ERROR"}
    [] OTHER                        -> {}

BulkMaySet(s) ==
  CASE s = "RUNNING"                -> {"OK", "WARN", "ERROR"}
    [] s = "KILLED"                 -> {"OK", "WARN", "ERROR", "FINISHED"}
    [] s = "OK"                     -> {"FINISHED", "WARN", "ERROR"}
    [] s = "WARN"                   -> {"OK", "ERROR"}
    [] OTHER                        -> {}

WebMaySet(s) ==
  CASE s \in {"RUNNING", "KILLED"}  -> {"FINISHED", "ERROR"}
    [] s = "FINISHED"               -> {"ERROR"}
    [] OTHER                        -> {}

ConnectorMaySet(s) ==
  CASE s = "RUNNING"                -> {"OK", "ERROR"}
    [] s = "KILLED"                 -> {"OK", "WARN", "ERROR", "FINISHED"}
    [] s = "OK"                     -> {"FINISHED", "WARN", "ERROR"}
    [] s = "WARN"                   -> {"ERROR"}
    [] OTHER                        -> {}

StatusMaySet(s) ==
  CASE s \in {"RUNNING", "KILLED"}  -> {"OK", "WARN", "FINISHED"}
    [] s \in {"OK", "WARN"}         -> {"FINISHED"}
    [] OTHER                        -> {}

MaySet(kind, s) ==
  CASE kind = "OAI"       -> OaiMaySet(s)
    [] kind = "Bulk"      -> BulkMaySet(s)
    [] kind = "Web"       -> WebMaySet(s)
    [] kind = "Connector" -> ConnectorMaySet(s)
    [] kind = "Status"    -> StatusMaySet(s)

(***************************************************************************)
(* The runStatus with which run() may return.  The scheduler may           *)
(* acknowledge a FINISHED run before run() returns, which then returns     *)
(* with the jobStatus: OK, or RUNNING when a killed job was FINISHED       *)
(* without a status of its own.  Every kind may return KILLED: the racing  *)
(* kill may overwrite even the last assignment.  A connector job returns   *)
(* RUNNING also when it was killed before it had set RUNNING and its       *)
(* records are committed all the same; a web crawl when commit throws a    *)
(* StorageException, which its run() does not catch; a status job after    *)
(* any exception.                                                          *)
(***************************************************************************)
MayReturn(kind, die) ==
  CASE kind = "Web"    -> {"ERROR", "FINISHED", "KILLED", "RUNNING"}
    [] kind = "Status" -> {"OK", "WARN", "FINISHED", "KILLED", "RUNNING"}
    [] OTHER           -> {"OK", "WARN", "ERROR", "FINISHED", "KILLED"}
                            \union (IF die THEN {"RUNNING"} ELSE {})

\* What run() does with the job record when it returns: shutdown() asks for the
\* Harvestable to be persisted, and only the web crawl does not call it; the web
\* crawl asks for it when it commits.
AtReturn(kind, j) ==
  IF kind = "Web" /\ j.run # "FINISHED" THEN j ELSE MarkForUpdate(j)
=============================================================================

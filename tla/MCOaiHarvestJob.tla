--------------------------- MODULE MCOaiHarvestJob ---------------------------
EXTENDS OaiHarvestJob, TLC
Symmetry == Permutations(Rec)

\* Histories in which there is something left to go on with: of a spoiled resource the
\* row, unless the job has been told to die and harvests nothing more; and of a scheduler
\* that has gone, the row as well.
SomethingLeft ==
  /\ spoiled \/ sched # "up" => rowState # "spoiled"
  /\ spoiled => ~job.die

\* A job is told to die by kill_job or by a shutdown, not by both.
KilledOnce == sched = "stopping" => ~job.die

\* One of the settings that come to the same: without keepPartial the start token is put
\* back, whatever the handler has made of the token, and a test run leaves it anyway.
SettingsApart ==
  settings.clearRtOnError \/ (settings.keepPartial /\ settings.recordLimit = 0)

\* Some record is there from the beginning.
ServerInUse == \E r \in Rec : stamp[r] # 0

\* States that differ only in what nothing reads any more are one: the response and its
\* token after the loop of harvest(), the start token after the last rollback, and when the
\* scheduler has gone, the status that it remembered and the request for an update.
View ==
  <<serverVars, settings, resource, row, sched, thread, killing, pc, added, storeVars, history,
    IF sched = "up" THEN <<last, job>> ELSE <<Null, [job EXCEPT !.updated = FALSE]>>,
    IF Harvesting THEN startToken ELSE NoToken,
    IF pc \in {"request", "check", "store"} THEN <<response, pageToken>>
                                             ELSE <<NoResponse, NoToken>> >>
=============================================================================

--------------------------- MODULE MCBulkHarvestJob ---------------------------
EXTENDS BulkHarvestJob, FiniteSetsExt, TLC
Symmetry == Permutations(Url)

\* What the storage remembers of a transaction that is over matters to nobody, nor what
\* is excused or spoiled when everything is asked for.
Remembered ==
  <<incidents, serverVars, settings, lastStarted, schedVars, job, thread, killing, pc, runVars,
    phase, work, index, IF phase = "closed" THEN <<>> ELSE <<base, touched>>, unfinished,
    IF Incremental THEN <<excused, spoiled>> ELSE <<>> >>

Changes == MapThenSumSet(LAMBDA u : version[u] - 1, Url)

\* Two events, changes of a file or incidents, for a job that asks for new files only; one
\* incident in one second for a job that asks for everything again.
Interesting == IF Incremental THEN Changes + incidents <= 2
                              ELSE clock = 1 /\ Changes = 0 /\ incidents <= 1
=============================================================================

------------------------ MODULE TransformationPipeline ------------------------
(***************************************************************************)
(* ThreadedTransformationRecordStorageProxy and its XmlTransformerRouters: *)
(* one thread per transformation step, with a queue before every step and  *)
(* one after the last.  The harvesting thread puts records into the first  *)
(* queue and stores what has come out of the last.  A commit sends a stop  *)
(* message after the records, waits for the thread of the last step and    *)
(* stores the rest; a rollback interrupts the threads.  The harvesting     *)
(* thread itself is interrupted by kill().                                 *)
(*                                                                         *)
(* The queues are unbounded.  A record is a number, the records are added  *)
(* or deleted in that order; what a step makes of a record is left out.    *)
(***************************************************************************)
EXTENDS Integers, Sequences, SequencesExt

CONSTANTS
  Steps,          \* number of transformation steps
  Records,        \* bound: number of records of a run
  MaxInterrupts,  \* bound: number of interrupts of the harvesting thread
  Errors,         \* may a transformation throw an Error, which ends its thread?
  StorageFaults   \* may the storage throw?

ASSUME PipelineAssumption ==
  /\ Steps \in Nat \ {0} /\ Records \in Nat /\ MaxInterrupts \in Nat
  /\ Errors \in BOOLEAN /\ StorageFaults \in BOOLEAN

Step    == 1..Steps
Rec     == 1..Records
Stop    == [op |-> "stop", rec |-> 0]
Record(r) == [op |-> "add", rec |-> r]
Message == {Stop} \union {Record(r) : r \in Rec}

VARIABLES
  queue,       \* queue[s]: output of step s and input of the next; queue[0] is the source
  router,      \* router[s]: control of the thread of step s
  hand,        \* hand[s]: the message that it has taken, at most one
  running,     \* XmlTransformerRouter.running
  interrupted, \* interrupted[s]: the interrupt flag of the thread; interrupted[0] is that
               \* of the harvesting thread
  pc,          \* control of the harvesting thread
  next,        \* the next record to be harvested
  limit,       \* the record limit, 0 for none
  count,       \* the records stored that count for the limit
  interrupts,  \* number of interrupts of the harvesting thread
  stored,      \* what the storage has been given, history
  rejected     \* records that a step or the storage has rejected, history

routerVars == <<router, hand, running>>
mainVars   == <<pc, next, limit, count>>
storeVars  == <<stored, rejected>>
vars == <<queue, routerVars, interrupted, mainVars, interrupts, storeVars>>

TypeOK ==
  /\ queue \in [0..Steps -> Seq(Message)]
  /\ router \in [Step -> {"loop", "consume", "produce", "ended", "dead"}]
  /\ hand \in [Step -> {<<>>} \union {<<m>> : m \in Message}]
  /\ running \in [Step -> BOOLEAN] /\ interrupted \in [0..Steps -> BOOLEAN]
  /\ pc \in {"harvest", "store", "commit", "join", "storeFinal", "commitTarget",
             "rollback", "joinRollback", "rollbackTarget",
             "addFailed", "commitFailed", "committed", "rolledBack", "left"}
  /\ next \in 1..(Records + 1) /\ limit \in 0..Records
  /\ count \in 0..(IF limit = 0 THEN Records ELSE limit)
  /\ interrupts \in 0..MaxInterrupts
  /\ stored \in Seq([op : {"add", "delete"}, rec : Rec])
  /\ rejected \subseteq Rec
  /\ \A s \in Step : hand[s] # <<>> <=> router[s] \in {"consume", "produce"}

\* setupRouters has started the threads.
Init ==
  /\ queue = [s \in 0..Steps |-> <<>>]
  /\ router = [s \in Step |-> "loop"]
  /\ hand = [s \in Step |-> <<>>]
  /\ running = [s \in Step |-> TRUE]
  /\ interrupted = [s \in 0..Steps |-> FALSE]
  /\ pc = "harvest" /\ next = 1 /\ limit \in 0..Records /\ count = 0
  /\ interrupts = 0
  /\ stored = <<>> /\ rejected = {}

-----------------------------------------------------------------------------
(* XmlTransformerRouter.run *)

RouterGoto(s, l) == router' = [router EXCEPT ![s] = l]
NotMain          == UNCHANGED <<mainVars, interrupts>>

\* A thread that waits in take() is interrupted by shutdown() only, after running has
\* been cleared, and then leaves the loop as well.
RouterEnds(s) ==
  /\ router[s] = "loop" /\ ~running[s]
  /\ RouterGoto(s, "ended")
  /\ UNCHANGED <<queue, hand, running, interrupted, storeVars>> /\ NotMain

\* Mutant: the newest message is taken.
TakeLast(s) ==
  /\ router[s] = "loop" /\ running[s]
  /\ queue[s - 1] # <<>>
  /\ hand' = [hand EXCEPT ![s] = <<Last(queue[s - 1])>>]
  /\ queue' = [queue EXCEPT ![s - 1] = Front(@)]
  /\ RouterGoto(s, "consume")
  /\ UNCHANGED <<running, interrupted, storeVars>> /\ NotMain

Take(s) ==
  /\ router[s] = "loop" /\ running[s]
  /\ queue[s - 1] # <<>>
  /\ hand' = [hand EXCEPT ![s] = <<Head(queue[s - 1])>>]
  /\ queue' = [queue EXCEPT ![s - 1] = Tail(@)]
  /\ RouterGoto(s, "consume")
  /\ UNCHANGED <<running, interrupted, storeVars>> /\ NotMain

\* Mutant: the stop message is not passed on.
KeepStop(s) ==
  /\ router[s] = "consume" /\ hand[s] = <<Stop>>
  /\ running' = [running EXCEPT ![s] = FALSE]
  /\ hand' = [hand EXCEPT ![s] = <<>>]
  /\ RouterGoto(s, "loop")
  /\ UNCHANGED <<queue, interrupted, storeVars>> /\ NotMain

ConsumeStop(s) ==
  /\ router[s] = "consume" /\ hand[s] = <<Stop>>
  /\ running' = [running EXCEPT ![s] = FALSE]
  /\ RouterGoto(s, "produce")
  /\ UNCHANGED <<queue, hand, interrupted, storeVars>> /\ NotMain

Transform(s) ==
  /\ router[s] = "consume" /\ hand[s] # <<Stop>>
  /\ RouterGoto(s, "produce")
  /\ UNCHANGED <<queue, hand, running, interrupted, storeVars>> /\ NotMain

\* The transformation throws: the record goes to the queue of errors, which nobody reads.
PutError(s) ==
  /\ router[s] = "consume" /\ hand[s] # <<Stop>>
  /\ rejected' = rejected \union {hand[s][1].rec}
  /\ hand' = [hand EXCEPT ![s] = <<>>]
  /\ RouterGoto(s, "loop")
  /\ UNCHANGED <<queue, running, interrupted, stored>> /\ NotMain

\* It throws what is no Exception.
RouterDies(s) ==
  /\ Errors
  /\ router[s] = "consume" /\ hand[s] # <<Stop>>
  /\ rejected' = rejected \union {hand[s][1].rec}
  /\ hand' = [hand EXCEPT ![s] = <<>>]
  /\ RouterGoto(s, "dead")
  /\ UNCHANGED <<queue, running, interrupted, stored>> /\ NotMain

\* put() throws as well when the thread has been interrupted, and the message is lost.
Produce(s) ==
  /\ router[s] = "produce"
  /\ queue' = IF interrupted[s] THEN queue
                                ELSE [queue EXCEPT ![s] = Append(@, hand[s][1])]
  /\ interrupted' = [interrupted EXCEPT ![s] = FALSE]
  /\ hand' = [hand EXCEPT ![s] = <<>>]
  /\ RouterGoto(s, "loop")
  /\ UNCHANGED <<running, storeVars>> /\ NotMain

-----------------------------------------------------------------------------
(* The harvesting thread *)

Goto(l)     == pc' = l
NotRouters  == UNCHANGED <<routerVars, interrupts, limit>>
\* Every blocking call tests the interrupt flag, but for the join() of a thread that has
\* ended; all of them are retried.
FlagCleared == interrupted' = [interrupted EXCEPT ![0] = FALSE]

\* add: the record goes into the source, and what has come out is stored.
Add ==
  /\ pc = "harvest" /\ next \in Rec
  /\ queue' = [queue EXCEPT ![0] = Append(@, Record(next))]
  /\ next' = next + 1
  /\ Goto("store")
  /\ FlagCleared
  /\ UNCHANGED <<count, storeVars>> /\ NotRouters

\* delete(Record) is inherited and goes straight to the storage.
Delete ==
  /\ pc = "harvest" /\ next \in Rec
  /\ stored' = Append(stored, [op |-> "delete", rec |-> next])
  /\ next' = next + 1
  /\ UNCHANGED <<queue, interrupted, pc, count, rejected>> /\ NotRouters

StoreNothing ==
  /\ pc = "store" /\ queue[Steps] = <<>>
  /\ Goto("harvest")
  /\ UNCHANGED <<queue, interrupted, next, count, storeVars>> /\ NotRouters

\* The next record from the last queue is added to the storage.
StoreHead ==
  /\ queue[Steps] # <<>> /\ Head(queue[Steps]) # Stop
  /\ queue' = [queue EXCEPT ![Steps] = Tail(@)]
  /\ stored' = Append(stored, Head(queue[Steps]))
  /\ FlagCleared
  /\ UNCHANGED <<next, rejected>> /\ NotRouters

\* Mutant: the limit is tested before the record is counted.
StoreOneMore ==
  /\ pc = "store"
  /\ StoreHead
  /\ count' = count + 1
  /\ Goto(IF limit > 0 /\ count >= limit THEN "commit" ELSE "store")

\* Another record would be above the limit: StopException, after which the jobs commit.
Store ==
  /\ pc = "store"
  /\ StoreHead
  /\ count' = count + 1
  /\ Goto(IF limit > 0 /\ count' >= limit THEN "commit" ELSE "store")

\* The storage throws, and the record is lost.
StorageThrows ==
  /\ StorageFaults
  /\ pc \in {"store", "storeFinal"}
  /\ queue[Steps] # <<>> /\ Head(queue[Steps]) # Stop
  /\ queue' = [queue EXCEPT ![Steps] = Tail(@)]
  /\ rejected' = rejected \union {Head(queue[Steps]).rec}
  /\ Goto(IF pc = "store" THEN "addFailed" ELSE "commitFailed")
  /\ FlagCleared
  /\ UNCHANGED <<next, count, stored>> /\ NotRouters

\* The job rolls back, or does not for a StorageException, or goes on harvesting when it
\* allows errors.
JobHandles ==
  /\ pc \in {"addFailed", "commitFailed"}
  /\ pc' \in {"rollback", "left"} \union (IF pc = "addFailed" THEN {"harvest"} ELSE {})
  /\ UNCHANGED <<queue, interrupted, next, count, storeVars>> /\ NotRouters

\* The harvest has come to its end, or was killed, or has failed.
HarvestEnds ==
  /\ pc = "harvest"
  /\ pc' \in {"commit", "rollback"}
  /\ UNCHANGED <<queue, interrupted, next, count, storeVars>> /\ NotRouters

\* commit: the interrupted call is put() or join(), and both are repeated after either.
PutStop ==
  /\ pc = "commit"
  /\ IF interrupted[0] THEN UNCHANGED <<queue, pc>>
     ELSE /\ queue' = [queue EXCEPT ![0] = Append(@, Stop)]
          /\ Goto("join")
  /\ FlagCleared
  /\ UNCHANGED <<next, count, storeVars>> /\ NotRouters

Gone(s) == router[s] \in {"ended", "dead"}

JoinLast(returned, thrown) ==
  \/ Gone(Steps) /\ Goto(returned) /\ UNCHANGED interrupted
  \/ ~Gone(Steps) /\ interrupted[0] /\ Goto(thrown) /\ FlagCleared

\* Mutant: the records that are on their way are not waited for.
NoJoin ==
  /\ pc = "join"
  /\ Goto(IF queue[Steps] = <<>> THEN "commitTarget" ELSE "storeFinal")
  /\ UNCHANGED <<queue, interrupted, next, count, storeVars>> /\ NotRouters

Join ==
  /\ pc = "join"
  /\ JoinLast("storeFinal", "commit")
  /\ UNCHANGED <<queue, next, count, storeVars>> /\ NotRouters

\* storeFinal has no limit.
StoreFinal ==
  /\ pc = "storeFinal"
  /\ StoreHead
  /\ UNCHANGED <<pc, count>>

StopArrives ==
  /\ pc = "storeFinal"
  /\ queue[Steps] # <<>> /\ Head(queue[Steps]) = Stop
  /\ queue' = [queue EXCEPT ![Steps] = Tail(@)]
  /\ Goto("commitTarget")
  /\ FlagCleared
  /\ UNCHANGED <<next, count, storeVars>> /\ NotRouters

CommitTarget ==
  /\ pc = "commitTarget"
  /\ pc' \in {"committed"} \union (IF StorageFaults THEN {"commitFailed"} ELSE {})
  /\ UNCHANGED <<queue, interrupted, next, count, storeVars>> /\ NotRouters

\* Mutant: only the thread that join() waits for.
ShutDownLast ==
  /\ pc = "rollback"
  /\ running' = [running EXCEPT ![Steps] = FALSE]
  /\ interrupted' = [interrupted EXCEPT ![Steps] = ~Gone(Steps)]
  /\ Goto("joinRollback")
  /\ UNCHANGED <<queue, router, hand, next, limit, count, interrupts, storeVars>>

\* rollback shuts the routers down, from the first to the last, which no one can tell
\* from all at once: a message that one of them passes on meanwhile is behind.
ShutDown ==
  /\ pc = "rollback"
  /\ running' = [s \in Step |-> FALSE]
  /\ interrupted' = [s \in 0..Steps |-> IF s = 0 THEN interrupted[0] ELSE ~Gone(s)]
  /\ Goto("joinRollback")
  /\ UNCHANGED <<queue, router, hand, next, limit, count, interrupts, storeVars>>

JoinRollback ==
  /\ pc = "joinRollback"
  /\ JoinLast("rollbackTarget", "rollbackTarget")
  /\ UNCHANGED <<queue, next, count, storeVars>> /\ NotRouters

RollbackTarget ==
  /\ pc = "rollbackTarget"
  /\ Goto("rolledBack")
  /\ UNCHANGED <<queue, interrupted, next, count, storeVars>> /\ NotRouters

\* kill()
Interrupt ==
  /\ interrupts < MaxInterrupts
  /\ interrupts' = interrupts + 1
  /\ interrupted' = [interrupted EXCEPT ![0] = TRUE]
  /\ UNCHANGED <<queue, routerVars, mainVars, storeVars>>

-----------------------------------------------------------------------------
RouterStep(s) ==
  \/ RouterEnds(s) \/ Take(s)
  \/ ConsumeStop(s) \/ Transform(s) \/ PutError(s) \/ RouterDies(s) \/ Produce(s)

MainStep ==
  \/ Add \/ Delete \/ StoreNothing \/ Store \/ StorageThrows \/ JobHandles \/ HarvestEnds
  \/ PutStop \/ Join \/ StoreFinal \/ StopArrives \/ CommitTarget
  \/ ShutDown \/ JoinRollback \/ RollbackTarget

Next ==
  \/ \E s \in Step : RouterStep(s)
  \/ MainStep
  \/ Interrupt

Spec == Init /\ [][Next]_vars

\* The JVM runs the threads, a transformation ends, and so does a harvest.
Fairness == WF_vars(MainStep) /\ \A s \in Step : WF_vars(RouterStep(s))

FairSpec == Spec /\ Fairness

-----------------------------------------------------------------------------
(* What the pipeline promises *)

\* The places on the way, from the source at 0 to the last queue at 2 * Steps: the
\* queue of step s is at 2 * s, and what its thread has in hand is before it.
Places == 0..(2 * Steps)
LineOf(q, h) == [p \in Places |-> IF p % 2 = 0 THEN q[p \div 2] ELSE h[(p + 1) \div 2]]
Line == LineOf(queue, hand)

\* A message is at some place of a line.
On(line, m) == \E p \in Places : \E i \in DOMAIN line[p] : line[p][i] = m

\* The records between source and storage.
Pending == {r \in Rec : On(Line, Record(r))}

Phase ==
  CASE pc \in {"rollback", "joinRollback", "rollbackTarget"} -> "closing"
    [] pc = "committed" -> "committed"
    [] pc \in {"rolledBack", "left"} -> "over"
    [] OTHER -> "open"

\* However the threads of the steps and of the harvest run, and whenever kill()
\* interrupts it, records reach the storage in their order, once, none is lost but those
\* that were rejected, a commit comes after the last of them, and after a rollback has
\* begun there is none.  add 78-89, store 108-133, commit 160-172, rollback 175-187.
Pipe == INSTANCE RecordPipe WITH phase <- Phase, last <- next - 1, pending <- Pending
RecordsComeThrough == Pipe!Spec

\* A run comes to its end, interrupted or not: a commit waits for a stop message that
\* all routers have to pass on, and waits for ever only when one of them has died.
AtCommit == pc \in {"commit", "join", "storeFinal"}
Broken   == \E s \in Step : router[s] = "dead"
RunEnds  == <>(pc \in {"committed", "rolledBack", "left"} \/ (AtCommit /\ Broken))

\* Committed or rolled back, the run leaves no thread behind.  A job that gives up after
\* a StorageException does.
ThreadsEnd == pc \in {"committed", "rolledBack"} ~> \A s \in Step : Gone(s)

-----------------------------------------------------------------------------
(* Why records come through *)

\* A message that may be ahead of another: an earlier record, or anything ahead of a stop.
Earlier(m, n) == n = Stop \/ (m # Stop /\ m.rec < n.rec)

InOrder(line) ==
  /\ \A p \in Places : \A i, j \in DOMAIN line[p] :
       i < j => Earlier(line[p][i], line[p][j])
  /\ \A p, q \in Places : p < q =>
       \A i \in DOMAIN line[p], j \in DOMAIN line[q] : Earlier(line[q][j], line[p][i])

Added(i) == i \in DOMAIN stored /\ stored[i].op = "add"

\* What is on the way was harvested, and comes after what is stored and counted.
BehindTheStored ==
  \A m \in Message : On(Line, m) =>
    /\ \A i \in DOMAIN stored : Added(i) => Earlier(stored[i], m)
    /\ m # Stop => count < m.rec /\ m.rec < next /\ m.rec \notin rejected

WasHarvested ==
  /\ count < next
  /\ \A i \in DOMAIN stored : stored[i].rec < next
  /\ \A r \in rejected : r < next

\* Only the harvesting thread at its end sends a stop message.
Harvesting == pc \in {"harvest", "store", "addFailed"}
NoStopYet  == Harvesting => ~On(Line, Stop) /\ (limit > 0 => count < limit)

\* Only a rollback interrupts the threads of the steps.
ShutDownBegun    == pc \in {"joinRollback", "rollbackTarget", "rolledBack"}
NotInterruptedYet == ~ShutDownBegun => \A s \in Step : ~interrupted[s]

IsStored(r) == \E i \in DOMAIN stored : stored[i].rec = r

\* Before that, no record is lost on the way.
NoneLost ==
  ~ShutDownBegun => \A r \in 1..(next - 1) : IsStored(r) \/ r \in rejected \/ On(Line, Record(r))

\* A stop message that arrives is behind all records.
LastHasArrived ==
  pc \in {"commitTarget", "committed"} => \A m \in Message : On(Line, m) => m = Stop

\* What the storage is given, however the threads run: the additions in the order of the
\* harvest and each once, none of them rejected; and a commit only when every record of
\* the harvest has come to the storage or was rejected.
StoredInOrder ==
  /\ \A i, j \in DOMAIN stored :
       i < j /\ Added(i) /\ Added(j) => stored[i].rec < stored[j].rec
  /\ \A i \in DOMAIN stored : Added(i) => stored[i].rec \notin rejected
  /\ pc \in {"commitTarget", "committed"} =>
       \A r \in 1..(next - 1) : IsStored(r) \/ r \in rejected

\* The inductive invariant behind it.
IInv ==
  /\ TypeOK /\ InOrder(Line)
  /\ BehindTheStored /\ WasHarvested /\ NoStopYet /\ NotInterruptedYet
  /\ NoneLost /\ LastHasArrived /\ StoredInOrder
=============================================================================

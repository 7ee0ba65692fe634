------------------------------ MODULE RecordPipe ------------------------------
(***************************************************************************)
(* What a harvest job may rely on of its transformation: the records that  *)
(* it adds come out in the order in which they were harvested, each of     *)
(* them once and no other, but for those that a step or the storage has    *)
(* rejected; when the storage is committed none is on its way; and once a  *)
(* rollback has begun, none reaches the storage any more.                  *)
(*                                                                         *)
(* Records are numbered in the order of the harvest, so the set of those   *)
(* on their way has an oldest.  Deletions do not go through the steps:     *)
(* they reach the storage at once, also before the additions that are on   *)
(* their way.                                                              *)
(***************************************************************************)
EXTENDS Naturals, Sequences

CONSTANT Rec  \* the records of a run, a set of numbers

VARIABLES
  phase,     \* "open", "committed", "closing" in a rollback, or "over"
  last,      \* the record that was harvested last
  pending,   \* the records on their way
  stored,    \* the operations that the storage has been given
  rejected   \* the records that have been rejected

vars == <<phase, last, pending, stored, rejected>>

Addition(r) == [op |-> "add", rec |-> r]
Deletion(r) == [op |-> "delete", rec |-> r]

Oldest(r) == r \in pending /\ \A p \in pending : r <= p

Init ==
  phase = "open" /\ last = 0 /\ pending = {} /\ stored = <<>> /\ rejected = {}

Harvest(r) ==
  /\ phase = "open"
  /\ last < r /\ last' = r

Add(r) ==
  /\ Harvest(r)
  /\ pending' = pending \union {r}
  /\ UNCHANGED <<phase, stored, rejected>>

Delete(r) ==
  /\ Harvest(r)
  /\ stored' = Append(stored, Deletion(r))
  /\ UNCHANGED <<phase, pending, rejected>>

Reject ==
  \E r \in pending :
    /\ pending' = pending \ {r}
    /\ rejected' = rejected \union {r}
    /\ UNCHANGED <<phase, last, stored>>

Store ==
  /\ phase = "open"
  /\ \E r \in pending :
       /\ Oldest(r)
       /\ pending' = pending \ {r}
       /\ stored' = Append(stored, Addition(r))
  /\ UNCHANGED <<phase, last, rejected>>

\* A record on its way is lost, which only a rollback excuses.
Lose ==
  /\ phase \in {"closing", "over"}
  /\ \E r \in pending : pending' = pending \ {r}
  /\ UNCHANGED <<phase, last, stored, rejected>>

Commit ==
  /\ phase = "open" /\ phase' = "committed"
  /\ pending = {}
  /\ UNCHANGED <<last, pending, stored, rejected>>

BeginRollback ==
  /\ phase = "open" /\ phase' = "closing"
  /\ UNCHANGED <<last, pending, stored, rejected>>

EndRollback ==
  /\ phase = "closing" /\ phase' = "over"
  /\ UNCHANGED <<last, pending, stored, rejected>>

\* After an exception of the storage there may be neither.
GiveUp ==
  /\ phase = "open" /\ phase' = "over"
  /\ UNCHANGED <<last, pending, stored, rejected>>

Next ==
  \/ \E r \in Rec : Add(r) \/ Delete(r)
  \/ Store \/ Reject \/ Lose
  \/ Commit \/ BeginRollback \/ EndRollback \/ GiveUp

Spec == Init /\ [][Next]_vars
=============================================================================

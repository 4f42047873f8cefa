------------------------------ MODULE TaskStore ------------------------------
(***************************************************************************)
(* internal/taskstore: the state machine of a task's record, and the two   *)
(* halves of Store.Transition.  The store takes no lock: Transition reads  *)
(* the record, checks the edge and renames a new file over the old one, so *)
(* another writer may come between the check and the write.                *)
(***************************************************************************)
CONSTANTS
  Tasks,      \* task ids
  Absent      \* the state of a task that has no record

VARIABLE rec  \* the state in each task's record on disk

Live     == {"running", "awaiting_approval"}
Terminal == {"done", "flagged", "failed", "refused", "cancelled", "interrupted"}
State    == {"queued"} \cup Live \cup Terminal

ASSUME StoreAssumption == Absent \notin State

\* The table of legal edges.  Failed is an edge out of awaiting_approval because the
\* sandbox can exit under a parked request (#228).
Edges ==
  [queued            |-> {"running", "refused", "cancelled", "interrupted"},
   running           |-> {"awaiting_approval", "done", "flagged", "failed", "cancelled", "interrupted"},
   awaiting_approval |-> {"running", "failed", "cancelled", "interrupted"}]

\* A state with no row has no edge out of it; a record that is not there cannot be loaded.
CanTransition(from, to) == from \in DOMAIN Edges /\ to \in Edges[from]

\* Create writes a record that is not there yet, queued or refused.
Create(t, s) ==
  /\ rec[t] = Absent
  /\ s \in {"queued", "refused"}
  /\ rec' = [rec EXCEPT ![t] = s]

\* The write of Transition, by an actor that found the edge legal.
Write(t, to) == rec' = [rec EXCEPT ![t] = to]

Unfinished == {t \in Tasks : rec[t] \notin Terminal \cup {Absent}}
=============================================================================

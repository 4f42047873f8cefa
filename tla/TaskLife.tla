------------------------------ MODULE TaskLife ------------------------------
(***************************************************************************)
(* What the records of the workspace agent's tasks promise their reader    *)
(* (docs/spec/v1.11-workspace-agent.md 3.2): a task is queued or refused,  *)
(* runs when no other does, may wait for the operator, ends once, and      *)
(* stays as it ended.                                                      *)
(***************************************************************************)
CONSTANTS Tasks, Absent

VARIABLE state

Ends(s) ==
  CASE s = "queued"  -> {"refused", "cancelled", "interrupted"}
    [] s = "running" -> {"done", "flagged", "failed", "cancelled", "interrupted"}
    [] s = "awaiting_approval" -> {"failed", "cancelled", "interrupted"}
    [] OTHER -> {}

Become(t, s) == state' = [state EXCEPT ![t] = s]

Init == state = [t \in Tasks |-> Absent]

Submit(t) == state[t] = Absent /\ (Become(t, "queued") \/ Become(t, "refused"))

Start(t) ==
  /\ state[t] = "queued"
  /\ \A u \in Tasks : state[u] \notin {"running", "awaiting_approval"}
  /\ Become(t, "running")

Park(t)   == state[t] = "running" /\ Become(t, "awaiting_approval")
Resume(t) == state[t] = "awaiting_approval" /\ Become(t, "running")
End(t)    == \E s \in Ends(state[t]) : Become(t, s)

Next == \E t \in Tasks : Submit(t) \/ Start(t) \/ Park(t) \/ Resume(t) \/ End(t)

Spec == Init /\ [][Next]_state
=============================================================================

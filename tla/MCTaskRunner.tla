---------------------------- MODULE MCTaskRunner ----------------------------
(* Two tasks, so that one can be queued behind the other. *)
EXTENDS TaskRunner

CONSTANTS t1, t2, h1, h2, v1

\* A deletion that is on a list, a listed command, a write and a fetch: together
\* they take every branch of Decide, in either mode.
MCAsked ==
  {[action |-> "execute", deletion |-> TRUE, listed |-> TRUE],
   [action |-> "execute", deletion |-> FALSE, listed |-> TRUE],
   [action |-> "write", deletion |-> FALSE, listed |-> FALSE],
   [action |-> "fetch", deletion |-> FALSE, listed |-> FALSE]}

AskMode  == [t \in Tasks |-> "ask"]
AutoMode == [t \in Tasks |-> "auto"]
=============================================================================

------------------------------ MODULE Approval -------------------------------
(***************************************************************************)
(* internal/approval: how one tool call is answered.  A command is two     *)
(* facts about it: it matches the deletion pattern, and it is on one of    *)
(* auto mode's lists (the workspace allowlist or Crush's read-only list).  *)
(* Both can hold: `env rm x` starts with a read-only command.              *)
(***************************************************************************)
Actions == {"read", "list", "write", "execute", "fetch", "download"}
Modes   == {"ask", "auto"}

\* Only an execute carries a command.
Request ==
  {r \in [action : Actions, deletion : BOOLEAN, listed : BOOLEAN] :
     r.action # "execute" => ~r.deletion /\ ~r.listed}

Allowed == [ask |-> {"read", "list"}, auto |-> {"read", "list", "write"}]
Denied  == {"fetch", "download"}

Listed(mode, r) == mode = "auto" /\ r.listed

DecideListedFirst(mode, r) ==    \* mutant: auto mode's lists are looked at first
  IF r.action \in Allowed[mode] \/ Listed(mode, r) THEN "allow"
  ELSE IF r.action \in Denied THEN "deny" ELSE "ask"

\* A deletion asks in every mode; only then does auto mode's exception for a listed
\* command apply; the table answers the rest.
Decide(mode, r) ==
  IF r.deletion THEN "ask"
  ELSE IF r.action \in Allowed[mode] \/ Listed(mode, r) THEN "allow"
  ELSE IF r.action \in Denied THEN "deny"
  ELSE "ask"
=============================================================================

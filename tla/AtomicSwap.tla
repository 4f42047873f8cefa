----------------------------- MODULE AtomicSwap -----------------------------
(***************************************************************************)
(* What a swap promises its operator, whatever the frame does in between:  *)
(* the config, the unit file of the proven service and the text that       *)
(* service runs change together or not at all, and where that could not be *)
(* kept the stack is in doubt and known to be.                             *)
(***************************************************************************)
CONSTANTS
  Configs, Texts, Down,
  UnitOf        \* the proven service's unit, for each config

VARIABLES
  config,       \* the config in force
  unit,         \* the proven service's unit file
  serving,      \* the text it runs, or Down
  doubt         \* a process died, or a rollback said it is incomplete

vars == <<config, unit, serving, doubt>>

Init ==
  /\ config \in Configs
  /\ unit \in Texts
  /\ serving \in {unit, Down}
  /\ doubt = FALSE

\* The swap passes its proof.
Switch(c) ==
  /\ config' = c
  /\ unit' = UnitOf[c]
  /\ serving' = unit'
  /\ UNCHANGED doubt

\* The target renders the unit already on disk: nothing restarted, nothing proven.
Adopt(c) ==
  /\ UnitOf[c] = unit
  /\ config' = c
  /\ UNCHANGED <<unit, serving, doubt>>

\* The swap fails and is undone; the proven service was restarted on the way, so it
\* runs its unit even where it had been stopped.
Undo ==
  /\ serving' = unit
  /\ UNCHANGED <<config, unit, doubt>>

\* A process dies or a rollback is incomplete: anything may be left behind.
Lapse ==
  /\ doubt' = TRUE
  /\ config' \in Configs
  /\ unit' \in Texts
  /\ serving' \in Texts \cup {Down}

Next == Undo \/ Lapse \/ \E c \in Configs : Switch(c) \/ Adopt(c)

Spec == Init /\ [][Next]_vars
=============================================================================

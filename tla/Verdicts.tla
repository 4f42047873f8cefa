------------------------------- MODULE Verdicts -------------------------------
(***************************************************************************)
(* What `villa status` (internal/status) and `villa doctor`                *)
(* (internal/doctor) say of a host that installs and uninstalls have been  *)
(* run on, to the end or not.  Both are pure folds: they read the config,  *)
(* the units and the services without the stack lock, and change nothing,  *)
(* so they are functions of the state.  seen[s] is how a service was read: *)
(* its systemd state may be known, not measurable ("unknown") or an error  *)
(* of systemctl ("errored"), its health known or not.  live is what every  *)
(* drive of a running model answers: the offload of the inference service, *)
(* and the residency or tool-call proof of each subsystem that is on.      *)
(*                                                                         *)
(* Left out, for want of state they could contradict: the published ports, *)
(* networks and binaries, the drift of the agent's and the tools mode's    *)
(* flags, the update notice, the ROCm checks a proven residency            *)
(* supersedes, and the record of the web search's egress check, which is   *)
(* taken as fresh and passed.                                              *)
(***************************************************************************)
EXTENDS UninstallFlow

Pass == 0
Warn == 1
Fail == 2
Worst(S) == Max(S \cup {Pass})

----------------------------------------------------------------------------
(* status                                                                   *)

Clear == [s \in Services |-> [active |-> "read", health |-> "read"]]

ActiveState(s, seen) ==
  IF seen[s].active # "read" THEN seen[s].active ELSE IF run[s] = Down THEN "inactive" ELSE "active"
ActiveStatus(a) == CASE a = "active" -> Pass [] a = "unknown" -> Warn [] OTHER -> Fail

Health(s, seen) ==
  IF seen[s].health # "read" THEN seen[s].health ELSE IF run[s] = Down THEN "down" ELSE "ready"
HealthStatus(h) == IF h = "ready" THEN Pass ELSE IF h = "down" THEN Fail ELSE Warn

\* A row for each rendered container, and always one for the dashboard.
RenderedRows(c) == Containers \cap Renders(c)          \* mutant: no row without a unit
Rows(c) == (Containers \cap Renders(c)) \cup {"dashboard"}

\* The proof reads a journal and a slot: a service that is down leaves it unproven.
Offload(seen, live) == IF Health("llama", seen) = "ready" THEN live ELSE Warn

\* What cannot be rendered cannot be reported on.
StatusOverall(seen, live) ==
  IF Unrenderable THEN Fail
  ELSE Worst({Offload(seen, live)}
             \cup {HealthStatus(Health(s, seen)) : s \in Rows(cfg)}
             \cup {ActiveStatus(ActiveState(s, seen)) : s \in Rows(cfg)})

----------------------------------------------------------------------------
(* doctor                                                                   *)

CheckFinding(g) == IF g \in Advisory THEN Warn ELSE Fail

\* A stopped stack is no fault: health never counts for more than a warning.
HealthFinding(h) == IF h = "ready" THEN Pass ELSE Warn

\* A report that could not be made is one warning, not a breach.
StackFindings(seen, live) ==
  IF Unrenderable THEN {Warn}
  ELSE {Offload(seen, live)} \cup {HealthFinding(Health(s, seen)) : s \in Rows(cfg)}

\* The drives of the subsystems that are on need the model they load.
Driven == {"memory", "agent", "websearch", "image"}
DriveFindings(seen, live) == {Offload(seen, live) : f \in cfg.on \cap Driven}

\* The Quadlet units the config renders that are missing or differ on disk.
UnitDrift == {u \in Renders(cfg) : disk[u] # Text(u, cfg)}
DriftFinding == IF Unrenderable \/ UnitDrift # {} THEN Warn ELSE Pass

\* Units on disk the config no longer renders, and services that still run
\* without a file; neither is looked for when the units could not be rendered.
Strays(seen) == {s \in Containers \ Renders(cfg) : disk[s] = NoText /\ seen[s].active = "read" /\ run[s] # Down}
OrphanFinding(seen) ==
  IF ~ Unrenderable /\ (Orphans(cfg) # <<>> \/ Strays(seen) # {}) THEN Warn ELSE Pass

DoctorOverall(seen, live) ==
  Worst({CheckFinding(g) : g \in gaps} \cup StackFindings(seen, live) \cup DriveFindings(seen, live)
        \cup {DriftFinding, OrphanFinding(seen)})

----------------------------------------------------------------------------
(* Properties                                                               *)

Owned == Range(BuildSequence(cfg.on)) \cup {"dashboard"}

\* "Exit 0 = healthy" (doctor.go), at the end of every run, cut or not: a pass of
\* status means that all that install owns is up, whatever could not be read;
\* one of doctor also that the host is prepared, that the units are the config's
\* and that nothing else of villa's runs.  Doctor blocks on a fault of the host or
\* of the model only, never on a stopped stack.
Readings == [active : {"read", "unknown", "errored"}, health : {"read", "unknown"}]
PassIsHealthy ==
  \A seen \in {Clear} \cup {[Clear EXCEPT ![s] = r] : s \in Services \cap Unreadable, r \in Readings} :
    /\ StatusOverall(seen, Pass) = Pass => \A s \in Owned : run[s] # Down
    /\ DoctorOverall(seen, Pass) = Pass =>
         /\ gaps = {} /\ \A s \in Owned : run[s] # Down
         /\ \A u \in Renders(cfg) : disk[u] = Text(u, cfg)
         /\ \A s \in Services \ Rows(cfg) : run[s] = Down \/ seen[s].active # "read"
    /\ DoctorOverall(seen, Pass) = Fail => gaps \ Advisory # {}

\* And what install calls completed they call healthy, but for what install leaves
\* alone: a dashboard whose unit was current and which was down, a unit the config
\* no longer renders, a gap that was passed over, and the sandbox's proxy.
Leavings == gaps # {} \/ Orphans(cfg) # <<>> \/ Strays(Clear) # {}
DashboardLeft == base.disk["dashboard"] = DashboardText /\ base.run["dashboard"] = Down
CompletedIsHealthy ==
  res.outcome = "completed" /\ Settled(base) /\ ~ DashboardLeft /\ "sandbox" \notin cfg.on =>
    /\ StatusOverall(Clear, Pass) = Pass
    /\ ~ Leavings => DoctorOverall(Clear, Pass) = Pass

VerdictsAreSound == pc = "done" => PassIsHealthy /\ CompletedIsHealthy

=============================================================================

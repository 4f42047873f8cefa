---------------------------- MODULE InstallFlow ----------------------------
(***************************************************************************)
(* villa install: internal/install and its live adapters in cmd/villa.     *)
(*                                                                         *)
(* One run holds the stack lock from its first read to its return, so runs *)
(* follow each other and never interleave; what interferes is a host call  *)
(* that fails and a process that dies, at any step.  The order of a run:   *)
(*   read the config and the host, pick a model        LoadConfig, Pick    *)
(*   confirm, and close the host-preparation gaps      Wizard, Gate        *)
(*   assemble the config and diff the units            Assemble            *)
(*   acquire weights and the agent                     Acquire             *)
(*   capture the prior state, then mutate              Capture, Step       *)
(*   on any refusal, undo what was mutated             Undo                *)
(* What follows the capture is straight-line code, so it is kept as data:  *)
(* Program is the sequence of host calls flow.go makes for these gates and *)
(* RollbackProgram the one transaction.go makes for these mutations; a     *)
(* step of either is one host call, which may fail.                        *)
(***************************************************************************)
EXTENDS Naturals, Sequences, SequencesExt

CONSTANTS
  Requests,    \* the invocations tried: [ask, dry, force, tty, wizard]
  Recs,        \* what the recommender may answer for this host
  Hosts,       \* the hosts install may meet
  NewKey, NoKey,   \* the secret this run would mint; none yet
  Fixable,     \* host-preparation gaps install can close itself (PRE-05, PRE-03)
  Advisory,    \* the gaps that never block (PRE-03)
  Unreadable,  \* bound: the units, the services and "config" whose reading may fail
  MaxRuns, MaxFaults, MaxCrashes   \* bounds; a crash counts as a fault too

ASSUME InstallAssumption ==
  /\ MaxRuns \in Nat /\ MaxFaults \in Nat /\ MaxCrashes \in Nat
  /\ NewKey # NoKey /\ Advisory \subseteq Fixable

VARIABLES
  cfg,      \* config.toml, or Absent
  disk,     \* unit files: the Quadlet dir's and the dashboard's
  loaded,   \* the units systemd has generated
  run,      \* what each service was started from, or Down
  boot,     \* the services enabled at boot (the dashboard's own unit)
  env,      \* the secret env files: the inference key and which others exist
  vols,     \* podman volumes that hold state
  store,    \* weights and binaries acquired
  gaps,     \* host preparation that is missing
  pc, req, rec, gates, conf, changed, consents,
  prior,    \* the capture, and lost: which readings of the run failed (history)
  mutated, todo, performed,
  undo,     \* the rollback's progress: [failed, touched]
  res,      \* the Result: [outcome, degraded, warn, at]
  base,     \* history: the host when the run read its config
  runs, faults, crashes

host    == <<cfg, disk, loaded, run, boot, env, vols, store, gaps>>
choices == <<req, rec, gates, conf, changed, consents>>
txn     == <<prior, mutated, todo, performed, undo>>
bounds  == <<runs, faults, crashes>>
vars    == <<host, pc, choices, txn, res, base, bounds>>

----------------------------------------------------------------------------
(* Units, services and what a config renders.                              *)

UnitsOf == [memory    |-> <<"qdrant", "embed", "rerank", "extract">>,
            websearch |-> <<"searxng", "websafe">>,
            voice     |-> <<"stt", "tts">>,
            image     |-> <<"image">>,
            sandbox   |-> <<"inferproxy">>,
            agent     |-> <<>>,
            coding    |-> <<>>]
Features == DOMAIN UnitsOf
Containers == {"llama", "openwebui"} \cup UNION {Range(UnitsOf[f]) : f \in Features}
VolumeOf == [openwebui |-> "openwebui.volume", qdrant |-> "qdrant.volume"]
Services == Containers \cup {"dashboard"}
Units == Services \cup Range(VolumeOf)

\* The order install renders in, which is the order it writes in.
RenderOrder == <<"openwebui.volume", "llama", "openwebui", "qdrant.volume", "qdrant", "embed", "rerank",
                 "extract", "searxng", "websafe", "inferproxy", "stt", "tts", "image">>

NoText == [rel |-> "none", of |-> {}]
Down   == [text |-> NoText, key |-> NoKey]
Absent == [on |-> {}, model |-> "", backend |-> "", key |-> NoKey, minted |-> {}]
\* What LoadVilla answers when there is no file.
DefaultConfig == [Absent EXCEPT !.backend = "rocm"]

\* Which units config c renders, and to what: the chat unit's text is wired to
\* the features, the inference unit's to the model and the backend.
Renders(c) == {"llama", "openwebui", "openwebui.volume"} \cup UNION {Range(UnitsOf[f]) : f \in c.on}
              \cup (IF "memory" \in c.on THEN {"qdrant.volume"} ELSE {})
Text(u, c) == [rel |-> "new", of |-> CASE u = "llama" -> {c.model, c.backend} \cup (c.on \cap {"coding", "sandbox"})
                                       [] u = "openwebui" -> c.on \ {"agent", "coding", "sandbox"}
                                       [] OTHER -> {}]
DashboardText == Text("dashboard", Absent)

----------------------------------------------------------------------------
(* Pure decisions of a run.                                                *)

\* A feature is on when the config or a flag says so; coding mode is staged
\* only by the flag, and only with a coder that fits.
ResolveGates(c, o, r) ==
  {f \in c.on \cup o.ask : f # "coding"} \cup (IF "agent" \in o.ask /\ r.coder # "none" THEN {"coding"} ELSE {})

\* Persist writes every gate back, so what the config had on stays on; the
\* backend is kept when the config names one of villa's.
AssemblePlan(c, g, r) ==
  [c EXCEPT !.on = g \cup (c.on \cap {"coding"}), !.model = r.model,
            !.backend = IF @ \in {"vulkan", "rocm"} THEN @ ELSE r.backend,
            !.key = IF @ = NoKey THEN NewKey ELSE @]

RecommendationUsable(r) == r.model # ""

\* Prose of the fit aside, the agent addon needs a coder of its own.
AgentStageable(r) == r.coder = "swap"

\* The services AssertStartOrder plans for, in order (BuildSequence).
BuildSequence(g) ==
  LET Part(f) == IF f \in g THEN UnitsOf[f] ELSE <<>>
  IN <<"llama", "openwebui">> \o Part("memory") \o Part("websearch") \o Part("voice") \o Part("image")

\* The first position after the last match, or 0 when a service was started
\* out of the planned order.
AssertStartOrder(planned, done) ==
  LET At[n \in 0 .. Len(done)] ==
        IF n = 0 THEN 1
        ELSE LET from == At[n - 1]
                 hits == {i \in from .. Len(planned) : from > 0 /\ planned[i] = done[n]}
             IN IF hits = {} THEN 0 ELSE (CHOOSE i \in hits : \A j \in hits : i <= j) + 1
  IN At[Len(done)] # 0

Op(o, u) == [op |-> o, u |-> u]

\* reconcileDashboard, once its unit is read: nothing when the unit is current;
\* else an old one's service is asked for its state, and a new one's started.
DashboardRestart == <<Op("recordStart", "dashboard"), Op("restart", "dashboard")>>
DashboardStart   == <<Op("launch", "dashboard"), Op("recordStart", "dashboard")>>
DashboardProgram ==
  IF disk["dashboard"] = DashboardText THEN <<>>
  ELSE <<Op("write", "dashboard"), Op("recordUnit", "dashboard"), Op("reload", ""),
         Op("recordEnable", "dashboard"), Op("enable", "dashboard")>>
       \o IF disk["dashboard"] = NoText THEN DashboardStart ELSE <<Op("ask", "dashboard")>>

\* start: an active service is stopped first when its unit was rewritten, and
\* a start is recorded only once it succeeded.
StartOnly(s, rewritten) == <<Op("launch", s), Op("recordStart", s)>>   \* mutant: no stop before it
StartProgram(s, rewritten) ==
  (IF s \in rewritten THEN <<Op("quiesce", s)>> ELSE <<>>) \o <<Op("launch", s), Op("recordStart", s)>>

\* Everything between the capture and the Result.  `todoUnits' is the plan's
\* Changed, in order.
Program(g, todoUnits) ==
  LET rw == Range(todoUnits)
      Each(o, s) == [i \in DOMAIN s |-> Op(o, s[i])]
      Starts(s)  == FlattenSeq([i \in DOMAIN s |-> StartProgram(s[i], rw)])
      When(f, s) == IF f \in g THEN s ELSE <<>>
      Proofs == When("memory", <<Op("prove", "memory")>>) \o When("websearch", <<Op("prove", "websearch")>>)
                \o When("voice", <<Op("prove", "voice")>>) \o When("image", <<Op("prove", "image"), Op("prove", "chat")>>)
                \o When("agent", <<Op("prove", "agent")>>)
  IN <<Op("save", ""), Op("diff", "dashboard"), Op("key", "")>> \o
     IF todoUnits = <<>> THEN <<Op("noChange", "")>>
     ELSE Each("write", todoUnits) \o Each("recordUnit", todoUnits) \o <<Op("reload", "")>>
          \o Starts(<<"llama">>)
          \o When("websearch", <<Op("mint", "websafe"), Op("envFile", "websafe")>>)
          \o Starts(<<"openwebui">>)
          \o When("memory", Starts(UnitsOf.memory))
          \o When("websearch", <<Op("mint", "searxng"), Op("envFile", "searxng")>> \o Starts(UnitsOf.websearch))
          \o When("voice", Starts(UnitsOf.voice)) \o When("image", Starts(UnitsOf.image))
          \o <<Op("poll", "")>> \o Proofs \o <<Op("order", ""), Op("finish", "")>>

RollbackProgram(p, m) ==
  LET Each(o, s) == [i \in DOMAIN s |-> Op(o, s[i])]
      New(s) == ~ p.running[s]
  IN Each("undoStart", Reverse(SelectSeq(m.started, New)))
     \o Each("undoEnable", Reverse(SelectSeq(m.enabled, LAMBDA s : p.units[s] = NoText)))
     \o Each("undoUnit", m.units) \o <<Op("undoReload", "")>>
     \o Each("redoStart", SelectSeq(m.started, LAMBDA s : p.running[s]))
     \o (IF m.config THEN <<Op("undoConfig", "")>> ELSE <<>>)

NoMutations == [started |-> <<>>, enabled |-> <<>>, units |-> <<>>, config |-> FALSE]
Fresh == [outcome |-> "", degraded |-> FALSE, warn |-> FALSE, at |-> ""]

----------------------------------------------------------------------------
(* systemd and podman.                                                     *)

\* The env files a service's unit names must exist for it to start.
EnvReady(s, t) == CASE s \in {"websafe", "searxng"} -> s \in env.files
                    [] s = "openwebui" -> "websearch" \in t.of => "websafe" \in env.files
                    [] OTHER -> TRUE
CanStart(s) == loaded[s] # NoText /\ (run[s] # Down \/ EnvReady(s, loaded[s]))
Started(s)  == [run EXCEPT ![s] = IF @ = Down THEN [text |-> loaded[s], key |-> env.key] ELSE @]
Restarted(s) == [run EXCEPT ![s] = [text |-> loaded[s], key |-> env.key]]
VolumeAlways(s) == vols \cup {s}             \* mutant: a volume for every service
VolumeUsed(s) == vols \cup (IF s \in DOMAIN VolumeOf THEN {s} ELSE {})

----------------------------------------------------------------------------
(* Until the capture: a run that stops here has nothing to roll back.      *)

Block == /\ pc' = "done" /\ res' = [res EXCEPT !.outcome = "blocked"]

Fault == faults + crashes < MaxFaults /\ faults' = faults + 1
NoFault == faults' = faults

\* The command line: flags, and the lock for everything but a dry run.
Invoke ==
  /\ pc = "idle" /\ runs < MaxRuns
  /\ \E o \in Requests : req' = o
  /\ runs' = runs + 1 /\ pc' = "load"
  /\ base' = [cfg |-> cfg, disk |-> disk, loaded |-> loaded, run |-> run, boot |-> boot, env |-> env,
              vols |-> vols, store |-> store, gaps |-> gaps]
  /\ res' = Fresh /\ mutated' = NoMutations /\ performed' = <<>> /\ undo' = [failed |-> FALSE, touched |-> FALSE]
  /\ UNCHANGED <<host, rec, gates, conf, changed, consents, prior, todo, faults, crashes>>

\* An unreadable config refuses: installing from defaults would overwrite it.
LoadConfig ==
  /\ pc = "load"
  /\ \/ NoFault /\ conf' = (IF cfg = Absent THEN DefaultConfig ELSE cfg) /\ pc' = "pick" /\ UNCHANGED res
     \/ Fault /\ Block /\ UNCHANGED conf
  /\ UNCHANGED <<host, req, rec, gates, changed, consents, txn, base, runs, crashes>>

Pick ==
  /\ pc = "pick"
  /\ \E r \in Recs :
       /\ rec' = r
       /\ gates' = ResolveGates(conf, req, r)
       /\ IF RecommendationUsable(r) THEN pc' = "confirm" /\ UNCHANGED res ELSE Block
  /\ UNCHANGED <<host, req, conf, changed, consents, txn, base, bounds>>

\* The wizard runs on a terminal only, and never for a dry run: it cancels, or
\* returns a decision for each privileged gap and maybe another model.
Wizard ==
  /\ pc = "confirm"
  /\ IF req.wizard /\ req.tty /\ ~ req.dry
     THEN \/ Block /\ UNCHANGED <<rec, gates, consents>>
          \/ /\ pc' = "gate" /\ UNCHANGED res
             /\ consents' \in {[asked |-> TRUE, yes |-> y] : y \in SUBSET (gaps \cap Fixable)}
             /\ \E r \in {x \in Recs : RecommendationUsable(x)} : rec' = r /\ gates' = ResolveGates(conf, req, r)
     ELSE /\ pc' = "gate" /\ consents' = [asked |-> FALSE, yes |-> {}]
          /\ UNCHANGED <<res, rec, gates>>
  /\ UNCHANGED <<host, req, conf, changed, txn, base, bounds>>

\* resolveGap and offerNonBlockingGap: the gaps whose fix may run.  A dry run
\* and a run without a terminal fix nothing; a decision of the wizard replaces
\* the prompt, and a gap without an automated fix cannot be closed.
MayFix ==
  IF req.dry THEN {}
  ELSE IF consents.asked THEN consents.yes
  ELSE IF req.tty THEN gaps \cap Fixable ELSE {}

\* The gate: a fix that is declined or fails leaves its gap; one that worked
\* stays, whatever becomes of the run.  What still blocks is overridden by
\* --force, which degrades the result.
Gate ==
  /\ pc = "gate"
  /\ \E fixed \in SUBSET MayFix :
       LET left == (gaps \ fixed) \ Advisory
       IN /\ gaps' = gaps \ fixed /\ consents' = [asked |-> FALSE, yes |-> {}]
          /\ IF left = {} THEN pc' = "plan" /\ UNCHANGED res
             ELSE IF req.force THEN pc' = "plan" /\ res' = [res EXCEPT !.degraded = TRUE]
             ELSE Block
  /\ UNCHANGED <<cfg, disk, loaded, run, boot, env, vols, store, req, rec, gates, conf, changed, txn, base, bounds>>

\* AssemblePlan, the minted secret, the rendering and its diff with the disk;
\* a dry run ends here.
Assemble ==
  /\ pc = "plan"
  /\ \/ /\ NoFault
        /\ LET next == AssemblePlan(conf, gates, rec)
               Stale(u) == u \in Renders(next) /\ disk[u] # Text(u, next)
           IN conf' = next /\ changed' = SelectSeq(RenderOrder, Stale)
        /\ IF req.dry THEN pc' = "done" /\ res' = [res EXCEPT !.outcome = "dryRun"]
           ELSE pc' = "acquire" /\ UNCHANGED res
     \/ Fault /\ Block /\ UNCHANGED <<conf, changed>>
  /\ UNCHANGED <<host, req, rec, gates, consents, txn, base, runs, crashes>>

\* Weights of the model and of each feature, then the agent's own: whatever is
\* missing is downloaded, and what was acquired before a failure stays.
Needed(g) == {"model"} \cup (g \cap {"memory", "voice", "image"}) \cup (IF "agent" \in g THEN {"coder", "crush"} ELSE {})
Acquire ==
  /\ pc = "acquire"
  /\ \/ /\ NoFault
        /\ IF "agent" \in gates /\ ~ AgentStageable(rec)
           THEN store' = store \cup (Needed(gates) \ {"coder", "crush"}) /\ Block
           ELSE store' = store \cup Needed(gates) /\ pc' = "capture" /\ UNCHANGED res
     \/ Fault /\ Block /\ store' \in {store, store \cup {"model"}}
  /\ UNCHANGED <<cfg, disk, loaded, run, boot, env, vols, gaps, choices, txn, base, runs, crashes>>

----------------------------------------------------------------------------
(* The transaction.                                                        *)

\* CapturePrior: the config, every unit of the plan and the dashboard's, and who
\* runs of what install may start.  A reading that fails is no error: a unit or a
\* config that cannot be read was not there, and a service was not running.
CapturedUnits    == Renders(conf) \cup {"dashboard"}
CapturedServices == Services \ {"inferproxy"}
CapturePrior(lost) ==
  [cfg     |-> IF <<"config", "config">> \in lost THEN Absent ELSE cfg,
   units   |-> [u \in Units |-> IF u \in CapturedUnits /\ <<"unit", u>> \notin lost THEN disk[u] ELSE NoText],
   running |-> [s \in Services |-> s \in CapturedServices /\ <<"state", s>> \notin lost /\ run[s] # Down],
   lost    |-> lost]

\* The readings whose failure makes a difference to the capture.
Misreadings ==
  {<<"unit", u>> : u \in {x \in CapturedUnits \cap Unreadable : disk[x] # NoText}}
  \cup {<<"state", s>> : s \in {x \in CapturedServices \cap Unreadable : run[x] # Down}}
  \cup {<<"config", "config">> : x \in {"config"} \cap (IF cfg = Absent THEN {} ELSE Unreadable)}

Capture ==
  /\ pc = "capture"
  /\ \/ NoFault /\ prior' = CapturePrior({})
     \/ Fault /\ \E reading \in Misreadings : prior' = CapturePrior({reading})
  /\ todo' = Program(gates, changed) /\ pc' = "steps"
  /\ UNCHANGED <<host, choices, mutated, performed, undo, res, base, runs, crashes>>

Doing(o)   == pc = "steps" /\ Head(todo).op = o
Unit       == Head(todo).u
Advance    == todo' = Tail(todo) /\ pc' = "steps" /\ UNCHANGED <<res, prior, undo>>
\* A failed step refuses: the rollback undoes what has been recorded so far.
Refuse     == /\ pc' = "undo" /\ todo' = RollbackProgram(prior, mutated)
              /\ res' = [res EXCEPT !.outcome = "refused", !.at = Head(todo).op]
              /\ UNCHANGED <<prior, undo>>
Quiet      == UNCHANGED <<choices, base, runs, crashes>>
\* A service that is up and whose state cannot be read counts as not active.
TakenForDown == /\ run[Unit] # Down /\ Fault
                /\ prior' = [prior EXCEPT !.lost = @ \cup {<<"stop", Unit>>}]
                /\ pc' = "steps" /\ UNCHANGED <<res, undo>>

\* reconcileDashboard reads the unit, and after rewriting it the service's state:
\* a unit that cannot be read refuses; a running service that is taken for down
\* is started, which is a no-op.
ReconcileDashboard ==
  /\ \/ Doing("diff") /\ NoFault /\ todo' = DashboardProgram \o Tail(todo) /\ pc' = "steps" /\ UNCHANGED <<res, prior, undo>>
     \/ Doing("diff") /\ Fault /\ Refuse
     \/ /\ Doing("ask") /\ NoFault /\ pc' = "steps" /\ UNCHANGED <<res, prior, undo>>
        /\ todo' = (IF run["dashboard"] # Down THEN DashboardRestart ELSE DashboardStart) \o Tail(todo)
     \/ Doing("ask") /\ TakenForDown /\ todo' = DashboardStart \o Tail(todo)
  /\ UNCHANGED <<host, mutated, performed>> /\ Quiet

\* The first mutation: when it fails nothing has happened yet.
SaveConfig ==
  /\ Doing("save")
  /\ \/ NoFault /\ cfg' = conf /\ mutated' = [mutated EXCEPT !.config = TRUE] /\ Advance
     \/ Fault /\ Block /\ UNCHANGED <<cfg, mutated, todo, prior, undo>>
  /\ UNCHANGED <<disk, loaded, run, boot, env, vols, store, gaps, performed>> /\ Quiet

WriteUnit ==
  /\ Doing("write")
  /\ \/ /\ NoFault /\ Advance
        /\ disk' = [disk EXCEPT ![Unit] = IF Unit = "dashboard" THEN DashboardText ELSE Text(Unit, conf)]
     \/ Fault /\ Refuse /\ UNCHANGED disk
  /\ UNCHANGED <<cfg, loaded, run, boot, env, vols, store, gaps, mutated, performed>> /\ Quiet

\* RecordUnit, RecordEnable and RecordStart; a recorded start of a container
\* also counts as performed.
Record ==
  /\ \/ /\ Doing("recordUnit") /\ mutated' = [mutated EXCEPT !.units = Append(@, Unit)] /\ UNCHANGED performed
     \/ /\ Doing("recordEnable") /\ mutated' = [mutated EXCEPT !.enabled = Append(@, Unit)] /\ UNCHANGED performed
     \/ /\ Doing("recordStart") /\ mutated' = [mutated EXCEPT !.started = Append(@, Unit)]
        /\ performed' = IF Unit = "dashboard" THEN performed ELSE Append(performed, Unit)
  /\ Advance /\ NoFault /\ UNCHANGED host /\ Quiet

DaemonReload ==
  /\ Doing("reload")
  /\ \/ NoFault /\ loaded' = disk /\ Advance
     \/ Fault /\ Refuse /\ UNCHANGED loaded
  /\ UNCHANGED <<cfg, disk, run, boot, env, vols, store, gaps, mutated, performed>> /\ Quiet

Enable ==
  /\ Doing("enable")
  /\ \/ NoFault /\ boot' = boot \cup {Unit} /\ Advance
     \/ Fault /\ Refuse /\ UNCHANGED boot
  /\ UNCHANGED <<cfg, disk, loaded, run, env, vols, store, gaps, mutated, performed>> /\ Quiet

\* The stop before the start of a rewritten service: one that is taken for down
\* is not stopped, and its start is then a no-op.
Quiesce ==
  /\ Doing("quiesce")
  /\ \/ NoFault /\ run' = [run EXCEPT ![Unit] = Down] /\ Advance
     \/ Fault /\ run[Unit] # Down /\ Refuse /\ UNCHANGED run
     \/ TakenForDown /\ todo' = Tail(todo) /\ UNCHANGED run
  /\ UNCHANGED <<cfg, disk, loaded, boot, env, vols, store, gaps, mutated, performed>> /\ Quiet

Launch ==
  /\ Doing("launch")
  /\ \/ CanStart(Unit) /\ NoFault /\ run' = Started(Unit) /\ vols' = VolumeUsed(Unit) /\ Advance
     \/ ((~ CanStart(Unit) /\ NoFault) \/ Fault) /\ Refuse /\ UNCHANGED <<run, vols>>
  /\ UNCHANGED <<cfg, disk, loaded, boot, env, store, gaps, mutated, performed>> /\ Quiet

\* Only the dashboard is restarted: a failed restart may leave it down.
Restart ==
  /\ Doing("restart")
  /\ \/ NoFault /\ run' = Restarted(Unit) /\ Advance
     \/ Fault /\ Refuse /\ run' \in {run, [run EXCEPT ![Unit] = Down]}
  /\ UNCHANGED <<cfg, disk, loaded, boot, env, vols, store, gaps, mutated, performed>> /\ Quiet

\* The inference key's env file, on every run; the bearer and the SearXNG
\* secret are minted once, saved, and written to files of their own.
WriteSecret ==
  /\ \/ Doing("key") /\ NoFault /\ env' = [env EXCEPT !.key = conf.key] /\ Advance /\ UNCHANGED <<cfg, conf>>
     \/ Doing("envFile") /\ NoFault /\ env' = [env EXCEPT !.files = @ \cup {Unit}] /\ Advance /\ UNCHANGED <<cfg, conf>>
     \/ /\ Doing("mint") /\ NoFault /\ Advance /\ UNCHANGED env
        /\ conf' = [conf EXCEPT !.minted = @ \cup {Unit}]
        /\ cfg' = IF Unit \in conf.minted THEN cfg ELSE conf'
     \/ /\ Doing("key") \/ Doing("envFile") \/ (Doing("mint") /\ Unit \notin conf.minted)
        /\ Fault /\ Refuse /\ UNCHANGED <<cfg, conf, env>>
  /\ UNCHANGED <<disk, loaded, run, boot, vols, store, gaps, mutated, performed,
                 req, rec, gates, changed, consents, base, runs, crashes>>

\* Readiness only warns; a proof that fails refuses.
Prove ==
  /\ \/ /\ Doing("poll") /\ NoFault /\ \E w \in BOOLEAN : res' = [res EXCEPT !.warn = w]
        /\ todo' = Tail(todo) /\ pc' = "steps" /\ UNCHANGED <<prior, undo>>
     \/ Doing("prove") /\ NoFault /\ Advance
     \/ Doing("prove") /\ Fault /\ Refuse
  /\ UNCHANGED <<host, mutated, performed>> /\ Quiet

CheckOrder ==
  /\ Doing("order") /\ NoFault
  /\ IF AssertStartOrder(BuildSequence(gates), performed) THEN Advance ELSE Refuse
  /\ UNCHANGED <<host, mutated, performed>> /\ Quiet

\* Finish: a forced gate or a readiness warning degrades what would complete.
Finish ==
  /\ \/ Doing("finish") /\ res' = [res EXCEPT !.outcome = IF res.degraded \/ res.warn THEN "degraded" ELSE "completed"]
     \/ Doing("noChange") /\ res' = [res EXCEPT !.outcome = IF res.degraded THEN "degraded" ELSE "noChange"]
  /\ pc' = "done" /\ NoFault /\ UNCHANGED <<host, txn>> /\ Quiet

----------------------------------------------------------------------------
(* The rollback: every step is tried, and a failed one is remembered.      *)

Undoing(o) == pc = "undo" /\ todo # <<>> /\ Head(todo).op = o
Undone     == /\ todo' = Tail(todo)
              /\ undo' = [undo EXCEPT !.touched = @ \/ Head(todo).op = "undoUnit"]
NotUndone  == todo' = Tail(todo) /\ undo' = [undo EXCEPT !.failed = TRUE]
Still      == UNCHANGED <<vols, store, gaps, env, choices, prior, mutated, performed, res, base, runs, crashes>> /\ pc' = pc

UndoService ==
  /\ \/ Undoing("undoStart") /\ NoFault /\ run' = [run EXCEPT ![Unit] = Down] /\ Undone
     \/ /\ Undoing("redoStart") /\ loaded[Unit] # NoText /\ EnvReady(Unit, loaded[Unit])
        /\ NoFault /\ run' = Restarted(Unit) /\ Undone
     \/ /\ Undoing("redoStart") /\ ~ (loaded[Unit] # NoText /\ EnvReady(Unit, loaded[Unit]))
        /\ NoFault /\ run' = [run EXCEPT ![Unit] = Down] /\ NotUndone
     \/ (Undoing("undoStart") \/ Undoing("redoStart")) /\ Fault /\ UNCHANGED run /\ NotUndone
  /\ UNCHANGED <<cfg, disk, loaded, boot>> /\ Still

UndoFiles ==
  /\ \/ Undoing("undoEnable") /\ boot' = boot \ {Unit} /\ UNCHANGED <<cfg, disk, loaded>>
     \/ Undoing("undoUnit") /\ disk' = [disk EXCEPT ![Unit] = prior.units[Unit]] /\ UNCHANGED <<cfg, loaded, boot>>
     \/ Undoing("undoReload") /\ loaded' = (IF undo.touched THEN disk ELSE loaded) /\ UNCHANGED <<cfg, disk, boot>>
     \/ Undoing("undoConfig") /\ cfg' = prior.cfg /\ UNCHANGED <<disk, loaded, boot>>
  /\ NoFault /\ Undone /\ UNCHANGED run /\ Still

UndoFails ==
  /\ \E o \in {"undoEnable", "undoUnit", "undoConfig"} : Undoing(o)
  /\ Fault /\ NotUndone /\ UNCHANGED <<cfg, disk, loaded, boot, run>> /\ Still

UndoReloadFails ==
  /\ Undoing("undoReload") /\ undo.touched
  /\ Fault /\ NotUndone /\ UNCHANGED <<cfg, disk, loaded, boot, run>> /\ Still

RolledBack ==
  /\ pc = "undo" /\ todo = <<>> /\ pc' = "done"
  /\ UNCHANGED <<host, choices, txn, res, base, bounds>>

----------------------------------------------------------------------------

\* What the process knew goes with it; the host stays.
NoPrior == [cfg |-> Absent, running |-> [s \in Services |-> FALSE], units |-> [u \in Units |-> NoText],
            lost |-> {}]
Forget ==
  /\ pc' = "idle" /\ req' \in {CHOOSE o \in Requests : TRUE} /\ rec' \in {CHOOSE r \in Recs : TRUE}
  /\ gates' = {} /\ conf' = Absent /\ changed' = <<>> /\ consents' = [asked |-> FALSE, yes |-> {}]
  /\ prior' = NoPrior /\ mutated' = NoMutations /\ todo' = <<>> /\ performed' = <<>>
  /\ undo' = [failed |-> FALSE, touched |-> FALSE] /\ res' = Fresh /\ base' \in {CHOOSE h \in Hosts : TRUE}

\* The process is killed: the lock is the kernel's to drop.
Crash ==
  /\ pc \notin {"idle", "done"} /\ crashes < MaxCrashes /\ faults + crashes < MaxFaults /\ crashes' = crashes + 1
  /\ Forget /\ UNCHANGED <<host, runs, faults>>

Return == pc = "done" /\ Forget /\ UNCHANGED <<host, bounds>>

Install ==
  \/ Invoke \/ LoadConfig \/ Pick \/ Wizard \/ Gate \/ Assemble \/ Acquire \/ Capture
  \/ SaveConfig \/ ReconcileDashboard \/ WriteUnit \/ Record \/ DaemonReload \/ Enable \/ Quiesce \/ Launch \/ Restart
  \/ WriteSecret \/ Prove \/ CheckOrder \/ Finish
  \/ UndoService \/ UndoFiles \/ UndoFails \/ UndoReloadFails \/ RolledBack
  \/ Crash \/ Return

=============================================================================

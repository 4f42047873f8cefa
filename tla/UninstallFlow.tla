--------------------------- MODULE UninstallFlow ---------------------------
(***************************************************************************)
(* villa uninstall (internal/uninstall, cmd/villa/uninstall.go) after and  *)
(* between runs of villa install, on one host.  The teardown is a straight *)
(* line that ends at the first failing call and undoes nothing; config.toml*)
(* and the SELinux boolean are not its to change.                          *)
(***************************************************************************)
EXTENDS InstallFlow

CONSTANTS Teardowns   \* the invocations tried: [flag, tty]

\* A flag wins, a terminal is asked, and otherwise the weights are kept.
ResolveModelChoiceSource(o) ==
  IF o.flag # "" THEN o.flag ELSE IF o.tty THEN "prompt" ELSE "keep"
ResolveWipe(o) == CASE ResolveModelChoiceSource(o) = "remove" -> {TRUE}
                    [] ResolveModelChoiceSource(o) = "keep"   -> {FALSE}
                    [] OTHER -> BOOLEAN

\* What uninstall tears down: the units the config renders, then the declared
\* containers on disk that it no longer renders.
Orphans(c) == SelectSeq(RenderOrder, LAMBDA u : u \in Containers \ Renders(c) /\ disk[u] # NoText)
UninstallUnits(c) == SelectSeq(RenderOrder, LAMBDA u : u \in Renders(c)) \o Orphans(c)

\* A gated-off subsystem's state volume is neither rendered nor an orphan.
UnrenderedStateVolumes(units) == {s \in DOMAIN VolumeOf : VolumeOf[s] \notin Range(units)}
NonModelVolumes(units) == {s \in DOMAIN VolumeOf : VolumeOf[s] \in Range(units)}

\* uninstall.Run, call by call.
TeardownProgram(units, wiped) ==
  LET Each(o, s) == [i \in DOMAIN s |-> Op(o, s[i])]
      extra == SetToSeq(UnrenderedStateVolumes(units))
  IN <<Op("stop", "dashboard"), Op("disable", "dashboard"), Op("remove", "dashboard"), Op("reload", ""),
       Op("drop", "crush")>>
     \o Each("stop", Reverse(SelectSeq(units, LAMBDA u : u \in Containers)))
     \o Each("remove", units) \o [i \in DOMAIN extra |-> Op("remove", VolumeOf[extra[i]])] \o <<Op("reload", "")>>
     \o Each("volume", SetToSeq(NonModelVolumes(units)) \o extra)
     \o (IF wiped THEN <<Op("drop", "weights")>> ELSE <<>>) \o <<Op("linger", "")>>

\* A config that names no model of the catalog cannot be rendered.
Unrenderable == cfg.model = ""

\* The render needs a readable config, a model and a readable unit dir, and what
\* fails here has changed nothing; the wipe is asked before anything.
BeginTeardown ==
  /\ pc = "idle" /\ runs < MaxRuns
  /\ \/ /\ ~ Unrenderable /\ NoFault /\ pc' = "tear" /\ UNCHANGED res
        /\ \E o \in Teardowns : \E w \in ResolveWipe(o) :
             /\ consents' = [asked |-> TRUE, yes |-> IF w THEN {"weights"} ELSE {}]
             /\ todo' = TeardownProgram(UninstallUnits(cfg), w)
     \/ /\ (Unrenderable /\ NoFault) \/ Fault
        /\ Block /\ UNCHANGED <<consents, todo>>
  /\ runs' = runs + 1
  /\ base' = [cfg |-> cfg, disk |-> disk, loaded |-> loaded, run |-> run, boot |-> boot, env |-> env,
              vols |-> vols, store |-> store, gaps |-> gaps]
  /\ UNCHANGED <<host, req, rec, gates, conf, changed, prior, mutated, performed, undo, crashes>>

Tearing(o) == pc = "tear" /\ todo # <<>> /\ Head(todo).op = o

\* systemctl stop fails for a unit systemd does not know, and disable for one
\* without a file; a file or a volume that is already absent is fine.
CanStop(u) == loaded[u] # NoText \/ run[u] # Down
CanDisable(u) == disk[u] # NoText

Beside == UNCHANGED <<choices, prior, mutated, performed, undo, base, runs, crashes>>
Torn == todo' = Tail(todo) /\ pc' = "tear" /\ NoFault /\ UNCHANGED res /\ Beside

TearServices ==
  /\ \/ Tearing("stop") /\ CanStop(Unit) /\ run' = [run EXCEPT ![Unit] = Down] /\ UNCHANGED boot
     \/ Tearing("disable") /\ CanDisable(Unit) /\ boot' = boot \ {Unit} /\ UNCHANGED run
  /\ Torn /\ UNCHANGED <<cfg, disk, loaded, env, vols, store, gaps>>

TearFiles ==
  /\ \/ Tearing("remove") /\ disk' = [disk EXCEPT ![Unit] = NoText] /\ UNCHANGED <<loaded, store, vols, gaps>>
     \/ Tearing("reload") /\ loaded' = disk /\ UNCHANGED <<disk, store, vols, gaps>>
     \/ Tearing("volume") /\ vols' = vols \ {Unit} /\ UNCHANGED <<disk, loaded, store, gaps>>
     \/ /\ Tearing("drop") /\ UNCHANGED <<disk, loaded, vols, gaps>>
        /\ store' = IF Unit = "crush" THEN store \ {"crush"} ELSE store \cap {"crush"}
     \/ Tearing("linger") /\ gaps' = gaps \cup {"linger"} /\ UNCHANGED <<disk, loaded, store, vols>>
  /\ Torn /\ UNCHANGED <<cfg, run, boot, env>>

\* The run ends at its first failing call, or when nothing is left to do.
TearFails ==
  /\ pc = "tear" /\ todo # <<>>
  /\ \/ Fault
     \/ NoFault /\ Tearing("stop") /\ ~ CanStop(Unit)
     \/ NoFault /\ Tearing("disable") /\ ~ CanDisable(Unit)
  /\ pc' = "done" /\ res' = [res EXCEPT !.outcome = "tearFailed", !.at = Head(todo).op]
  /\ UNCHANGED <<host, todo>> /\ Beside

TornDown ==
  /\ pc = "tear" /\ todo = <<>> /\ NoFault
  /\ pc' = "done" /\ res' = [res EXCEPT !.outcome = "torn"]
  /\ UNCHANGED <<host, todo>> /\ Beside

Teardown == BeginTeardown \/ TearServices \/ TearFiles \/ TearFails \/ TornDown

----------------------------------------------------------------------------

Init ==
  /\ \E h \in Hosts :
       /\ cfg = h.cfg /\ disk = h.disk /\ loaded = h.loaded /\ run = h.run /\ boot = h.boot
       /\ env = h.env /\ vols = h.vols /\ store = h.store /\ gaps = h.gaps /\ base = h
  /\ pc = "idle" /\ runs = 0 /\ faults = 0 /\ crashes = 0
  /\ req \in {CHOOSE o \in Requests : TRUE} /\ rec \in {CHOOSE r \in Recs : TRUE}
  /\ gates = {} /\ conf = Absent /\ changed = <<>> /\ consents = [asked |-> FALSE, yes |-> {}]
  /\ prior = NoPrior /\ mutated = NoMutations /\ todo = <<>> /\ performed = <<>>
  /\ undo = [failed |-> FALSE, touched |-> FALSE] /\ res = Fresh

Next == Install \/ Teardown
Spec == Init /\ [][Next]_vars

----------------------------------------------------------------------------
(* Properties.                                                             *)

\* Everything is of its type; a step only runs under a program.
TypeOK ==
  /\ cfg.on \subseteq Features /\ cfg.key \in {NoKey, NewKey} \cup {h.cfg.key : h \in Hosts}
  /\ DOMAIN disk = Units /\ DOMAIN loaded = Units /\ DOMAIN run = Services
  /\ boot \subseteq {"dashboard"} /\ vols \subseteq DOMAIN VolumeOf
  /\ pc \in {"idle", "load", "pick", "confirm", "gate", "plan", "acquire", "capture", "steps", "undo", "tear", "done"}
  /\ pc = "steps" => todo # <<>>
  /\ mutated.config \in BOOLEAN /\ Range(mutated.started) \subseteq Services /\ Range(mutated.units) \subseteq Units

Same(h) == /\ cfg = h.cfg /\ disk = h.disk /\ loaded = h.loaded /\ boot = h.boot
           /\ \A s \in Services : run[s].text = h.run[s].text
\* Every service runs what its file says and holds the key of the config, and
\* the dashboard is enabled when it is installed.
Settled(h) == /\ h.loaded = h.disk /\ ("dashboard" \in h.boot) = (h.disk["dashboard"] # NoText)
              /\ \A s \in Services : h.run[s] # Down => h.run[s] = [text |-> h.disk[s], key |-> h.cfg.key]
Refused == pc = "done" /\ res.outcome = "refused" /\ ~ undo.failed

\* ADR-0003: a run that refuses and calls its rollback clean has restored the
\* config, the boot link, each unit and each service.  What it has not is one that a
\* reading of the capture lost, or that the failed call left behind: units of a
\* write that failed half-way, and the one service stopped for a start that failed.
Lost(kind) == {l[2] : l \in {x \in prior.lost : x[1] = kind}}
HalfWritten == IF res.at = "write" THEN Range(changed) ELSE {}
HalfStarted == IF res.at = "launch" THEN (Range(changed) \cap Services) \ Range(performed) ELSE {}
RollbackRestores ==
  Refused /\ Settled(base) =>
    /\ cfg = base.cfg \/ (cfg = Absent /\ "config" \in Lost("config"))
    /\ boot = base.boot \/ "dashboard" \in Lost("unit")
    /\ \A u \in Units \ HalfWritten :
         \/ disk[u] = base.disk[u] /\ loaded[u] = base.loaded[u]
         \/ disk[u] = NoText /\ u \in Lost("unit")
    /\ \A s \in Services \ HalfStarted :
         run[s].text = base.run[s].text \/ (run[s] = Down /\ s \in Lost("state"))
    /\ \A s, t \in HalfStarted : run[s].text # base.run[s].text /\ run[t].text # base.run[t].text => s = t

\* A run that is blocked, by a refusal, the gate or the wizard, has changed
\* nothing that runs; a dry run has changed nothing at all, gaps included.
BlockedChangesNothing ==
  pc = "done" =>
    /\ res.outcome \in {"blocked", "dryRun"} =>
         <<cfg, disk, loaded, run, boot, env, vols>> =
           <<base.cfg, base.disk, base.loaded, base.run, base.boot, base.env, base.vols>>
    /\ res.outcome = "dryRun" => store = base.store /\ gaps = base.gaps

\* Exit 0 of a run that changed something: every service install owns is up on the
\* unit the saved config renders, under the saved key, but for one that was taken
\* for down and goes on as it was; no gap is overridden.
CompletedMeansServed ==
  pc = "done" /\ res.outcome = "completed" /\ Settled(base) =>
    /\ \A s \in Range(BuildSequence(cfg.on)) :
         /\ disk[s] = Text(s, cfg)
         /\ run[s] \in {[text |-> Text(s, cfg), key |-> cfg.key]} \cup (IF s \in Lost("stop") THEN {base.run[s]} ELSE {})
         /\ run[s] # Down
    /\ cfg.on \subseteq base.cfg.on \cup req.ask \cup {"coding"}
    /\ gaps \subseteq Advisory

\* A teardown that says it is complete leaves no unit, no service and no state
\* volume of any subsystem, on or off, and exactly the weights it was told to
\* leave; the config is untouched.
UninstallLeavesNothing ==
  pc = "done" /\ res.outcome = "torn" /\ (\A s \in Services : base.run[s] # Down => base.disk[s] # NoText) =>
    /\ \A u \in Units : disk[u] = NoText
    /\ \A s \in Services : run[s] = Down
    /\ vols = {} /\ boot = {} /\ cfg = base.cfg
    /\ IF "weights" \in consents.yes THEN store = {} ELSE store = base.store \ {"crush"}


=============================================================================

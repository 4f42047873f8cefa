----------------------------- MODULE StackApply -----------------------------
(***************************************************************************)
(* The host of the villa stack and internal/stackapply's Apply.            *)
(*                                                                         *)
(* The host is config.toml (cfg), the inference-secret env file (env), the *)
(* Quadlet unit files (disk), what systemd generated from them at its last *)
(* daemon-reload (loaded), what each service was started from (run), and   *)
(* the stack lock (lock).  A process is one invocation of a verb; every    *)
(* verb that writes the host calls Apply, whose steps are the actions      *)
(* here: heal the secret, plan, stop the orphans, write, remove, reload.   *)
(* A caller enters Apply at "heal" with next[p] set.  Apply returns at     *)
(* "applied" or, with an error, at "failed"; restarted[p] then holds what  *)
(* it stopped and todo[p] marks what it wrote.                             *)
(*                                                                         *)
(* A unit's text is a model value.  The order in which the files of one    *)
(* plan are handled is left open: the render order carries no guarantee.   *)
(***************************************************************************)
EXTENDS Naturals

CONSTANTS
  Procs,          \* invocations of verbs, one element each
  Units,          \* unit file names villa may write
  Services,       \* the .container units: each one is a service
  Registry,       \* the units the subsystem registry declares
  Texts,          \* unit file contents
  Configs,        \* what a config.toml says, its inference secret aside
  Rendered,       \* Rendered[c][u]: the text c renders u to, or None
  Unrenderable,   \* the configs the renderer refuses
  Keys,           \* inference secrets
  NoKey, None, Down, Free,
  MaxFaults       \* bound on the host calls that fail

ASSUME HostAssumption ==
  /\ Services \subseteq Units
  /\ Registry \subseteq Units
  /\ Unrenderable \subseteq Configs
  /\ None \notin Texts /\ Down \notin Texts
  /\ NoKey \notin Keys /\ Free \notin Procs
  /\ Rendered \in [Configs -> [Units -> Texts \cup {None}]]
  /\ MaxFaults \in Nat

VARIABLES
  lock,     \* the process holding the flock on .stacklock, or Free
  cfg,      \* config.toml: [id, key]
  env,      \* the inference secret in the env file the units read
  disk,     \* the unit files
  loaded,   \* the units systemd knows
  run,      \* the text each service runs, or Down
  pc,         \* each process's place
  prior,      \* the config it read
  next,       \* the config it applies
  captured,   \* the unit files it captured, None for one it did not
  base,       \* history: what ran when it read the config
  todo,       \* what its plan still has to do to each unit
  restarted,  \* the services it stopped or restarted
  out,        \* the outcome it reports
  faults      \* how many host calls have failed

host   == <<cfg, env, disk, loaded, run>>
locals == <<prior, next, captured, base, todo, restarted, out>>

Config  == [id : Configs, key : Keys \cup {NoKey}]
Content == [Units -> Texts \cup {None}]
RunOf   == [Services -> Texts \cup {Down}]

\* A unit of a plan: left alone, an orphan to stop and remove, an orphan to remove,
\* to be written, or written.
Todo == {"keep", "stop", "remove", "write", "written"}

----------------------------------------------------------------------------
(* Helpers                                                                 *)

\* One host call fails, within the bound.
Fault   == faults < MaxFaults /\ faults' = faults + 1
NoFault == faults' = faults

Goto(p, l) == pc' = [pc EXCEPT ![p] = l]

\* The units c renders that are not on disk as rendered (Plan.Changed), and the
\* registry units on disk that c does not render (Plan.Removed).
ToChange(c, files) == {u \in Units : Rendered[c][u] \notin {None, files[u]}}
NoOrphans(c, files) == {}     \* mutant: what is no longer rendered stays (#330)
Orphans(c, files)  == {u \in Registry : Rendered[c][u] = None /\ files[u] # None}

\* isUp of the state systemd reports.
UpAlways(s) == TRUE                                 \* mutant: a stopped service counts
UpIfFirst(s) == s = (CHOOSE t \in Services : TRUE) /\ run[s] # Down   \* mutant: only one is looked at (#251)
Up(s) == run[s] # Down

\* systemctl restart: the service runs the unit systemd has loaded.  A service
\* systemd has no unit for cannot be started; any other failed start leaves it
\* either as it was or down.
RestartBlind(s) ==      \* mutant: systemd is taken to know every unit
  /\ run' = [run EXCEPT ![s] = loaded[s]]
  /\ NoFault
RestartAsStart(s) ==    \* mutant: start, which leaves a running service alone (#210)
  /\ loaded[s] # None
  /\ run' = [run EXCEPT ![s] = IF @ = Down THEN loaded[s] ELSE @]
  /\ NoFault
RestartOk(s) ==
  /\ loaded[s] # None
  /\ run' = [run EXCEPT ![s] = loaded[s]]
  /\ NoFault
RestartFails(s) ==
  \/ loaded[s] = None /\ UNCHANGED run /\ NoFault
  \/ /\ Fault
     /\ run' \in {run, [run EXCEPT ![s] = Down]}

Having(p, mark) == {u \in Units : todo[p][u] = mark}
\* A service is recorded as touched whether or not the call on it succeeds.
RecordNothing(p, s) == UNCHANGED restarted          \* mutant: the caller is not told
Record(p, s) == restarted' = [restarted EXCEPT ![p] = @ \cup {s}]

Mark(p, u, mark) == todo' = [todo EXCEPT ![p][u] = mark]

----------------------------------------------------------------------------
(* Apply                                                                   *)

\* heal: an existing secret is kept; a missing one is generated and persisted
\* with the target config.
HealKey(p) ==
  /\ pc[p] = "heal"
  /\ \/ /\ next[p].key # NoKey
        /\ Goto(p, "env")
        /\ NoFault
        /\ UNCHANGED <<cfg, next>>
     \/ /\ next[p].key = NoKey
        /\ \E k \in Keys \ {env} : cfg' = [next[p] EXCEPT !.key = k]
        /\ next' = [next EXCEPT ![p] = cfg']
        /\ Goto(p, "env")
        /\ NoFault
     \/ /\ next[p].key = NoKey
        /\ Fault
        /\ Goto(p, "failed")
        /\ UNCHANGED <<cfg, next>>
  /\ UNCHANGED <<lock, env, disk, loaded, run, prior, captured, base, todo, restarted, out>>

\* The env file is rewritten on every apply; crush.json follows it, and an error
\* of either stops the apply before any unit is touched.
HealEnv(p) ==
  /\ pc[p] = "env"
  /\ \/ env' = next[p].key /\ Goto(p, "plan") /\ NoFault
     \/ env' \in {env, next[p].key} /\ Goto(p, "failed") /\ Fault
  /\ UNCHANGED <<lock, cfg, disk, loaded, run, locals>>

\* Plan, then the reads write does before it mutates: a plan with nothing to do
\* returns at once, and an orphan whose state cannot be read is refused.
PlanApply(p) ==
  LET c == next[p].id IN
  /\ pc[p] = "plan"
  /\ \/ /\ c \notin Unrenderable
        /\ todo' = [todo EXCEPT ![p] = [u \in Units |->
             IF u \in ToChange(c, disk) THEN "write"
             ELSE IF u \notin Orphans(c, disk) THEN "keep"
             ELSE IF u \in Services /\ Up(u) THEN "stop" ELSE "remove"]]
        /\ Goto(p, IF ToChange(c, disk) \cup Orphans(c, disk) = {} THEN "applied" ELSE "write")
        /\ NoFault
     \/ c \in Unrenderable /\ Goto(p, "failed") /\ NoFault /\ UNCHANGED todo
     \/ Fault /\ Goto(p, "failed") /\ UNCHANGED todo
  /\ UNCHANGED <<lock, host, prior, next, captured, base, restarted, out>>

\* Stop one running orphan, recorded before the stop so that a stop that half
\* succeeded is started again.
StopOrphan(p) ==
  /\ pc[p] = "write"
  /\ \E s \in Having(p, "stop") \cap Services :
       /\ Record(p, s)
       /\ \/ run' = [run EXCEPT ![s] = Down] /\ Mark(p, s, "remove") /\ NoFault /\ UNCHANGED pc
          \/ run' \in {run, [run EXCEPT ![s] = Down]} /\ Fault /\ Goto(p, "failed") /\ UNCHANGED todo
  /\ UNCHANGED <<lock, cfg, env, disk, loaded, prior, next, captured, base, out>>

\* WriteUnits, one atomic rename at a time, once every orphan is stopped.
WriteUnit(p) ==
  /\ pc[p] = "write"
  /\ Having(p, "stop") = {}
  /\ \E u \in Having(p, "write") :
       \/ /\ disk' = [disk EXCEPT ![u] = Rendered[next[p].id][u]]
          /\ Mark(p, u, "written")
          /\ NoFault
          /\ UNCHANGED pc
       \/ Fault /\ Goto(p, "failed") /\ UNCHANGED <<disk, todo>>
  /\ UNCHANGED <<lock, cfg, env, loaded, run, prior, next, captured, base, restarted, out>>

\* RemoveUnits, one file at a time, after the last write.
RemoveUnit(p) ==
  /\ pc[p] = "write"
  /\ Having(p, "stop") \cup Having(p, "write") = {}
  /\ \E u \in Having(p, "remove") :
       \/ /\ disk' = [disk EXCEPT ![u] = None]
          /\ Mark(p, u, "keep")
          /\ NoFault
          /\ UNCHANGED pc
       \/ Fault /\ Goto(p, "failed") /\ UNCHANGED <<disk, todo>>
  /\ UNCHANGED <<lock, cfg, env, loaded, run, prior, next, captured, base, restarted, out>>

\* The one daemon-reload, and Apply returns.
Reload(p) ==
  /\ pc[p] = "write"
  /\ Having(p, "stop") \cup Having(p, "write") \cup Having(p, "remove") = {}
  /\ \/ loaded' = disk /\ Goto(p, "applied") /\ NoFault
     \/ Fault /\ Goto(p, "failed") /\ UNCHANGED loaded
  /\ UNCHANGED <<lock, cfg, env, disk, run, locals>>

Apply(p) ==
  \/ HealKey(p) \/ HealEnv(p) \/ PlanApply(p) \/ StopOrphan(p)
  \/ WriteUnit(p) \/ RemoveUnit(p) \/ Reload(p)

\* The places of Apply a process passes through.
InApply == {"heal", "env", "plan", "write"}
=============================================================================

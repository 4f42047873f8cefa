----------------------------- MODULE StackVerbs -----------------------------
(***************************************************************************)
(* The lifecycle verbs, villa up, restart, down and config set, run        *)
(* beside the swaps of SwapTransaction on the same host and stack lock,    *)
(* with an operator who also edits config.toml by hand.                    *)
(*                                                                         *)
(* Each verb takes the lock, loads the config and resolves its optional    *)
(* service argument; up and restart apply the config and then start or     *)
(* restart, down stops, and config set saves.  The first step that fails   *)
(* ends the verb where it is: there is no rollback.                        *)
(*                                                                         *)
(* The dashboard's own service, which no .container describes and every    *)
(* verb manages, is a service outside the registry with one text in all    *)
(* configs.                                                                *)
(***************************************************************************)
EXTENDS SwapTransaction

CONSTANTS
  Verbs,      \* invocations of the lifecycle verbs
  All,        \* no service argument
  MaxEdits    \* bound on the edits of config.toml by hand

ASSUME VerbAssumption ==
  /\ Procs = Swaps \cup Verbs /\ Swaps \cap Verbs = {}
  /\ All \notin Services
  /\ MaxEdits \in Nat

VARIABLES
  job,      \* the verb and the argument of each invocation
  left,     \* the services it has still to start, restart or stop
  wanted,   \* history: the config last chosen by a set, an edit or a swap
  edits

verbVars == <<job, left, wanted, edits>>
allVars  == <<vars, verbVars>>

Kind  == {"up", "restart", "down", "set"}
NoJob == [verb |-> "up", target |-> All]

VerbsInit ==
  /\ Init
  /\ job = [p \in Verbs |-> NoJob] /\ left = [p \in Verbs |-> {}]
  /\ wanted = cfg.id
  /\ edits = 0

At(p, place) == p \in Verbs /\ pc[p] = place
swapOnly == <<swapMu, crashes, misread>>

RenderedServices(c) == {s \in Services : Rendered[c][s] # None}

\* config set changes no key that turns a unit on or off.
Settable(c) == {d \in Configs : \A u \in Units : Rendered[d][u] = None <=> Rendered[c][u] = None}

\* systemctl start leaves a running service alone.
StartOk(s) ==
  /\ loaded[s] # None
  /\ run' = [run EXCEPT ![s] = IF @ = Down THEN loaded[s] ELSE @]
  /\ NoFault
StartFails(s) ==
  \/ loaded[s] = None /\ UNCHANGED run /\ NoFault
  \/ Fault /\ UNCHANGED run

----------------------------------------------------------------------------
(* Entering and leaving                                                    *)

VerbAcquire(p) ==
  /\ At(p, "idle")
  /\ \/ /\ LockFree /\ lock' = p
        /\ \E v \in Kind, t \in Services \cup {All} :
             /\ v = "set" => t = All
             /\ job' = [job EXCEPT ![p] = [verb |-> v, target |-> t]]
        /\ Goto(p, "vload") /\ NoFault /\ UNCHANGED out
     \/ /\ Fault
        /\ out' = [out EXCEPT ![p] = "lockerror"] /\ Goto(p, "done")
        /\ UNCHANGED <<lock, job>>
  /\ UNCHANGED <<host, prior, next, captured, base, todo, restarted, swapOnly, left, wanted, edits>>

ForgetVerb(p) ==
  /\ Forget({p})
  /\ job' = [job EXCEPT ![p] = NoJob] /\ left' = [left EXCEPT ![p] = {}]

VerbRelease(p) ==
  /\ At(p, "release")
  /\ ForgetVerb(p)
  /\ UNCHANGED <<host, out, faults, crashes, misread, wanted, edits>>

VerbCrash(p) ==
  /\ p \in Verbs /\ pc[p] \notin {"idle", "done"}
  /\ crashes < MaxCrashes /\ crashes' = crashes + 1
  /\ ForgetVerb(p)
  /\ out' = [out EXCEPT ![p] = "crashed"]
  /\ UNCHANGED <<host, faults, misread, wanted, edits>>

----------------------------------------------------------------------------
(* The verbs                                                               *)

\* resolveTargets: the named service, when the config renders it, or the whole stack.
TargetsAll(p, c) == RenderedServices(c)     \* mutant: the argument is not looked at
Targets(p, c) ==
  IF job[p].target = All THEN RenderedServices(c) ELSE RenderedServices(c) \cap {job[p].target}

\* loadConfig, Render and resolveTargets; config set only loads.
VerbLoad(p) ==
  /\ At(p, "vload")
  /\ \/ Fault /\ Return(p, "failed") /\ UNCHANGED <<prior, next, base, left>>
     \/ /\ job[p].verb # "set"
        /\ cfg.id \in Unrenderable \/ Targets(p, cfg.id) = {}
        /\ Return(p, "failed") /\ NoFault /\ UNCHANGED <<prior, next, base, left>>
     \/ /\ job[p].verb = "set" \/ (cfg.id \notin Unrenderable /\ Targets(p, cfg.id) # {})
        /\ prior' = [prior EXCEPT ![p] = cfg] /\ next' = [next EXCEPT ![p] = cfg]
        /\ base' = [base EXCEPT ![p] = run]
        /\ left' = [left EXCEPT ![p] = IF job[p].verb = "set" THEN {} ELSE Targets(p, cfg.id)]
        /\ Goto(p, CASE job[p].verb = "set" -> "vset" [] job[p].verb = "down" -> "vstop" [] OTHER -> "heal")
        /\ NoFault /\ UNCHANGED out
  /\ UNCHANGED <<lock, host, captured, todo, restarted, swapOnly, job, wanted, edits>>

\* runConfigSet: a key or value that is refused, or the loaded config saved with one
\* key changed.
VerbSet(p) ==
  /\ At(p, "vset")
  /\ \/ /\ \E c \in Settable(prior[p].id) : cfg' = [prior[p] EXCEPT !.id = c]
        /\ wanted' = cfg'.id
        /\ Return(p, "set") /\ NoFault
     \/ Return(p, "failed") /\ NoFault /\ UNCHANGED <<cfg, wanted>>
     \/ Return(p, "failed") /\ Fault /\ UNCHANGED <<cfg, wanted>>
  /\ UNCHANGED <<lock, env, disk, loaded, run, prior, next, captured, base, todo, restarted, swapOnly, job, left, edits>>

VerbApply(p) == p \in Verbs /\ Apply(p) /\ UNCHANGED <<swapOnly, verbVars>>

\* A plan that wrote no unit ends up: "the running stack already matches".
Starts(p) == job[p].verb = "restart" \/ Having(p, "written") # {}
AfterVerbApply(p) ==
  /\ \/ At(p, "failed") /\ Return(p, "failed")
     \/ At(p, "applied") /\ ~Starts(p) /\ Return(p, "nothing")
     \/ At(p, "applied") /\ Starts(p) /\ Goto(p, "vstart") /\ UNCHANGED out
  /\ UNCHANGED <<lock, host, prior, next, captured, base, todo, restarted, faults, swapOnly, verbVars>>

Handled(p, s) == left' = [left EXCEPT ![p] = @ \ {s}]

\* up, of one service: a running one is restarted when its unit was written.
UpOne(p) ==
  /\ At(p, "vstart") /\ job[p].verb = "up"
  /\ \E s \in left[p] :
       \/ /\ Up(s) /\ s \in Having(p, "written")
          /\ \/ RestartOk(s) /\ Handled(p, s) /\ UNCHANGED <<pc, out>>
             \/ RestartFails(s) /\ Return(p, "failed") /\ UNCHANGED left
       \/ /\ Up(s) /\ s \notin Having(p, "written")
          /\ Handled(p, s) /\ NoFault /\ UNCHANGED <<run, pc, out>>
       \/ /\ ~Up(s)
          /\ \/ StartOk(s) /\ Handled(p, s) /\ UNCHANGED <<pc, out>>
             \/ StartFails(s) /\ Return(p, "failed") /\ UNCHANGED left
       \/ Fault /\ Return(p, "failed") /\ UNCHANGED <<run, left>>     \* is-active fails
  /\ UNCHANGED <<lock, cfg, env, disk, loaded, prior, next, captured, base, todo, restarted, swapOnly, job, wanted, edits>>

\* restart, of one service.
RestartEach(p) ==
  /\ At(p, "vstart") /\ job[p].verb = "restart"
  /\ \E s \in left[p] :
       \/ RestartOk(s) /\ Handled(p, s) /\ UNCHANGED <<pc, out>>
       \/ RestartFails(s) /\ Return(p, "failed") /\ UNCHANGED left
  /\ UNCHANGED <<lock, cfg, env, disk, loaded, prior, next, captured, base, todo, restarted, swapOnly, job, wanted, edits>>

\* down, of one service.
DownOne(p) ==
  /\ At(p, "vstop")
  /\ \E s \in left[p] :
       \/ run' = [run EXCEPT ![s] = Down] /\ NoFault /\ Handled(p, s) /\ UNCHANGED <<pc, out>>
       \/ /\ run' \in {run, [run EXCEPT ![s] = Down]} /\ Fault
          /\ Return(p, "failed") /\ UNCHANGED left
  /\ UNCHANGED <<lock, cfg, env, disk, loaded, prior, next, captured, base, todo, restarted, swapOnly, job, wanted, edits>>

VerbDone(p) ==
  /\ At(p, "vstart") \/ At(p, "vstop")
  /\ left[p] = {}
  /\ Return(p, job[p].verb)
  /\ UNCHANGED <<lock, host, prior, next, captured, base, todo, restarted, faults, swapOnly, verbVars>>

\* The operator's editor, between verbs.
Edit ==
  /\ lock = Free
  /\ edits < MaxEdits /\ edits' = edits + 1
  /\ \E c \in Configs \ {cfg.id} : cfg' = [cfg EXCEPT !.id = c] /\ wanted' = c
  /\ UNCHANGED <<lock, env, disk, loaded, run, pc, locals, faults, swapOnly, job, left>>

----------------------------------------------------------------------------
\* A swap that keeps its config, by a proof or because no unit changed, has chosen it.
SwapStep(p) ==
  /\ Step(p)
  /\ wanted' = IF pc'[p] = "release" /\ out'[p] \in {"switched", "noop"} THEN cfg'.id ELSE wanted
  /\ UNCHANGED <<job, left, edits>>

VerbStep(p) ==
  \/ VerbAcquire(p) \/ VerbLoad(p) \/ VerbSet(p) \/ VerbApply(p) \/ AfterVerbApply(p)
  \/ UpOne(p) \/ RestartEach(p) \/ DownOne(p) \/ VerbDone(p) \/ VerbRelease(p)

AllDone == (\A p \in Procs : pc[p] = "done") /\ UNCHANGED allVars

VerbsNext ==
  \/ \E p \in Swaps : SwapStep(p)
  \/ \E p \in Verbs : VerbStep(p) \/ VerbCrash(p)
  \/ Crash /\ UNCHANGED verbVars
  \/ Edit \/ AllDone

VerbsSpec == VerbsInit /\ [][VerbsNext]_allVars

----------------------------------------------------------------------------
(* Properties                                                              *)

Accountable == crashes = 0 /\ \A p \in Swaps : out[p] # "incomplete"

\* config.go:159: the lock is held "so a swap's rollback cannot restore a config that
\* predates this write".  Whatever swaps fail and verbs interleave, the config on disk
\* is the one that was last chosen.
ConfigIsAsChosen == lock = Free /\ Accountable => cfg.id = wanted

\* A service that is down is started by an up or a restart that names it, or by a
\* swap that proves it or found it running: what an operator stopped with villa down
\* stays down.
OnlyTheAskedStarts ==
  \A s \in Services : run[s] = Down /\ run'[s] # Down =>
    \/ lock \in Verbs /\ job[lock].verb \in {"up", "restart"} /\ job[lock].target \in {All, s}
    \/ lock \in Swaps /\ (s = Service \/ base[lock][s] # Down)

\* A verb with a service argument leaves every other service of the stack as it found
\* it, from its load to its return, though it applies the whole config; only services
\* the config no longer renders are stopped.
OthersAreLeft ==
  \A p \in Verbs : Working(p) \/ pc[p] \in {"vset", "vstart", "vstop"} =>
    \A s \in RenderedServices(prior[p].id) :
      job[p].target \notin {All, s} \/ job[p].verb = "set" => run[s] = base[p][s]

\* A whole-stack verb that passes did what it says: down left no service of the
\* config up; restart left each running the unit that is loaded; up, when it wrote
\* anything, left none down and the ones it wrote running what the config says.
VerbIsHonest ==
  \A p \in Verbs : pc[p] = "release" /\ job[p].target = All =>
    LET stack == RenderedServices(prior[p].id) IN
    /\ out[p] = "down" => \A s \in stack : run[s] = Down
    /\ out[p] \in {"up", "restart"} =>
         \A u \in Units : disk[u] = Rendered[cfg.id][u] \/ (u \notin Registry /\ Rendered[cfg.id][u] = None)
    /\ out[p] = "restart" => \A s \in stack : run[s] = loaded[s]
    /\ out[p] = "up" =>
         /\ loaded = disk
         /\ \A s \in stack : run[s] # Down /\ (s \in Having(p, "written") => run[s] = disk[s])

\* A verb does what it was asked, to what it was asked, and to nothing else.
DidAsAsked == OthersAreLeft /\ VerbIsHonest
VerbsAreHonest == DidAsAsked /\ [][DidAsAsked' /\ OnlyTheAskedStarts]_allVars
=============================================================================

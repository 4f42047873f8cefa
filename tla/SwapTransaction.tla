--------------------------- MODULE SwapTransaction ---------------------------
(***************************************************************************)
(* stackapply.Transact, the one frame of the swap verbs (backend,          *)
(* speculation, tools mode, coding mode, model swap), run concurrently by  *)
(* CLI invocations, which wait for the stack lock, and by the dashboard's  *)
(* switch handler, which takes its own mutex and then the stack lock, each *)
(* without waiting.                                                        *)
(*                                                                         *)
(* Lock, load, change, capture, save, Apply, restart, prove; any failure   *)
(* from the save on rolls back: restore the captured units, save the prior *)
(* config, reload, restart what was restarted or stopped.                  *)
(***************************************************************************)
EXTENDS StackApply

CONSTANTS
  Cli,          \* swaps run by a CLI verb
  Dash,         \* swaps requested of the dashboard's one process
  Service,      \* TxDeps.Service: the service the proof drives
  MaxCrashes    \* bound on the processes that die

ASSUME SwapAssumption ==
  /\ Cli \cup Dash \subseteq Procs
  /\ Cli \cap Dash = {}
  /\ Service \in Services
  /\ Service \in Registry
  /\ \A c \in Configs : Rendered[c][Service] # None
  \* A unit outside the registry (a resident slot, a network) is the config
  \* entry of another verb: a swap never changes whether it is rendered.
  /\ \A c \in Configs, u \in Units \ Registry : Rendered[c][u] # None
  /\ MaxCrashes \in Nat

VARIABLES
  swapMu,     \* the dashboard's mutex: its holder, or Free
  crashes,    \* how many processes have died
  misread     \* history: how many running services were taken for stopped

vars == <<lock, host, pc, locals, faults, swapMu, crashes, misread>>

Swaps == Cli \cup Dash

\* The locals of an invocation that has not read the config yet, or has returned.
AnyConfig   == CHOOSE c \in Config : TRUE
NotCaptured == [u \in Units |-> None]
NothingRuns == [s \in Services |-> Down]
NothingTodo == [u \in Units |-> "keep"]

\* The places from which a process has the lock.
BeforeSave == {"change", "capture", "save"}
InRollback == {"rbunits", "rbsave", "rbreload", "rbrestart"}
Critical   == {"load"} \cup BeforeSave \cup InApply \cup
              {"applied", "failed", "restart", "prove", "release"} \cup InRollback

Outcome == {"none", "lockerror", "conflict", "loaderror", "noop", "refused", "pullerror",
            "switched", "rolledback", "incomplete", "crashed"}

\* Return with an outcome, the deferred Release still to run.
Return(p, outcome) ==
  /\ out' = [out EXCEPT ![p] = outcome]
  /\ Goto(p, "release")

\* A host some config was applied to: the services run what is on disk.  The
\* config may have been edited since, and a unit of an older one may be left over.
Init ==
  /\ lock = Free /\ swapMu = Free
  /\ cfg \in Config
  /\ env = cfg.key
  /\ \E c \in Configs \ Unrenderable, old \in Configs, stray \in SUBSET (Registry \ {Service}) :
       disk = [u \in Units |-> IF u \in stray THEN Rendered[old][u] ELSE Rendered[c][u]]
  /\ loaded = disk
  /\ run \in [Services -> Texts \cup {Down}]
  /\ \A s \in Services : run[s] \in {Down, disk[s]}
  /\ pc = [p \in Procs |-> "idle"]
  /\ prior = [p \in Procs |-> AnyConfig] /\ next = prior
  /\ captured = [p \in Procs |-> NotCaptured]
  /\ base = [p \in Procs |-> NothingRuns]
  /\ todo = [p \in Procs |-> NothingTodo]
  /\ restarted = [p \in Procs |-> {}]
  /\ out = [p \in Procs |-> "none"]
  /\ faults = 0 /\ crashes = 0
  /\ misread = 0

----------------------------------------------------------------------------
(* Taking and releasing the locks                                          *)

\* flock grants LOCK_EX to one holder at a time.
EachItsOwnLock == TRUE      \* mutant: a lock per verb, the alternative ADR-0010 rejects
LockFree == lock = Free

\* acquireStackLock: LOCK_EX, which waits; opening the file may fail.
Acquire(p) ==
  /\ p \in Cli
  /\ pc[p] = "idle"
  /\ \/ LockFree /\ lock' = p /\ Goto(p, "load") /\ NoFault /\ UNCHANGED out
     \/ /\ Fault
        /\ out' = [out EXCEPT ![p] = "lockerror"]
        /\ Goto(p, "done")
        /\ UNCHANGED lock
  /\ UNCHANGED <<host, prior, next, captured, base, todo, restarted, swapMu, crashes, misread>>

\* handleSwitch: swapMu.TryLock, answering 409 when a switch is in flight.
TrySwapMu(p) ==
  /\ p \in Dash
  /\ pc[p] = "idle"
  /\ \/ swapMu = Free /\ swapMu' = p /\ Goto(p, "trylock") /\ UNCHANGED out
     \/ /\ swapMu # Free
        /\ out' = [out EXCEPT ![p] = "conflict"]
        /\ Goto(p, "done")
        /\ UNCHANGED swapMu
  /\ UNCHANGED <<lock, host, prior, next, captured, base, todo, restarted, faults, crashes, misread>>

\* tryStackLock: LOCK_EX|LOCK_NB; ErrBusy is the same 409, and a lock file that
\* cannot be opened a 500.
TryAcquire(p) ==
  /\ pc[p] = "trylock"
  /\ \/ LockFree /\ lock' = p /\ Goto(p, "load") /\ NoFault /\ UNCHANGED <<swapMu, out>>
     \/ /\ \/ ~LockFree /\ NoFault /\ out' = [out EXCEPT ![p] = "conflict"]
           \/ Fault /\ out' = [out EXCEPT ![p] = "lockerror"]
        /\ swapMu' = Free
        /\ Goto(p, "done")
        /\ UNCHANGED lock
  /\ UNCHANGED <<host, prior, next, captured, base, todo, restarted, crashes, misread>>

\* The invocations of S are over: their locals are gone.
Forget(S) ==
  /\ prior'     = [p \in Procs |-> IF p \in S THEN AnyConfig ELSE prior[p]]
  /\ next'      = [p \in Procs |-> IF p \in S THEN AnyConfig ELSE next[p]]
  /\ captured'  = [p \in Procs |-> IF p \in S THEN NotCaptured ELSE captured[p]]
  /\ base'      = [p \in Procs |-> IF p \in S THEN NothingRuns ELSE base[p]]
  /\ todo'      = [p \in Procs |-> IF p \in S THEN NothingTodo ELSE todo[p]]
  /\ restarted' = [p \in Procs |-> IF p \in S THEN {} ELSE restarted[p]]
  /\ pc'        = [p \in Procs |-> IF p \in S THEN "done" ELSE pc[p]]
  /\ lock'      = IF lock \in S THEN Free ELSE lock
  /\ swapMu'    = IF swapMu \in S THEN Free ELSE swapMu

\* The deferred Release, and the handler's deferred Unlock after it.
Release(p) ==
  /\ pc[p] = "release"
  /\ Forget({p})
  /\ UNCHANGED <<host, out, faults, crashes, misread>>

\* A CLI process dies (the kernel releases its flock), or the dashboard's process
\* does with every request in it.
Crash ==
  /\ crashes < MaxCrashes /\ crashes' = crashes + 1
  /\ \E dead \in {{p} : p \in Cli} \cup {Dash} :
       LET live == {p \in dead : pc[p] \notin {"idle", "done"}} IN
       /\ live # {}
       /\ Forget(live)
       /\ out' = [p \in Procs |-> IF p \in live THEN "crashed" ELSE out[p]]
  /\ UNCHANGED <<host, faults, misread>>

----------------------------------------------------------------------------
(* The transaction                                                         *)

Load(p) ==
  /\ pc[p] = "load"
  /\ \/ /\ prior' = [prior EXCEPT ![p] = cfg]
        /\ next' = [next EXCEPT ![p] = cfg]
        /\ base' = [base EXCEPT ![p] = run]
        /\ Goto(p, "change")
        /\ NoFault
        /\ UNCHANGED out
     \/ Fault /\ Return(p, "loaderror") /\ UNCHANGED <<prior, next, base>>
  /\ UNCHANGED <<lock, host, captured, todo, restarted, swapMu, crashes, misread>>

\* The verb's Change: the target it asks for may be the config already there (a
\* no-op), be refused by a guard, or fail to be pulled.
Change(p) ==
  /\ pc[p] = "change"
  /\ \E c \in Configs :
       \/ c = prior[p].id /\ Return(p, "noop") /\ NoFault /\ UNCHANGED next
       \/ /\ c # prior[p].id
          /\ next' = [next EXCEPT ![p] = [prior[p] EXCEPT !.id = c]]
          /\ Goto(p, "capture")
          /\ NoFault
          /\ UNCHANGED out
       \/ c # prior[p].id /\ Return(p, "refused") /\ NoFault /\ UNCHANGED next
       \/ c # prior[p].id /\ Return(p, "pullerror") /\ Fault /\ UNCHANGED next
  /\ UNCHANGED <<lock, host, prior, captured, base, todo, restarted, swapMu, crashes, misread>>

\* captureUnits: the bytes of the units the prior config renders and of every
\* registry unit; of all villa units when the renderer refuses the prior config.
Capture(p) ==
  LET c == prior[p].id
      named == IF c \in Unrenderable THEN Units
               ELSE {u \in Units : Rendered[c][u] # None} \cup Registry
  IN
  /\ pc[p] = "capture"
  /\ \/ /\ captured' = [captured EXCEPT ![p] =
                          [u \in Units |-> IF u \in named THEN disk[u] ELSE None]]
        /\ Goto(p, "save")
        /\ NoFault
        /\ UNCHANGED out
     \/ Fault /\ Return(p, "refused") /\ UNCHANGED captured
  /\ UNCHANGED <<lock, host, prior, next, base, todo, restarted, swapMu, crashes, misread>>

\* SaveConfig(next); from here on every failure goes to the rollback.
SaveNext(p) ==
  /\ pc[p] = "save"
  /\ \/ cfg' = next[p] /\ Goto(p, "heal") /\ NoFault
     \/ Fault /\ Goto(p, "rbunits") /\ UNCHANGED cfg
  /\ UNCHANGED <<lock, env, disk, loaded, run, locals, swapMu, crashes, misread>>

ApplyStep(p) == Apply(p) /\ UNCHANGED <<swapMu, crashes, misread>>

\* What Transact does with Apply's answer: roll back an error, and stop at a plan
\* that wrote no unit.
AfterApply(p) ==
  /\ \/ pc[p] = "failed" /\ Goto(p, "rbunits") /\ UNCHANGED out
     \/ pc[p] = "applied" /\ Having(p, "written") = {} /\ Return(p, "noop")
     \/ pc[p] = "applied" /\ Having(p, "written") # {} /\ Goto(p, "restart") /\ UNCHANGED out
  /\ UNCHANGED <<lock, host, prior, next, captured, base, todo, restarted, faults,
                 swapMu, crashes, misread>>

\* RestartChanged over the changed services: one that does not run, or whose
\* state cannot be read, is passed over; one that is tried is recorded first.
RestartOne(p) ==
  /\ pc[p] = "restart"
  /\ \E s \in Having(p, "written") \cap Services :
       /\ Mark(p, s, "keep")
       /\ \/ /\ s # Service /\ ~Up(s)
             /\ NoFault
             /\ UNCHANGED <<pc, run, restarted, misread>>
          \/ /\ s # Service /\ Up(s)
             /\ Fault
             /\ misread' = misread + 1
             /\ UNCHANGED <<pc, run, restarted>>
          \/ /\ s = Service \/ Up(s)
             /\ Record(p, s)
             /\ \/ RestartOk(s) /\ UNCHANGED pc
                \/ RestartFails(s) /\ Goto(p, "rbunits")
             /\ UNCHANGED misread
  /\ UNCHANGED <<lock, cfg, env, disk, loaded, prior, next, captured, base, out, swapMu, crashes>>

\* ... and then the proven service, unless it was among them.
RestartProven(p) ==
  /\ pc[p] = "restart"
  /\ Having(p, "written") \cap Services = {}
  /\ \/ /\ Service \in restarted[p]
        /\ Goto(p, "prove")
        /\ NoFault
        /\ UNCHANGED <<run, restarted>>
     \/ /\ Service \notin restarted[p]
        /\ Record(p, Service)
        /\ \/ RestartOk(Service) /\ Goto(p, "prove")
           \/ RestartFails(Service) /\ Goto(p, "rbunits")
  /\ UNCHANGED <<lock, cfg, env, disk, loaded, prior, next, captured, base, todo, out,
                 swapMu, crashes, misread>>

\* The proof drives the running service: it may fail on any host, and passes
\* only on one that serves.
Prove(p) ==
  /\ pc[p] = "prove"
  /\ \/ run[Service] # Down /\ Return(p, "switched")
     \/ Goto(p, "rbunits") /\ UNCHANGED out
  /\ UNCHANGED <<lock, host, prior, next, captured, base, todo, restarted, faults,
                 swapMu, crashes, misread>>

----------------------------------------------------------------------------
(* The rollback: every step is tried, and a failed one is remembered        *)

RollbackFailed(p) == Fault /\ out' = [out EXCEPT ![p] = "incomplete"]

\* mutants: a removed unit is not put back; or a unit is rewritten for ever.
ToRestorePresent(p) == {u \in Units : disk[u] # None /\ captured[p][u] \notin {None, disk[u]}}
ToRestoreAgain(p) == {u \in Units : captured[p][u] # None}
\* The captured units that are not on disk as captured.
ToRestore(p) == {u \in Units : captured[p][u] \notin {None, disk[u]}}

\* Restore: every captured unit is rewritten, and a write that fails ends it with
\* the others as they are.  A unit not captured is left alone.
RollbackUnits(p) ==
  /\ pc[p] = "rbunits"
  /\ \/ /\ \E u \in ToRestore(p) : disk' = [disk EXCEPT ![u] = captured[p][u]]
        /\ NoFault
        /\ UNCHANGED <<pc, out>>
     \/ ToRestore(p) = {} /\ Goto(p, "rbsave") /\ NoFault /\ UNCHANGED <<disk, out>>
     \/ RollbackFailed(p) /\ Goto(p, "rbsave") /\ UNCHANGED disk
  /\ UNCHANGED <<lock, cfg, env, loaded, run, prior, next, captured, base, todo, restarted,
                 swapMu, crashes, misread>>

RollbackConfig(p) ==
  /\ pc[p] = "rbsave"
  /\ \/ cfg' = prior[p] /\ NoFault /\ UNCHANGED out
     \/ RollbackFailed(p) /\ UNCHANGED cfg
  /\ Goto(p, "rbreload")
  /\ UNCHANGED <<lock, env, disk, loaded, run, prior, next, captured, base, todo, restarted,
                 swapMu, crashes, misread>>

\* The reload; the services to restart are marked "written".
RollbackReload(p) ==
  /\ pc[p] = "rbreload"
  /\ \/ loaded' = disk /\ NoFault /\ UNCHANGED out
     \/ RollbackFailed(p) /\ UNCHANGED loaded
  /\ todo' = [todo EXCEPT ![p] = [u \in Units |-> IF u \in restarted[p] THEN "written" ELSE "keep"]]
  /\ Goto(p, "rbrestart")
  /\ UNCHANGED <<lock, cfg, env, disk, run, prior, next, captured, base, restarted,
                 swapMu, crashes, misread>>

RollbackRestart(p) ==
  /\ pc[p] = "rbrestart"
  /\ \E s \in Having(p, "written") \cap Services :
       /\ Mark(p, s, "keep")
       /\ \/ RestartOk(s) /\ UNCHANGED out
          \/ RestartFails(s) /\ out' = [out EXCEPT ![p] = "incomplete"]
  /\ UNCHANGED <<lock, cfg, env, disk, loaded, pc, prior, next, captured, base, restarted,
                 swapMu, crashes, misread>>

\* RolledBack either way; the Reason says when a step failed.
RolledBack(p) ==
  /\ pc[p] = "rbrestart"
  /\ Having(p, "written") = {}
  /\ Return(p, IF out[p] = "incomplete" THEN "incomplete" ELSE "rolledback")
  /\ UNCHANGED <<lock, host, prior, next, captured, base, todo, restarted, faults,
                 swapMu, crashes, misread>>

----------------------------------------------------------------------------
Step(p) ==
  \/ Acquire(p) \/ TrySwapMu(p) \/ TryAcquire(p) \/ Release(p)
  \/ Load(p) \/ Change(p) \/ Capture(p) \/ SaveNext(p) \/ ApplyStep(p)
  \/ AfterApply(p) \/ RestartOne(p) \/ RestartProven(p) \/ Prove(p)
  \/ RollbackUnits(p) \/ RollbackConfig(p) \/ RollbackReload(p)
  \/ RollbackRestart(p) \/ RolledBack(p)

\* Every invocation has returned: nothing is left to do.
Finished == (\A p \in Swaps : pc[p] = "done") /\ UNCHANGED vars

Next == Crash \/ Finished \/ \E p \in Swaps : Step(p)

Spec == Init /\ [][Next]_vars

\* No host call hangs: an invocation that can take a step takes one.  (A holder
\* that hangs blocks every other, as stacklock.go says.)
Fairness == \A p \in Swaps : WF_vars(Step(p))
FairSpec == Spec /\ Fairness

----------------------------------------------------------------------------
(* Properties                                                              *)

ControlType ==
  /\ lock \in Swaps \cup {Free}
  /\ swapMu \in Dash \cup {Free}
  /\ pc \in [Procs -> {"idle", "trylock", "done"} \cup Critical]
  /\ out \in [Procs -> Outcome]
  /\ faults \in 0 .. MaxFaults /\ crashes \in 0 .. MaxCrashes /\ misread \in 0 .. faults

HostType ==
  /\ cfg \in Config /\ env \in Keys \cup {NoKey}
  /\ disk \in Content /\ loaded \in Content /\ run \in RunOf

LocalType ==
  /\ prior \in [Procs -> Config] /\ next \in [Procs -> Config]
  /\ captured \in [Procs -> Content] /\ base \in [Procs -> RunOf]
  /\ todo \in [Procs -> [Units -> Todo]]
  /\ restarted \in [Procs -> SUBSET Services]

TypeOK == ControlType /\ HostType /\ LocalType

\* A swap that has read the config, and has not yet returned.
Working(p) == pc[p] \in Critical \ {"load", "release"}

\* ADR-0010: no process writes config.toml inside another's window.  What a swap
\* saves is computed from, and what it would roll back to is, the config on disk
\* until it saves; from then on the config is one of its own two.
NoLostUpdate ==
  \A p \in Swaps :
    /\ pc[p] \in BeforeSave => cfg = prior[p]
    /\ Working(p) => cfg \in {prior[p], next[p]}

\* transact.go:110: "a service never restarted still runs its prior unit".  The set
\* the rollback restarts holds every service the swap has stopped or started.
TouchedIsRecorded ==
  \A p \in Swaps : Working(p) =>
    \A s \in Services : run[s] # base[p][s] => s \in restarted[p]

\* transact.go:207: a swap never starts a service the operator stopped, except the
\* proven one, neither on its way forward nor on its way back.
NeverStartsTheStopped ==
  \A p \in Swaps : Working(p) =>
    \A s \in Services \ {Service} : base[p][s] = Down => run[s] = Down

\* Switched means the whole stack is applied, whatever earlier swaps left behind,
\* and the proven service runs the unit of the config now on disk.
SwitchedIsApplied ==
  \A p \in Swaps : pc[p] = "release" /\ out[p] = "switched" =>
    /\ cfg = next[p] /\ env = cfg.key
    /\ \A u \in Units : Rendered[cfg.id][u] # None => disk[u] = Rendered[cfg.id][u]
    /\ \A u \in Registry : Rendered[cfg.id][u] = None => disk[u] = None
    /\ loaded = disk
    /\ run[Service] = Rendered[cfg.id][Service]

\* RolledBack without a note means the config, every captured unit and every
\* service are back: what ran runs (as before, or from its captured unit), and what
\* did not run does not.  A step that could not be undone is never passed over.
RollbackIsHonest ==
  \A p \in Swaps : pc[p] = "release" /\ out[p] = "rolledback" =>
    /\ cfg = prior[p]
    /\ loaded = disk
    /\ \A u \in Units : captured[p][u] # None => disk[u] = captured[p][u]
    /\ \A s \in Services :
         /\ run[s] \in {base[p][s], disk[s]}
         /\ base[p][s] # Down => run[s] # Down

\* Nobody died, no rollback was incomplete, and no running service was misread.
Sound ==
  /\ crashes = 0 /\ misread = 0
  /\ \A p \in Swaps : out[p] # "incomplete"

\* Between transactions of a sound history the services run the units on disk, and
\* a secret in the config is the secret in the env file they read.
RunsWhatIsOnDisk ==
  lock = Free /\ Sound =>
    /\ loaded = disk
    /\ \A s \in Services : run[s] \in {Down, disk[s]}
    /\ cfg.key \in {NoKey, env}

\* What a swap reports is so, and what it leaves to the next one is whole.
OutcomesAreHonest == SwitchedIsApplied /\ RollbackIsHonest /\ RunsWhatIsOnDisk

\* A failed proof, a failed call, a busy lock: every invocation returns, unless its
\* process dies.
EveryInvocationReturns == \A p \in Swaps : <>(pc[p] = "done")

----------------------------------------------------------------------------
(* What the transaction promises: AtomicSwap.  While a swap is past its     *)
(* capture and has not returned, the host counts as it was found.           *)

InFlight == {p \in Swaps : pc[p] \in {"save", "applied", "failed", "restart", "prove"} \cup InApply \cup InRollback}
Doubt    == crashes > 0 \/ \E p \in Swaps : out[p] = "incomplete"

Atomic == INSTANCE AtomicSwap WITH
  config  <- IF InFlight = {} THEN cfg.id ELSE prior[lock].id,
  unit    <- IF InFlight = {} THEN disk[Service] ELSE captured[lock][Service],
  serving <- IF InFlight = {} THEN run[Service] ELSE base[lock][Service],
  doubt   <- Doubt,
  UnitOf  <- [c \in Configs |-> Rendered[c][Service]]

\* The frame implements the atomic swap: a switch of config, unit and serving text
\* at once, or nothing, or an outcome that says it could not.
ImplementsAtomicSwap == Atomic!Spec
=============================================================================

--------------------------- MODULE StackVerbsProofs ---------------------------
(***************************************************************************)
(* Theorems about SwapTransaction, and about StackVerbs, which adds the    *)
(* plain verbs to it: for every set of swaps, verbs, services, units and   *)
(* configs, and every bound on faults, crashes and edits.                  *)
(*                                                                         *)
(* Of a swap among swaps: first types, and its window: nobody else writes  *)
(* inside it, it records every service it touches, and it starts none that *)
(* was stopped.  Then what a swap reports and what it leaves: Honest is    *)
(* the inductive invariant, one course per invocation, forwards and back;  *)
(* the refinement of AtomicSwap follows from it.                           *)
(*                                                                         *)
(* Of swaps among verbs: the config on disk is the one last chosen, and a  *)
(* verb does what it was asked, to what it was asked, and to nothing else. *)
(* VerbsInv is the inductive invariant: the lock keeps each window, a swap *)
(* knows the choice it would go back to (Keeping), and a verb what it has  *)
(* done of its job (Doing).                                                *)
(***************************************************************************)
EXTENDS StackVerbs, TLAPS

----------------------------------------------------------------------------
(* Type correctness, one part of the state at a time                       *)

LEMMA InitType == Init => TypeOK
  BY HostAssumption, SwapAssumption, SMT
  DEF Init, TypeOK, ControlType, HostType, LocalType, Config, Content, RunOf, Todo, Outcome,
      AnyConfig, NotCaptured, NothingRuns, NothingTodo, Swaps

\* The shape of the host and of the locals, whoever has the locks.
Shaped == HostType /\ LocalType /\ DOMAIN pc = Procs /\ DOMAIN out = Procs

LEMMA TypedIsShaped == TypeOK => Shaped
  BY DEF TypeOK, ControlType, Shaped

LEMMA SwapsAreProcs == Swaps \subseteq Procs
  BY SwapAssumption DEF Swaps

LEMMA ForgetLocals ==
  ASSUME Shaped, NEW S, Forget(S)
  PROVE  LocalType'
<1>1. AnyConfig \in Config
  BY DEF Shaped, HostType, AnyConfig
<1>2. NotCaptured \in Content /\ NothingRuns \in RunOf /\ NothingTodo \in [Units -> Todo]
  BY DEF NotCaptured, Content, NothingRuns, RunOf, NothingTodo, Todo
<1>. QED  BY <1>1, <1>2, SMT DEF Shaped, LocalType, Forget

LEMMA ForgetType ==
  ASSUME TypeOK, NEW S \in SUBSET Swaps, Forget(S)
  PROVE  /\ LocalType'
         /\ lock' \in Swaps \cup {Free} /\ swapMu' \in Dash \cup {Free}
         /\ pc' \in [Procs -> {"idle", "trylock", "done"} \cup Critical]
<1>3. LocalType'
  BY ForgetLocals, TypedIsShaped
<1>. QED  BY <1>3, SMT DEF TypeOK, ControlType, Forget

\* Every action below is one of these, for a process p that is taking a step.
LEMMA StepCases ==
  ASSUME NEW p \in Procs, Step(p), NEW G,
         Acquire(p) => G, TrySwapMu(p) => G, TryAcquire(p) => G, Release(p) => G,
         Load(p) => G, Change(p) => G, Capture(p) => G, SaveNext(p) => G,
         HealKey(p) /\ UNCHANGED <<swapMu, crashes, misread>> => G,
         HealEnv(p) /\ UNCHANGED <<swapMu, crashes, misread>> => G,
         PlanApply(p) /\ UNCHANGED <<swapMu, crashes, misread>> => G,
         StopOrphan(p) /\ UNCHANGED <<swapMu, crashes, misread>> => G,
         WriteUnit(p) /\ UNCHANGED <<swapMu, crashes, misread>> => G,
         RemoveUnit(p) /\ UNCHANGED <<swapMu, crashes, misread>> => G,
         Reload(p) /\ UNCHANGED <<swapMu, crashes, misread>> => G,
         AfterApply(p) => G, RestartOne(p) => G, RestartProven(p) => G, Prove(p) => G,
         RollbackUnits(p) => G, RollbackConfig(p) => G, RollbackReload(p) => G,
         RollbackRestart(p) => G, RolledBack(p) => G
  PROVE  G
  BY DEF Step, ApplyStep, Apply

LEMMA HostTypeStep ==
  ASSUME Shaped, NEW p \in Procs, Step(p)
  PROVE  HostType'
<1>. USE HostAssumption, SwapAssumption DEF Shaped, HostType
<1>1. UNCHANGED host => HostType'
  BY DEF host
<1>2. ASSUME next[p] \in Config, HealKey(p) PROVE HostType'
  BY <1>2, SMT DEF HealKey, Config
<1>3. next[p] \in Config /\ captured[p] \in Content /\ prior[p] \in Config
  BY DEF LocalType
<1>4. HealEnv(p) => HostType'
  BY <1>3, SMT DEF HealEnv, Config
<1>5. StopOrphan(p) => HostType'
  BY SMT DEF StopOrphan, RunOf
<1>6. WriteUnit(p) => HostType'
  BY <1>3, SMT DEF WriteUnit, Having, Content, Config
<1>7. RemoveUnit(p) => HostType'
  BY SMT DEF RemoveUnit, Having, Content
<1>8. Reload(p) => HostType'
  BY SMT DEF Reload
<1>9. SaveNext(p) => HostType'
  BY <1>3, SMT DEF SaveNext
<1>10. RestartOne(p) => HostType'
  BY SMT DEF RestartOne, RestartOk, RestartFails, RunOf, Content
<1>11. RestartProven(p) => HostType'
  BY SMT DEF RestartProven, RestartOk, RestartFails, RunOf, Content
<1>12. RollbackUnits(p) => HostType'
  BY <1>3, SMT DEF RollbackUnits, ToRestore, Content
<1>13. RollbackConfig(p) => HostType'
  BY <1>3, SMT DEF RollbackConfig
<1>14. RollbackReload(p) => HostType'
  BY SMT DEF RollbackReload
<1>15. RollbackRestart(p) => HostType'
  BY SMT DEF RollbackRestart, RestartOk, RestartFails, RunOf, Content
<1>. HIDE DEF HostType, Shaped
<1>16. /\ Acquire(p) \/ TrySwapMu(p) \/ TryAcquire(p) \/ Release(p) => UNCHANGED host
       /\ Load(p) \/ Change(p) \/ Capture(p) \/ PlanApply(p) => UNCHANGED host
       /\ AfterApply(p) \/ Prove(p) \/ RolledBack(p) => UNCHANGED host
  BY DEF Acquire, TrySwapMu, TryAcquire, Release, Load, Change, Capture, PlanApply,
         AfterApply, Prove, RolledBack
<1>. QED
  BY <1>1, <1>2, <1>3, <1>4, <1>5, <1>6, <1>7, <1>8, <1>9, <1>10, <1>11, <1>12, <1>13,
     <1>14, <1>15, <1>16, StepCases

LEMMA LocalTypeStep ==
  ASSUME Shaped, NEW p \in Procs, Step(p)
  PROVE  LocalType'
<1>1. /\ prior \in [Procs -> Config] /\ next \in [Procs -> Config]
      /\ captured \in [Procs -> Content] /\ base \in [Procs -> RunOf]
  BY DEF Shaped, LocalType
<1>2. todo \in [Procs -> [Units -> Todo]] /\ restarted \in [Procs -> SUBSET Services]
  BY DEF Shaped, LocalType
<1>3. cfg \in Config /\ disk \in Content /\ run \in RunOf /\ p \in Procs
  BY DEF Shaped, HostType
<1>4. Release(p) => LocalType'
  BY ForgetLocals DEF Release
<1>5. ASSUME Load(p) PROVE LocalType'
  <2>1. prior' \in [Procs -> Config] /\ next' \in [Procs -> Config] /\ base' \in [Procs -> RunOf]
    BY <1>1, <1>3, <1>5, SMT DEF Load
  <2>. QED  BY <2>1, <1>1, <1>2, <1>5 DEF Load, LocalType
<1>6. ASSUME Change(p) PROVE LocalType'
  <2>1. next' \in [Procs -> Config]
    BY <1>1, <1>3, <1>6, SMT DEF Change, Config
  <2>. QED  BY <2>1, <1>1, <1>2, <1>6 DEF Change, LocalType
<1>7. ASSUME Capture(p) PROVE LocalType'
  <2>1. captured' \in [Procs -> Content]
    BY <1>1, <1>3, <1>7, SMT DEF Capture, Content
  <2>. QED  BY <2>1, <1>1, <1>2, <1>7 DEF Capture, LocalType
<1>8. ASSUME HealKey(p) PROVE LocalType'
  <2>1. next' \in [Procs -> Config]
    BY <1>1, <1>3, <1>8, SMT DEF HealKey, Config
  <2>. QED  BY <2>1, <1>1, <1>2, <1>8 DEF HealKey, LocalType
<1>9. ASSUME PlanApply(p) PROVE LocalType'
  <2>1. todo' \in [Procs -> [Units -> Todo]]
    BY <1>2, <1>9, SMT DEF PlanApply, Todo
  <2>. QED  BY <2>1, <1>1, <1>2, <1>9 DEF PlanApply, LocalType
<1>10. ASSUME StopOrphan(p) PROVE LocalType'
  <2>1. todo' \in [Procs -> [Units -> Todo]] /\ restarted' \in [Procs -> SUBSET Services]
    <3>1. todo' = todo \/ \E u \in Units, m \in Todo : Mark(p, u, m)
      BY <1>10 DEF StopOrphan, Having, Todo
    <3>2. restarted' = restarted \/ \E s \in Services : restarted' = [restarted EXCEPT ![p] = @ \cup {s}]
      BY <1>10 DEF StopOrphan, Record
    <3>3. \A s \in Services : restarted[p] \cup {s} \in SUBSET Services
      BY <1>2, <1>3
    <3>. QED  BY <1>2, <3>1, <3>2, <3>3 DEF Mark
  <2>. QED  BY <2>1, <1>1, <1>10 DEF StopOrphan, LocalType
<1>11. ASSUME WriteUnit(p) \/ RemoveUnit(p) PROVE LocalType'
  <2>1. todo' \in [Procs -> [Units -> Todo]]
    <3>1. todo' = todo \/ \E u \in Units, m \in Todo : Mark(p, u, m)
      BY <1>11 DEF WriteUnit, RemoveUnit, Having, Todo
    <3>. QED  BY <1>2, <3>1 DEF Mark
  <2>. QED  BY <2>1, <1>1, <1>2, <1>11 DEF WriteUnit, RemoveUnit, LocalType
<1>12. ASSUME RestartOne(p) PROVE LocalType'
  <2>1. todo' \in [Procs -> [Units -> Todo]] /\ restarted' \in [Procs -> SUBSET Services]
    <3>1. todo' = todo \/ \E u \in Units, m \in Todo : Mark(p, u, m)
      BY <1>12 DEF RestartOne, Having, Todo
    <3>2. restarted' = restarted \/ \E s \in Services : restarted' = [restarted EXCEPT ![p] = @ \cup {s}]
      BY <1>12 DEF RestartOne, Record
    <3>3. \A s \in Services : restarted[p] \cup {s} \in SUBSET Services
      BY <1>2, <1>3
    <3>. QED  BY <1>2, <3>1, <3>2, <3>3 DEF Mark
  <2>. QED  BY <2>1, <1>1, <1>12 DEF RestartOne, LocalType
<1>13. ASSUME RestartProven(p) PROVE LocalType'
  <2>1. restarted' \in {restarted, [restarted EXCEPT ![p] = @ \cup {Service}]}
    BY <1>13 DEF RestartProven, Record
  <2>2. restarted' \in [Procs -> SUBSET Services]
    <3>1. restarted[p] \cup {Service} \in SUBSET Services
      BY <1>2, <1>3, SwapAssumption
    <3>. QED  BY <1>2, <2>1, <3>1
  <2>. QED  BY <2>2, <1>1, <1>2, <1>13 DEF RestartProven, LocalType
<1>14. ASSUME RollbackReload(p) \/ RollbackRestart(p) PROVE LocalType'
  <2>1. todo' \in [Procs -> [Units -> Todo]]
    BY <1>2, <1>14, SMT DEF RollbackReload, RollbackRestart, Mark, Todo
  <2>. QED  BY <2>1, <1>1, <1>2, <1>14 DEF RollbackReload, RollbackRestart, LocalType
<1>15. /\ Acquire(p) \/ TrySwapMu(p) \/ TryAcquire(p) => UNCHANGED <<prior, next, captured, base, todo, restarted>>
       /\ SaveNext(p) \/ HealEnv(p) \/ Reload(p) => UNCHANGED <<prior, next, captured, base, todo, restarted>>
       /\ AfterApply(p) \/ Prove(p) \/ RollbackUnits(p) \/ RollbackConfig(p) \/ RolledBack(p)
            => UNCHANGED <<prior, next, captured, base, todo, restarted>>
  BY DEF Acquire, TrySwapMu, TryAcquire, SaveNext, HealEnv, Reload, AfterApply, Prove,
         RollbackUnits, RollbackConfig, RolledBack, locals
<1>16. UNCHANGED <<prior, next, captured, base, todo, restarted>> => LocalType'
  BY <1>1, <1>2 DEF LocalType
<1>. QED
  BY <1>4, <1>5, <1>6, <1>7, <1>8, <1>9, <1>10, <1>11, <1>12, <1>13, <1>14, <1>15, <1>16,
     StepCases

\* What a step of p may do to the locks, its own place and outcome, and the counters.
Moves(p) ==
  /\ lock' \in {lock, p, Free}
  /\ swapMu' = swapMu \/ swapMu' = Free \/ (p \in Dash /\ swapMu' = p)
  /\ UNCHANGED pc \/ \E l \in {"idle", "trylock", "done"} \cup Critical : Goto(p, l)
  /\ UNCHANGED out \/ \E o \in Outcome : out' = [out EXCEPT ![p] = o]
  /\ Fault \/ NoFault \/ UNCHANGED faults
  /\ UNCHANGED crashes
  /\ UNCHANGED misread \/ (misread' = misread + 1 /\ Fault)

LEMMA MovesType ==
  ASSUME TypeOK, NEW p \in Swaps, Moves(p)
  PROVE  ControlType'
<1>1. /\ lock \in Swaps \cup {Free} /\ swapMu \in Dash \cup {Free}
      /\ faults \in 0 .. MaxFaults /\ crashes \in 0 .. MaxCrashes /\ misread \in 0 .. faults
  BY DEF TypeOK, ControlType
<1>2. /\ pc \in [Procs -> {"idle", "trylock", "done"} \cup Critical]
      /\ out \in [Procs -> Outcome]
  BY DEF TypeOK, ControlType
<1>3. pc' \in [Procs -> {"idle", "trylock", "done"} \cup Critical]
  BY <1>2 DEF Goto, Moves
<1>4. out' \in [Procs -> Outcome]
  BY <1>2 DEF Moves
<1>5. faults' \in 0 .. MaxFaults /\ crashes' \in 0 .. MaxCrashes /\ misread' \in 0 .. faults'
  BY <1>1, HostAssumption, SMT DEF Fault, NoFault, Moves
<1>. QED  BY <1>1, <1>3, <1>4, <1>5 DEF Moves, ControlType

LEMMA StepMoves ==
  ASSUME NEW p \in Procs, Step(p), ~Release(p)
  PROVE  Moves(p)
<1>. USE DEF Moves, Critical, BeforeSave, InApply, InRollback, Outcome, Return, host, locals
<1>1. Acquire(p) => Moves(p)
  BY DEF Acquire
<1>2. TrySwapMu(p) => Moves(p)
  BY DEF TrySwapMu
<1>3. TryAcquire(p) => Moves(p)
  BY DEF TryAcquire
<1>4. Load(p) => Moves(p)
  BY DEF Load
<1>5. Change(p) => Moves(p)
  BY DEF Change
<1>6. Capture(p) => Moves(p)
  BY DEF Capture
<1>7. SaveNext(p) => Moves(p)
  BY DEF SaveNext
<1>8. HealKey(p) /\ UNCHANGED <<swapMu, crashes, misread>> => Moves(p)
  BY DEF HealKey
<1>9. HealEnv(p) /\ UNCHANGED <<swapMu, crashes, misread>> => Moves(p)
  BY DEF HealEnv
<1>10. PlanApply(p) /\ UNCHANGED <<swapMu, crashes, misread>> => Moves(p)
  BY DEF PlanApply
<1>11. StopOrphan(p) /\ UNCHANGED <<swapMu, crashes, misread>> => Moves(p)
  BY DEF StopOrphan
<1>12. WriteUnit(p) /\ UNCHANGED <<swapMu, crashes, misread>> => Moves(p)
  BY DEF WriteUnit
<1>13. RemoveUnit(p) /\ UNCHANGED <<swapMu, crashes, misread>> => Moves(p)
  BY DEF RemoveUnit
<1>14. Reload(p) /\ UNCHANGED <<swapMu, crashes, misread>> => Moves(p)
  BY DEF Reload
<1>15. AfterApply(p) => Moves(p)
  BY DEF AfterApply
<1>16. RestartOne(p) => Moves(p)
  BY DEF RestartOne, RestartOk, RestartFails
<1>17. RestartProven(p) => Moves(p)
  BY DEF RestartProven, RestartOk, RestartFails
<1>18. Prove(p) => Moves(p)
  BY DEF Prove
<1>19. RollbackUnits(p) => Moves(p)
  BY DEF RollbackUnits, RollbackFailed
<1>20. RollbackConfig(p) => Moves(p)
  BY DEF RollbackConfig, RollbackFailed
<1>21. RollbackReload(p) => Moves(p)
  BY DEF RollbackReload, RollbackFailed
<1>22. RollbackRestart(p) => Moves(p)
  BY DEF RollbackRestart, RestartOk, RestartFails
<1>23. RolledBack(p) => Moves(p)
  BY DEF RolledBack
<1>. HIDE DEF Moves
<1>. QED
  BY <1>1, <1>2, <1>3, <1>4, <1>5, <1>6, <1>7, <1>8, <1>9, <1>10, <1>11, <1>12, <1>13, <1>14,
     <1>15, <1>16, <1>17, <1>18, <1>19, <1>20, <1>21, <1>22, <1>23, StepCases

LEMMA NextType == TypeOK /\ [Next]_vars => TypeOK'
<1>. SUFFICES ASSUME TypeOK, [Next]_vars PROVE TypeOK'
  OBVIOUS
<1>1. ASSUME NEW p \in Swaps, Step(p) PROVE TypeOK'
  <2>1. HostType' /\ LocalType'
    BY <1>1, HostTypeStep, LocalTypeStep, TypedIsShaped, SwapsAreProcs
  <2>2. ~Release(p) => ControlType'
    BY <1>1, StepMoves, MovesType, SwapsAreProcs
  <2>3. Release(p) => ControlType'
    BY ForgetType DEF Release, TypeOK, ControlType
  <2>. QED  BY <2>1, <2>2, <2>3 DEF TypeOK
<1>2. ASSUME Crash PROVE TypeOK'
  <2>1. PICK live \in SUBSET Swaps :
          Forget(live) /\ out' = [p \in Procs |-> IF p \in live THEN "crashed" ELSE out[p]]
    BY <1>2 DEF Crash, Swaps
  <2>2. out' \in [Procs -> Outcome]
    BY <2>1 DEF TypeOK, ControlType, Outcome
  <2>3. crashes' \in 0 .. MaxCrashes /\ UNCHANGED <<faults, misread, host>>
    BY <1>2, SwapAssumption, SMT DEF Crash, TypeOK, ControlType
  <2>. QED  BY <2>1, <2>2, <2>3, ForgetType DEF TypeOK, ControlType, HostType, host
<1>3. ASSUME UNCHANGED vars PROVE TypeOK'
  BY <1>3 DEF vars, host, locals, TypeOK, ControlType, HostType, LocalType
<1>. QED  BY <1>1, <1>2, <1>3 DEF Next, Finished

\* The locks, the host and every invocation's locals keep the shape the code gives them.
THEOREM TypeCorrect == Spec => []TypeOK
  BY InitType, NextType, PTL DEF Spec

----------------------------------------------------------------------------
(* The window of a swap                                                     *)

\* Whoever is inside the window has the lock.
Exclusive == \A p \in Swaps : pc[p] \in Critical => lock = p

\* What holds of one invocation, inside its window and before it.
Config_(p) ==
  /\ pc[p] \in BeforeSave => cfg = prior[p]
  /\ Working(p) => cfg \in {prior[p], next[p]}

\* What it has recorded is exactly what may have changed, and ran when it began, ...
Touched(p) ==
  /\ pc[p] \in {"idle", "trylock", "load"} => restarted[p] = {}
  /\ Working(p) =>
       \A s \in Services :
         /\ run[s] # base[p][s] => s \in restarted[p]
         /\ s # Service /\ base[p][s] = Down => run[s] = Down /\ s \notin restarted[p]

\* ... an orphan is only planned to be stopped if it ran, and a rollback restarts
\* only what was recorded.
Planned(p) ==
  /\ pc[p] = "write" => \A s \in Services \ {Service} : todo[p][s] = "stop" => base[p][s] # Down
  /\ pc[p] = "rbrestart" => Having(p, "written") \subseteq restarted[p]

Window(p) == Config_(p) /\ Touched(p) /\ Planned(p)
IInv == TypeOK /\ Exclusive /\ \A p \in Swaps : Window(p)

LEMMA InitWindow == Init => IInv
  BY InitType, SwapAssumption
  DEF Init, IInv, Exclusive, Window, Config_, Touched, Planned, Working, Critical, BeforeSave,
      InApply, InRollback, Swaps

----------------------------------------------------------------------------
(* A step leaves the other invocations alone                                *)

LEMMA StepFrame ==
  ASSUME Shaped, NEW p \in Procs, Step(p), NEW q \in Procs \ {p}
  PROVE  /\ pc'[q] = pc[q]
         /\ prior'[q] = prior[q] /\ next'[q] = next[q] /\ base'[q] = base[q]
         /\ todo'[q] = todo[q] /\ restarted'[q] = restarted[q]
         /\ captured'[q] = captured[q] /\ out'[q] = out[q]
<1>. DEFINE Same == /\ pc'[q] = pc[q]
                    /\ prior'[q] = prior[q] /\ next'[q] = next[q] /\ base'[q] = base[q]
                    /\ todo'[q] = todo[q] /\ restarted'[q] = restarted[q]
                    /\ captured'[q] = captured[q] /\ out'[q] = out[q]
<1>. SUFFICES Same
  OBVIOUS
<1>0. /\ DOMAIN pc = Procs /\ DOMAIN prior = Procs /\ DOMAIN next = Procs /\ DOMAIN base = Procs
      /\ DOMAIN todo = Procs /\ DOMAIN restarted = Procs /\ DOMAIN captured = Procs
      /\ DOMAIN out = Procs /\ q \in Procs /\ p # q
  BY DEF Shaped, LocalType
<1>. USE <1>0 DEF Goto, Return, Mark, Record, RollbackFailed, host, locals
<1>1. Acquire(p) => Same
  BY DEF Acquire
<1>2. TrySwapMu(p) => Same
  BY DEF TrySwapMu
<1>3. TryAcquire(p) => Same
  BY DEF TryAcquire
<1>4. Release(p) => Same
  BY DEF Release, Forget
<1>5. Load(p) => Same
  BY DEF Load
<1>6. Change(p) => Same
  BY DEF Change
<1>7. Capture(p) => Same
  BY DEF Capture
<1>8. SaveNext(p) => Same
  BY DEF SaveNext
<1>9. HealKey(p) => Same
  BY DEF HealKey
<1>10. HealEnv(p) => Same
  BY DEF HealEnv
<1>11. PlanApply(p) => Same
  BY DEF PlanApply
<1>12. StopOrphan(p) => Same
  BY DEF StopOrphan
<1>13. WriteUnit(p) => Same
  BY DEF WriteUnit
<1>14. RemoveUnit(p) => Same
  BY DEF RemoveUnit
<1>15. Reload(p) => Same
  BY DEF Reload
<1>16. AfterApply(p) => Same
  BY DEF AfterApply
<1>17. RestartOne(p) => Same
  BY DEF RestartOne
<1>18. RestartProven(p) => Same
  BY DEF RestartProven
<1>19. Prove(p) => Same
  BY DEF Prove
<1>20. RollbackUnits(p) => Same
  BY DEF RollbackUnits
<1>21. RollbackConfig(p) => Same
  BY DEF RollbackConfig
<1>22. RollbackReload(p) => Same
  BY DEF RollbackReload
<1>23. RollbackRestart(p) => Same
  BY DEF RollbackRestart
<1>24. RolledBack(p) => Same
  BY DEF RolledBack
<1>. HIDE DEF Same
<1>. QED
  BY <1>1, <1>2, <1>3, <1>4, <1>5, <1>6, <1>7, <1>8, <1>9, <1>10, <1>11, <1>12, <1>13, <1>14,
     <1>15, <1>16, <1>17, <1>18, <1>19, <1>20, <1>21, <1>22, <1>23, <1>24, StepCases

----------------------------------------------------------------------------
(* A step keeps the taker's own window                                      *)

\* A plan stops only what is running.
LEMMA PlanStops ==
  ASSUME Shaped, NEW p \in Procs, PlanApply(p), pc'[p] = "write",
         NEW u \in Services, todo'[p][u] = "stop"
  PROVE  run[u] # Down
<1>1. /\ u \in Units /\ p \in Procs
      /\ DOMAIN pc = Procs
      /\ todo \in [Procs -> [Units -> Todo]]
  BY HostAssumption DEF Shaped, LocalType
<1>2. ~Goto(p, "failed")
  BY <1>1 DEF Goto
<1>3. todo' = [todo EXCEPT ![p] = [v \in Units |->
         IF v \in ToChange(next[p].id, disk) THEN "write"
         ELSE IF v \notin Orphans(next[p].id, disk) THEN "keep"
         ELSE IF v \in Services /\ Up(v) THEN "stop" ELSE "remove"]]
  BY <1>2 DEF PlanApply
<1>4. Up(u)
  BY <1>1, <1>3
<1>. QED  BY <1>4 DEF Up

\* A restart that succeeds or fails changes no other service.
LEMMA RestartEffect ==
  ASSUME run \in RunOf, NEW s \in Services, RestartOk(s) \/ RestartFails(s)
  PROVE  \A t \in Services : run'[t] = run[t] \/ t = s
  BY DEF RestartOk, RestartFails, RunOf

LEMMA OwnStep ==
  ASSUME Shaped, NEW p \in Procs, Window(p), Step(p)
  PROVE  Window(p)'
<1>1. /\ prior \in [Procs -> Config] /\ next \in [Procs -> Config] /\ base \in [Procs -> RunOf]
      /\ todo \in [Procs -> [Units -> Todo]] /\ restarted \in [Procs -> SUBSET Services]
      /\ run \in RunOf /\ DOMAIN pc = Procs /\ p \in Procs
  BY DEF Shaped, HostType, LocalType
<1>. USE <1>1 DEF Window, Config_, Touched, Planned, Working, Critical, BeforeSave, InApply, InRollback,
         Goto, Return, Mark, Record, host, locals
<1>2. Acquire(p) => Window(p)'
  BY SMT DEF Acquire
<1>3. TrySwapMu(p) => Window(p)'
  BY SMT DEF TrySwapMu
<1>4. TryAcquire(p) => Window(p)'
  BY SMT DEF TryAcquire
<1>5. Release(p) => Window(p)'
  BY SMT DEF Release, Forget
<1>6. Load(p) => Window(p)'
  BY SMT DEF Load
<1>7. Change(p) => Window(p)'
  BY SMT DEF Change
<1>8. Capture(p) => Window(p)'
  BY SMT DEF Capture
<1>9. SaveNext(p) => Window(p)'
  BY SMT DEF SaveNext
<1>10. HealKey(p) => Window(p)'
  BY SMT DEF HealKey
<1>11. HealEnv(p) => Window(p)'
  BY SMT DEF HealEnv
<1>12. ASSUME PlanApply(p) PROVE Window(p)'
  <2>1. /\ cfg' = cfg /\ run' = run /\ prior' = prior /\ next' = next /\ base' = base
        /\ restarted' = restarted /\ pc[p] = "plan" /\ pc'[p] \in {"applied", "write", "failed"}
    BY <1>12, SMT DEF PlanApply
  <2>2. pc'[p] = "write" => \A u \in Services : todo'[p][u] = "stop" => run[u] # Down
    BY <1>12, PlanStops
  <2>3. Config_(p)' /\ Touched(p)'
    BY <2>1, SMT
  <2>4. pc'[p] = "write" => \A u \in Services \ {Service} : todo'[p][u] = "stop" => base[p][u] # Down
    BY <1>12, <2>1, <2>2, SMT
  <2>5. Planned(p)'
    BY <2>1, <2>4
  <2>. QED  BY <2>3, <2>5
<1>13. ASSUME StopOrphan(p) PROVE Window(p)'
  <2>1. PICK s \in Services :
          /\ todo[p][s] = "stop" /\ Record(p, s)
          /\ run' \in {run, [run EXCEPT ![s] = Down]}
          /\ todo' = todo \/ Mark(p, s, "remove")
    BY <1>13 DEF StopOrphan, Having
  <2>2. /\ cfg' = cfg /\ prior' = prior /\ next' = next /\ base' = base
        /\ pc[p] = "write" /\ pc'[p] \in {"write", "failed"}
    BY <1>13, <2>1, SMT DEF StopOrphan
  <2>3. (s = Service \/ base[p][s] # Down) /\ restarted'[p] = restarted[p] \cup {s}
    BY <2>1, <2>2
  <2>4. \A t \in Services : run'[t] = run[t] \/ (t = s /\ run'[t] = Down)
    BY <2>1 DEF RunOf
  <2>5. \A t \in Services : todo'[p][t] = "stop" => todo[p][t] = "stop"
    BY <2>1, HostAssumption, SMT
  <2>6. Config_(p)'
    BY <2>2, SMT
  <2>7. Touched(p)'
    BY <2>2, <2>3, <2>4, SMT
  <2>8. Planned(p)'
    BY <2>2, <2>5, SMT
  <2>. QED  BY <2>6, <2>7, <2>8
<1>14. ASSUME WriteUnit(p) PROVE Window(p)'
  <2>1. \E u \in Units : todo' = todo \/ Mark(p, u, "written")
    BY <1>14 DEF WriteUnit, Having
  <2>2. /\ cfg' = cfg /\ run' = run /\ prior' = prior /\ next' = next /\ base' = base
        /\ restarted' = restarted /\ pc[p] = "write" /\ pc'[p] \in {"write", "failed"}
    BY <1>14, SMT DEF WriteUnit
  <2>3. \A t \in Services : todo'[p][t] = "stop" => todo[p][t] = "stop"
    BY <2>1, HostAssumption, SMT
  <2>4. Config_(p)' /\ Touched(p)'
    BY <2>2, SMT
  <2>5. Planned(p)'
    BY <2>2, <2>3, SMT
  <2>. QED  BY <2>4, <2>5
<1>15. ASSUME RemoveUnit(p) PROVE Window(p)'
  <2>1. \E u \in Units : todo' = todo \/ Mark(p, u, "keep")
    BY <1>15 DEF RemoveUnit, Having
  <2>2. /\ cfg' = cfg /\ run' = run /\ prior' = prior /\ next' = next /\ base' = base
        /\ restarted' = restarted /\ pc[p] = "write" /\ pc'[p] \in {"write", "failed"}
    BY <1>15, SMT DEF RemoveUnit
  <2>3. \A t \in Services : todo'[p][t] = "stop" => todo[p][t] = "stop"
    BY <2>1, HostAssumption, SMT
  <2>4. Config_(p)' /\ Touched(p)'
    BY <2>2, SMT
  <2>5. Planned(p)'
    BY <2>2, <2>3, SMT
  <2>. QED  BY <2>4, <2>5
<1>16. Reload(p) => Window(p)'
  BY SMT DEF Reload
<1>17. AfterApply(p) => Window(p)'
  BY SMT DEF AfterApply
<1>18. ASSUME RestartOne(p) PROVE Window(p)'
  <2>1. /\ cfg' = cfg /\ prior' = prior /\ next' = next /\ base' = base
        /\ pc[p] = "restart" /\ pc'[p] \in {"restart", "rbunits"}
    BY <1>18, SMT DEF RestartOne
  <2>2. \/ run' = run /\ restarted' = restarted
        \/ \E s \in Services : /\ s = Service \/ run[s] # Down
                              /\ Record(p, s)
                              /\ \A t \in Services : run'[t] = run[t] \/ t = s
    BY <1>18, RestartEffect DEF RestartOne, Up, Having
  <2>3. Config_(p)' /\ Planned(p)'
    BY <2>1, SMT
  <2>4. Touched(p)'
    BY <2>1, <2>2, SMT
  <2>. QED  BY <2>3, <2>4
<1>19. ASSUME RestartProven(p) PROVE Window(p)'
  <2>1. /\ cfg' = cfg /\ prior' = prior /\ next' = next /\ base' = base
        /\ pc[p] = "restart" /\ pc'[p] \in {"prove", "rbunits"}
    BY <1>19, SMT DEF RestartProven
  <2>2. \/ run' = run /\ restarted' = restarted
        \/ Record(p, Service) /\ \A t \in Services : run'[t] = run[t] \/ t = Service
    BY <1>19, SMT DEF RestartProven, RestartOk, RestartFails, RunOf
  <2>3. Config_(p)' /\ Planned(p)'
    BY <2>1, SMT
  <2>4. Touched(p)'
    BY <2>1, <2>2, SMT
  <2>. QED  BY <2>3, <2>4
<1>20. Prove(p) => Window(p)'
  BY SMT DEF Prove
<1>21. RollbackUnits(p) => Window(p)'
  BY SMT DEF RollbackUnits
<1>22. RollbackConfig(p) => Window(p)'
  BY SMT DEF RollbackConfig
<1>23. RollbackReload(p) => Window(p)'
  BY SMT DEF RollbackReload, Having
<1>24. ASSUME RollbackRestart(p) PROVE Window(p)'
  <2>1. /\ cfg' = cfg /\ prior' = prior /\ next' = next /\ base' = base /\ pc' = pc
        /\ restarted' = restarted /\ pc[p] = "rbrestart"
    BY <1>24 DEF RollbackRestart
  <2>2. PICK s \in Services : /\ todo[p][s] = "written" /\ Mark(p, s, "keep")
                             /\ \A t \in Services : run'[t] = run[t] \/ t = s
    BY <1>24, RestartEffect DEF RollbackRestart, Having
  <2>3. s \in restarted[p]
    BY <2>1, <2>2, HostAssumption DEF Having
  <2>4. Having(p, "written")' \subseteq Having(p, "written")
    BY <2>2, HostAssumption, SMT DEF Having
  <2>5. Config_(p)'
    BY <2>1, SMT
  <2>6. Touched(p)'
    BY <2>1, <2>2, <2>3, SMT
  <2>7. Planned(p)'
    BY <2>1, <2>4, SMT
  <2>. QED  BY <2>5, <2>6, <2>7
<1>25. RolledBack(p) => Window(p)'
  BY SMT DEF RolledBack
<1>. HIDE DEF Window
<1>. QED
  BY <1>2, <1>3, <1>4, <1>5, <1>6, <1>7, <1>8, <1>9, <1>10, <1>11, <1>12, <1>13, <1>14, <1>15, <1>16, <1>17, <1>18, <1>19, <1>20, <1>21, <1>22, <1>23, <1>24, <1>25, StepCases

----------------------------------------------------------------------------
(* The lock: whoever takes it found it free, and nothing of the host is     *)
(* written without it                                                       *)

InsideStep(p) ==
  \/ Load(p) \/ Change(p) \/ Capture(p) \/ SaveNext(p)
  \/ HealKey(p) \/ HealEnv(p) \/ PlanApply(p) \/ StopOrphan(p)
  \/ WriteUnit(p) \/ RemoveUnit(p) \/ Reload(p) \/ AfterApply(p)
  \/ RestartOne(p) \/ RestartProven(p) \/ Prove(p) \/ RollbackUnits(p)
  \/ RollbackConfig(p) \/ RollbackReload(p) \/ RollbackRestart(p) \/ RolledBack(p)

LEMMA InsideStepKeepsTheLock ==
  ASSUME NEW p \in Procs, InsideStep(p)
  PROVE  pc[p] \in Critical /\ lock' = lock
<1>. USE DEF Critical, BeforeSave, InApply, InRollback, host, locals
<1>1. Load(p) \/ Change(p) \/ Capture(p) \/ SaveNext(p) => pc[p] \in Critical /\ lock' = lock
  BY DEF Load, Change, Capture, SaveNext
<1>2. HealKey(p) \/ HealEnv(p) \/ PlanApply(p) \/ StopOrphan(p) => pc[p] \in Critical /\ lock' = lock
  BY DEF HealKey, HealEnv, PlanApply, StopOrphan
<1>3. WriteUnit(p) \/ RemoveUnit(p) \/ Reload(p) \/ AfterApply(p) => pc[p] \in Critical /\ lock' = lock
  BY DEF WriteUnit, RemoveUnit, Reload, AfterApply
<1>4. RestartOne(p) \/ RestartProven(p) \/ Prove(p) \/ RollbackUnits(p) => pc[p] \in Critical /\ lock' = lock
  BY DEF RestartOne, RestartProven, Prove, RollbackUnits
<1>5. RollbackConfig(p) \/ RollbackReload(p) \/ RollbackRestart(p) \/ RolledBack(p) => pc[p] \in Critical /\ lock' = lock
  BY DEF RollbackConfig, RollbackReload, RollbackRestart, RolledBack
<1>. QED  BY <1>1, <1>2, <1>3, <1>4, <1>5 DEF InsideStep

LEMMA StepKinds ==
  ASSUME NEW p \in Procs, Step(p)
  PROVE  Acquire(p) \/ TrySwapMu(p) \/ TryAcquire(p) \/ Release(p) \/ InsideStep(p)
  BY DEF Step, ApplyStep, Apply, InsideStep

LEMMA ExclusiveStep ==
  ASSUME TypeOK, Exclusive, NEW p \in Swaps, Step(p)
  PROVE  Exclusive'
<1>. SUFFICES ASSUME NEW q \in Swaps, pc'[q] \in Critical PROVE lock' = q
  BY DEF Exclusive
<1>0. DOMAIN pc = Procs /\ p \in Procs /\ q \in Procs /\ Free \notin Procs
  BY HostAssumption, SwapAssumption DEF TypeOK, ControlType, Swaps
<1>1. q # p => pc'[q] = pc[q] /\ lock = q
  BY StepFrame, TypedIsShaped, SwapsAreProcs DEF Exclusive
<1>2. CASE Acquire(p)
  BY <1>0, <1>1, <1>2 DEF Acquire, LockFree, Goto, Critical, BeforeSave, InApply, InRollback
<1>3. CASE TrySwapMu(p)
  BY <1>0, <1>1, <1>3 DEF TrySwapMu, Goto, Critical, BeforeSave, InApply, InRollback
<1>4. CASE TryAcquire(p)
  BY <1>0, <1>1, <1>4 DEF TryAcquire, LockFree, Goto, Critical, BeforeSave, InApply, InRollback
<1>5. CASE Release(p)
  BY <1>0, <1>1, <1>5 DEF Release, Forget, Critical, BeforeSave, InApply, InRollback
<1>6. CASE InsideStep(p)
  BY <1>1, <1>6, InsideStepKeepsTheLock, SwapsAreProcs DEF Exclusive
<1>. QED  BY <1>2, <1>3, <1>4, <1>5, <1>6, StepKinds, SwapsAreProcs

LEMMA OthersStep ==
  ASSUME TypeOK, Exclusive, NEW p \in Swaps, Step(p), NEW q \in Swaps \ {p}, Window(q)
  PROVE  Window(q)'
<1>1. /\ pc'[q] = pc[q] /\ prior'[q] = prior[q] /\ next'[q] = next[q] /\ base'[q] = base[q]
      /\ todo'[q] = todo[q] /\ restarted'[q] = restarted[q]
  BY StepFrame, TypedIsShaped, SwapsAreProcs
<1>2. Working(q) => ~InsideStep(p)
  BY InsideStepKeepsTheLock, SwapsAreProcs DEF Working, Exclusive
<1>3. Working(q) => cfg' = cfg /\ run' = run
  BY <1>2, StepKinds, SwapsAreProcs DEF Acquire, TrySwapMu, TryAcquire, Release, host
<1>4. Working(q)' <=> Working(q)
  BY <1>1 DEF Working
<1>5. pc[q] \in BeforeSave \cup {"write", "rbrestart"} => Working(q)
  BY DEF Working, Critical, BeforeSave, InApply, InRollback
<1>6. Config_(q)'
  BY <1>1, <1>3, <1>4, <1>5 DEF Window, Config_
<1>7. Touched(q)'
  BY <1>1, <1>3, <1>4 DEF Window, Touched
<1>8. Planned(q)'
  BY <1>1 DEF Window, Planned, Having
<1>. QED  BY <1>6, <1>7, <1>8 DEF Window

\* The invocations that die leave the window; the others' stays as it was.
LEMMA CrashStep ==
  ASSUME TypeOK, Exclusive, \A q \in Swaps : Window(q), Crash
  PROVE  Exclusive' /\ \A q \in Swaps : Window(q)'
<1>1. PICK live \in SUBSET Swaps : Forget(live)
  BY DEF Crash, Swaps
<1>2. cfg' = cfg /\ run' = run
  BY DEF Crash, host
<1>3. ASSUME NEW q \in live PROVE pc'[q] = "done"
  BY <1>1, <1>3, SwapAssumption DEF Forget, Swaps
<1>4. ASSUME NEW q \in Swaps \ live
      PROVE  /\ pc'[q] = pc[q] /\ prior'[q] = prior[q] /\ next'[q] = next[q] /\ base'[q] = base[q]
             /\ todo'[q] = todo[q] /\ restarted'[q] = restarted[q]
             /\ lock = q => lock' = q
  BY <1>1, <1>4, SwapAssumption DEF Forget, Swaps
<1>5. Exclusive'
  BY <1>3, <1>4 DEF Exclusive, Critical, BeforeSave, InApply, InRollback
<1>6. ASSUME NEW q \in live PROVE Window(q)'
  BY <1>3, <1>6
  DEF Window, Config_, Touched, Planned, Working, Critical, BeforeSave, InApply, InRollback
<1>7. ASSUME NEW q \in Swaps \ live PROVE Window(q)'
  BY <1>2, <1>4, <1>7 DEF Window, Config_, Touched, Planned, Working, Having
<1>. QED  BY <1>5, <1>6, <1>7

LEMMA NextWindow == IInv /\ [Next]_vars => IInv'
<1>. SUFFICES ASSUME IInv, [Next]_vars PROVE IInv'
  OBVIOUS
<1>. USE DEF IInv
<1>1. TypeOK'
  BY NextType
<1>2. ASSUME NEW p \in Swaps, Step(p) PROVE IInv'
  BY <1>1, <1>2, ExclusiveStep, OwnStep, OthersStep, TypedIsShaped, SwapsAreProcs
<1>3. ASSUME Crash PROVE IInv'
  BY <1>1, <1>3, CrashStep
<1>4. ASSUME UNCHANGED vars PROVE IInv'
  BY <1>1, <1>4
  DEF vars, host, locals, Exclusive, Window, Config_, Touched, Planned, Working, Having
<1>. QED  BY <1>2, <1>3, <1>4 DEF Next, Finished

LEMMA WindowHolds == Spec => []IInv
  BY InitWindow, NextWindow, PTL DEF Spec

----------------------------------------------------------------------------

\* ADR-0010: no process writes config.toml inside another's window, so what a swap
\* saves, and what it rolls back to, is never computed from a config that is gone.
THEOREM ConfigIsNeverLost == Spec => []NoLostUpdate
<1>1. IInv => NoLostUpdate
  BY DEF IInv, Window, Config_, NoLostUpdate
<1>. QED  BY <1>1, WindowHolds, PTL

\* transact.go:110: every service a swap may have stopped, started or restarted is in
\* the set its rollback restarts, those whose call failed included.
THEOREM RollbackMissesNothing == Spec => []TouchedIsRecorded
<1>1. IInv => TouchedIsRecorded
  BY DEF IInv, Window, Touched, TouchedIsRecorded
<1>. QED  BY <1>1, WindowHolds, PTL

\* transact.go:207: a swap starts no service that was stopped, except the one it proves,
\* on its way forward or back.
THEOREM StoppedStaysStopped == Spec => []NeverStartsTheStopped
<1>1. IInv => NeverStartsTheStopped
  BY DEF IInv, Window, Touched, NeverStartsTheStopped
<1>. QED  BY <1>1, WindowHolds, PTL

----------------------------------------------------------------------------
(* The invariant of what is reported                                       *)

InFlightPlaces == {"save", "applied", "failed", "restart", "prove"} \cup InApply \cup InRollback
Text(c, u) == Rendered[c][u]
\* The unit u is as the config c has it.
AsRendered(c, u) ==
  /\ Text(c, u) # None => disk[u] = Text(c, u)
  /\ u \in Registry /\ Text(c, u) = None => disk[u] = None
UpToDate(s) == run[s] \in {Down, disk[s]}

\* What an invocation has said of itself.
Told(p) ==
  pc[p] \notin {"release", "done"} => out[p] = "none" \/ (out[p] = "incomplete" /\ pc[p] \in InRollback)

\* On its way forward: the config is its own, then the env file; what its plan has
\* done to a unit makes it as rendered; and the service to prove runs what is loaded.
Aimed(p) ==
  /\ pc[p] \in InApply \cup {"applied", "restart", "prove"} => cfg = next[p]
  /\ pc[p] \in {"plan", "write", "applied", "restart", "prove"} => env = next[p].key
  /\ pc[p] \in {"write", "applied", "restart", "prove"} => \A u \in Units :
       /\ todo[p][u] \in {"keep", "written"} => AsRendered(next[p].id, u)
       /\ todo[p][u] \in {"write", "written"} => Text(next[p].id, u) # None
       /\ todo[p][u] \in {"stop", "remove"} => Text(next[p].id, u) = None
  /\ pc[p] \in {"applied", "restart", "prove"} => \A u \in Units : todo[p][u] \in {"keep", "written"}
  /\ pc[p] = "applied" => loaded = disk \/ Having(p, "written") = {}
  /\ pc[p] \in {"restart", "prove"} => loaded = disk
Proven(p) ==
  /\ pc[p] \in BeforeSave \cup {"heal", "env", "plan"} => restarted[p] = {}
  /\ pc[p] \in {"write", "applied"} => Service \notin restarted[p]
  /\ pc[p] = "restart" /\ Service \in restarted[p] => run[Service] = loaded[Service]
  /\ pc[p] = "prove" => run[Service] = loaded[Service]
\* The unit of that service is on disk, as it was found until it is written.
Found(p) ==
  /\ pc[p] \in InFlightPlaces => captured[p][Service] \in Texts
  /\ pc[p] \in {"save", "heal", "env", "plan"} => disk[Service] = captured[p][Service]
  /\ pc[p] \in {"write", "applied"} /\ todo[p][Service] # "written" => disk[Service] = captured[p][Service]
Switched(p) == pc[p] = "release" /\ out[p] = "switched" =>
    /\ cfg = next[p] /\ env = cfg.key
    /\ \A u \in Units : AsRendered(cfg.id, u)
    /\ loaded = disk
    /\ run[Service] = Rendered[cfg.id][Service]

\* On its way back: what has been undone, as long as nothing failed to be.
Undone(p) == out[p] # "incomplete" =>
  /\ pc[p] \in {"rbsave", "rbreload", "rbrestart"} => ToRestore(p) = {}
  /\ pc[p] \in {"rbreload", "rbrestart"} => cfg = prior[p]
  /\ pc[p] = "rbrestart" =>
       /\ loaded = disk
       /\ \A s \in restarted[p] : todo[p][s] = "written" \/ (run[s] = disk[s] /\ run[s] # Down)
Back(p) == pc[p] = "release" /\ out[p] = "rolledback" =>
    /\ cfg = prior[p]
    /\ loaded = disk
    /\ \A u \in Units : captured[p][u] # None => disk[u] = captured[p][u]
    /\ \A s \in Services :
         /\ run[s] \in {base[p][s], disk[s]}
         /\ base[p][s] # Down => run[s] # Down

\* Between transactions the services run what is on disk, and so ...
Whole ==
  /\ loaded = disk
  /\ \A s \in Services : UpToDate(s)
  /\ cfg.key \in {NoKey, env}
\* ... until the host is written, and again when it has returned.
Rests(p) == pc[p] \in {"load", "release"} \cup BeforeSave => Whole
\* What it found it has captured.
Based(p) ==
  /\ pc[p] \in BeforeSave => \A s \in Services : base[p][s] \in {Down, disk[s]}
  /\ pc[p] = "save" => captured[p] = disk
  /\ pc[p] \in InFlightPlaces => \A s \in Services : base[p][s] \in {Down, captured[p][s]}
Keyed(p) ==
  /\ pc[p] \in InFlightPlaces => prior[p].key \in {NoKey, env}
  /\ pc[p] \in {"capture", "save", "heal", "env"} => prior[p].key \in {NoKey, next[p].key}
Fresh(p) ==
  /\ pc[p] \in {"heal", "env", "plan", "applied", "prove"} => loaded = disk
  /\ pc[p] \in {"heal", "env", "plan", "prove"} => \A s \in Services : UpToDate(s)
  /\ pc[p] \in {"write", "applied", "restart"} => \A s \in Services :
       /\ todo[p][s] # "written" => UpToDate(s)
       /\ todo[p][s] = "remove" => run[s] = Down
Clean(p) == Rests(p) /\ Based(p) /\ Keyed(p) /\ Fresh(p)
Track(p) == Told(p) /\ Aimed(p) /\ Proven(p) /\ Found(p) /\ Switched(p) /\ Undone(p) /\ Back(p)
Course(p) == Track(p) /\ (Sound => Clean(p))
Honest ==
  /\ disk[Service] \in Texts
  /\ lock = Free /\ Sound => Whole
  /\ \A p \in Swaps : Course(p)

----------------------------------------------------------------------------
(* A step keeps the taker's own course                                      *)

\* The unit files a capture names are all a plan can touch.
LEMMA CaptureAll ==
  ASSUME TypeOK, NEW p \in Swaps, Capture(p), pc'[p] = "save"
  PROVE  captured'[p] = disk
<1>0. /\ prior \in [Procs -> Config] /\ captured \in [Procs -> Content] /\ disk \in Content
      /\ DOMAIN pc = Procs /\ p \in Procs
  BY SwapAssumption DEF TypeOK, ControlType, HostType, LocalType, Swaps
<1>1. prior[p].id \in Configs
  BY <1>0 DEF Config
<1>2. \A u \in Units : u \in Registry \/ Rendered[prior[p].id][u] # None
  BY <1>1, SwapAssumption
<1>. DEFINE named == IF prior[p].id \in Unrenderable THEN Units
                    ELSE {u \in Units : Rendered[prior[p].id][u] # None} \cup Registry
<1>3. \/ captured' = [captured EXCEPT ![p] = [u \in Units |-> IF u \in named THEN disk[u] ELSE None]]
      \/ Goto(p, "release")
  BY DEF Capture, Return
<1>4. \A u \in Units : u \in named
  BY <1>2
<1>5. ~Goto(p, "release")
  BY <1>0 DEF Goto
<1>6. captured'[p] = [u \in Units |-> disk[u]]
  BY <1>0, <1>3, <1>4, <1>5
<1>. QED  BY <1>0, <1>6 DEF Content

\* A plan marks a unit by what is on disk.
LEMMA PlanMarks ==
  ASSUME Shaped, NEW p \in Procs, PlanApply(p), pc'[p] # "failed"
  PROVE  /\ pc'[p] \in {"write", "applied"}
         /\ \A u \in Units : u \in ToChange(next[p].id, disk) => todo'[p][u] = "write"
         /\ \A u \in Units : u \notin ToChange(next[p].id, disk) =>
              /\ u \in Orphans(next[p].id, disk) =>
                   todo'[p][u] = IF u \in Services /\ Up(u) THEN "stop" ELSE "remove"
              /\ u \notin Orphans(next[p].id, disk) => todo'[p][u] = "keep"
         /\ pc'[p] = "applied" => ToChange(next[p].id, disk) \cup Orphans(next[p].id, disk) = {}
<1>0. DOMAIN pc = Procs /\ p \in Procs /\ DOMAIN todo = Procs
  BY DEF Shaped, LocalType
<1>1. ~Goto(p, "failed")
  BY <1>0 DEF Goto
<1>2. /\ todo' = [todo EXCEPT ![p] = [u \in Units |->
             IF u \in ToChange(next[p].id, disk) THEN "write"
             ELSE IF u \notin Orphans(next[p].id, disk) THEN "keep"
             ELSE IF u \in Services /\ Up(u) THEN "stop" ELSE "remove"]]
      /\ Goto(p, IF ToChange(next[p].id, disk) \cup Orphans(next[p].id, disk) = {} THEN "applied" ELSE "write")
  BY <1>1 DEF PlanApply
<1>3. pc'[p] = IF ToChange(next[p].id, disk) \cup Orphans(next[p].id, disk) = {} THEN "applied" ELSE "write"
  BY <1>0, <1>2 DEF Goto
<1>4. todo'[p] = [u \in Units |->
             IF u \in ToChange(next[p].id, disk) THEN "write"
             ELSE IF u \notin Orphans(next[p].id, disk) THEN "keep"
             ELSE IF u \in Services /\ Up(u) THEN "stop" ELSE "remove"]
  BY <1>0, <1>2
<1>. QED  BY <1>3, <1>4

LEMMA MarkEffect ==
  ASSUME Shaped, NEW p \in Procs, NEW s \in Units, NEW m, Mark(p, s, m)
  PROVE  \A u \in Units : todo'[p][u] = IF u = s THEN m ELSE todo[p][u]
  BY SMT DEF Shaped, LocalType, Mark

\* An apply, whoever makes it, keeps its aim.
LEMMA AimedStep ==
  ASSUME Shaped, NEW p \in Procs, Aimed(p), Apply(p)
  PROVE  Aimed(p)'
<1>1. /\ next \in [Procs -> Config] /\ todo \in [Procs -> [Units -> Todo]]
      /\ DOMAIN pc = Procs /\ disk \in Content
  BY DEF Shaped, HostType, LocalType
<1>. USE <1>1 DEF InApply, Goto, Mark, Record, host, locals
<1>2. HealKey(p) => Aimed(p)'
  BY SMT DEF HealKey, Aimed, Having
<1>3. HealEnv(p) => Aimed(p)'
  BY SMT DEF HealEnv, Aimed, Having
<1>4. ASSUME PlanApply(p) PROVE Aimed(p)'
  <2>1. /\ cfg' = cfg /\ env' = env /\ next' = next /\ disk' = disk /\ loaded' = loaded
        /\ pc[p] = "plan" /\ pc'[p] \in {"write", "applied", "failed"}
    BY <1>4, SMT DEF PlanApply
  <2>2. pc'[p] # "failed" => \A u \in Units :
          /\ todo'[p][u] = "keep" => AsRendered(next[p].id, u)
          /\ todo'[p][u] = "write" => Text(next[p].id, u) # None
          /\ todo'[p][u] \in {"stop", "remove"} => Text(next[p].id, u) = None
          /\ todo'[p][u] # "written"
    <3>1. ASSUME pc'[p] # "failed", NEW u \in Units
          PROVE  /\ todo'[p][u] = "keep" => u \notin ToChange(next[p].id, disk) \cup Orphans(next[p].id, disk)
                 /\ todo'[p][u] = "write" => u \in ToChange(next[p].id, disk)
                 /\ todo'[p][u] \in {"stop", "remove"} => u \in Orphans(next[p].id, disk)
                 /\ todo'[p][u] # "written"
      BY <1>4, <3>1, PlanMarks
    <3>. QED  BY <3>1, SMT DEF ToChange, Orphans, AsRendered, Text
  <2>3. pc'[p] = "applied" => \A u \in Units : todo'[p][u] = "keep"
    BY <1>4, PlanMarks
  <2>4. \A u \in Units : AsRendered(next[p].id, u) => AsRendered(next[p].id, u)'
    BY <2>1 DEF AsRendered, Text
  <2>5. pc'[p] = "applied" => Having(p, "written")' = {}
    BY <2>3 DEF Having
  <2>6. pc'[p] \in {"write", "applied"} => \A u \in Units :
          /\ todo'[p][u] \in {"keep", "written"} => AsRendered(next[p].id, u)'
          /\ todo'[p][u] \in {"write", "written"} => Text(next'[p].id, u) # None
          /\ todo'[p][u] \in {"stop", "remove"} => Text(next'[p].id, u) = None
    BY <2>1, <2>2, <2>4
  <2>. HIDE DEF Text, AsRendered
  <2>. QED  BY <2>1, <2>3, <2>5, <2>6, SMT DEF Aimed
<1>5. ASSUME StopOrphan(p) PROVE Aimed(p)'
  <2>1. /\ cfg' = cfg /\ env' = env /\ next' = next /\ disk' = disk /\ loaded' = loaded
        /\ pc[p] = "write" /\ pc'[p] \in {"write", "failed"}
    BY <1>5, SMT DEF StopOrphan
  <2>2. PICK s \in Units : todo[p][s] = "stop" /\ (todo' = todo \/ Mark(p, s, "remove"))
    BY <1>5, Zenon DEF StopOrphan, Having
  <2>3. \A u \in Units : todo'[p][u] = todo[p][u] \/ (u = s /\ todo'[p][u] = "remove")
    BY <2>2, MarkEffect, SMT
  <2>4. \A u \in Units : AsRendered(next[p].id, u) => AsRendered(next[p].id, u)'
    BY <2>1 DEF AsRendered, Text
  <2>5. pc'[p] = "write" => \A u \in Units :
          /\ todo'[p][u] \in {"keep", "written"} => AsRendered(next[p].id, u)'
          /\ todo'[p][u] \in {"write", "written"} => Text(next'[p].id, u) # None
          /\ todo'[p][u] \in {"stop", "remove"} => Text(next'[p].id, u) = None
    BY <2>1, <2>2, <2>3, <2>4, SMT DEF Aimed
  <2>. QED  BY <2>1, <2>5, SMT DEF Aimed
<1>6. ASSUME WriteUnit(p) PROVE Aimed(p)'
  <2>1. /\ cfg' = cfg /\ env' = env /\ next' = next /\ loaded' = loaded
        /\ pc[p] = "write" /\ pc'[p] \in {"write", "failed"}
    BY <1>6, SMT DEF WriteUnit
  <2>2. PICK s \in Units :
          /\ todo[p][s] = "write"
          /\ \/ pc'[p] = "failed"
             \/ disk' = [disk EXCEPT ![s] = Rendered[next[p].id][s]] /\ Mark(p, s, "written")
    BY <1>6, SMT DEF WriteUnit, Having
  <2>3. CASE pc'[p] = "failed"
    BY <2>3, SMT DEF Aimed
  <2>4. CASE disk' = [disk EXCEPT ![s] = Rendered[next[p].id][s]] /\ Mark(p, s, "written")
    <3>1. \A u \in Units : todo'[p][u] = IF u = s THEN "written" ELSE todo[p][u]
      BY <2>4, MarkEffect, SMT
    <3>2. \A u \in Units : disk'[u] = IF u = s THEN Rendered[next[p].id][s] ELSE disk[u]
      BY <2>4 DEF Content
    <3>3. \A u \in Units : AsRendered(next[p].id, u) => AsRendered(next[p].id, u)'
      BY <2>1, <3>2, SMT DEF AsRendered, Text
    <3>4. AsRendered(next[p].id, s)' /\ Text(next[p].id, s) # None
      BY <2>1, <2>2, <3>2, SMT DEF AsRendered, Text, Aimed
    <3>5. \A u \in Units :
            /\ todo'[p][u] \in {"keep", "written"} => AsRendered(next[p].id, u)'
            /\ todo'[p][u] \in {"write", "written"} => Text(next'[p].id, u) # None
            /\ todo'[p][u] \in {"stop", "remove"} => Text(next'[p].id, u) = None
      BY <2>1, <3>1, <3>3, <3>4, SMT DEF Aimed
    <3>. QED  BY <2>1, <3>5, SMT DEF Aimed
  <2>. QED  BY <2>2, <2>3, <2>4
<1>7. ASSUME RemoveUnit(p) PROVE Aimed(p)'
  <2>1. /\ cfg' = cfg /\ env' = env /\ next' = next /\ loaded' = loaded
        /\ pc[p] = "write" /\ pc'[p] \in {"write", "failed"}
    BY <1>7, SMT DEF RemoveUnit
  <2>2. PICK s \in Units :
          /\ todo[p][s] = "remove"
          /\ \/ pc'[p] = "failed"
             \/ disk' = [disk EXCEPT ![s] = None] /\ Mark(p, s, "keep")
    BY <1>7, SMT DEF RemoveUnit, Having
  <2>3. CASE pc'[p] = "failed"
    BY <2>3, SMT DEF Aimed
  <2>4. CASE disk' = [disk EXCEPT ![s] = None] /\ Mark(p, s, "keep")
    <3>1. \A u \in Units : todo'[p][u] = IF u = s THEN "keep" ELSE todo[p][u]
      BY <2>4, MarkEffect, SMT
    <3>2. \A u \in Units : disk'[u] = IF u = s THEN None ELSE disk[u]
      BY <2>4 DEF Content
    <3>3. Text(next[p].id, s) = None
      BY <2>1, <2>2 DEF Aimed
    <3>4. \A u \in Units : AsRendered(next[p].id, u) \/ u = s => AsRendered(next[p].id, u)'
      BY <2>1, <3>2, <3>3, SMT DEF AsRendered, Text
    <3>5. \A u \in Units :
            /\ todo'[p][u] \in {"keep", "written"} => AsRendered(next[p].id, u)'
            /\ todo'[p][u] \in {"write", "written"} => Text(next'[p].id, u) # None
            /\ todo'[p][u] \in {"stop", "remove"} => Text(next'[p].id, u) = None
      BY <2>1, <3>1, <3>3, <3>4, SMT DEF Aimed
    <3>. QED  BY <2>1, <3>5, SMT DEF Aimed
  <2>. QED  BY <2>2, <2>3, <2>4
<1>8. ASSUME Reload(p) PROVE Aimed(p)'
  <2>1. /\ cfg' = cfg /\ env' = env /\ next' = next /\ disk' = disk /\ todo' = todo
        /\ pc[p] = "write" /\ pc'[p] \in {"applied", "failed"}
        /\ pc'[p] = "applied" => loaded' = disk
    BY <1>8, SMT DEF Reload
  <2>2. \A u \in Units : todo[p][u] \in {"keep", "written"}
    BY <1>8, SMT DEF Reload, Having, Todo
  <2>3. \A u \in Units : AsRendered(next[p].id, u) => AsRendered(next[p].id, u)'
    BY <2>1 DEF AsRendered, Text
  <2>4. \A u \in Units :
          /\ todo'[p][u] \in {"keep", "written"} => AsRendered(next[p].id, u)'
          /\ todo'[p][u] \in {"write", "written"} => Text(next'[p].id, u) # None
          /\ todo'[p][u] \in {"stop", "remove"} => Text(next'[p].id, u) = None
    BY <2>1, <2>3, SMT DEF Aimed
  <2>. QED  BY <2>1, <2>2, <2>4, SMT DEF Aimed
<1>. QED  BY <1>2, <1>3, <1>4, <1>5, <1>6, <1>7, <1>8 DEF Apply

LEMMA ServiceRendered ==
  ASSUME TypeOK, NEW p \in Swaps
  PROVE  /\ Service \in Units /\ Service \in Services
         /\ Text(next[p].id, Service) # None /\ Text(cfg.id, Service) # None
<1>1. next[p].id \in Configs /\ cfg.id \in Configs
  BY SwapAssumption DEF TypeOK, HostType, LocalType, Config, Swaps
<1>. QED  BY <1>1, HostAssumption, SwapAssumption DEF Text

LEMMA OwnTrack ==
  ASSUME TypeOK, NEW p \in Swaps, Window(p), Track(p), disk[Service] \in Texts, Step(p)
  PROVE  Track(p)'
<1>1. /\ prior \in [Procs -> Config] /\ next \in [Procs -> Config] /\ base \in [Procs -> RunOf]
      /\ captured \in [Procs -> Content]
      /\ todo \in [Procs -> [Units -> Todo]] /\ restarted \in [Procs -> SUBSET Services]
      /\ run \in RunOf /\ DOMAIN pc = Procs /\ p \in Procs /\ out \in [Procs -> Outcome]
      /\ disk \in Content /\ cfg \in Config
  BY SwapAssumption DEF TypeOK, ControlType, HostType, LocalType, Swaps
<1>. USE <1>1 DEF Window, Config_, Touched, Planned, Working, Critical, BeforeSave, InApply, InRollback,
         InFlightPlaces, Goto, Return, Mark, Record, host, locals, Track
<1>2. Acquire(p) => Told(p)' /\ Aimed(p)' /\ Proven(p)' /\ Found(p)' /\ Switched(p)' /\ Undone(p)' /\ Back(p)'
  BY SMT DEF Acquire, Told, Aimed, Proven, Found, Switched, Undone, Back, RollbackFailed, ToRestore, Having
<1>3. TrySwapMu(p) => Told(p)' /\ Aimed(p)' /\ Proven(p)' /\ Found(p)' /\ Switched(p)' /\ Undone(p)' /\ Back(p)'
  BY SMT DEF TrySwapMu, Told, Aimed, Proven, Found, Switched, Undone, Back, RollbackFailed, ToRestore, Having
<1>4. TryAcquire(p) => Told(p)' /\ Aimed(p)' /\ Proven(p)' /\ Found(p)' /\ Switched(p)' /\ Undone(p)' /\ Back(p)'
  BY SMT DEF TryAcquire, Told, Aimed, Proven, Found, Switched, Undone, Back, RollbackFailed, ToRestore, Having
<1>5. Release(p) => Told(p)' /\ Aimed(p)' /\ Proven(p)' /\ Found(p)' /\ Switched(p)' /\ Undone(p)' /\ Back(p)'
  BY SMT DEF Release, Told, Aimed, Proven, Found, Switched, Undone, Back, RollbackFailed, ToRestore, Having, Forget
<1>6. Load(p) => Told(p)' /\ Aimed(p)' /\ Proven(p)' /\ Found(p)' /\ Switched(p)' /\ Undone(p)' /\ Back(p)'
  BY SMT DEF Load, Told, Aimed, Proven, Found, Switched, Undone, Back, RollbackFailed, ToRestore, Having
<1>7. Change(p) => Told(p)' /\ Aimed(p)' /\ Proven(p)' /\ Found(p)' /\ Switched(p)' /\ Undone(p)' /\ Back(p)'
  BY SMT DEF Change, Told, Aimed, Proven, Found, Switched, Undone, Back, RollbackFailed, ToRestore, Having
<1>8. ASSUME Capture(p) PROVE Track(p)'
  <2>1. Told(p)' /\ Aimed(p)' /\ Proven(p)' /\ Switched(p)' /\ Undone(p)' /\ Back(p)'
    BY <1>8, SMT DEF Capture, Told, Aimed, Proven, Switched, Undone, Back, RollbackFailed, ToRestore, Having
  <2>2. Found(p)'
    <3>1. pc[p] = "capture" /\ disk' = disk /\ pc'[p] \in {"save", "release"}
      BY <1>8, SMT DEF Capture
    <3>2. pc'[p] = "save" => captured'[p] = disk
      BY <1>8, CaptureAll
    <3>. QED  BY <3>1, <3>2, SMT DEF Found
  <2>. QED  BY <2>1, <2>2 DEF Track
<1>9. SaveNext(p) => Told(p)' /\ Aimed(p)' /\ Proven(p)' /\ Found(p)' /\ Switched(p)' /\ Undone(p)' /\ Back(p)'
  BY SMT DEF SaveNext, Told, Aimed, Proven, Found, Switched, Undone, Back, RollbackFailed, ToRestore, Having
<1>10. HealKey(p) => Told(p)' /\ Aimed(p)' /\ Proven(p)' /\ Found(p)' /\ Switched(p)' /\ Undone(p)' /\ Back(p)'
  BY SMT DEF HealKey, Told, Aimed, Proven, Found, Switched, Undone, Back, RollbackFailed, ToRestore, Having
<1>11. HealEnv(p) => Told(p)' /\ Aimed(p)' /\ Proven(p)' /\ Found(p)' /\ Switched(p)' /\ Undone(p)' /\ Back(p)'
  BY SMT DEF HealEnv, Told, Aimed, Proven, Found, Switched, Undone, Back, RollbackFailed, ToRestore, Having
<1>12. ASSUME PlanApply(p) PROVE Track(p)'
  <2>1. Told(p)' /\ Proven(p)' /\ Found(p)' /\ Switched(p)' /\ Undone(p)' /\ Back(p)'
    BY <1>12, SMT DEF PlanApply, Told, Proven, Found, Switched, Undone, Back, RollbackFailed, ToRestore, Having
  <2>2. Aimed(p)'
    BY <1>12, AimedStep, TypedIsShaped, SwapsAreProcs DEF Apply
  <2>. QED  BY <2>1, <2>2 DEF Track
<1>13. ASSUME StopOrphan(p) PROVE Track(p)'
  <2>1. Told(p)' /\ Switched(p)' /\ Undone(p)' /\ Back(p)'
    BY <1>13, SMT DEF StopOrphan, Told, Switched, Undone, Back, RollbackFailed, ToRestore, Having
  <2>2. Aimed(p)'
    BY <1>13, AimedStep, TypedIsShaped, SwapsAreProcs DEF Apply
  <2>3. Proven(p)'
    <3>1. pc[p] = "write" /\ pc'[p] \in {"write", "failed"}
      BY <1>13, SMT DEF StopOrphan
    <3>2. PICK s \in Services : todo[p][s] = "stop" /\ Record(p, s)
      BY <1>13, Zenon DEF StopOrphan, Having
    <3>3. s # Service
      BY <3>1, <3>2, ServiceRendered DEF Aimed
    <3>4. Service \notin restarted[p]
      BY <3>1 DEF Proven
    <3>. QED  BY <3>1, <3>2, <3>3, <3>4, SMT DEF Proven
  <2>4. Found(p)'
    <3>1. pc[p] = "write" /\ pc'[p] \in {"write", "failed"} /\ disk' = disk /\ captured' = captured
      BY <1>13, SMT DEF StopOrphan
    <3>2. PICK s \in Units : todo[p][s] = "stop" /\ (todo' = todo \/ Mark(p, s, "remove"))
      BY <1>13, Zenon DEF StopOrphan, Having
    <3>3. \A u \in Units : todo'[p][u] = todo[p][u] \/ (u = s /\ todo[p][u] = "stop")
      BY <3>2, MarkEffect, TypedIsShaped, SwapsAreProcs, SMT
    <3>4. todo'[p][Service] # "written" => todo[p][Service] # "written"
      BY <3>3, ServiceRendered
    <3>. QED  BY <3>1, <3>4, SMT DEF Found
  <2>. QED  BY <2>1, <2>2, <2>3, <2>4 DEF Track
<1>14. ASSUME WriteUnit(p) PROVE Track(p)'
  <2>1. Told(p)' /\ Proven(p)' /\ Switched(p)' /\ Undone(p)' /\ Back(p)'
    BY <1>14, SMT DEF WriteUnit, Told, Proven, Switched, Undone, Back, RollbackFailed, ToRestore, Having
  <2>2. Aimed(p)'
    BY <1>14, AimedStep, TypedIsShaped, SwapsAreProcs DEF Apply
  <2>3. Found(p)'
    <3>1. pc[p] = "write" /\ pc'[p] \in {"write", "failed"} /\ captured' = captured
      BY <1>14, SMT DEF WriteUnit
    <3>2. PICK s \in Units :
            \/ pc'[p] = "failed"
            \/ disk' = [disk EXCEPT ![s] = Rendered[next[p].id][s]] /\ Mark(p, s, "written")
      BY <1>14, SMT DEF WriteUnit, Having
    <3>3. CASE pc'[p] = "failed"
      BY <3>1, <3>3, SMT DEF Found
    <3>4. CASE disk' = [disk EXCEPT ![s] = Rendered[next[p].id][s]] /\ Mark(p, s, "written")
      <4>1. todo'[p][Service] = IF Service = s THEN "written" ELSE todo[p][Service]
        BY <3>4, MarkEffect, TypedIsShaped, SwapsAreProcs, ServiceRendered, SMT
      <4>2. Service # s => disk'[Service] = disk[Service]
        BY <3>4 DEF Content
      <4>. QED  BY <3>1, <4>1, <4>2, SMT DEF Found
    <3>. QED  BY <3>2, <3>3, <3>4
  <2>. QED  BY <2>1, <2>2, <2>3 DEF Track
<1>15. ASSUME RemoveUnit(p) PROVE Track(p)'
  <2>1. Told(p)' /\ Proven(p)' /\ Switched(p)' /\ Undone(p)' /\ Back(p)'
    BY <1>15, SMT DEF RemoveUnit, Told, Proven, Switched, Undone, Back, RollbackFailed, ToRestore, Having
  <2>2. Aimed(p)'
    BY <1>15, AimedStep, TypedIsShaped, SwapsAreProcs DEF Apply
  <2>3. Found(p)'
    <3>1. pc[p] = "write" /\ pc'[p] \in {"write", "failed"} /\ captured' = captured
      BY <1>15, SMT DEF RemoveUnit
    <3>2. PICK s \in Units :
            /\ todo[p][s] = "remove"
            /\ \/ pc'[p] = "failed"
               \/ disk' = [disk EXCEPT ![s] = None] /\ Mark(p, s, "keep")
      BY <1>15, SMT DEF RemoveUnit, Having
    <3>3. CASE pc'[p] = "failed"
      BY <3>1, <3>3, SMT DEF Found
    <3>4. CASE disk' = [disk EXCEPT ![s] = None] /\ Mark(p, s, "keep")
      <4>0. s # Service
        BY <3>1, <3>2, ServiceRendered DEF Aimed
      <4>1. todo'[p][Service] = todo[p][Service]
        BY <3>4, <4>0, MarkEffect, TypedIsShaped, SwapsAreProcs, ServiceRendered, SMT
      <4>2. disk'[Service] = disk[Service]
        BY <3>4, <4>0 DEF Content
      <4>. QED  BY <3>1, <4>1, <4>2, SMT DEF Found
    <3>. QED  BY <3>2, <3>3, <3>4
  <2>. QED  BY <2>1, <2>2, <2>3 DEF Track
<1>16. ASSUME Reload(p) PROVE Track(p)'
  <2>1. Told(p)' /\ Proven(p)' /\ Found(p)' /\ Switched(p)' /\ Undone(p)' /\ Back(p)'
    BY <1>16, SMT DEF Reload, Told, Proven, Found, Switched, Undone, Back, RollbackFailed, ToRestore, Having
  <2>2. Aimed(p)'
    BY <1>16, AimedStep, TypedIsShaped, SwapsAreProcs DEF Apply
  <2>. QED  BY <2>1, <2>2 DEF Track
<1>17. ASSUME AfterApply(p) PROVE Track(p)'
  <2>1. Told(p)' /\ Proven(p)' /\ Found(p)' /\ Switched(p)' /\ Undone(p)' /\ Back(p)'
    BY <1>17, SMT DEF AfterApply, Told, Proven, Found, Switched, Undone, Back, RollbackFailed, ToRestore, Having
  <2>2. Aimed(p)'
    <3>1. /\ cfg' = cfg /\ env' = env /\ next' = next /\ disk' = disk /\ todo' = todo /\ loaded' = loaded
          /\ pc'[p] \in {"rbunits", "release", "restart"}
          /\ pc'[p] = "restart" => pc[p] = "applied" /\ Having(p, "written") # {}
      BY <1>17, SMT DEF AfterApply
    <3>2. \A u \in Units : AsRendered(next[p].id, u) => AsRendered(next[p].id, u)'
      BY <3>1 DEF AsRendered, Text
    <3>3. CASE pc'[p] = "restart"
      <4>1. loaded' = disk'
        BY <3>1, <3>3 DEF Aimed
      <4>2. \A u \in Units :
              /\ todo'[p][u] \in {"keep", "written"} => AsRendered(next[p].id, u)'
              /\ todo'[p][u] \in {"write", "written"} => Text(next'[p].id, u) # None
              /\ todo'[p][u] \in {"stop", "remove"} => Text(next'[p].id, u) = None
              /\ todo'[p][u] \in {"keep", "written"}
        BY <3>1, <3>2, <3>3, SMT DEF Aimed
      <4>. QED  BY <3>1, <3>3, <4>1, <4>2, SMT DEF Aimed
    <3>. QED  BY <3>1, <3>3, SMT DEF Aimed
  <2>. QED  BY <2>1, <2>2 DEF Track
<1>18. ASSUME RestartOne(p) PROVE Track(p)'
  <2>1. Told(p)' /\ Found(p)' /\ Switched(p)' /\ Undone(p)' /\ Back(p)'
    BY <1>18, SMT DEF RestartOne, Told, Found, Switched, Undone, Back, RollbackFailed, ToRestore, Having
  <2>2. Aimed(p)'
    <3>1. /\ cfg' = cfg /\ env' = env /\ next' = next /\ disk' = disk /\ loaded' = loaded
          /\ pc[p] = "restart" /\ pc'[p] \in {"rbunits", "restart"}
      BY <1>18, SMT DEF RestartOne
    <3>2. PICK s \in Units : todo[p][s] = "written" /\ Mark(p, s, "keep")
      BY <1>18, Zenon DEF RestartOne, Having
    <3>3. \A u \in Units : todo'[p][u] = IF u = s THEN "keep" ELSE todo[p][u]
      BY <3>2, MarkEffect, TypedIsShaped, SwapsAreProcs, SMT
    <3>4. \A u \in Units : AsRendered(next[p].id, u) => AsRendered(next[p].id, u)'
      BY <3>1 DEF AsRendered, Text
    <3>5. \A u \in Units :
            /\ todo'[p][u] \in {"keep", "written"} => AsRendered(next[p].id, u)'
            /\ todo'[p][u] \in {"write", "written"} => Text(next'[p].id, u) # None
            /\ todo'[p][u] \in {"stop", "remove"} => Text(next'[p].id, u) = None
            /\ todo'[p][u] \in {"keep", "written"}
      BY <3>1, <3>2, <3>3, <3>4, SMT DEF Aimed
    <3>. QED  BY <3>1, <3>5, SMT DEF Aimed
  <2>3. Proven(p)'
    <3>1. pc[p] = "restart" /\ loaded' = loaded
      BY <1>18 DEF RestartOne
    <3>2. PICK s \in Services :
            \/ pc' = pc /\ run' = run /\ restarted' = restarted
            \/ Goto(p, "rbunits")
            \/ Record(p, s) /\ RestartOk(s) /\ pc' = pc
      BY <1>18, Zenon DEF RestartOne, Having
    <3>3. CASE Record(p, s) /\ RestartOk(s) /\ pc' = pc
      <4>1. Service # s => run'[Service] = run[Service] /\ (Service \in restarted'[p] => Service \in restarted[p])
        BY <3>3, SMT DEF RestartOk, RunOf
      <4>2. Service = s => run'[Service] = loaded[Service]
        BY <3>3, SMT DEF RestartOk, RunOf
      <4>. QED  BY <3>1, <3>3, <4>1, <4>2, SMT DEF Proven
    <3>4. CASE Goto(p, "rbunits")
      BY <3>4, SMT DEF Proven
    <3>5. CASE pc' = pc /\ run' = run /\ restarted' = restarted
      BY <3>1, <3>5, SMT DEF Proven
    <3>. QED  BY <3>2, <3>3, <3>4, <3>5
  <2>. QED  BY <2>1, <2>2, <2>3 DEF Track
<1>19. ASSUME RestartProven(p) PROVE Track(p)'
  <2>1. Told(p)' /\ Found(p)' /\ Switched(p)' /\ Undone(p)' /\ Back(p)'
    BY <1>19, SMT DEF RestartProven, Told, Found, Switched, Undone, Back, RollbackFailed, ToRestore, Having
  <2>2. Aimed(p)'
    <3>1. /\ cfg' = cfg /\ env' = env /\ next' = next /\ disk' = disk /\ loaded' = loaded /\ todo' = todo
          /\ pc[p] = "restart" /\ pc'[p] \in {"rbunits", "prove"}
      BY <1>19, SMT DEF RestartProven
    <3>2. \A u \in Units : AsRendered(next[p].id, u) => AsRendered(next[p].id, u)'
      BY <3>1 DEF AsRendered, Text
    <3>3. \A u \in Units :
            /\ todo'[p][u] \in {"keep", "written"} => AsRendered(next[p].id, u)'
            /\ todo'[p][u] \in {"write", "written"} => Text(next'[p].id, u) # None
            /\ todo'[p][u] \in {"stop", "remove"} => Text(next'[p].id, u) = None
            /\ todo'[p][u] \in {"keep", "written"}
      BY <3>1, <3>2, SMT DEF Aimed
    <3>. QED  BY <3>1, <3>3, SMT DEF Aimed
  <2>3. Proven(p)'
    <3>1. pc[p] = "restart" /\ loaded' = loaded
      BY <1>19 DEF RestartProven
    <3>2. \/ Goto(p, "prove") /\ Service \in restarted[p] /\ run' = run
          \/ Goto(p, "rbunits")
          \/ RestartOk(Service) /\ Goto(p, "prove")
      BY <1>19, Zenon DEF RestartProven
    <3>3. RestartOk(Service) => run'[Service] = loaded[Service]
      BY SwapAssumption, SMT DEF RestartOk, RunOf
    <3>. QED  BY <3>1, <3>2, <3>3, SMT DEF Proven
  <2>. QED  BY <2>1, <2>2, <2>3 DEF Track
<1>20. ASSUME Prove(p) PROVE Track(p)'
  <2>1. Told(p)' /\ Aimed(p)' /\ Proven(p)' /\ Found(p)' /\ Undone(p)' /\ Back(p)'
    BY <1>20, SMT DEF Prove, Told, Aimed, Proven, Found, Undone, Back, RollbackFailed, ToRestore, Having
  <2>2. Switched(p)'
    <3>1. /\ cfg' = cfg /\ env' = env /\ next' = next /\ disk' = disk /\ loaded' = loaded /\ run' = run
          /\ pc[p] = "prove"
      BY <1>20 DEF Prove
    <3>2. /\ cfg = next[p] /\ env = cfg.key /\ loaded = disk /\ run[Service] = loaded[Service]
          /\ \A u \in Units : AsRendered(cfg.id, u)
      BY <3>1 DEF Aimed, Proven
    <3>3. run[Service] = Rendered[cfg.id][Service]
      BY <3>2, ServiceRendered DEF AsRendered, Text
    <3>4. \A u \in Units : AsRendered(cfg.id, u)'
      BY <3>1, <3>2 DEF AsRendered, Text
    <3>. QED  BY <3>1, <3>2, <3>3, <3>4 DEF Switched
  <2>. QED  BY <2>1, <2>2 DEF Track
<1>21. RollbackUnits(p) => Told(p)' /\ Aimed(p)' /\ Proven(p)' /\ Found(p)' /\ Switched(p)' /\ Undone(p)' /\ Back(p)'
  BY SMT DEF RollbackUnits, Told, Aimed, Proven, Found, Switched, Undone, Back, RollbackFailed, ToRestore, Having
<1>22. RollbackConfig(p) => Told(p)' /\ Aimed(p)' /\ Proven(p)' /\ Found(p)' /\ Switched(p)' /\ Undone(p)' /\ Back(p)'
  BY SMT DEF RollbackConfig, Told, Aimed, Proven, Found, Switched, Undone, Back, RollbackFailed, ToRestore, Having
<1>23. ASSUME RollbackReload(p) PROVE Track(p)'
  <2>1. Told(p)' /\ Aimed(p)' /\ Proven(p)' /\ Found(p)' /\ Switched(p)' /\ Back(p)'
    BY <1>23, SMT DEF RollbackReload, Told, Aimed, Proven, Found, Switched, Back, RollbackFailed, ToRestore, Having
  <2>2. Undone(p)'
    <3>1. /\ cfg' = cfg /\ disk' = disk /\ captured' = captured /\ prior' = prior /\ restarted' = restarted
          /\ pc[p] = "rbreload" /\ pc'[p] = "rbrestart"
          /\ out'[p] # "incomplete" => loaded' = disk /\ out[p] # "incomplete"
      BY <1>23, SMT DEF RollbackReload, RollbackFailed
    <3>2. \A s \in restarted[p] : todo'[p][s] = "written"
      BY <1>23, HostAssumption, SMT DEF RollbackReload
    <3>3. ToRestore(p)' = ToRestore(p)
      BY <3>1 DEF ToRestore
    <3>. QED  BY <3>1, <3>2, <3>3, SMT DEF Undone
  <2>. QED  BY <2>1, <2>2 DEF Track
<1>24. ASSUME RollbackRestart(p) PROVE Track(p)'
  <2>1. Told(p)' /\ Aimed(p)' /\ Proven(p)' /\ Found(p)' /\ Switched(p)' /\ Back(p)'
    BY <1>24, SMT DEF RollbackRestart, Told, Aimed, Proven, Found, Switched, Back, RollbackFailed, ToRestore, Having
  <2>2. Undone(p)'
    <3>1. /\ cfg' = cfg /\ disk' = disk /\ captured' = captured /\ prior' = prior /\ restarted' = restarted
          /\ loaded' = loaded /\ pc[p] = "rbrestart" /\ pc'[p] = "rbrestart"
      BY <1>24, SMT DEF RollbackRestart
    <3>2. ToRestore(p)' = ToRestore(p)
      BY <3>1 DEF ToRestore
    <3>3. PICK s \in Services :
            /\ Mark(p, s, "keep")
            /\ \/ RestartOk(s) /\ out' = out
               \/ out' = [out EXCEPT ![p] = "incomplete"]
      BY <1>24, Zenon DEF RollbackRestart
    <3>4. CASE out' = [out EXCEPT ![p] = "incomplete"]
      BY <3>4 DEF Undone
    <3>5. CASE RestartOk(s) /\ out' = out
      <4>1. \A t \in Services : todo'[p][t] = IF t = s THEN "keep" ELSE todo[p][t]
        BY <3>3, MarkEffect, TypedIsShaped, SwapsAreProcs, HostAssumption
      <4>2. \A t \in Services : run'[t] = IF t = s THEN loaded[s] ELSE run[t]
        BY <3>5, SMT DEF RestartOk, RunOf
      <4>3. loaded[s] # None
        BY <3>5 DEF RestartOk
      <4>4. loaded[s] # Down
        BY <4>3, HostAssumption, SMT DEF Content, TypeOK, HostType
      <4>5. restarted[p] \subseteq Services
        OBVIOUS
      <4>. QED  BY <3>1, <3>2, <3>5, <4>1, <4>2, <4>4, <4>5, SMT DEF Undone
    <3>. QED  BY <3>3, <3>4, <3>5
  <2>. QED  BY <2>1, <2>2 DEF Track
<1>25. ASSUME RolledBack(p) PROVE Track(p)'
  <2>1. Told(p)' /\ Aimed(p)' /\ Proven(p)' /\ Found(p)' /\ Switched(p)' /\ Undone(p)'
    BY <1>25, SMT DEF RolledBack, Told, Aimed, Proven, Found, Switched, Undone, RollbackFailed, ToRestore, Having
  <2>2. Back(p)'
    <3>1. /\ cfg' = cfg /\ disk' = disk /\ captured' = captured /\ prior' = prior /\ base' = base
          /\ loaded' = loaded /\ run' = run /\ pc[p] = "rbrestart" /\ \A u \in Units : todo[p][u] # "written"
          /\ out'[p] = "rolledback" => out[p] # "incomplete"
      BY <1>25, SMT DEF RolledBack, Having
    <3>2. ASSUME out'[p] = "rolledback" PROVE Back(p)'
      <4>1. /\ ToRestore(p) = {} /\ cfg = prior[p] /\ loaded = disk
            /\ \A s \in restarted[p] : run[s] = disk[s] /\ run[s] # Down
        BY <3>1, <3>2, HostAssumption, SMT DEF Undone
      <4>2. \A u \in Units : captured[p][u] # None => disk[u] = captured[p][u]
        BY <4>1, SMT DEF ToRestore
      <4>3. \A s \in Services : s \in restarted[p] \/ run[s] = base[p][s]
        BY <3>1, SMT
      <4>. QED  BY <3>1, <4>1, <4>2, <4>3, SMT DEF Back
    <3>. QED  BY <3>2 DEF Back
  <2>. QED  BY <2>1, <2>2 DEF Track
<1>. HIDE DEF Track
<1>. QED  BY <1>2, <1>3, <1>4, <1>5, <1>6, <1>7, <1>8, <1>9, <1>10, <1>11, <1>12, <1>13, <1>14, <1>15, <1>16, <1>17, <1>18, <1>19, <1>20, <1>21, <1>22, <1>23, <1>24, <1>25, StepCases, TypedIsShaped, SwapsAreProcs DEF Track

----------------------------------------------------------------------------
(* ... and, while nothing was lost, what runs is what is on disk            *)

LEMMA OwnClean ==
  ASSUME TypeOK, NEW p \in Swaps, Window(p), Track(p), Clean(p), Step(p),
         misread' = 0, out'[p] # "incomplete", lock = Free => Whole
  PROVE  Clean(p)'
<1>1. /\ prior \in [Procs -> Config] /\ next \in [Procs -> Config] /\ base \in [Procs -> RunOf]
      /\ captured \in [Procs -> Content]
      /\ todo \in [Procs -> [Units -> Todo]] /\ restarted \in [Procs -> SUBSET Services]
      /\ run \in RunOf /\ DOMAIN pc = Procs /\ p \in Procs /\ out \in [Procs -> Outcome]
      /\ disk \in Content /\ cfg \in Config /\ misread \in Nat
  BY SwapAssumption, HostAssumption, SMT DEF TypeOK, ControlType, HostType, LocalType, Swaps
<1>. USE <1>1 DEF Window, Config_, Touched, Planned, Working, Critical, BeforeSave, InApply, InRollback,
         InFlightPlaces, Goto, Return, Mark, Record, host, locals, Track, Clean
<1>2. Acquire(p) => Rests(p)' /\ Based(p)' /\ Keyed(p)' /\ Fresh(p)'
  BY SMT DEF Acquire, Rests, Based, Keyed, Fresh, RollbackFailed, ToRestore, Having, Whole, UpToDate, LockFree
<1>3. TrySwapMu(p) => Rests(p)' /\ Based(p)' /\ Keyed(p)' /\ Fresh(p)'
  BY SMT DEF TrySwapMu, Rests, Based, Keyed, Fresh, RollbackFailed, ToRestore, Having, Whole, UpToDate
<1>4. TryAcquire(p) => Rests(p)' /\ Based(p)' /\ Keyed(p)' /\ Fresh(p)'
  BY SMT DEF TryAcquire, Rests, Based, Keyed, Fresh, RollbackFailed, ToRestore, Having, Whole, UpToDate, LockFree
<1>5. Release(p) => Rests(p)' /\ Based(p)' /\ Keyed(p)' /\ Fresh(p)'
  BY SMT DEF Release, Rests, Based, Keyed, Fresh, RollbackFailed, ToRestore, Having, Whole, UpToDate, Forget
<1>6. ASSUME Load(p) PROVE Clean(p)'
  <2>1. Rests(p)' /\ Keyed(p)' /\ Fresh(p)'
    BY <1>6, SMT DEF Load, Rests, Keyed, Fresh, RollbackFailed, ToRestore, Having, Whole, UpToDate
  <2>2. Based(p)'
    <3>1. /\ disk' = disk /\ pc[p] = "load" /\ pc'[p] \in {"change", "release"}
          /\ pc'[p] = "change" => base'[p] = run
      BY <1>6, SMT DEF Load
    <3>2. \A s \in Services : run[s] \in {Down, disk[s]}
      BY <3>1 DEF Rests, Whole, UpToDate
    <3>. QED  BY <3>1, <3>2, SMT DEF Based
  <2>. QED  BY <2>1, <2>2 DEF Clean
<1>7. ASSUME Change(p) PROVE Clean(p)'
  <2>1. Rests(p)' /\ Based(p)' /\ Fresh(p)'
    BY <1>7, SMT DEF Change, Rests, Based, Fresh, RollbackFailed, ToRestore, Having, Whole, UpToDate
  <2>2. Keyed(p)'
    <3>1. /\ pc[p] = "change" /\ pc'[p] \in {"capture", "release"} /\ prior' = prior
          /\ pc'[p] = "capture" => \E c \in Configs : next' = [next EXCEPT ![p] = [prior[p] EXCEPT !.id = c]]
      BY <1>7, SMT DEF Change
    <3>2. pc'[p] = "capture" => next'[p].key = prior[p].key
      BY <3>1 DEF Config
    <3>. QED  BY <3>1, <3>2, SMT DEF Keyed
  <2>. QED  BY <2>1, <2>2 DEF Clean
<1>8. ASSUME Capture(p) PROVE Clean(p)'
  <2>1. Rests(p)' /\ Fresh(p)'
    BY <1>8, SMT DEF Capture, Rests, Fresh, RollbackFailed, ToRestore, Having, Whole, UpToDate
  <2>2. Based(p)'
    <3>1. /\ pc[p] = "capture" /\ pc'[p] \in {"save", "release"} /\ disk' = disk /\ base' = base
      BY <1>8, SMT DEF Capture
    <3>2. pc'[p] = "save" => captured'[p] = disk
      BY <1>8, CaptureAll
    <3>. QED  BY <3>1, <3>2, SMT DEF Based
  <2>3. Keyed(p)'
    <3>1. /\ pc[p] = "capture" /\ pc'[p] \in {"save", "release"} /\ env' = env /\ prior' = prior /\ next' = next
      BY <1>8, SMT DEF Capture
    <3>2. prior[p].key \in {NoKey, env}
      BY <3>1 DEF Rests, Whole
    <3>. QED  BY <3>1, <3>2, SMT DEF Keyed
  <2>. QED  BY <2>1, <2>2, <2>3 DEF Clean
<1>9. ASSUME SaveNext(p) PROVE Clean(p)'
  <2>1. Rests(p)' /\ Based(p)' /\ Keyed(p)'
    BY <1>9, SMT DEF SaveNext, Rests, Based, Keyed, RollbackFailed, ToRestore, Having, Whole, UpToDate
  <2>2. Fresh(p)'
    <3>1. /\ pc[p] = "save" /\ pc'[p] \in {"heal", "rbunits"} /\ disk' = disk /\ loaded' = loaded /\ run' = run
      BY <1>9, SMT DEF SaveNext
    <3>2. loaded = disk /\ \A s \in Services : run[s] \in {Down, disk[s]}
      BY <3>1 DEF Rests, Whole, UpToDate
    <3>. QED  BY <3>1, <3>2, SMT DEF Fresh, UpToDate
  <2>. QED  BY <2>1, <2>2 DEF Clean
<1>10. HealKey(p) => Rests(p)' /\ Based(p)' /\ Keyed(p)' /\ Fresh(p)'
  BY SMT DEF HealKey, Rests, Based, Keyed, Fresh, RollbackFailed, ToRestore, Having, Whole, UpToDate
<1>11. HealEnv(p) => Rests(p)' /\ Based(p)' /\ Keyed(p)' /\ Fresh(p)'
  BY SMT DEF HealEnv, Rests, Based, Keyed, Fresh, RollbackFailed, ToRestore, Having, Whole, UpToDate
<1>12. ASSUME PlanApply(p) PROVE Clean(p)'
  <2>1. Rests(p)' /\ Based(p)' /\ Keyed(p)'
    BY <1>12, SMT DEF PlanApply, Rests, Based, Keyed, RollbackFailed, ToRestore, Having, Whole, UpToDate
  <2>2. Fresh(p)'
    <3>1. /\ pc[p] = "plan" /\ pc'[p] \in {"write", "applied", "failed"}
          /\ disk' = disk /\ loaded' = loaded /\ run' = run
      BY <1>12, SMT DEF PlanApply
    <3>2. loaded = disk /\ \A s \in Services : run[s] \in {Down, disk[s]}
      BY <3>1 DEF Fresh, UpToDate
    <3>3. \A s \in Services : pc'[p] # "failed" /\ todo'[p][s] = "remove" => run[s] = Down
      BY <1>12, PlanMarks, TypedIsShaped, SwapsAreProcs, HostAssumption DEF Up
    <3>. QED  BY <3>1, <3>2, <3>3, SMT DEF Fresh, UpToDate
  <2>. QED  BY <2>1, <2>2 DEF Clean
<1>13. ASSUME StopOrphan(p) PROVE Clean(p)'
  <2>1. Rests(p)' /\ Based(p)' /\ Keyed(p)'
    BY <1>13, SMT DEF StopOrphan, Rests, Based, Keyed, RollbackFailed, ToRestore, Having, Whole, UpToDate
  <2>2. Fresh(p)'
    <3>1. /\ pc[p] = "write" /\ pc'[p] \in {"write", "failed"} /\ disk' = disk /\ loaded' = loaded
      BY <1>13, SMT DEF StopOrphan
    <3>2. PICK s \in Services :
            \/ pc'[p] = "failed"
            \/ run' = [run EXCEPT ![s] = Down] /\ Mark(p, s, "remove")
      BY <1>13, Zenon DEF StopOrphan
    <3>3. CASE run' = [run EXCEPT ![s] = Down] /\ Mark(p, s, "remove")
      <4>1. \A t \in Services : todo'[p][t] = IF t = s THEN "remove" ELSE todo[p][t]
        BY <3>3, MarkEffect, TypedIsShaped, SwapsAreProcs, HostAssumption, SMT
      <4>2. \A t \in Services : run'[t] = IF t = s THEN Down ELSE run[t]
        BY <3>3 DEF RunOf
      <4>3. \A t \in Services :
              /\ todo[p][t] # "written" => run[t] \in {Down, disk[t]}
              /\ todo[p][t] = "remove" => run[t] = Down
        BY <3>1 DEF Fresh, UpToDate
      <4>4. \A t \in Services :
              /\ todo'[p][t] # "written" => run'[t] \in {Down, disk'[t]}
              /\ todo'[p][t] = "remove" => run'[t] = Down
        BY <3>1, <4>1, <4>2, <4>3, SMT
      <4>. QED  BY <3>1, <4>4, SMT DEF Fresh, UpToDate
    <3>4. CASE pc'[p] = "failed"
      BY <3>4, SMT DEF Fresh
    <3>. QED  BY <3>2, <3>3, <3>4
  <2>. QED  BY <2>1, <2>2 DEF Clean
<1>14. ASSUME WriteUnit(p) PROVE Clean(p)'
  <2>1. Rests(p)' /\ Based(p)' /\ Keyed(p)'
    BY <1>14, SMT DEF WriteUnit, Rests, Based, Keyed, RollbackFailed, ToRestore, Having, Whole, UpToDate
  <2>2. Fresh(p)'
    <3>1. /\ pc[p] = "write" /\ pc'[p] \in {"write", "failed"} /\ run' = run
      BY <1>14, SMT DEF WriteUnit
    <3>2. PICK s \in Units :
            \/ pc'[p] = "failed"
            \/ disk' = [disk EXCEPT ![s] = Rendered[next[p].id][s]] /\ Mark(p, s, "written")
      BY <1>14, SMT DEF WriteUnit, Having
    <3>3. CASE disk' = [disk EXCEPT ![s] = Rendered[next[p].id][s]] /\ Mark(p, s, "written")
      <4>1. \A t \in Services : todo'[p][t] = IF t = s THEN "written" ELSE todo[p][t]
        BY <3>3, MarkEffect, TypedIsShaped, SwapsAreProcs, HostAssumption, SMT
      <4>2. \A t \in Services : t # s => disk'[t] = disk[t]
        BY <3>3, HostAssumption DEF Content
      <4>3. \A t \in Services :
              /\ todo[p][t] # "written" => run[t] \in {Down, disk[t]}
              /\ todo[p][t] = "remove" => run[t] = Down
        BY <3>1 DEF Fresh, UpToDate
      <4>4. \A t \in Services :
              /\ todo'[p][t] # "written" => run'[t] \in {Down, disk'[t]}
              /\ todo'[p][t] = "remove" => run'[t] = Down
        BY <3>1, <4>1, <4>2, <4>3, SMT
      <4>. QED  BY <3>1, <4>4, SMT DEF Fresh, UpToDate
    <3>4. CASE pc'[p] = "failed"
      BY <3>4, SMT DEF Fresh
    <3>. QED  BY <3>2, <3>3, <3>4
  <2>. QED  BY <2>1, <2>2 DEF Clean
<1>15. ASSUME RemoveUnit(p) PROVE Clean(p)'
  <2>1. Rests(p)' /\ Based(p)' /\ Keyed(p)'
    BY <1>15, SMT DEF RemoveUnit, Rests, Based, Keyed, RollbackFailed, ToRestore, Having, Whole, UpToDate
  <2>2. Fresh(p)'
    <3>1. /\ pc[p] = "write" /\ pc'[p] \in {"write", "failed"} /\ run' = run
      BY <1>15, SMT DEF RemoveUnit
    <3>2. PICK s \in Units :
            /\ todo[p][s] = "remove"
            /\ \/ pc'[p] = "failed"
               \/ disk' = [disk EXCEPT ![s] = None] /\ Mark(p, s, "keep")
      BY <1>15, SMT DEF RemoveUnit, Having
    <3>3. CASE disk' = [disk EXCEPT ![s] = None] /\ Mark(p, s, "keep")
      <4>1. \A t \in Services : todo'[p][t] = IF t = s THEN "keep" ELSE todo[p][t]
        BY <3>3, MarkEffect, TypedIsShaped, SwapsAreProcs, HostAssumption, SMT
      <4>2. \A t \in Services : t # s => disk'[t] = disk[t]
        BY <3>3, HostAssumption DEF Content
      <4>3. \A t \in Services :
              /\ todo[p][t] # "written" => run[t] \in {Down, disk[t]}
              /\ todo[p][t] = "remove" => run[t] = Down
        BY <3>1 DEF Fresh, UpToDate
      <4>4. \A t \in Services :
              /\ todo'[p][t] # "written" => run'[t] \in {Down, disk'[t]}
              /\ todo'[p][t] = "remove" => run'[t] = Down
        BY <3>1, <3>2, <4>1, <4>2, <4>3, SMT
      <4>. QED  BY <3>1, <4>4, SMT DEF Fresh, UpToDate
    <3>4. CASE pc'[p] = "failed"
      BY <3>4, SMT DEF Fresh
    <3>. QED  BY <3>2, <3>3, <3>4
  <2>. QED  BY <2>1, <2>2 DEF Clean
<1>16. Reload(p) => Rests(p)' /\ Based(p)' /\ Keyed(p)' /\ Fresh(p)'
  BY SMT DEF Reload, Rests, Based, Keyed, Fresh, RollbackFailed, ToRestore, Having, Whole, UpToDate
<1>17. ASSUME AfterApply(p) PROVE Clean(p)'
  <2>1. Based(p)' /\ Keyed(p)' /\ Fresh(p)'
    BY <1>17, SMT DEF AfterApply, Based, Keyed, Fresh, RollbackFailed, ToRestore, Having, Whole, UpToDate
  <2>2. Rests(p)'
    <3>1. /\ cfg' = cfg /\ env' = env /\ disk' = disk /\ loaded' = loaded /\ run' = run
          /\ pc'[p] \in {"rbunits", "release", "restart"}
          /\ pc'[p] = "release" => pc[p] = "applied" /\ Having(p, "written") = {}
      BY <1>17, SMT DEF AfterApply
    <3>2. ASSUME pc'[p] = "release" PROVE Whole'
      <4>1. loaded = disk /\ cfg = next[p] /\ env = cfg.key
        BY <3>1, <3>2 DEF Fresh, Aimed
      <4>2. \A s \in Services : run[s] \in {Down, disk[s]}
        BY <3>1, <3>2, HostAssumption DEF Fresh, UpToDate, Having
      <4>. QED  BY <3>1, <4>1, <4>2 DEF Whole, UpToDate
    <3>. QED  BY <3>1, <3>2, SMT DEF Rests
  <2>. QED  BY <2>1, <2>2 DEF Clean
<1>18. ASSUME RestartOne(p) PROVE Clean(p)'
  <2>1. Rests(p)' /\ Based(p)' /\ Keyed(p)'
    BY <1>18, SMT DEF RestartOne, Rests, Based, Keyed, RollbackFailed, ToRestore, Having, Whole, UpToDate
  <2>2. Fresh(p)'
    <3>1. /\ pc[p] = "restart" /\ pc'[p] \in {"rbunits", "restart"} /\ disk' = disk /\ loaded' = loaded
      BY <1>18, SMT DEF RestartOne
    <3>2. PICK s \in Services :
            /\ Mark(p, s, "keep")
            /\ \/ run[s] = Down /\ run' = run
               \/ RestartOk(s)
               \/ Goto(p, "rbunits")
      <4>1. misread' # misread + 1
        BY <1>1, SMT
      <4>. QED  BY <1>18, <4>1, Zenon DEF RestartOne, RestartFails, Up
    <3>3. CASE Goto(p, "rbunits")
      BY <3>3, SMT DEF Fresh
    <3>4. CASE (run[s] = Down /\ run' = run) \/ RestartOk(s)
      <4>1. \A t \in Services : todo'[p][t] = IF t = s THEN "keep" ELSE todo[p][t]
        BY <3>2, MarkEffect, TypedIsShaped, SwapsAreProcs, HostAssumption, SMT
      <4>2. \A t \in Services : t # s => run'[t] = run[t]
        BY <3>4 DEF RestartOk, RunOf
      <4>3. run'[s] \in {Down, disk[s]}
        BY <3>1, <3>4 DEF RestartOk, RunOf, Aimed
      <4>4. \A t \in Services :
              /\ todo[p][t] # "written" => run[t] \in {Down, disk[t]}
              /\ todo[p][t] # "remove"
        BY <3>1, HostAssumption DEF Fresh, UpToDate, Aimed
      <4>5. \A t \in Services :
              /\ todo'[p][t] # "written" => run'[t] \in {Down, disk'[t]}
              /\ todo'[p][t] # "remove"
        BY <3>1, <4>1, <4>2, <4>3, <4>4, SMT
      <4>. QED  BY <3>1, <4>5, SMT DEF Fresh, UpToDate
    <3>. QED  BY <3>2, <3>3, <3>4
  <2>. QED  BY <2>1, <2>2 DEF Clean
<1>19. ASSUME RestartProven(p) PROVE Clean(p)'
  <2>1. Rests(p)' /\ Based(p)' /\ Keyed(p)'
    BY <1>19, SMT DEF RestartProven, Rests, Based, Keyed, RollbackFailed, ToRestore, Having, Whole, UpToDate
  <2>2. Fresh(p)'
    <3>1. /\ pc[p] = "restart" /\ pc'[p] \in {"rbunits", "prove"} /\ disk' = disk /\ loaded' = loaded
          /\ Having(p, "written") \cap Services = {}
      BY <1>19, SMT DEF RestartProven
    <3>2. \/ run' = run
          \/ RestartOk(Service)
          \/ Goto(p, "rbunits")
      BY <1>19, Zenon DEF RestartProven
    <3>3. CASE Goto(p, "rbunits")
      BY <3>3, SMT DEF Fresh
    <3>4. CASE run' = run \/ RestartOk(Service)
      <4>1. loaded = disk /\ \A t \in Services : run[t] \in {Down, disk[t]}
        BY <3>1, HostAssumption DEF Fresh, UpToDate, Aimed, Having
      <4>2. \A t \in Services : run'[t] \in {Down, disk[t]}
        BY <3>4, <4>1, SwapAssumption DEF RestartOk, RunOf
      <4>. QED  BY <3>1, <4>1, <4>2, SMT DEF Fresh, UpToDate
    <3>. QED  BY <3>2, <3>3, <3>4
  <2>. QED  BY <2>1, <2>2 DEF Clean
<1>20. ASSUME Prove(p) PROVE Clean(p)'
  <2>1. Based(p)' /\ Keyed(p)' /\ Fresh(p)'
    BY <1>20, SMT DEF Prove, Based, Keyed, Fresh, RollbackFailed, ToRestore, Having, Whole, UpToDate
  <2>2. Rests(p)'
    <3>1. /\ cfg' = cfg /\ env' = env /\ disk' = disk /\ loaded' = loaded /\ run' = run
          /\ pc[p] = "prove" /\ pc'[p] \in {"rbunits", "release"}
      BY <1>20, SMT DEF Prove
    <3>2. /\ loaded = disk /\ cfg = next[p] /\ env = cfg.key
          /\ \A s \in Services : run[s] \in {Down, disk[s]}
      BY <3>1 DEF Fresh, Aimed, UpToDate
    <3>3. Whole'
      BY <3>1, <3>2 DEF Whole, UpToDate
    <3>. QED  BY <3>3 DEF Rests
  <2>. QED  BY <2>1, <2>2 DEF Clean
<1>21. RollbackUnits(p) => Rests(p)' /\ Based(p)' /\ Keyed(p)' /\ Fresh(p)'
  BY SMT DEF RollbackUnits, Rests, Based, Keyed, Fresh, RollbackFailed, ToRestore, Having, Whole, UpToDate
<1>22. RollbackConfig(p) => Rests(p)' /\ Based(p)' /\ Keyed(p)' /\ Fresh(p)'
  BY SMT DEF RollbackConfig, Rests, Based, Keyed, Fresh, RollbackFailed, ToRestore, Having, Whole, UpToDate
<1>23. RollbackReload(p) => Rests(p)' /\ Based(p)' /\ Keyed(p)' /\ Fresh(p)'
  BY SMT DEF RollbackReload, Rests, Based, Keyed, Fresh, RollbackFailed, ToRestore, Having, Whole, UpToDate
<1>24. RollbackRestart(p) => Rests(p)' /\ Based(p)' /\ Keyed(p)' /\ Fresh(p)'
  BY SMT DEF RollbackRestart, Rests, Based, Keyed, Fresh, RollbackFailed, ToRestore, Having, Whole, UpToDate
<1>25. ASSUME RolledBack(p) PROVE Clean(p)'
  <2>1. Based(p)' /\ Keyed(p)' /\ Fresh(p)'
    BY <1>25, SMT DEF RolledBack, Based, Keyed, Fresh, RollbackFailed, ToRestore, Having, Whole, UpToDate
  <2>2. Rests(p)'
    <3>1. /\ cfg' = cfg /\ env' = env /\ disk' = disk /\ loaded' = loaded /\ run' = run
          /\ pc[p] = "rbrestart" /\ out[p] # "incomplete" /\ \A u \in Units : todo[p][u] # "written"
      BY <1>25, SMT DEF RolledBack, Having
    <3>2. /\ ToRestore(p) = {} /\ cfg = prior[p] /\ loaded = disk
          /\ \A s \in restarted[p] : run[s] = disk[s]
      BY <3>1, HostAssumption, SMT DEF Undone
    <3>3. \A u \in Units : captured[p][u] # None => disk[u] = captured[p][u]
      BY <3>2, SMT DEF ToRestore
    <3>4. \A s \in Services : s \in restarted[p] \/ run[s] = base[p][s]
      BY <3>1, SMT
    <3>5. \A s \in Services : base[p][s] # Down =>
            base[p][s] = captured[p][s] /\ captured[p][s] # None
      BY <3>1, HostAssumption, SMT DEF Based, RunOf
    <3>6. \A s \in Services : run[s] \in {Down, disk[s]}
      BY <3>2, <3>3, <3>4, <3>5, HostAssumption, SMT
    <3>7. prior[p].key \in {NoKey, env}
      BY <3>1 DEF Keyed
    <3>8. Whole'
      BY <3>1, <3>2, <3>6, <3>7 DEF Whole, UpToDate
    <3>. QED  BY <3>8 DEF Rests
  <2>. QED  BY <2>1, <2>2 DEF Clean
<1>. HIDE DEF Clean
<1>. QED  BY <1>2, <1>3, <1>4, <1>5, <1>6, <1>7, <1>8, <1>9, <1>10, <1>11, <1>12, <1>13, <1>14, <1>15, <1>16, <1>17, <1>18, <1>19, <1>20, <1>21, <1>22, <1>23, <1>24, <1>25, StepCases, TypedIsShaped, SwapsAreProcs DEF Clean

----------------------------------------------------------------------------
(* The start, the other invocations, and the deaths                         *)

LEMMA InitHonest == Init => Honest
<1>. SUFFICES ASSUME Init PROVE Honest
  OBVIOUS
<1>1. disk[Service] \in Texts
  <2>1. PICK c \in Configs, old \in Configs, stray \in SUBSET (Registry \ {Service}) :
          disk = [u \in Units |-> IF u \in stray THEN Rendered[old][u] ELSE Rendered[c][u]]
    BY DEF Init
  <2>. QED  BY <2>1, HostAssumption, SwapAssumption, SMT
<1>2. Whole
  BY DEF Init, Whole, UpToDate
<1>3. ASSUME NEW p \in Swaps PROVE pc[p] = "idle" /\ out[p] = "none"
  BY SwapAssumption DEF Init, Swaps
<1>4. ASSUME NEW p \in Swaps PROVE Track(p)
  BY <1>3 DEF Track, Told, Aimed, Proven, Found, Switched, Undone, Back, BeforeSave, InApply, InRollback,
              InFlightPlaces
<1>5. ASSUME NEW p \in Swaps PROVE Clean(p)
  BY <1>3 DEF Clean, Rests, Based, Keyed, Fresh, BeforeSave, InApply, InRollback, InFlightPlaces
<1>. QED  BY <1>1, <1>2, <1>4, <1>5 DEF Honest, Course

\* What is written to the proven service's unit is a text.
LEMMA DiskText ==
  ASSUME TypeOK, NEW p \in Swaps, Track(p), Step(p), disk[Service] \in Texts
  PROVE  disk'[Service] \in Texts
<1>1. /\ disk \in Content /\ Service \in Units /\ next[p].id \in Configs /\ cfg.id \in Configs
      /\ captured[p] \in Content
  BY HostAssumption, SwapAssumption DEF TypeOK, HostType, LocalType, Swaps, Config
<1>2. disk' = disk => disk'[Service] \in Texts
  OBVIOUS
<1>3. ASSUME WriteUnit(p) PROVE disk'[Service] \in Texts
  <2>1. PICK u \in Units : disk' = disk \/ disk' = [disk EXCEPT ![u] = Rendered[next[p].id][u]]
    BY <1>3, Zenon DEF WriteUnit, Having
  <2>2. Rendered[next[p].id][Service] \in Texts
    BY <1>1, HostAssumption, SwapAssumption
  <2>. QED  BY <1>1, <2>1, <2>2 DEF Content
<1>4. ASSUME RemoveUnit(p) PROVE disk'[Service] \in Texts
  <2>1. PICK u \in Units : todo[p][u] = "remove" /\ (disk' = disk \/ disk' = [disk EXCEPT ![u] = None])
    BY <1>4, Zenon DEF RemoveUnit, Having
  <2>2. u # Service
    BY <1>4, <2>1, ServiceRendered DEF RemoveUnit, Track, Aimed
  <2>. QED  BY <1>1, <2>1, <2>2 DEF Content
<1>5. ASSUME RollbackUnits(p) PROVE disk'[Service] \in Texts
  <2>1. PICK u \in Units : \/ disk' = disk
                           \/ captured[p][u] # None /\ disk' = [disk EXCEPT ![u] = captured[p][u]]
    BY <1>5, HostAssumption, SwapAssumption, SMT DEF RollbackUnits, ToRestore
  <2>. QED  BY <1>1, <2>1 DEF Content
<1>6. /\ Acquire(p) \/ TrySwapMu(p) \/ TryAcquire(p) \/ Release(p) => disk' = disk
      /\ Load(p) \/ Change(p) \/ Capture(p) \/ SaveNext(p) \/ HealKey(p) \/ HealEnv(p) => disk' = disk
      /\ PlanApply(p) \/ StopOrphan(p) \/ Reload(p) \/ AfterApply(p) => disk' = disk
      /\ RestartOne(p) \/ RestartProven(p) \/ Prove(p) => disk' = disk
      /\ RollbackConfig(p) \/ RollbackReload(p) \/ RollbackRestart(p) \/ RolledBack(p) => disk' = disk
  BY DEF host, Acquire, TrySwapMu, TryAcquire, Release, Load, Change, Capture, SaveNext, HealKey, HealEnv,
         PlanApply, StopOrphan, Reload, AfterApply, RestartOne, RestartProven, Prove,
         RollbackConfig, RollbackReload, RollbackRestart, RolledBack
<1>. QED  BY <1>2, <1>3, <1>4, <1>5, <1>6, StepCases, TypedIsShaped, SwapsAreProcs

\* An incomplete rollback stays one.
LEMMA IncompleteStays ==
  ASSUME TypeOK, NEW p \in Swaps, Told(p), Step(p), out[p] = "incomplete"
  PROVE  out'[p] = "incomplete"
<1>0. DOMAIN out = Procs /\ p \in Procs
  BY SwapAssumption DEF TypeOK, ControlType, Swaps
<1>1. pc[p] \in {"release", "done"} \cup InRollback
  BY DEF Told
<1>. USE <1>0, <1>1 DEF InRollback, Return, RollbackFailed, host, locals
<1>2. Acquire(p) \/ TrySwapMu(p) \/ TryAcquire(p) \/ Release(p) => out'[p] = "incomplete"
  BY DEF Acquire, TrySwapMu, TryAcquire, Release
<1>3. Load(p) \/ Change(p) \/ Capture(p) \/ SaveNext(p) \/ HealKey(p) \/ HealEnv(p) => out'[p] = "incomplete"
  BY DEF Load, Change, Capture, SaveNext, HealKey, HealEnv
<1>4. PlanApply(p) \/ StopOrphan(p) \/ WriteUnit(p) \/ RemoveUnit(p) \/ Reload(p) => out'[p] = "incomplete"
  BY DEF PlanApply, StopOrphan, WriteUnit, RemoveUnit, Reload
<1>5. AfterApply(p) \/ RestartOne(p) \/ RestartProven(p) \/ Prove(p) => out'[p] = "incomplete"
  BY DEF AfterApply, RestartOne, RestartProven, Prove
<1>6. RollbackUnits(p) \/ RollbackConfig(p) \/ RollbackReload(p) => out'[p] = "incomplete"
  BY DEF RollbackUnits, RollbackConfig, RollbackReload
<1>7. RollbackRestart(p) \/ RolledBack(p) => out'[p] = "incomplete"
  BY DEF RollbackRestart, RolledBack
<1>. QED  BY <1>2, <1>3, <1>4, <1>5, <1>6, <1>7, StepCases, TypedIsShaped, SwapsAreProcs

\* A history is sound only if it was before the step.
LEMMA SoundBack ==
  ASSUME TypeOK, NEW p \in Swaps, Told(p), Step(p), Sound'
  PROVE  Sound /\ out'[p] # "incomplete" /\ misread' = 0
<1>1. crashes' = crashes /\ (misread' = 0 => misread = 0)
  <2>1. misread \in Nat /\ faults \in Nat
    BY HostAssumption, SMT DEF TypeOK, ControlType
  <2>2. ~Release(p) => crashes' = crashes /\ (misread' = misread \/ misread' = misread + 1)
    BY StepMoves, TypedIsShaped, SwapsAreProcs DEF Moves
  <2>3. Release(p) => crashes' = crashes /\ misread' = misread
    BY DEF Release
  <2>. QED  BY <2>1, <2>2, <2>3, SMT
<1>2. out[p] = "incomplete" => out'[p] = "incomplete"
  BY IncompleteStays
<1>3. \A q \in Swaps \ {p} : out'[q] = out[q]
  BY StepFrame, TypedIsShaped, SwapsAreProcs
<1>. QED  BY <1>1, <1>2, <1>3 DEF Sound

\* Nothing of an invocation's course depends on more than its own locals and the host.
LEMMA UntouchedCourse ==
  ASSUME NEW q \in Swaps, UNCHANGED host,
         pc'[q] = pc[q], prior'[q] = prior[q], next'[q] = next[q], base'[q] = base[q], todo'[q] = todo[q],
         restarted'[q] = restarted[q], captured'[q] = captured[q], out'[q] = out[q]
  PROVE  (Track(q) => Track(q)') /\ (Clean(q) => Clean(q)')
<1>. USE DEF host, InFlightPlaces, BeforeSave, InApply, InRollback
<1>1. Told(q) => Told(q)'
  BY DEF Told
<1>2. Aimed(q) => Aimed(q)'
  BY DEF Aimed, AsRendered, Text, Having
<1>3. (Proven(q) => Proven(q)') /\ (Found(q) => Found(q)')
  BY DEF Proven, Found
<1>4. (Switched(q) => Switched(q)') /\ (Back(q) => Back(q)')
  BY DEF Switched, Back, AsRendered, Text
<1>5. Undone(q) => Undone(q)'
  BY DEF Undone, ToRestore
<1>6. Clean(q) => Clean(q)'
  BY DEF Clean, Rests, Based, Keyed, Fresh, Whole, UpToDate
<1>. QED  BY <1>1, <1>2, <1>3, <1>4, <1>5, <1>6 DEF Track

\* Outside its window an invocation promises nothing.
LEMMA OutsideCourse ==
  ASSUME NEW q \in Swaps
  PROVE  /\ pc[q] \notin Critical /\ Told(q) => Track(q) /\ Clean(q)
         /\ (pc[q] \notin Critical /\ Told(q) => Track(q) /\ Clean(q))'
<1>. USE DEF Critical, InFlightPlaces, BeforeSave, InApply, InRollback
<1>1. /\ pc[q] \notin Critical => Clean(q)
      /\ (pc[q] \notin Critical => Clean(q))'
  BY DEF Clean, Rests, Based, Keyed, Fresh
<1>2. /\ pc[q] \notin Critical => Aimed(q) /\ Proven(q) /\ Found(q) /\ Switched(q) /\ Undone(q) /\ Back(q)
      /\ (pc[q] \notin Critical => Aimed(q) /\ Proven(q) /\ Found(q) /\ Switched(q) /\ Undone(q) /\ Back(q))'
  BY DEF Aimed, Proven, Found, Switched, Undone, Back
<1>. QED  BY <1>1, <1>2 DEF Track

HonestInv == IInv /\ Honest

LEMMA OwnHonest ==
  ASSUME TypeOK, Exclusive, Honest, NEW p \in Swaps, Window(p), Step(p)
  PROVE  /\ Course(p)' /\ disk'[Service] \in Texts
         /\ Sound' => Sound
<1>1. Track(p) /\ disk[Service] \in Texts /\ (Sound => Clean(p)) /\ (lock = Free /\ Sound => Whole)
  BY DEF Honest, Course
<1>2. Told(p)
  BY <1>1 DEF Track
<1>3. Sound' => Sound /\ out'[p] # "incomplete" /\ misread' = 0
  BY <1>2, SoundBack
<1>4. Track(p)' /\ disk'[Service] \in Texts
  BY <1>1, OwnTrack, DiskText
<1>5. Sound' => Clean(p)'
  BY <1>1, <1>3, OwnClean
<1>. QED  BY <1>3, <1>4, <1>5 DEF Course

LEMMA OthersHonest ==
  ASSUME TypeOK, Exclusive, NEW p \in Swaps, Step(p), NEW q \in Swaps \ {p}, Course(q), Sound' => Sound
  PROVE  Course(q)'
<1>1. /\ pc'[q] = pc[q] /\ prior'[q] = prior[q] /\ next'[q] = next[q] /\ base'[q] = base[q]
      /\ todo'[q] = todo[q] /\ restarted'[q] = restarted[q]
      /\ captured'[q] = captured[q] /\ out'[q] = out[q]
  BY StepFrame, TypedIsShaped, SwapsAreProcs
<1>2. CASE pc[q] \in Critical
  <2>1. ~InsideStep(p)
    BY <1>2, InsideStepKeepsTheLock, TypedIsShaped, SwapsAreProcs DEF Exclusive
  <2>2. UNCHANGED host
    BY <2>1, StepKinds, TypedIsShaped, SwapsAreProcs DEF Acquire, TrySwapMu, TryAcquire, Release
  <2>. QED  BY <1>1, <2>2, UntouchedCourse DEF Course
<1>3. CASE pc[q] \notin Critical
  <2>1. (pc[q] \notin Critical /\ Told(q))'
    BY <1>1, <1>3 DEF Course, Track, Told
  <2>2. (pc[q] \notin Critical /\ Told(q) => Track(q) /\ Clean(q))'
    BY OutsideCourse
  <2>. QED  BY <2>1, <2>2 DEF Course
<1>. QED  BY <1>2, <1>3

\* The lock is free again only when its holder has returned.
LEMMA FreeIsWhole ==
  ASSUME TypeOK, Exclusive, Honest, NEW p \in Swaps, Step(p), Sound, lock' = Free
  PROVE  Whole'
<1>0. Free \notin Swaps
  BY HostAssumption, SwapAssumption DEF Swaps
<1>1. ~InsideStep(p) \/ lock = p
  BY InsideStepKeepsTheLock, TypedIsShaped, SwapsAreProcs DEF Exclusive
<1>2. UNCHANGED host /\ (lock = Free \/ (lock = p /\ pc[p] = "release"))
  <2>1. Acquire(p) \/ TrySwapMu(p) \/ TryAcquire(p) => UNCHANGED host /\ lock = Free
    BY <1>0 DEF Acquire, TrySwapMu, TryAcquire
  <2>2. Release(p) => UNCHANGED host /\ (lock = Free \/ (lock = p /\ pc[p] = "release"))
    BY <1>0 DEF Release, Forget
  <2>3. ~InsideStep(p)
    BY <1>0, InsideStepKeepsTheLock, TypedIsShaped, SwapsAreProcs DEF Exclusive
  <2>. QED  BY <2>1, <2>2, <2>3, StepKinds, TypedIsShaped, SwapsAreProcs
<1>3. Whole
  BY <1>2 DEF Honest, Course, Clean, Rests
<1>. QED  BY <1>2, <1>3 DEF Whole, UpToDate, host

LEMMA NextHonest == HonestInv /\ [Next]_vars => HonestInv'
<1>. SUFFICES ASSUME HonestInv, [Next]_vars PROVE HonestInv'
  OBVIOUS
<1>. USE DEF HonestInv
<1>0. IInv'
  BY NextWindow
<1>1. ASSUME NEW p \in Swaps, Step(p) PROVE Honest'
  <2>1. TypeOK /\ Exclusive /\ Window(p) /\ \A q \in Swaps : Course(q)
    BY DEF IInv, Honest
  <2>2. Course(p)' /\ disk'[Service] \in Texts /\ (Sound' => Sound)
    BY <1>1, <2>1, OwnHonest
  <2>3. \A q \in Swaps \ {p} : Course(q)'
    BY <1>1, <2>1, <2>2, OthersHonest
  <2>4. lock' = Free /\ Sound' => Whole'
    BY <1>1, <2>1, <2>2, FreeIsWhole
  <2>. QED  BY <2>2, <2>3, <2>4 DEF Honest
<1>2. ASSUME Crash PROVE Honest'
  <2>1. ~Sound'
    BY <1>2, SMT DEF Crash, Sound, IInv, TypeOK, ControlType
  <2>2. PICK live \in SUBSET Swaps :
          Forget(live) /\ out' = [p \in Procs |-> IF p \in live THEN "crashed" ELSE out[p]]
    BY <1>2 DEF Crash, Swaps
  <2>3. UNCHANGED host
    BY <1>2 DEF Crash
  <2>4. ASSUME NEW q \in live PROVE Track(q)'
    <3>1. (pc[q] \notin Critical /\ Told(q))'
      BY <2>2, SwapAssumption
      DEF Forget, Swaps, Told, Critical, BeforeSave, InApply, InRollback
    <3>2. (pc[q] \notin Critical /\ Told(q) => Track(q) /\ Clean(q))'
      BY OutsideCourse
    <3>. QED  BY <3>1, <3>2
  <2>5. ASSUME NEW q \in Swaps \ live PROVE Track(q)'
    <3>1. /\ pc'[q] = pc[q] /\ prior'[q] = prior[q] /\ next'[q] = next[q] /\ base'[q] = base[q]
          /\ todo'[q] = todo[q] /\ restarted'[q] = restarted[q]
          /\ captured'[q] = captured[q] /\ out'[q] = out[q]
      BY <2>2, SwapAssumption DEF Forget, Swaps
    <3>. QED  BY <2>3, <3>1, UntouchedCourse DEF Honest, Course
  <2>. QED  BY <2>1, <2>3, <2>4, <2>5 DEF Honest, Course, host
<1>3. ASSUME UNCHANGED vars PROVE Honest'
  <2>1. \A q \in Swaps : Track(q)' /\ (Clean(q) => Clean(q)')
    BY <1>3, UntouchedCourse DEF vars, locals, Honest, Course
  <2>2. Sound' <=> Sound
    BY <1>3 DEF Sound, vars, locals
  <2>. QED  BY <1>3, <2>1, <2>2 DEF Honest, Course, Whole, UpToDate, vars, host
<1>. QED  BY <1>0, <1>1, <1>2, <1>3 DEF Next, Finished

LEMMA HonestHolds == Spec => []HonestInv
<1>1. Init => HonestInv
  BY InitWindow, InitHonest DEF HonestInv
<1>. QED  BY <1>1, NextHonest, PTL DEF Spec

\* transact.go: "switched" means the whole target is applied and served, "rolled back"
\* that config, units and services are back, and what a sound swap leaves to the next
\* one is whole.
THEOREM OutcomesHold == Spec => []OutcomesAreHonest
<1>1. HonestInv => OutcomesAreHonest
  <2>. SUFFICES ASSUME HonestInv PROVE OutcomesAreHonest
    OBVIOUS
  <2>1. SwitchedIsApplied
    BY HostAssumption DEF HonestInv, Honest, Course, Track, Switched, SwitchedIsApplied, AsRendered, Text
  <2>2. RollbackIsHonest
    BY DEF HonestInv, Honest, Course, Track, Back, RollbackIsHonest
  <2>3. RunsWhatIsOnDisk
    BY DEF HonestInv, Honest, Whole, UpToDate, RunsWhatIsOnDisk
  <2>. QED  BY <2>1, <2>2, <2>3 DEF OutcomesAreHonest
<1>. QED  BY <1>1, HonestHolds, PTL

----------------------------------------------------------------------------
(* The refinement of AtomicSwap                                             *)

ConfigSeen  == IF InFlight = {} THEN cfg.id ELSE prior[lock].id
UnitSeen    == IF InFlight = {} THEN disk[Service] ELSE captured[lock][Service]
ServingSeen == IF InFlight = {} THEN run[Service] ELSE base[lock][Service]
Seen == <<ConfigSeen, UnitSeen, ServingSeen>>

LEMMA FlightHasTheLock ==
  ASSUME Exclusive
  PROVE  /\ \A p \in InFlight : lock = p /\ p \in Swaps /\ pc[p] \in InFlightPlaces
         /\ \A p \in Swaps : pc[p] \in Critical \ InFlightPlaces => InFlight = {}
         /\ lock \notin InFlight => InFlight = {}
<1>1. \A p \in InFlight : lock = p /\ p \in Swaps /\ pc[p] \in InFlightPlaces
  BY DEF Exclusive, InFlight, InFlightPlaces, Critical, BeforeSave
<1>2. \A p \in Swaps : pc[p] \in Critical => lock = p
  BY DEF Exclusive
<1>. QED  BY <1>1, <1>2

\* What an observer sees has its type, in flight or not.
LEMMA SeenType ==
  ASSUME HonestInv
  PROVE  ConfigSeen \in Configs /\ UnitSeen \in Texts /\ ServingSeen \in Texts \cup {Down}
<1>1. /\ cfg.id \in Configs /\ disk[Service] \in Texts /\ run[Service] \in Texts \cup {Down}
  BY SwapAssumption DEF HonestInv, Honest, IInv, TypeOK, HostType, Config, RunOf
<1>2. ASSUME InFlight # {}
      PROVE  /\ prior[lock].id \in Configs /\ captured[lock][Service] \in Texts
             /\ base[lock][Service] \in Texts \cup {Down}
  <2>1. lock \in Swaps /\ lock \in Procs /\ pc[lock] \in InFlightPlaces
    BY <1>2, FlightHasTheLock, SwapAssumption DEF HonestInv, IInv, Swaps
  <2>2. captured[lock][Service] \in Texts
    BY <2>1 DEF HonestInv, Honest, Course, Track, Found
  <2>. QED  BY <2>1, <2>2, SwapAssumption DEF HonestInv, IInv, TypeOK, LocalType, Config, RunOf
<1>. QED  BY <1>1, <1>2 DEF ConfigSeen, UnitSeen, ServingSeen

\* Doubt is never taken back.
LEMMA DoubtStays ==
  ASSUME TypeOK, NEW p \in Swaps, Told(p), Step(p), Doubt
  PROVE  Doubt'
<1>1. crashes' = crashes
  BY StepMoves, TypedIsShaped, SwapsAreProcs DEF Moves, Release
<1>2. out[p] = "incomplete" => out'[p] = "incomplete"
  BY IncompleteStays
<1>3. \A q \in Swaps \ {p} : out'[q] = out[q]
  BY StepFrame, TypedIsShaped, SwapsAreProcs
<1>. QED  BY <1>1, <1>2, <1>3 DEF Doubt

\* A step of an invocation that is not in flight before or after it is not seen.
LEMMA OutsideUnseen ==
  ASSUME HonestInv, NEW p \in Swaps, Step(p), p \notin InFlight, pc'[p] \notin InFlightPlaces
  PROVE  UNCHANGED Seen
<1>0. TypeOK /\ Exclusive /\ Free \notin Swaps
  BY HostAssumption, SwapAssumption DEF HonestInv, IInv, Swaps
<1>1. \A q \in Swaps \ {p} : /\ pc'[q] = pc[q] /\ prior'[q] = prior[q] /\ base'[q] = base[q]
                             /\ captured'[q] = captured[q]
  BY <1>0, StepFrame, TypedIsShaped, SwapsAreProcs
<1>2. InFlight' = InFlight
  BY <1>1 DEF InFlight, InFlightPlaces
<1>3. UNCHANGED host
  <2>1. pc[p] \notin InFlightPlaces
    BY DEF InFlight, InFlightPlaces
  <2>. USE <2>1 DEF InFlightPlaces, InApply, InRollback, host, locals
  <2>2. Acquire(p) \/ TrySwapMu(p) \/ TryAcquire(p) \/ Release(p) => UNCHANGED host
    BY DEF Acquire, TrySwapMu, TryAcquire, Release
  <2>3. Load(p) \/ Change(p) \/ Capture(p) \/ SaveNext(p) \/ HealKey(p) \/ HealEnv(p) => UNCHANGED host
    BY DEF Load, Change, Capture, SaveNext, HealKey, HealEnv
  <2>4. PlanApply(p) \/ StopOrphan(p) \/ WriteUnit(p) \/ RemoveUnit(p) \/ Reload(p) => UNCHANGED host
    BY DEF PlanApply, StopOrphan, WriteUnit, RemoveUnit, Reload
  <2>5. AfterApply(p) \/ RestartOne(p) \/ RestartProven(p) \/ Prove(p) => UNCHANGED host
    BY DEF AfterApply, RestartOne, RestartProven, Prove
  <2>6. RollbackUnits(p) \/ RollbackConfig(p) \/ RollbackReload(p) => UNCHANGED host
    BY DEF RollbackUnits, RollbackConfig, RollbackReload
  <2>7. RollbackRestart(p) \/ RolledBack(p) => UNCHANGED host
    BY DEF RollbackRestart, RolledBack
  <2>. QED  BY <2>2, <2>3, <2>4, <2>5, <2>6, <2>7, StepCases, TypedIsShaped, SwapsAreProcs
<1>4. CASE InFlight = {}
  BY <1>2, <1>3, <1>4 DEF Seen, ConfigSeen, UnitSeen, ServingSeen, host
<1>5. CASE InFlight # {}
  <2>1. lock \in Swaps \ {p} /\ lock \in InFlight
    BY <1>0, <1>5, FlightHasTheLock
  <2>2. lock' = lock
    <3>1. ~InsideStep(p)
      BY <1>0, <2>1, InsideStepKeepsTheLock, TypedIsShaped, SwapsAreProcs DEF Exclusive
    <3>. QED  BY <1>0, <2>1, <3>1, StepKinds, TypedIsShaped, SwapsAreProcs
         DEF Acquire, TrySwapMu, TryAcquire, Release, Forget, LockFree
  <2>. QED  BY <1>1, <1>2, <1>5, <2>1, <2>2 DEF Seen, ConfigSeen, UnitSeen, ServingSeen
<1>. QED  BY <1>4, <1>5

\* A capture takes the host as it is.
LEMMA CaptureUnseen ==
  ASSUME HonestInv, NEW p \in Swaps, Step(p), p \notin InFlight, pc'[p] \in InFlightPlaces
  PROVE  UNCHANGED Seen
<1>0. TypeOK /\ Exclusive /\ Window(p) /\ Track(p) /\ Service \in Services /\ p \in Procs /\ DOMAIN pc = Procs
  BY SwapAssumption DEF HonestInv, IInv, Honest, Course, Swaps, TypeOK, ControlType
<1>1. Capture(p)
  <2>1. pc[p] \notin InFlightPlaces
    BY DEF InFlight, InFlightPlaces
  <2>. USE <1>0, <2>1 DEF InFlightPlaces, InApply, InRollback, Goto, Return, host, locals
  <2>2. ~(Acquire(p) \/ TrySwapMu(p) \/ TryAcquire(p) \/ Release(p))
    BY DEF Acquire, TrySwapMu, TryAcquire, Release, Forget
  <2>3. ~(Load(p) \/ Change(p) \/ SaveNext(p) \/ HealKey(p) \/ HealEnv(p))
    BY DEF Load, Change, SaveNext, HealKey, HealEnv
  <2>4. ~(PlanApply(p) \/ StopOrphan(p) \/ WriteUnit(p) \/ RemoveUnit(p) \/ Reload(p))
    BY DEF PlanApply, StopOrphan, WriteUnit, RemoveUnit, Reload
  <2>5. ~(AfterApply(p) \/ RestartOne(p) \/ RestartProven(p) \/ Prove(p))
    BY DEF AfterApply, RestartOne, RestartProven, Prove
  <2>6. ~(RollbackUnits(p) \/ RollbackConfig(p) \/ RollbackReload(p))
    BY DEF RollbackUnits, RollbackConfig, RollbackReload
  <2>7. ~(RollbackRestart(p) \/ RolledBack(p))
    BY DEF RollbackRestart, RolledBack
  <2>. HIDE DEF InFlightPlaces
  <2>. QED  BY <2>2, <2>3, <2>4, <2>5, <2>6, <2>7, StepCases, TypedIsShaped, SwapsAreProcs
<1>2. /\ pc[p] = "capture" /\ pc'[p] = "save" /\ lock' = lock
      /\ prior' = prior /\ base' = base /\ UNCHANGED host
  BY <1>0, <1>1 DEF Capture, Return, Goto, InFlightPlaces, InApply, InRollback
<1>3. captured'[p] = disk
  BY <1>0, <1>1, <1>2, CaptureAll
<1>4. cfg = prior[p] /\ run[Service] = base[p][Service]
  BY <1>0, <1>2 DEF Window, Config_, Touched, Track, Proven, Working, Critical, BeforeSave
<1>5. lock = p /\ InFlight = {}
  BY <1>0, <1>2, FlightHasTheLock DEF Exclusive, Critical, BeforeSave, InFlightPlaces, InApply, InRollback
<1>6. InFlight' # {}
  BY <1>2 DEF InFlight
<1>. QED  BY <1>2, <1>3, <1>4, <1>5, <1>6 DEF Seen, ConfigSeen, UnitSeen, ServingSeen

LEMMA FlightUnseen ==
  ASSUME HonestInv, NEW p \in Swaps, Step(p), p \in InFlight, pc'[p] \in InFlightPlaces
  PROVE  UNCHANGED Seen
<1>0. TypeOK /\ Exclusive /\ p \in Procs /\ DOMAIN pc = Procs
  BY SwapAssumption DEF HonestInv, IInv, Swaps, TypeOK, ControlType
<1>1. lock = p /\ pc[p] \in InFlightPlaces
  BY <1>0, FlightHasTheLock
<1>2. lock' = lock
  BY <1>0, <1>1, InsideStepKeepsTheLock, StepKinds, TypedIsShaped, SwapsAreProcs
  DEF Acquire, TrySwapMu, TryAcquire, Release, InFlightPlaces, InApply, InRollback
<1>3. prior' = prior /\ base' = base /\ captured' = captured
  <2>. USE <1>1 DEF InFlightPlaces, InApply, InRollback, host, locals
  <2>2. ~(Acquire(p) \/ TrySwapMu(p) \/ TryAcquire(p) \/ Release(p) \/ Load(p) \/ Change(p) \/ Capture(p))
    BY DEF Acquire, TrySwapMu, TryAcquire, Release, Load, Change, Capture
  <2>3. SaveNext(p) \/ HealKey(p) \/ HealEnv(p) => prior' = prior /\ base' = base /\ captured' = captured
    BY DEF SaveNext, HealKey, HealEnv
  <2>4. PlanApply(p) \/ StopOrphan(p) \/ WriteUnit(p) \/ RemoveUnit(p) \/ Reload(p)
          => prior' = prior /\ base' = base /\ captured' = captured
    BY DEF PlanApply, StopOrphan, WriteUnit, RemoveUnit, Reload
  <2>5. AfterApply(p) \/ RestartOne(p) \/ RestartProven(p) \/ Prove(p)
          => prior' = prior /\ base' = base /\ captured' = captured
    BY DEF AfterApply, RestartOne, RestartProven, Prove
  <2>6. RollbackUnits(p) \/ RollbackConfig(p) \/ RollbackReload(p) \/ RollbackRestart(p) \/ RolledBack(p)
          => prior' = prior /\ base' = base /\ captured' = captured
    BY DEF RollbackUnits, RollbackConfig, RollbackReload, RollbackRestart, RolledBack
  <2>. HIDE DEF InFlightPlaces
  <2>. QED  BY <2>2, <2>3, <2>4, <2>5, <2>6, StepCases, TypedIsShaped, SwapsAreProcs
<1>4. InFlight # {} /\ InFlight' # {}
  BY DEF InFlight, InFlightPlaces
<1>. QED  BY <1>1, <1>2, <1>3, <1>4 DEF Seen, ConfigSeen, UnitSeen, ServingSeen

LEMMA Unseen ==
  ASSUME UNCHANGED Seen, Doubt' = Doubt
  PROVE  UNCHANGED Atomic!vars
  BY DEF Seen, ConfigSeen, UnitSeen, ServingSeen, Atomic!vars

\* The doubtful case: anything may be seen.
LEMMA LapseSeen ==
  ASSUME HonestInv', Doubt'
  PROVE  Atomic!Next
<1>1. (HonestInv => ConfigSeen \in Configs /\ UnitSeen \in Texts /\ ServingSeen \in Texts \cup {Down})'
  BY SeenType, PTL
<1>. QED  BY <1>1 DEF ConfigSeen, UnitSeen, ServingSeen, Atomic!Next, Atomic!Lapse

\* A flight ends in a switch, in nothing, or with the proven service started again.
LEMMA FlightEnds ==
  ASSUME HonestInv, HonestInv', NEW p \in Swaps, Step(p), p \in InFlight, pc'[p] \notin InFlightPlaces,
         Doubt' = Doubt, ~Doubt
  PROVE  Atomic!Next \/ UNCHANGED Atomic!vars
<1>0. TypeOK /\ Exclusive /\ Window(p) /\ Track(p) /\ Service \in Services /\ p \in Procs
      /\ DOMAIN pc = Procs /\ DOMAIN out = Procs /\ Service \in Units
  BY HostAssumption, SwapAssumption DEF HonestInv, IInv, Honest, Course, Swaps, TypeOK, ControlType
<1>1. lock = p /\ pc[p] \in InFlightPlaces /\ out'[p] # "incomplete"
  BY <1>0, FlightHasTheLock DEF Doubt
<1>2. Track(p)' /\ cfg'.id \in Configs
  BY DEF HonestInv, IInv, Honest, Course, TypeOK, HostType, Config
<1>3. InFlight # {} /\ InFlight' = {}
  <2>1. \A q \in Swaps \ {p} : pc'[q] = pc[q]
    BY <1>0, StepFrame, TypedIsShaped, SwapsAreProcs
  <2>2. \A q \in Swaps \ {p} : q \notin InFlight
    BY <1>0, <1>1, FlightHasTheLock
  <2>. QED  BY <2>1, <2>2 DEF InFlight, InFlightPlaces
<1>4. ASSUME AfterApply(p) PROVE Atomic!Next
  <2>1. /\ pc[p] = "applied" /\ Having(p, "written") = {} /\ UNCHANGED host
    BY <1>0, <1>4, SMT DEF AfterApply, Goto, InFlightPlaces, InApply, InRollback
  <2>2. cfg = next[p] /\ AsRendered(next[p].id, Service) /\ disk[Service] = captured[p][Service]
    BY <1>0, <2>1 DEF Track, Aimed, Found, Having
  <2>3. run[Service] = base[p][Service]
    BY <1>0, <2>1 DEF Track, Proven, Window, Touched, Working, Critical, InRollback
  <2>4. Rendered[cfg.id][Service] = disk[Service]
    BY <1>0, <2>2, ServiceRendered DEF AsRendered, Text
  <2>. QED  BY <1>1, <1>2, <1>3, <2>1, <2>2, <2>3, <2>4 DEF Atomic!Next, Atomic!Adopt, host
<1>5. ASSUME Prove(p) PROVE Atomic!Next
  <2>1. /\ out' = [out EXCEPT ![p] = "switched"] /\ pc'[p] = "release"
        /\ disk' = disk /\ run' = run /\ cfg' = cfg
    BY <1>0, <1>5, SMT DEF Prove, Return, Goto, host, InFlightPlaces, InRollback
  <2>2. /\ \A u \in Units : AsRendered(cfg.id, u)'
        /\ run'[Service] = Rendered[cfg'.id][Service]
    BY <1>0, <1>2, <2>1 DEF Track, Switched
  <2>3. disk'[Service] = Rendered[cfg'.id][Service]
    BY <1>0, <1>2, <2>2, SwapAssumption DEF AsRendered, Text
  <2>. QED  BY <1>1, <1>2, <1>3, <2>2, <2>3 DEF Atomic!Next, Atomic!Switch
<1>6. ASSUME RolledBack(p) PROVE Atomic!Next \/ UNCHANGED Atomic!vars
  <2>1. /\ out'[p] = "rolledback" /\ pc'[p] = "release"
        /\ prior' = prior /\ base' = base /\ captured' = captured
    BY <1>0, <1>1, <1>6, SMT DEF RolledBack, Return, Goto
  <2>2. cfg' = prior[p] /\ run'[Service] \in {base[p][Service], disk'[Service]}
    BY <1>0, <1>2, <2>1 DEF Track, Back
  <2>3. captured[p][Service] # None => disk'[Service] = captured[p][Service]
    BY <1>0, <1>2, <2>1 DEF Track, Back
  <2>4. disk'[Service] = captured[p][Service]
    BY <1>0, <1>1, <2>3, HostAssumption DEF Track, Found
  <2>5. CASE run'[Service] = base[p][Service]
    <3>1. UNCHANGED Seen
      BY <1>1, <1>3, <2>2, <2>4, <2>5 DEF Seen, ConfigSeen, UnitSeen, ServingSeen
    <3>. QED  BY <3>1, Unseen
  <2>6. CASE run'[Service] = disk'[Service]
    BY <1>1, <1>3, <2>2, <2>4, <2>6 DEF Atomic!Next, Atomic!Undo
  <2>. QED  BY <2>2, <2>5, <2>6
<1>7. AfterApply(p) \/ Prove(p) \/ RolledBack(p)
  <2>. USE <1>0, <1>1 DEF InFlightPlaces, InApply, InRollback, Goto, Return, host, locals
  <2>1. ~(Acquire(p) \/ TrySwapMu(p) \/ TryAcquire(p) \/ Release(p) \/ Load(p) \/ Change(p) \/ Capture(p))
    BY DEF Acquire, TrySwapMu, TryAcquire, Release, Load, Change, Capture
  <2>2. ~(SaveNext(p) \/ HealKey(p) \/ HealEnv(p))
    BY DEF SaveNext, HealKey, HealEnv
  <2>3. ~PlanApply(p)
    BY DEF PlanApply
  <2>4. ~(StopOrphan(p) \/ WriteUnit(p) \/ RemoveUnit(p) \/ Reload(p))
    BY DEF StopOrphan, WriteUnit, RemoveUnit, Reload
  <2>5. ~(RestartOne(p) \/ RestartProven(p))
    BY DEF RestartOne, RestartProven
  <2>6. ~(RollbackUnits(p) \/ RollbackConfig(p) \/ RollbackReload(p) \/ RollbackRestart(p))
    BY DEF RollbackUnits, RollbackConfig, RollbackReload, RollbackRestart
  <2>. HIDE DEF InFlightPlaces
  <2>. QED  BY <2>1, <2>2, <2>3, <2>4, <2>5, <2>6, StepCases, TypedIsShaped, SwapsAreProcs
<1>. QED  BY <1>4, <1>5, <1>6, <1>7

LEMMA AtomicStep == HonestInv /\ HonestInv' /\ [Next]_vars => [Atomic!Next]_(Atomic!vars)
<1>. SUFFICES ASSUME HonestInv, HonestInv', [Next]_vars
              PROVE  Atomic!Next \/ UNCHANGED Atomic!vars
  OBVIOUS
<1>1. CASE Doubt'
  BY <1>1, LapseSeen
<1>2. ASSUME NEW p \in Swaps, Step(p), ~Doubt' PROVE Atomic!Next \/ UNCHANGED Atomic!vars
  <2>1. TypeOK /\ Told(p)
    BY DEF HonestInv, IInv, Honest, Course, Track
  <2>2. ~Doubt
    BY <1>2, <2>1, DoubtStays
  <2>3. Doubt' = Doubt
    BY <1>2, <2>2 DEF Doubt
  <2>4. p \notin InFlight \/ pc'[p] \in InFlightPlaces => UNCHANGED Seen
    BY <1>2, OutsideUnseen, CaptureUnseen, FlightUnseen
  <2>5. p \in InFlight /\ pc'[p] \notin InFlightPlaces => Atomic!Next \/ UNCHANGED Atomic!vars
    BY <1>2, <2>2, <2>3, FlightEnds
  <2>. QED  BY <2>3, <2>4, <2>5, Unseen
<1>3. Crash => Doubt'
  BY SMT DEF Crash, Doubt, HonestInv, IInv, TypeOK, ControlType
<1>4. ASSUME UNCHANGED vars PROVE UNCHANGED Atomic!vars
  BY <1>4 DEF vars, host, locals, Atomic!vars, InFlight, Doubt
<1>. QED  BY <1>1, <1>2, <1>3, <1>4 DEF Next, Finished

LEMMA AtomicInit == Init => Atomic!Init
<1>. SUFFICES ASSUME Init PROVE Atomic!Init
  OBVIOUS
<1>1. InFlight = {} /\ ~Doubt
  BY SwapAssumption DEF Init, InFlight, InApply, InRollback, Doubt, Swaps
<1>2. disk[Service] \in Texts
  BY InitHonest DEF Honest
<1>3. run[Service] \in {disk[Service], Down} /\ cfg.id \in Configs
  BY SwapAssumption DEF Init, Config
<1>. QED  BY <1>1, <1>2, <1>3 DEF Atomic!Init

\* The transaction is an atomic swap to whoever looks when no swap is in flight: config,
\* unit and serving text change together or not at all, or the stack is known to be in doubt.
THEOREM SwapIsAtomic == Spec => ImplementsAtomicSwap
<1>. USE DEF ImplementsAtomicSwap, Atomic!Spec
<1>. QED  BY AtomicInit, AtomicStep, HonestHolds, PTL DEF Spec

----------------------------------------------------------------------------
(* The invariant                                                           *)

Applying  == InApply \cup {"applied", "failed"}
VerbHolds == {"vload", "vset", "vstart", "vstop", "release"} \cup Applying

JobType ==
  /\ job \in [Verbs -> [verb : Kind, target : Services \cup {All}]]
  /\ left \in [Verbs -> SUBSET Services]
  /\ crashes \in Nat

\* Whoever is inside has the lock, a verb as well as a swap, and each of the two kinds
\* keeps to its own places.
OneInside ==
  /\ \A p \in Swaps : pc[p] \in Critical => lock = p
  /\ \A p \in Verbs : pc[p] \in {"idle", "done"} \/ (pc[p] \in VerbHolds /\ lock = p)
  /\ lock \in Procs \cup {Free}

\* A swap that has failed to undo something says so until it returns.
Admits(p) == out[p] = "incomplete" => pc[p] \in InRollback \cup {"release", "done"}

\* The config is the chosen one until a swap saves another, which then knows it.
Keeping(p) ==
  /\ pc[p] \in {"load", "release", "rbreload", "rbrestart"} \cup BeforeSave => cfg.id = wanted
  /\ Working(p) => prior[p].id = wanted
Chosen ==
  /\ \A p \in Swaps : Admits(p)
  /\ Accountable => (lock \notin Swaps => cfg.id = wanted) /\ \A p \in Swaps : Keeping(p)

\* The config, the stack and the job of a verb from its load to its return.
Stack(p) == RenderedServices(prior[p].id)
Asked(p, s) == job[p].verb # "set" /\ job[p].target \in {All, s}
OnCourse(p) == pc[p] \in Applying \cup {"vset", "vstart", "vstop"}
Read(p) ==
  /\ OnCourse(p) => cfg.id = prior[p].id /\ next[p].id = prior[p].id
  /\ pc[p] \in Applying \cup {"vstart"} => job[p].verb \in {"up", "restart"}
  /\ pc[p] = "vstop" => job[p].verb = "down"
  /\ pc[p] = "vset" => job[p].verb = "set"
  /\ pc[p] \in Applying => left[p] = Targets(p, prior[p].id)
  /\ pc[p] \in {"vstart", "vstop"} => left[p] \subseteq Targets(p, prior[p].id)

\* No service of the stack was touched that the argument does not name.
Spared(p) == OnCourse(p) => \A s \in Stack(p) : ~Asked(p, s) => run[s] = base[p][s]

\* What an apply has done, once it is over, ...
Applied(p) == pc[p] = "vstart" =>
  /\ \A u \in Units : AsRendered(cfg.id, u) /\ todo[p][u] \in {"keep", "written"}
  /\ job[p].verb = "up" => loaded = disk
\* ... and to which services the verb has done its job.
Restarted(p) == \A s \in Stack(p) \ left[p] : run[s] = loaded[s]
Upped(p) == \A s \in Stack(p) \ left[p] : run[s] # Down /\ (s \in Having(p, "written") => run[s] = disk[s])
Downed(p) == \A s \in Stack(p) \ left[p] : run[s] = Down
Handling(p) == job[p].target = All =>
  /\ pc[p] = "vstop" => Downed(p)
  /\ pc[p] = "vstart" /\ job[p].verb = "restart" => Restarted(p)
  /\ pc[p] = "vstart" /\ job[p].verb = "up" => Upped(p)

\* The report, as long as the verb still has the lock.
Reported(p) == pc[p] = "release" /\ job[p].target = All =>
  /\ out[p] = "down" => \A s \in Stack(p) : run[s] = Down
  /\ out[p] \in {"up", "restart"} => \A u \in Units : AsRendered(cfg.id, u)
  /\ out[p] = "restart" => \A s \in Stack(p) : run[s] = loaded[s]
  /\ out[p] = "up" =>
       /\ loaded = disk
       /\ \A s \in Stack(p) : run[s] # Down /\ (s \in Having(p, "written") => run[s] = disk[s])

Doing(p) == Read(p) /\ Spared(p) /\ Applied(p) /\ Handling(p) /\ Reported(p)

VerbsInv ==
  /\ Shaped /\ JobType /\ OneInside /\ Chosen
  /\ \A p \in Swaps : Window(p)
  /\ \A p \in Verbs : Aimed(p) /\ Doing(p)

----------------------------------------------------------------------------
(* The steps of a swap, as far as they concern everyone                    *)

LEMMA Places ==
  /\ Swaps \subseteq Procs /\ Verbs \subseteq Procs /\ Swaps \cap Verbs = {} /\ Free \notin Procs
  /\ Swaps \cup Verbs = Procs
  BY VerbAssumption, HostAssumption

LEMMA SwapShape ==
  ASSUME Shaped, NEW p \in Procs, Step(p)
  PROVE  Shaped'
<1>1. HostType' /\ LocalType'
  BY HostTypeStep, LocalTypeStep
<1>2. CASE Release(p)
  BY <1>1, <1>2 DEF Shaped, Release, Forget
<1>3. CASE ~Release(p)
  <2>1. Moves(p)
    BY <1>3, StepMoves
  <2>. QED  BY <1>1, <2>1 DEF Shaped, Moves, Goto
<1>. QED  BY <1>2, <1>3

\* A step of a swap that is not inside leaves the host alone, and the one that is has
\* the lock before and after.
LEMMA SwapHost ==
  ASSUME NEW p \in Procs, Step(p)
  PROVE  \/ InsideStep(p) /\ pc[p] \in Critical /\ lock' = lock
         \/ UNCHANGED host /\ (Acquire(p) \/ TrySwapMu(p) \/ TryAcquire(p) \/ Release(p))
<1>1. CASE InsideStep(p)
  BY <1>1, InsideStepKeepsTheLock
<1>2. CASE Acquire(p) \/ TrySwapMu(p) \/ TryAcquire(p) \/ Release(p)
  BY <1>2 DEF Acquire, TrySwapMu, TryAcquire, Release
<1>. QED  BY <1>1, <1>2, StepKinds

\* What is true of an invocation stays so while it, and the host it is inside of, are
\* left alone.
Locals(q) == <<pc[q], prior[q], next[q], captured[q], base[q], todo[q], restarted[q], out[q]>>
LEMMA LeftAlone ==
  ASSUME NEW q \in Procs, UNCHANGED Locals(q),
         pc[q] \in Critical \cup VerbHolds => UNCHANGED host
  PROVE  /\ Window(q) => Window(q)'
         /\ Aimed(q) => Aimed(q)'
         /\ q \in Verbs /\ job'[q] = job[q] /\ left'[q] = left[q] /\ Doing(q) => Doing(q)'
<1>0. /\ pc'[q] = pc[q] /\ prior'[q] = prior[q] /\ next'[q] = next[q] /\ base'[q] = base[q]
      /\ todo'[q] = todo[q] /\ restarted'[q] = restarted[q] /\ out'[q] = out[q]
  BY DEF Locals
<1>1. CASE UNCHANGED host
  <2>1. cfg' = cfg /\ env' = env /\ disk' = disk /\ loaded' = loaded /\ run' = run
    BY <1>1 DEF host
  <2>2. Window(q) => Window(q)'
    BY <1>0, <2>1 DEF Window, Config_, Touched, Planned, Working, Having
  <2>3. Aimed(q) => Aimed(q)'
    BY <1>0, <2>1 DEF Aimed, AsRendered, Text, Having
  <2>4. ASSUME job'[q] = job[q], left'[q] = left[q], Doing(q) PROVE Doing(q)'
    <3>1. Read(q)'
      BY <1>0, <2>1, <2>4 DEF Doing, Read, OnCourse, Targets, RenderedServices
    <3>2. Spared(q)'
      BY <1>0, <2>1, <2>4 DEF Doing, Spared, OnCourse, Stack, Asked, RenderedServices
    <3>3. Applied(q)'
      BY <1>0, <2>1, <2>4 DEF Doing, Applied, AsRendered, Text
    <3>4. Handling(q)' /\ Reported(q)'
      BY <1>0, <2>1, <2>4 DEF Doing, Handling, Restarted, Upped, Downed, Reported, Stack, RenderedServices,
                             Having, AsRendered, Text
    <3>. QED  BY <3>1, <3>2, <3>3, <3>4 DEF Doing
  <2>. QED  BY <2>2, <2>3, <2>4
<1>2. CASE pc[q] \notin Critical \cup VerbHolds
  <2>1. pc'[q] \notin Critical \cup VerbHolds
    BY <1>0, <1>2
  <2>2. Window(q) => Window(q)'
    BY <1>0, <2>1 DEF Window, Config_, Touched, Planned, Working, Critical, BeforeSave, InApply, InRollback
  <2>3. Aimed(q)'
    BY <2>1 DEF Aimed, Critical, BeforeSave, InApply, InRollback
  <2>4. Doing(q)'
    BY <2>1 DEF Doing, Read, Spared, Applied, Handling, Reported, OnCourse, Applying, VerbHolds, InApply
  <2>. QED  BY <2>2, <2>3, <2>4
<1>. QED  BY <1>1, <1>2

\* So a step of one that leaves the host alone, unless it has the lock itself, leaves
\* the others their part of the invariant.
LEMMA Bystander ==
  ASSUME VerbsInv, NEW q \in Procs, UNCHANGED Locals(q), lock = q => UNCHANGED host,
         q \in Verbs => job'[q] = job[q] /\ left'[q] = left[q]
  PROVE  /\ q \in Swaps => Window(q)'
         /\ q \in Verbs => Aimed(q)' /\ Doing(q)'
<1>1. CASE q \in Swaps
  <2>1. Window(q) /\ q \notin Verbs
    BY <1>1, Places DEF VerbsInv
  <2>2. CASE pc[q] \in Critical
    <3>1. lock = q
      BY <1>1, <2>2 DEF VerbsInv, OneInside
    <3>. QED  BY <2>1, <3>1, LeftAlone
  <2>3. CASE pc[q] \notin Critical
    <3>1. pc'[q] = pc[q] /\ restarted'[q] = restarted[q]
      BY DEF Locals
    <3>2. Window(q)'
      BY <2>1, <2>3, <3>1 DEF Window, Config_, Touched, Planned, Working, Critical, BeforeSave, InApply, InRollback
    <3>. QED  BY <2>1, <3>2
  <2>. QED  BY <2>2, <2>3
<1>2. CASE q \in Verbs
  <2>1. q \notin Swaps
    BY <1>2, Places
  <2>2. pc[q] \in Critical \cup VerbHolds => UNCHANGED host
    <3>1. pc[q] \in {"idle", "done"} \/ lock = q
      BY <1>2 DEF VerbsInv, OneInside
    <3>2. {"idle", "done"} \cap (Critical \cup VerbHolds) = {}
      BY DEF VerbHolds, Applying, Critical, BeforeSave, InApply, InRollback
    <3>. QED  BY <3>1, <3>2
  <2>. QED  BY <1>2, <2>1, <2>2, LeftAlone DEF VerbsInv
<1>. QED  BY <1>1, <1>2, Places

LEMMA BystanderKeeps ==
  ASSUME OneInside, NEW q \in Swaps, Keeping(q), UNCHANGED Locals(q), lock = q => UNCHANGED <<cfg, wanted>>
  PROVE  Keeping(q)'
<1>1. pc'[q] = pc[q] /\ prior'[q] = prior[q]
  BY DEF Locals
<1>2. CASE pc[q] \in Critical
  <2>1. cfg' = cfg /\ wanted' = wanted
    BY <1>2 DEF OneInside
  <2>. QED  BY <1>1, <2>1 DEF Keeping, Working
<1>3. CASE pc[q] \notin Critical
  BY <1>1, <1>3 DEF Keeping, Working, Critical, BeforeSave, InRollback
<1>. QED  BY <1>2, <1>3

----------------------------------------------------------------------------
(* What has been chosen: the steps of a swap                               *)

LEMMA IncompleteIsKept ==
  ASSUME Shaped, NEW p \in Procs, Step(p), Admits(p)
  PROVE  Admits(p)' /\ (out[p] = "incomplete" => out'[p] = "incomplete")
<1>0. DOMAIN pc = Procs /\ DOMAIN out = Procs
  BY DEF Shaped
<1>. DEFINE G == Admits(p)' /\ (out[p] = "incomplete" => out'[p] = "incomplete")
<1>. USE <1>0 DEF Admits, Goto, Return, InRollback, host, locals, RollbackFailed
<1>1. Acquire(p) \/ TrySwapMu(p) \/ TryAcquire(p) => G
  BY DEF Acquire, TrySwapMu, TryAcquire
<1>2. Release(p) => G
  BY DEF Release, Forget
<1>3. Load(p) \/ Change(p) \/ Capture(p) \/ SaveNext(p) => G
  BY DEF Load, Change, Capture, SaveNext
<1>4. HealKey(p) \/ HealEnv(p) \/ PlanApply(p) \/ StopOrphan(p) => G
  BY DEF HealKey, HealEnv, PlanApply, StopOrphan
<1>5. WriteUnit(p) \/ RemoveUnit(p) \/ Reload(p) => G
  BY DEF WriteUnit, RemoveUnit, Reload
<1>6. AfterApply(p) \/ RestartOne(p) \/ RestartProven(p) \/ Prove(p) => G
  BY DEF AfterApply, RestartOne, RestartProven, Prove
<1>7. RollbackUnits(p) \/ RollbackConfig(p) \/ RollbackReload(p) => G
  BY DEF RollbackUnits, RollbackConfig, RollbackReload
<1>8. RollbackRestart(p) => G
  BY DEF RollbackRestart
<1>9. RolledBack(p) => G
  BY DEF RolledBack
<1>. HIDE DEF G
<1>10. G
  BY <1>1, <1>2, <1>3, <1>4, <1>5, <1>6, <1>7, <1>8, <1>9, StepCases
<1>. QED  BY <1>10 DEF G

LEMMA AccountableBefore ==
  ASSUME Shaped, NEW p \in Swaps, Step(p), Admits(p), Accountable'
  PROVE  Accountable /\ out'[p] # "incomplete"
<1>1. crashes' = crashes
  BY StepMoves, Places DEF Moves, Release
<1>2. \A q \in Swaps \ {p} : out'[q] = out[q]
  BY StepFrame, Places
<1>3. out[p] # "incomplete" /\ out'[p] # "incomplete"
  BY IncompleteIsKept, Places DEF Accountable
<1>. QED  BY <1>1, <1>2, <1>3 DEF Accountable

\* The taker's own window: it chooses when it switches or finds nothing to do, and
\* goes back to what was chosen when it fails.
LEMMA OwnKeeping ==
  ASSUME Shaped, NEW p \in Swaps, SwapStep(p), Window(p), Keeping(p), out'[p] # "incomplete",
         lock \notin Swaps => cfg.id = wanted
  PROVE  Keeping(p)'
<1>0. /\ DOMAIN pc = Procs /\ DOMAIN out = Procs /\ p \in Procs /\ Free \notin Swaps
      /\ prior \in [Procs -> Config] /\ Step(p)
      /\ wanted' = IF pc'[p] = "release" /\ out'[p] \in {"switched", "noop"} THEN cfg'.id ELSE wanted
  BY Places DEF Shaped, LocalType, SwapStep
<1>. USE <1>0 DEF Keeping, Working, Critical, BeforeSave, InApply, InRollback, Goto, Return, host, locals
<1>1. Acquire(p) \/ TrySwapMu(p) \/ TryAcquire(p) => Keeping(p)'
  BY DEF Acquire, TrySwapMu, TryAcquire, LockFree
<1>2. Release(p) => Keeping(p)'
  BY DEF Release, Forget
<1>3. Load(p) => Keeping(p)'
  BY DEF Load
<1>4. Change(p) => Keeping(p)'
  BY DEF Change
<1>5. Capture(p) => Keeping(p)'
  BY DEF Capture
<1>6. SaveNext(p) => Keeping(p)'
  BY DEF SaveNext
<1>7. HealKey(p) => Keeping(p)'
  BY DEF HealKey
<1>8. HealEnv(p) \/ PlanApply(p) => Keeping(p)'
  BY DEF HealEnv, PlanApply
<1>9. StopOrphan(p) => Keeping(p)'
  BY DEF StopOrphan
<1>10. WriteUnit(p) \/ RemoveUnit(p) \/ Reload(p) => Keeping(p)'
  BY DEF WriteUnit, RemoveUnit, Reload
<1>11. AfterApply(p) => Keeping(p)'
  BY DEF AfterApply
<1>12. RestartOne(p) => Keeping(p)'
  BY DEF RestartOne
<1>13. RestartProven(p) => Keeping(p)'
  BY DEF RestartProven
<1>14. Prove(p) => Keeping(p)'
  BY DEF Prove
<1>15. RollbackUnits(p) => Keeping(p)'
  BY DEF RollbackUnits, RollbackFailed
<1>16. RollbackConfig(p) => Keeping(p)'
  BY DEF RollbackConfig, RollbackFailed
<1>17. RollbackReload(p) => Keeping(p)'
  BY DEF RollbackReload, RollbackFailed
<1>18. RollbackRestart(p) => Keeping(p)'
  BY DEF RollbackRestart
<1>19. RolledBack(p) => Keeping(p)'
  BY DEF RolledBack
<1>. HIDE DEF Keeping
<1>. QED
  BY <1>1, <1>2, <1>3, <1>4, <1>5, <1>6, <1>7, <1>8, <1>9, <1>10, <1>11, <1>12, <1>13, <1>14, <1>15, <1>16,
     <1>17, <1>18, <1>19, StepCases

\* What is left when the lock is: the config last chosen.
LEMMA LeftAsChosen ==
  ASSUME Shaped, NEW p \in Swaps, SwapStep(p), Keeping(p), lock \notin Swaps => cfg.id = wanted,
         pc[p] \in Critical => lock = p, lock' \notin Swaps
  PROVE  cfg'.id = wanted'
<1>0. DOMAIN pc = Procs /\ p \in Procs /\ Step(p) /\ (lock = p => lock \in Swaps)
  BY Places DEF Shaped, SwapStep
<1>1. CASE InsideStep(p)
  BY <1>0, <1>1, InsideStepKeepsTheLock
<1>2. CASE Release(p)
  BY <1>0, <1>2 DEF Release, Forget, SwapStep, Keeping, host
<1>3. CASE Acquire(p) \/ TrySwapMu(p) \/ TryAcquire(p)
  <2>1. cfg' = cfg /\ pc'[p] # "release"
    BY <1>0, <1>3 DEF Acquire, TrySwapMu, TryAcquire, Goto, host
  <2>2. lock' \in {lock, p}
    BY <1>3 DEF Acquire, TrySwapMu, TryAcquire
  <2>. QED  BY <2>1, <2>2 DEF SwapStep
<1>. QED  BY <1>0, <1>1, <1>2, <1>3, StepKinds

LEMMA SwapChosen ==
  ASSUME VerbsInv, NEW p \in Swaps, SwapStep(p)
  PROVE  Chosen'
<1>0. Step(p) /\ Shaped /\ p \in Procs
  BY Places DEF SwapStep, VerbsInv
<1>1. ASSUME NEW q \in Swaps \ {p} PROVE UNCHANGED Locals(q)
  BY <1>0, StepFrame, Places DEF Locals
<1>2. \A q \in Swaps : Admits(q)'
  <2>1. Admits(p)'
    BY <1>0, IncompleteIsKept DEF VerbsInv, Chosen
  <2>. QED  BY <1>1, <2>1 DEF VerbsInv, Chosen, Admits, Locals
<1>3. ASSUME Accountable' PROVE (lock' \notin Swaps => cfg'.id = wanted') /\ \A q \in Swaps : Keeping(q)'
  <2>1. Accountable /\ out'[p] # "incomplete"
    BY <1>0, <1>3, AccountableBefore DEF VerbsInv, Chosen
  <2>2. (lock \notin Swaps => cfg.id = wanted) /\ \A q \in Swaps : Keeping(q)
    BY <2>1 DEF VerbsInv, Chosen
  <2>3. Keeping(p)'
    BY <1>0, <2>1, <2>2, OwnKeeping DEF VerbsInv
  <2>4. lock' \notin Swaps => cfg'.id = wanted'
    BY <1>0, <2>2, LeftAsChosen DEF VerbsInv, OneInside
  <2>5. ASSUME NEW q \in Swaps \ {p} PROVE Keeping(q)'
    <3>1. ASSUME lock = q PROVE UNCHANGED <<cfg, wanted>>
      <4>1. pc[p] \notin Critical
        BY <3>1 DEF VerbsInv, OneInside
      <4>2. UNCHANGED host /\ (Acquire(p) \/ TrySwapMu(p) \/ TryAcquire(p) \/ Release(p))
        BY <1>0, <4>1, SwapHost
      <4>3. pc'[p] # "release"
        BY <4>2, <1>0 DEF Acquire, TrySwapMu, TryAcquire, Release, Forget, Goto, Shaped
      <4>. QED  BY <4>2, <4>3 DEF host, SwapStep
    <3>2. Keeping(q) /\ OneInside
      BY <2>2 DEF VerbsInv
    <3>. QED  BY <1>1, <3>1, <3>2, BystanderKeeps
  <2>. QED  BY <2>3, <2>4, <2>5
<1>. QED  BY <1>2, <1>3 DEF Chosen

----------------------------------------------------------------------------
(* A step of a swap keeps the invariant                                    *)

LEMMA SwapInside ==
  ASSUME VerbsInv, NEW p \in Swaps, SwapStep(p)
  PROVE  OneInside'
<1>0. Step(p) /\ Shaped /\ p \in Procs /\ DOMAIN pc = Procs /\ Free \notin Procs
  BY Places DEF SwapStep, VerbsInv, Shaped
<1>1. ASSUME NEW q \in Procs \ {p} PROVE pc'[q] = pc[q]
  BY <1>0, StepFrame
<1>2. pc[p] \in Critical => lock = p
  BY DEF VerbsInv, OneInside
<1>3. /\ \A q \in Swaps : pc[q] \in Critical => lock = q
      /\ \A q \in Verbs : pc[q] \in {"idle", "done"} \/ (pc[q] \in VerbHolds /\ lock = q)
      /\ lock \in Procs \cup {Free}
  BY DEF VerbsInv, OneInside
<1>4. CASE InsideStep(p)
  <2>1. lock' = lock /\ lock = p
    BY <1>0, <1>2, <1>4, InsideStepKeepsTheLock
  <2>. QED  BY <1>0, <1>1, <1>3, <2>1, Places DEF OneInside
<1>5. CASE Acquire(p) \/ TrySwapMu(p) \/ TryAcquire(p)
  <2>1. \/ lock = Free /\ lock' = p
        \/ lock' = lock /\ pc'[p] \notin Critical
    BY <1>0, <1>5 DEF Acquire, TrySwapMu, TryAcquire, LockFree, Goto, Critical, BeforeSave, InApply, InRollback
  <2>. QED  BY <1>0, <1>1, <1>3, <2>1, Places DEF OneInside
<1>6. CASE Release(p)
  <2>1. lock' = Free /\ pc'[p] = "done" /\ lock = p
    BY <1>0, <1>2, <1>6 DEF Release, Forget, Critical
  <2>. QED  BY <1>0, <1>1, <1>3, <2>1, Places DEF OneInside, Critical, BeforeSave, InApply, InRollback
<1>. QED  BY <1>0, <1>4, <1>5, <1>6, StepKinds

LEMMA SwapKeeps ==
  ASSUME VerbsInv, NEW p \in Swaps, SwapStep(p)
  PROVE  VerbsInv'
<1>0. Step(p) /\ Shaped /\ p \in Procs
  BY Places DEF SwapStep, VerbsInv
<1>1. Shaped' /\ OneInside' /\ Chosen'
  BY <1>0, SwapShape, SwapInside, SwapChosen
<1>2. JobType'
  <2>1. crashes' = crashes
    BY <1>0, StepMoves DEF Moves, Release
  <2>. QED  BY <2>1 DEF VerbsInv, JobType, SwapStep
<1>3. Window(p)'
  BY <1>0, OwnStep DEF VerbsInv
<1>4. ASSUME NEW q \in Procs \ {p} PROVE UNCHANGED Locals(q)
  BY <1>0, StepFrame DEF Locals
<1>5. ASSUME NEW q \in Procs \ {p}, lock = q PROVE UNCHANGED host
  <2>1. pc[p] \notin Critical
    BY <1>5 DEF VerbsInv, OneInside
  <2>. QED  BY <1>0, <2>1, SwapHost
<1>6. ASSUME NEW q \in Procs \ {p}
      PROVE  (q \in Swaps => Window(q)') /\ (q \in Verbs => Aimed(q)' /\ Doing(q)')
  BY <1>4, <1>5, Bystander DEF SwapStep
<1>. QED  BY <1>1, <1>2, <1>3, <1>6, Places DEF VerbsInv

----------------------------------------------------------------------------
(* The steps of a verb: its types, and what it leaves alone                *)

LEMMA ApplyIsStep ==
  ASSUME NEW p \in Verbs, VerbApply(p)
  PROVE  p \in Procs /\ Step(p) /\ InsideStep(p) /\ Apply(p)
  BY Places DEF VerbApply, swapOnly, Step, ApplyStep, InsideStep, Apply

LEMMA VerbShape ==
  ASSUME Shaped, JobType, NEW p \in Verbs, VerbStep(p) \/ VerbCrash(p)
  PROVE  Shaped' /\ JobType'
<1>0. /\ HostType /\ LocalType /\ DOMAIN pc = Procs /\ DOMAIN out = Procs /\ p \in Procs
      /\ job \in [Verbs -> [verb : Kind, target : Services \cup {All}]]
      /\ left \in [Verbs -> SUBSET Services] /\ crashes \in Nat
  BY Places DEF Shaped, JobType
<1>. USE <1>0 DEF Shaped, JobType, Goto, Return, At, host, locals, swapOnly, verbVars
<1>1. CASE VerbAcquire(p)
  <2>1. job' \in [Verbs -> [verb : Kind, target : Services \cup {All}]]
    <3>1. job' = job \/ \E v \in Kind, t \in Services \cup {All} : job' = [job EXCEPT ![p] = [verb |-> v, target |-> t]]
      BY <1>1 DEF VerbAcquire
    <3>. QED  BY <3>1
  <2>. QED  BY <1>1, <2>1 DEF VerbAcquire, HostType, LocalType
<1>2. ASSUME ForgetVerb(p), UNCHANGED host, crashes' \in Nat, DOMAIN out' = Procs PROVE Shaped' /\ JobType'
  <2>1. LocalType' /\ DOMAIN pc' = Procs
    BY <1>2, ForgetLocals DEF ForgetVerb, Forget
  <2>2. NoJob \in [verb : Kind, target : Services \cup {All}]
    BY DEF NoJob, Kind
  <2>. QED  BY <1>2, <2>1, <2>2 DEF ForgetVerb, HostType
<1>3. CASE VerbRelease(p)
  BY <1>2, <1>3 DEF VerbRelease
<1>4. CASE VerbCrash(p)
  BY <1>2, <1>4 DEF VerbCrash
<1>5. CASE VerbLoad(p)
  <2>1. \A c \in Configs : Targets(p, c) \subseteq Services
    BY DEF Targets, RenderedServices
  <2>2. cfg \in Config /\ cfg.id \in Configs /\ run \in RunOf
    BY DEF HostType, Config
  <2>3. prior' \in [Procs -> Config] /\ next' \in [Procs -> Config] /\ base' \in [Procs -> RunOf]
    <3>1. /\ prior' = prior \/ prior' = [prior EXCEPT ![p] = cfg]
          /\ next' = next \/ next' = [next EXCEPT ![p] = cfg]
          /\ base' = base \/ base' = [base EXCEPT ![p] = run]
      BY <1>5 DEF VerbLoad
    <3>2. prior \in [Procs -> Config] /\ next \in [Procs -> Config] /\ base \in [Procs -> RunOf]
      BY DEF LocalType
    <3>. QED  BY <2>2, <3>1, <3>2
  <2>4. left' \in [Verbs -> SUBSET Services]
    <3>1. left' = left \/ left' = [left EXCEPT ![p] = IF job[p].verb = "set" THEN {} ELSE Targets(p, cfg.id)]
      BY <1>5 DEF VerbLoad
    <3>2. (IF job[p].verb = "set" THEN {} ELSE Targets(p, cfg.id)) \in SUBSET Services
      BY <2>1, <2>2
    <3>3. \A T \in SUBSET Services : [left EXCEPT ![p] = T] \in [Verbs -> SUBSET Services]
      OBVIOUS
    <3>. QED  BY <3>1, <3>2, <3>3
  <2>. QED  BY <1>5, <2>3, <2>4 DEF VerbLoad, HostType, LocalType
<1>6. CASE VerbSet(p)
  <2>1. \A c \in Settable(prior[p].id) : [prior[p] EXCEPT !.id = c] \in Config
    <3>1. prior[p] \in Config
      BY DEF LocalType
    <3>. QED  BY <3>1 DEF Settable, Config
  <2>2. cfg' \in Config
    BY <1>6, <2>1 DEF VerbSet, HostType
  <2>. QED  BY <1>6, <2>2 DEF VerbSet, HostType, LocalType
<1>7. CASE VerbApply(p)
  <2>1. Shaped'
    BY <1>7, ApplyIsStep, SwapShape
  <2>. QED  BY <1>7, <2>1 DEF VerbApply
<1>8. CASE AfterVerbApply(p) \/ VerbDone(p)
  BY <1>8 DEF AfterVerbApply, VerbDone, HostType, LocalType
<1>9. \A s \in Services : RestartOk(s) \/ RestartFails(s) \/ StartOk(s) \/ StartFails(s) => run' \in RunOf
  BY HostAssumption DEF RestartOk, RestartFails, StartOk, StartFails, HostType, RunOf, Content
<1>10. \A s : Handled(p, s) => left' \in [Verbs -> SUBSET Services]
  BY DEF Handled
<1>11. CASE UpOne(p)
  <2>1. run' \in RunOf
    BY <1>9, <1>11 DEF UpOne, HostType
  <2>2. left' \in [Verbs -> SUBSET Services]
    BY <1>10, <1>11 DEF UpOne
  <2>. QED  BY <1>11, <2>1, <2>2 DEF UpOne, HostType, LocalType
<1>12. CASE RestartEach(p)
  <2>1. run' \in RunOf
    BY <1>9, <1>12 DEF RestartEach, HostType
  <2>2. left' \in [Verbs -> SUBSET Services]
    BY <1>10, <1>12 DEF RestartEach
  <2>. QED  BY <1>12, <2>1, <2>2 DEF RestartEach, HostType, LocalType
<1>13. CASE DownOne(p)
  <2>1. run' \in RunOf
    BY <1>13 DEF DownOne, HostType, RunOf
  <2>2. left' \in [Verbs -> SUBSET Services]
    BY <1>10, <1>13 DEF DownOne
  <2>. QED  BY <1>13, <2>1, <2>2 DEF DownOne, HostType, LocalType
<1>. QED
  BY <1>1, <1>3, <1>4, <1>5, <1>6, <1>7, <1>8, <1>11, <1>12, <1>13 DEF VerbStep

\* Every other invocation keeps its locals.
LEMMA VerbFrame ==
  ASSUME Shaped, JobType, NEW p \in Verbs, VerbStep(p) \/ VerbCrash(p), NEW q \in Procs \ {p}
  PROVE  UNCHANGED Locals(q) /\ (q \in Verbs => job'[q] = job[q] /\ left'[q] = left[q])
<1>. DEFINE Same == UNCHANGED Locals(q) /\ (q \in Verbs => job'[q] = job[q] /\ left'[q] = left[q])
<1>0. /\ DOMAIN pc = Procs /\ DOMAIN out = Procs /\ LocalType /\ q \in Procs /\ p # q
      /\ DOMAIN job = Verbs /\ DOMAIN left = Verbs /\ p \in Procs
  BY Places DEF Shaped, JobType
<1>. USE <1>0 DEF Goto, Return, At, locals, swapOnly, verbVars, Handled
<1>1. CASE VerbAcquire(p)
  BY <1>1 DEF VerbAcquire, Locals
<1>2. CASE VerbRelease(p) \/ VerbCrash(p)
  BY <1>2 DEF VerbRelease, VerbCrash, ForgetVerb, Forget, Locals
<1>3. CASE VerbLoad(p)
  BY <1>3 DEF VerbLoad, Locals, LocalType
<1>4. CASE VerbSet(p)
  BY <1>4 DEF VerbSet, Locals
<1>5. CASE VerbApply(p)
  BY <1>5, ApplyIsStep, StepFrame DEF VerbApply, Locals
<1>6. CASE AfterVerbApply(p) \/ VerbDone(p)
  BY <1>6 DEF AfterVerbApply, VerbDone, Locals
<1>7. CASE UpOne(p)
  BY <1>7 DEF UpOne, Locals
<1>8. CASE RestartEach(p) \/ DownOne(p)
  BY <1>8 DEF RestartEach, DownOne, Locals
<1>. QED
  BY <1>1, <1>2, <1>3, <1>4, <1>5, <1>6, <1>7, <1>8 DEF VerbStep

\* A verb takes the lock of nobody, and from then on moves with it until it returns.
LEMMA VerbHost ==
  ASSUME OneInside, NEW p \in Verbs, VerbStep(p), DOMAIN pc = Procs
  PROVE  \/ /\ UNCHANGED <<host, wanted>>
            /\ \/ lock = Free /\ lock' = p /\ pc'[p] = "vload"
               \/ lock' = lock /\ pc'[p] = "done"
         \/ /\ UNCHANGED <<host, wanted>>
            /\ lock = p /\ lock' = Free /\ pc'[p] = "done"
         \/ lock = p /\ lock' = p /\ pc'[p] \in VerbHolds
<1>0. p \in Procs /\ (pc[p] \in VerbHolds => lock = p)
  BY Places DEF OneInside, VerbHolds, Applying, InApply
<1>1. CASE VerbAcquire(p)
  BY <1>0, <1>1 DEF VerbAcquire, LockFree, Goto, At, host
<1>2. CASE VerbRelease(p)
  BY <1>0, <1>2 DEF VerbRelease, ForgetVerb, Forget, At, VerbHolds
<1>3. CASE VerbApply(p)
  <2>1. lock' = lock /\ pc[p] \in InApply /\ pc'[p] \in Applying
    BY <1>0, <1>3 DEF VerbApply, Apply, HealKey, HealEnv, PlanApply, StopOrphan, WriteUnit, RemoveUnit, Reload,
                      InApply, Applying, Goto
  <2>. QED  BY <1>0, <2>1 DEF VerbHolds, Applying
<1>4. CASE VerbLoad(p) \/ VerbSet(p) \/ AfterVerbApply(p) \/ UpOne(p) \/ RestartEach(p) \/ DownOne(p) \/ VerbDone(p)
  <2>1. lock' = lock /\ pc[p] \in {"vload", "vset", "applied", "failed", "vstart", "vstop"}
    BY <1>4 DEF VerbLoad, VerbSet, AfterVerbApply, UpOne, RestartEach, DownOne, VerbDone, At
  <2>2. pc'[p] \in {"vset", "vstart", "vstop", "heal", "release"}
    BY <1>0, <1>4 DEF VerbLoad, VerbSet, AfterVerbApply, UpOne, RestartEach, DownOne, VerbDone, At, Return, Goto
  <2>. QED  BY <1>0, <2>1, <2>2 DEF VerbHolds, Applying, InApply
<1>. QED
  BY <1>1, <1>2, <1>3, <1>4 DEF VerbStep

----------------------------------------------------------------------------
(* What has been chosen, and who is inside: the steps of a verb            *)

LEMMA VerbInside ==
  ASSUME VerbsInv, NEW p \in Verbs, VerbStep(p)
  PROVE  OneInside'
<1>0. /\ DOMAIN pc = Procs /\ p \in Procs \ Swaps /\ Free \notin Procs /\ OneInside
      /\ \A q \in Procs \ {p} : pc'[q] = pc[q]
  BY Places, VerbFrame DEF VerbsInv, Shaped, Locals
<1>1. CASE lock = Free /\ lock' = p /\ pc'[p] = "vload"
  BY <1>0, <1>1, Places DEF OneInside, VerbHolds
<1>2. CASE lock' = lock /\ pc'[p] = "done"
  BY <1>0, <1>2, Places DEF OneInside
<1>3. CASE lock = p /\ lock' = Free /\ pc'[p] = "done"
  BY <1>0, <1>3, Places DEF OneInside
<1>4. CASE lock = p /\ lock' = p /\ pc'[p] \in VerbHolds
  BY <1>0, <1>4, Places DEF OneInside
<1>. QED  BY <1>0, <1>1, <1>2, <1>3, <1>4, VerbHost

\* An apply may give the config a secret, never another content.
LEMMA VerbKeepsTheChoice ==
  ASSUME VerbsInv, NEW p \in Verbs, VerbStep(p), cfg.id = wanted
  PROVE  cfg'.id = wanted'
<1>0. /\ next \in [Procs -> Config] /\ prior \in [Procs -> Config] /\ p \in Procs /\ Read(p)
      /\ DOMAIN pc = Procs
  BY Places DEF VerbsInv, Shaped, LocalType, Doing
<1>1. CASE VerbApply(p)
  <2>1. CASE HealKey(p)
    <3>1. cfg.id = next[p].id
      BY <1>0, <2>1 DEF HealKey, Read, OnCourse, Applying, InApply
    <3>2. cfg' = cfg \/ \E k \in Keys \ {env} : cfg' = [next[p] EXCEPT !.key = k]
      BY <2>1 DEF HealKey
    <3>3. next[p] \in Config
      BY <1>0
    <3>4. cfg'.id = cfg.id
      BY <3>1, <3>2, <3>3 DEF Config
    <3>. QED  BY <1>1, <3>4 DEF VerbApply, verbVars
  <2>2. CASE HealEnv(p) \/ PlanApply(p) \/ StopOrphan(p) \/ WriteUnit(p) \/ RemoveUnit(p) \/ Reload(p)
    BY <1>1, <2>2 DEF VerbApply, verbVars, HealEnv, PlanApply, StopOrphan, WriteUnit, RemoveUnit, Reload, host
  <2>. QED  BY <1>1, <2>1, <2>2 DEF VerbApply, Apply
<1>2. CASE VerbSet(p)
  BY <1>2 DEF VerbSet
<1>3. CASE ~VerbApply(p) /\ ~VerbSet(p)
  BY <1>3 DEF VerbStep, VerbAcquire, VerbLoad, AfterVerbApply, UpOne, RestartEach, DownOne, VerbDone, VerbRelease,
              ForgetVerb, host, verbVars
<1>. QED  BY <1>1, <1>2, <1>3

LEMMA AccountableStays ==
  ASSUME UNCHANGED crashes, \A q \in Swaps : out'[q] = out[q]
  PROVE  Accountable' => Accountable
  BY DEF Accountable

LEMMA VerbChosen ==
  ASSUME VerbsInv, NEW p \in Verbs, VerbStep(p)
  PROVE  Chosen'
<1>0. /\ DOMAIN pc = Procs /\ p \in Procs \ Swaps /\ Free \notin Procs /\ OneInside /\ Swaps \subseteq Procs
      /\ \A q \in Procs \ {p} : UNCHANGED Locals(q)
  BY Places, VerbFrame DEF VerbsInv, Shaped
<1>1. \A q \in Swaps : Admits(q)'
  BY <1>0 DEF VerbsInv, Chosen, Admits, Locals
<1>2. crashes' = crashes
  BY DEF VerbStep, VerbAcquire, VerbLoad, VerbSet, VerbApply, AfterVerbApply, UpOne, RestartEach, DownOne,
         VerbDone, VerbRelease, swapOnly
<1>3. ASSUME Accountable'
      PROVE  (lock' \notin Swaps => cfg'.id = wanted') /\ \A q \in Swaps : Keeping(q)'
  <2>1. Accountable
    BY <1>0, <1>2, <1>3, AccountableStays DEF Locals
  <2>2. (lock \notin Swaps => cfg.id = wanted) /\ \A q \in Swaps : Keeping(q)
    BY <2>1 DEF VerbsInv, Chosen
  <2>3. lock' \notin Swaps => cfg'.id = wanted'
    <3>1. CASE lock \in Swaps
      BY <1>0, <3>1, VerbHost
    <3>2. CASE lock \notin Swaps
      BY <2>2, <3>2, VerbKeepsTheChoice
    <3>. QED  BY <3>1, <3>2
  <2>4. ASSUME NEW q \in Swaps PROVE Keeping(q)'
    <3>1. lock = q => UNCHANGED <<cfg, wanted>>
      BY <1>0, VerbHost DEF host
    <3>. QED  BY <1>0, <2>2, <3>1, BystanderKeeps
  <2>. QED  BY <2>3, <2>4
<1>. QED  BY <1>1, <1>3 DEF Chosen

----------------------------------------------------------------------------
(* What a verb has done of its job                                         *)

\* The places where there is nothing to say yet, or any more.
LEMMA Outside ==
  ASSUME NEW p \in Verbs, pc'[p] \in {"vload", "done"}
  PROVE  Aimed(p)' /\ Doing(p)'
<1>1. Aimed(p)'
  BY DEF Aimed, InApply
<1>2. Doing(p)'
  BY DEF Doing, Read, Spared, Applied, Handling, Reported, OnCourse, Applying, InApply
<1>. QED  BY <1>1, <1>2

\* A verb that fails, or has nothing to do, promises nothing of the stack.
LEMMA Failing ==
  ASSUME NEW p \in Verbs, pc'[p] = "release", out'[p] \notin {"up", "restart", "down"}
  PROVE  Aimed(p)' /\ Doing(p)'
<1>1. Aimed(p)'
  BY DEF Aimed, InApply
<1>2. Doing(p)'
  BY DEF Doing, Read, Spared, Applied, Handling, Reported, OnCourse, Applying, InApply
<1>. QED  BY <1>1, <1>2

LEMMA LoadDoes ==
  ASSUME VerbsInv, NEW p \in Verbs, VerbLoad(p)
  PROVE  Aimed(p)' /\ Doing(p)'
<1>0. /\ DOMAIN pc = Procs /\ DOMAIN out = Procs /\ p \in Procs
      /\ DOMAIN prior = Procs /\ DOMAIN next = Procs /\ DOMAIN base = Procs /\ DOMAIN left = Verbs
      /\ job[p].verb \in Kind /\ job[p].target \in Services \cup {All}
  BY Places DEF VerbsInv, Shaped, LocalType, JobType
<1>1. CASE Return(p, "failed")
  BY <1>0, <1>1, Failing DEF Return, Goto
<1>2. CASE ~Return(p, "failed")
  <2>1. /\ prior'[p] = cfg /\ next'[p] = cfg /\ base'[p] = run
        /\ left'[p] = IF job[p].verb = "set" THEN {} ELSE Targets(p, cfg.id)
        /\ pc'[p] = IF job[p].verb = "set" THEN "vset" ELSE IF job[p].verb = "down" THEN "vstop" ELSE "heal"
    BY <1>0, <1>2 DEF VerbLoad, Goto, Kind
  <2>2. cfg' = cfg /\ env' = env /\ run' = run /\ job' = job
    BY DEF VerbLoad, host
  <2>3. Aimed(p)'
    BY <2>1, <2>2 DEF Aimed, InApply
  <2>4. Read(p)' /\ Spared(p)'
    BY <1>0, <2>1, <2>2 DEF Read, Spared, OnCourse, Applying, InApply, Stack, RenderedServices, Targets, Kind
  <2>5. Applied(p)' /\ Reported(p)'
    BY <2>1 DEF Applied, Reported
  <2>6. Handling(p)'
    BY <1>0, <2>1, <2>2 DEF Handling, Downed, Stack, RenderedServices, Targets
  <2>. QED  BY <2>3, <2>4, <2>5, <2>6 DEF Doing
<1>. QED  BY <1>1, <1>2

\* The one service an apply may touch is one the config no longer renders.
LEMMA ApplySpares ==
  ASSUME VerbsInv, NEW p \in Verbs, VerbApply(p)
  PROVE  \A s \in Stack(p) : run'[s] = run[s]
<1>0. /\ DOMAIN pc = Procs /\ p \in Procs /\ run \in RunOf /\ Services \subseteq Units /\ Aimed(p) /\ Read(p)
  BY Places, HostAssumption DEF VerbsInv, Shaped, HostType, Doing
<1>1. CASE StopOrphan(p)
  <2>1. PICK s \in Having(p, "stop") \cap Services : run' \in {run, [run EXCEPT ![s] = Down]}
    BY <1>1 DEF StopOrphan
  <2>2. Text(next[p].id, s) = None /\ prior[p].id = next[p].id
    BY <1>0, <1>1, <2>1 DEF StopOrphan, Having, Aimed, Read, OnCourse, Applying, InApply
  <2>3. s \notin Stack(p)
    BY <2>2 DEF Stack, RenderedServices, Text
  <2>. QED  BY <1>0, <2>1, <2>3 DEF Stack, RenderedServices, RunOf
<1>2. CASE HealKey(p) \/ HealEnv(p) \/ PlanApply(p) \/ WriteUnit(p) \/ RemoveUnit(p) \/ Reload(p)
  BY <1>2 DEF HealKey, HealEnv, PlanApply, WriteUnit, RemoveUnit, Reload, host
<1>. QED  BY <1>1, <1>2 DEF VerbApply, Apply

LEMMA ApplyDoes ==
  ASSUME VerbsInv, NEW p \in Verbs, VerbApply(p)
  PROVE  Aimed(p)' /\ Doing(p)'
<1>0. /\ DOMAIN pc = Procs /\ p \in Procs /\ next \in [Procs -> Config] /\ Shaped /\ Aimed(p) /\ Doing(p)
  BY Places DEF VerbsInv, Shaped, LocalType
<1>1. Aimed(p)'
  BY <1>0, ApplyIsStep, AimedStep
<1>2. /\ pc[p] \in InApply /\ pc'[p] \in Applying
      /\ prior' = prior /\ base' = base /\ job' = job /\ left' = left
  BY <1>0 DEF VerbApply, Apply, HealKey, HealEnv, PlanApply, StopOrphan, WriteUnit, RemoveUnit, Reload,
              InApply, Applying, Goto, verbVars, locals
<1>3. pc[p] \in Applying /\ OnCourse(p)
  BY <1>2 DEF Applying, OnCourse
<1>4. cfg'.id = cfg.id /\ next'[p].id = next[p].id
  <2>1. CASE HealKey(p)
    <3>1. \/ cfg' = cfg /\ next' = next
          \/ \E k \in Keys \ {env} : cfg' = [next[p] EXCEPT !.key = k] /\ next' = [next EXCEPT ![p] = cfg']
      BY <2>1 DEF HealKey
    <3>2. next[p] \in Config /\ cfg.id = next[p].id
      BY <1>0, <1>3 DEF Doing, Read
    <3>3. CASE cfg' = cfg /\ next' = next
      BY <3>3
    <3>4. ASSUME NEW k \in Keys \ {env}, cfg' = [next[p] EXCEPT !.key = k], next' = [next EXCEPT ![p] = cfg']
          PROVE  cfg'.id = cfg.id /\ next'[p].id = next[p].id
      BY <1>0, <3>2, <3>4 DEF Config
    <3>. QED  BY <3>1, <3>3, <3>4
  <2>2. CASE HealEnv(p) \/ PlanApply(p) \/ StopOrphan(p) \/ WriteUnit(p) \/ RemoveUnit(p) \/ Reload(p)
    BY <2>2 DEF HealEnv, PlanApply, StopOrphan, WriteUnit, RemoveUnit, Reload, host, locals
  <2>. QED  BY <2>1, <2>2 DEF VerbApply, Apply
<1>5. Read(p)'
  BY <1>0, <1>2, <1>3, <1>4 DEF Doing, Read, OnCourse, Applying, InApply, Targets, RenderedServices
<1>6. Spared(p)'
  <2>1. Stack(p)' = Stack(p)
    BY <1>2 DEF Stack, RenderedServices
  <2>. QED  BY <1>0, <1>2, <1>3, <2>1, ApplySpares DEF Doing, Spared, Asked
<1>7. Applied(p)' /\ Handling(p)' /\ Reported(p)'
  BY <1>2 DEF Applied, Handling, Reported, Applying, InApply
<1>. QED  BY <1>1, <1>5, <1>6, <1>7 DEF Doing

LEMMA AfterApplyDoes ==
  ASSUME VerbsInv, NEW p \in Verbs, AfterVerbApply(p)
  PROVE  Aimed(p)' /\ Doing(p)'
<1>0. /\ DOMAIN pc = Procs /\ DOMAIN out = Procs /\ p \in Procs /\ Aimed(p) /\ Doing(p)
  BY Places DEF VerbsInv, Shaped
<1>1. CASE Return(p, "failed") \/ Return(p, "nothing")
  BY <1>0, <1>1, Failing DEF Return, Goto
<1>2. CASE At(p, "applied") /\ Starts(p) /\ Goto(p, "vstart")
  <2>1. /\ pc[p] = "applied" /\ pc'[p] = "vstart" /\ OnCourse(p) /\ pc[p] \in Applying
        /\ cfg' = cfg /\ disk' = disk /\ loaded' = loaded /\ run' = run
        /\ prior' = prior /\ next' = next /\ base' = base /\ todo' = todo /\ job' = job /\ left' = left
    BY <1>0, <1>2 DEF AfterVerbApply, At, Goto, OnCourse, Applying, host, verbVars
  <2>2. Aimed(p)'
    BY <2>1 DEF Aimed, InApply
  <2>3. Read(p)' /\ Spared(p)'
    BY <1>0, <2>1 DEF Doing, Read, Spared, OnCourse, Applying, InApply, Stack, Asked, RenderedServices, Targets
  <2>4. Applied(p)'
    <3>1. cfg.id = next[p].id
      BY <1>0, <2>1 DEF Doing, Read
    <3>2. \A u \in Units : AsRendered(cfg.id, u) /\ todo[p][u] \in {"keep", "written"}
      BY <1>0, <2>1, <3>1 DEF Aimed
    <3>3. job[p].verb = "up" => loaded = disk
      BY <1>0, <1>2, <2>1 DEF Aimed, Starts
    <3>. QED  BY <2>1, <3>2, <3>3 DEF Applied, AsRendered, Text
  <2>5. job'[p].target = All => Stack(p)' \ left'[p] = {}
    <3>1. left[p] = Targets(p, prior[p].id)
      BY <1>0, <2>1 DEF Doing, Read
    <3>. QED  BY <2>1, <3>1 DEF Stack, Targets, RenderedServices
  <2>6. Handling(p)' /\ Reported(p)'
    BY <2>1, <2>5 DEF Handling, Restarted, Upped, Reported
  <2>. QED  BY <2>2, <2>3, <2>4, <2>6 DEF Doing
<1>. QED  BY <1>1, <1>2 DEF AfterVerbApply

\* One service done: the rest of the host, and of the verb's locals, is as it was.
OneDone(p, s) ==
  /\ UNCHANGED <<cfg, env, disk, loaded, prior, next, base, todo, job, pc>>
  /\ Handled(p, s)
  /\ \A t \in Services \ {s} : run'[t] = run[t]

LEMMA OneDoneDoes ==
  ASSUME VerbsInv, NEW p \in Verbs, NEW s \in left[p], OneDone(p, s), pc[p] \in {"vstart", "vstop"},
         pc[p] = "vstop" => run'[s] = Down,
         pc[p] = "vstart" /\ job[p].verb = "restart" => run'[s] = loaded[s],
         pc[p] = "vstart" /\ job[p].verb = "up" => run'[s] # Down /\ (s \in Having(p, "written") => run'[s] = disk[s])
  PROVE  Aimed(p)' /\ Doing(p)'
<1>0. /\ DOMAIN left = Verbs /\ Doing(p) /\ OnCourse(p)
      /\ cfg' = cfg /\ disk' = disk /\ loaded' = loaded /\ prior' = prior /\ next' = next /\ base' = base
      /\ todo' = todo /\ job' = job /\ pc' = pc
      /\ left[p] \subseteq Targets(p, prior[p].id)
      /\ pc[p] # "release" /\ pc[p] \notin Applying
  BY DEF VerbsInv, JobType, OneDone, OnCourse, Doing, Read, Applying, InApply
<1>1. left'[p] = left[p] \ {s}
  BY <1>0 DEF OneDone, Handled
<1>2. Asked(p, s) /\ s \in Services
  BY <1>0 DEF Asked, Targets, RenderedServices, Doing, Read
<1>3. Stack(p)' = Stack(p) /\ Stack(p) \subseteq Services
  BY <1>0 DEF Stack, RenderedServices
<1>4. Aimed(p)'
  BY <1>0 DEF Aimed, InApply
<1>5. Read(p)'
  BY <1>0, <1>1 DEF Doing, Read, OnCourse, Targets, RenderedServices
<1>6. Spared(p)'
  BY <1>0, <1>2, <1>3 DEF OneDone, Doing, Spared, Asked
<1>7. Applied(p)' /\ Reported(p)'
  BY <1>0 DEF Doing, Applied, Reported, AsRendered, Text
<1>8. Handling(p)'
  <2>1. ASSUME job[p].target = All, pc[p] = "vstop" PROVE Downed(p)'
    BY <1>0, <1>1, <1>3, <2>1 DEF Doing, Handling, Downed, OneDone
  <2>2. ASSUME job[p].target = All, pc[p] = "vstart", job[p].verb = "restart" PROVE Restarted(p)'
    BY <1>0, <1>1, <1>3, <2>2 DEF Doing, Handling, Restarted, OneDone
  <2>3. ASSUME job[p].target = All, pc[p] = "vstart", job[p].verb = "up" PROVE Upped(p)'
    BY <1>0, <1>1, <1>3, <2>3 DEF Doing, Handling, Upped, OneDone, Having
  <2>. QED  BY <1>0, <2>1, <2>2, <2>3 DEF Handling
<1>. QED  BY <1>4, <1>5, <1>6, <1>7, <1>8 DEF Doing

LEMMA RunEffect ==
  ASSUME Shaped, NEW s \in Services
  PROVE  /\ RestartOk(s) => run'[s] = loaded[s] /\ run'[s] # Down /\ \A t \in Services \ {s} : run'[t] = run[t]
         /\ StartOk(s) /\ ~Up(s) => run'[s] = loaded[s] /\ run'[s] # Down /\ \A t \in Services \ {s} : run'[t] = run[t]
<1>1. run \in RunOf /\ loaded \in Content /\ s \in Units /\ Down \notin Texts
  BY HostAssumption DEF Shaped, HostType
<1>2. loaded[s] # None => loaded[s] # Down
  BY <1>1 DEF Content
<1>. QED  BY <1>1, <1>2 DEF RestartOk, StartOk, Up, RunOf

LEMMA UpDoes ==
  ASSUME VerbsInv, NEW p \in Verbs, UpOne(p)
  PROVE  Aimed(p)' /\ Doing(p)'
<1>0. /\ DOMAIN pc = Procs /\ DOMAIN out = Procs /\ p \in Procs /\ Doing(p) /\ Shaped
      /\ pc[p] = "vstart" /\ job[p].verb = "up" /\ left[p] \subseteq Services
  BY Places DEF VerbsInv, Shaped, JobType, UpOne, At
<1>1. CASE Return(p, "failed")
  BY <1>0, <1>1, Failing DEF Return, Goto
<1>2. CASE ~Return(p, "failed")
  <2>1. PICK s \in left[p] :
          \/ Up(s) /\ s \in Having(p, "written") /\ RestartOk(s) /\ Handled(p, s) /\ UNCHANGED <<pc, out>>
          \/ Up(s) /\ s \notin Having(p, "written") /\ Handled(p, s) /\ NoFault /\ UNCHANGED <<run, pc, out>>
          \/ ~Up(s) /\ StartOk(s) /\ Handled(p, s) /\ UNCHANGED <<pc, out>>
    BY <1>2 DEF UpOne
  <2>2. s \in Services /\ loaded = disk
    BY <1>0, <2>1 DEF Doing, Applied
  <2>3. /\ run'[s] # Down /\ (s \in Having(p, "written") => run'[s] = disk[s])
        /\ \A t \in Services \ {s} : run'[t] = run[t]
    BY <1>0, <2>1, <2>2, RunEffect DEF Up
  <2>4. OneDone(p, s)
    BY <2>1, <2>3 DEF OneDone, UpOne
  <2>. QED  BY <1>0, <2>1, <2>3, <2>4, OneDoneDoes
<1>. QED  BY <1>1, <1>2

LEMMA RestartDoes ==
  ASSUME VerbsInv, NEW p \in Verbs, RestartEach(p)
  PROVE  Aimed(p)' /\ Doing(p)'
<1>0. /\ DOMAIN pc = Procs /\ DOMAIN out = Procs /\ p \in Procs /\ Shaped
      /\ pc[p] = "vstart" /\ job[p].verb = "restart" /\ left[p] \subseteq Services
  BY Places DEF VerbsInv, Shaped, JobType, RestartEach, At
<1>1. CASE Return(p, "failed")
  BY <1>0, <1>1, Failing DEF Return, Goto
<1>2. CASE ~Return(p, "failed")
  <2>1. PICK s \in left[p] : RestartOk(s) /\ Handled(p, s) /\ UNCHANGED <<pc, out>>
    BY <1>2 DEF RestartEach
  <2>2. run'[s] = loaded[s] /\ \A t \in Services \ {s} : run'[t] = run[t]
    BY <1>0, <2>1, RunEffect
  <2>3. OneDone(p, s)
    BY <2>1, <2>2 DEF OneDone, RestartEach
  <2>. QED  BY <1>0, <2>1, <2>2, <2>3, OneDoneDoes
<1>. QED  BY <1>1, <1>2

LEMMA DownDoes ==
  ASSUME VerbsInv, NEW p \in Verbs, DownOne(p)
  PROVE  Aimed(p)' /\ Doing(p)'
<1>0. /\ DOMAIN pc = Procs /\ DOMAIN out = Procs /\ p \in Procs /\ run \in RunOf
      /\ pc[p] = "vstop" /\ left[p] \subseteq Services
  BY Places DEF VerbsInv, Shaped, HostType, JobType, DownOne, At
<1>1. CASE Return(p, "failed")
  BY <1>0, <1>1, Failing DEF Return, Goto
<1>2. CASE ~Return(p, "failed")
  <2>1. PICK s \in left[p] : run' = [run EXCEPT ![s] = Down] /\ Handled(p, s) /\ UNCHANGED <<pc, out>>
    BY <1>2 DEF DownOne
  <2>2. run'[s] = Down /\ \A t \in Services \ {s} : run'[t] = run[t]
    BY <1>0, <2>1 DEF RunOf
  <2>3. OneDone(p, s)
    BY <2>1, <2>2 DEF OneDone, DownOne
  <2>. QED  BY <1>0, <2>1, <2>2, <2>3, OneDoneDoes
<1>. QED  BY <1>1, <1>2

LEMMA DoneDoes ==
  ASSUME VerbsInv, NEW p \in Verbs, VerbDone(p)
  PROVE  Aimed(p)' /\ Doing(p)'
<1>0. /\ DOMAIN pc = Procs /\ DOMAIN out = Procs /\ p \in Procs /\ Doing(p)
      /\ pc[p] \in {"vstart", "vstop"} /\ OnCourse(p)
      /\ pc[p] = "vstart" => job[p].verb \in {"up", "restart"}
      /\ pc[p] = "vstop" => job[p].verb = "down"
  BY Places DEF VerbsInv, Shaped, VerbDone, At, OnCourse, Doing, Read
<1>1. /\ pc'[p] = "release" /\ out'[p] = job[p].verb /\ left[p] = {}
      /\ cfg' = cfg /\ disk' = disk /\ loaded' = loaded /\ run' = run
      /\ prior' = prior /\ todo' = todo /\ job' = job
  BY <1>0 DEF VerbDone, Return, Goto, host, verbVars
<1>2. Aimed(p)'
  BY <1>1 DEF Aimed, InApply
<1>3. Read(p)' /\ Spared(p)' /\ Applied(p)' /\ Handling(p)'
  BY <1>1 DEF Read, Spared, Applied, Handling, OnCourse, Applying, InApply
<1>4. Reported(p)'
  BY <1>0, <1>1 DEF Doing, Reported, Handling, Applied, Downed, Restarted, Upped, Stack, RenderedServices, Having,
                    AsRendered, Text
<1>. QED  BY <1>2, <1>3, <1>4 DEF Doing

LEMMA VerbKeeps ==
  ASSUME VerbsInv, NEW p \in Verbs, VerbStep(p)
  PROVE  VerbsInv'
<1>0. Shaped /\ JobType /\ OneInside /\ DOMAIN pc = Procs /\ DOMAIN out = Procs /\ p \in Procs
  BY Places DEF VerbsInv, Shaped
<1>1. Shaped' /\ JobType' /\ OneInside' /\ Chosen'
  BY <1>0, VerbShape, VerbInside, VerbChosen
<1>2. Aimed(p)' /\ Doing(p)'
  <2>1. CASE VerbAcquire(p) \/ VerbRelease(p)
    <3>1. pc'[p] \in {"vload", "done"}
      BY <1>0, <2>1 DEF VerbAcquire, VerbRelease, ForgetVerb, Forget, Goto
    <3>. QED  BY <3>1, Outside
  <2>2. CASE VerbSet(p)
    <3>1. pc'[p] = "release" /\ out'[p] \in {"set", "failed"}
      BY <1>0, <2>2 DEF VerbSet, Return, Goto
    <3>. QED  BY <3>1, Failing
  <2>. QED
    BY <2>1, <2>2, LoadDoes, ApplyDoes, AfterApplyDoes, UpDoes, RestartDoes, DownDoes, DoneDoes DEF VerbStep
<1>3. ASSUME NEW q \in Procs \ {p}
      PROVE  (q \in Swaps => Window(q)') /\ (q \in Verbs => Aimed(q)' /\ Doing(q)')
  <2>1. UNCHANGED Locals(q) /\ (q \in Verbs => job'[q] = job[q] /\ left'[q] = left[q])
    BY <1>0, VerbFrame
  <2>2. lock = q => UNCHANGED host
    BY <1>0, VerbHost, Places
  <2>. QED  BY <2>1, <2>2, Bystander
<1>. QED  BY <1>1, <1>2, <1>3, Places DEF VerbsInv

----------------------------------------------------------------------------
(* Crashes, and the operator's editor                                      *)

\* The processes of S die: whoever is left keeps what it had, and an account of what
\* was chosen is no longer given.
Dies(S) ==
  /\ Forget(S) /\ UNCHANGED host
  /\ \A q \in Procs \ S : out'[q] = out[q] /\ (q \in Verbs => job'[q] = job[q] /\ left'[q] = left[q])
  /\ \A q \in S : out'[q] = "crashed"
  /\ crashes' # 0

LEMMA DeathKeeps ==
  ASSUME VerbsInv, NEW S \in SUBSET Procs, Dies(S), Shaped', JobType'
  PROVE  VerbsInv'
<1>0. /\ \A q \in S : pc'[q] = "done" /\ out'[q] = "crashed"
      /\ \A q \in Procs \ S : UNCHANGED Locals(q)
      /\ lock' = (IF lock \in S THEN Free ELSE lock) /\ Free \notin Procs
  BY Places DEF Dies, Forget, Locals
<1>1. OneInside'
  <2>1. \A q \in Procs \ S : pc'[q] = pc[q]
    BY <1>0 DEF Locals
  <2>2. "done" \notin Critical
    BY DEF Critical, BeforeSave, InApply, InRollback
  <2>3. OneInside
    BY DEF VerbsInv
  <2>. QED  BY <1>0, <2>1, <2>2, <2>3, Places DEF OneInside
<1>2. Chosen'
  <2>1. ASSUME NEW q \in Swaps PROVE Admits(q)'
    <3>1. CASE q \in S
      BY <1>0, <3>1 DEF Admits
    <3>2. CASE q \notin S
      BY <1>0, <3>2, Places DEF VerbsInv, Chosen, Admits, Locals
    <3>. QED  BY <3>1, <3>2
  <2>. QED  BY <2>1 DEF Chosen, Accountable, Dies
<1>3. ASSUME NEW q \in Procs
      PROVE  (q \in Swaps => Window(q)') /\ (q \in Verbs => Aimed(q)' /\ Doing(q)')
  <2>1. CASE q \in S
    <3>1. pc'[q] = "done"
      BY <1>0, <2>1
    <3>2. Window(q)'
      BY <3>1 DEF Window, Config_, Touched, Planned, Working, Critical, BeforeSave, InApply, InRollback
    <3>. QED  BY <3>1, <3>2, Outside
  <2>2. CASE q \notin S
    BY <1>0, <2>2, Bystander DEF Dies
  <2>. QED  BY <2>1, <2>2
<1>. QED  BY <1>1, <1>2, <1>3, Places DEF VerbsInv

LEMMA CrashKeeps ==
  ASSUME VerbsInv, Crash, UNCHANGED verbVars
  PROVE  VerbsInv'
<1>0. /\ crashes \in Nat /\ crashes' = crashes + 1 /\ UNCHANGED host /\ HostType /\ LocalType
      /\ job' = job /\ left' = left /\ JobType
  BY DEF VerbsInv, Shaped, JobType, Crash, verbVars
<1>1. PICK dead \in {{p} : p \in Cli} \cup {Dash} :
        LET live == {p \in dead : pc[p] \notin {"idle", "done"}} IN
        /\ Forget(live) /\ out' = [p \in Procs |-> IF p \in live THEN "crashed" ELSE out[p]]
  BY DEF Crash
<1>. DEFINE live == {p \in dead : pc[p] \notin {"idle", "done"}}
<1>2. live \subseteq Procs
  BY <1>1, SwapAssumption
<1>3. Dies(live)
  BY <1>0, <1>1, <1>2 DEF Dies
<1>4. Forget(live) /\ DOMAIN out' = Procs
  BY <1>1
<1>. HIDE DEF live
<1>5. Shaped' /\ JobType'
  <2>1. LocalType'
    BY <1>4, ForgetLocals DEF VerbsInv
  <2>2. DOMAIN pc' = Procs
    BY <1>4 DEF Forget
  <2>. QED  BY <1>0, <1>4, <2>1, <2>2 DEF Shaped, HostType, JobType, host
<1>. QED  BY <1>2, <1>3, <1>5, DeathKeeps

LEMMA VerbCrashKeeps ==
  ASSUME VerbsInv, NEW p \in Verbs, VerbCrash(p)
  PROVE  VerbsInv'
<1>0. Shaped /\ JobType /\ DOMAIN out = Procs /\ DOMAIN job = Verbs /\ DOMAIN left = Verbs /\ crashes \in Nat
  BY DEF VerbsInv, Shaped, JobType
<1>1. Dies({p})
  <2>1. crashes' # 0
    BY <1>0 DEF VerbCrash
  <2>. QED  BY <1>0, <2>1, Places DEF Dies, VerbCrash, ForgetVerb
<1>. QED  BY <1>0, <1>1, VerbShape, DeathKeeps, Places

LEMMA EditKeeps ==
  ASSUME VerbsInv, Edit
  PROVE  VerbsInv'
<1>0. /\ lock = Free /\ lock' = lock /\ Free \notin Procs /\ OneInside /\ Shaped /\ JobType
      /\ UNCHANGED <<env, disk, loaded, run, pc, prior, next, captured, base, todo, restarted, out, crashes, job, left>>
  BY Places DEF VerbsInv, Edit, locals, swapOnly
<1>1. PICK c \in Configs \ {cfg.id} : cfg' = [cfg EXCEPT !.id = c] /\ wanted' = c
  BY DEF Edit
<1>2. cfg \in Config
  BY <1>0 DEF Shaped, HostType
<1>3. cfg' \in Config /\ cfg'.id = wanted'
  BY <1>1, <1>2 DEF Config
<1>4. Shaped' /\ JobType' /\ OneInside'
  BY <1>0, <1>3 DEF Shaped, HostType, LocalType, JobType, OneInside
<1>5. ASSUME NEW q \in Procs
      PROVE  (q \in Swaps => Window(q)') /\ (q \in Verbs => Aimed(q)' /\ Doing(q)')
  BY <1>0, Bystander DEF Locals
<1>6. Chosen'
  <2>1. \A q \in Swaps : Admits(q)'
    BY <1>0 DEF VerbsInv, Chosen, Admits
  <2>2. ASSUME Accountable', NEW q \in Swaps PROVE Keeping(q)'
    <3>1. Accountable
      BY <1>0, <2>2 DEF Accountable
    <3>. QED  BY <1>0, <3>1, Places, BystanderKeeps DEF VerbsInv, Chosen, Locals
  <2>. QED  BY <1>3, <2>1, <2>2 DEF Chosen
<1>. QED  BY <1>4, <1>5, <1>6, Places DEF VerbsInv

LEMMA StutterKeeps ==
  ASSUME VerbsInv, UNCHANGED allVars
  PROVE  VerbsInv'
<1>0. /\ UNCHANGED <<lock, host, pc, prior, next, captured, base, todo, restarted, out, crashes, job, left, wanted>>
  BY DEF allVars, vars, verbVars, locals
<1>1. Shaped' /\ JobType' /\ OneInside'
  BY <1>0 DEF VerbsInv, Shaped, HostType, LocalType, JobType, OneInside, host
<1>2. ASSUME NEW q \in Procs
      PROVE  (q \in Swaps => Window(q)') /\ (q \in Verbs => Aimed(q)' /\ Doing(q)')
  BY <1>0, <1>2, Bystander DEF Locals
<1>3. Chosen'
  BY <1>0 DEF VerbsInv, Chosen, Admits, Accountable, Keeping, Working, host
<1>. QED  BY <1>1, <1>2, <1>3, Places DEF VerbsInv

----------------------------------------------------------------------------
(* The theorems                                                            *)

LEMMA VerbsInitInv == VerbsInit => VerbsInv
<1>. SUFFICES ASSUME VerbsInit PROVE VerbsInv
  OBVIOUS
<1>1. TypeOK /\ Init
  BY InitType DEF VerbsInit
<1>2. Shaped
  BY <1>1, TypedIsShaped
<1>3. ASSUME NEW p \in Procs PROVE pc[p] = "idle" /\ out[p] = "none" /\ restarted[p] = {}
  BY <1>1 DEF Init
<1>4. JobType
  BY <1>1 DEF VerbsInit, JobType, NoJob, Kind, Init
<1>5. OneInside
  BY <1>1, Places DEF Init, OneInside, Critical, BeforeSave, InApply, InRollback
<1>6. Chosen
  BY <1>1, Places DEF Init, VerbsInit, Chosen, Admits, Keeping, Working, Critical, BeforeSave, InApply, InRollback
<1>7. ASSUME NEW p \in Procs PROVE Window(p) /\ Aimed(p) /\ Doing(p)
  <2>1. pc[p] = "idle" /\ restarted[p] = {}
    BY <1>3
  <2>2. Window(p) /\ Aimed(p)
    BY <2>1 DEF Window, Config_, Touched, Planned, Aimed, Working, Critical, BeforeSave, InApply, InRollback
  <2>3. Doing(p)
    BY <2>1 DEF Doing, Read, Spared, Applied, Handling, Reported, OnCourse, Applying, InApply
  <2>. QED  BY <2>2, <2>3
<1>. QED  BY <1>2, <1>4, <1>5, <1>6, <1>7, Places DEF VerbsInv

LEMMA VerbsNextInv == VerbsInv /\ [VerbsNext]_allVars => VerbsInv'
<1>. SUFFICES ASSUME VerbsInv, [VerbsNext]_allVars PROVE VerbsInv'
  OBVIOUS
<1>1. CASE UNCHANGED allVars
  BY <1>1, StutterKeeps
<1>2. CASE VerbsNext
  BY <1>1, <1>2, SwapKeeps, VerbKeeps, VerbCrashKeeps, CrashKeeps, EditKeeps DEF VerbsNext, AllDone
<1>. QED  BY <1>1, <1>2

LEMMA VerbsInvHolds == VerbsSpec => []VerbsInv
  BY VerbsInitInv, VerbsNextInv, PTL DEF VerbsSpec

\* config.go:159: whatever swaps fail and roll back, whatever verbs and edits come
\* between them, the config on disk is the one that was last chosen.
THEOREM ChosenConfig == VerbsSpec => []ConfigIsAsChosen
<1>1. VerbsInv => ConfigIsAsChosen
  BY Places DEF VerbsInv, Chosen, ConfigIsAsChosen
<1>. QED  BY <1>1, VerbsInvHolds, PTL

LEMMA AskedAndDone == VerbsInv => DidAsAsked
<1>. SUFFICES ASSUME VerbsInv PROVE OthersAreLeft /\ VerbIsHonest
  BY DEF DidAsAsked
<1>1. ASSUME NEW p \in Verbs, Working(p) \/ pc[p] \in {"vset", "vstart", "vstop"}, NEW s \in Stack(p), ~Asked(p, s)
      PROVE  run[s] = base[p][s]
  <2>1. pc[p] \in {"idle", "done"} \cup VerbHolds /\ Spared(p)
    BY DEF VerbsInv, OneInside, Doing
  <2>2. OnCourse(p)
    BY <1>1, <2>1 DEF OnCourse, VerbHolds, Applying, Working, Critical, BeforeSave, InApply, InRollback
  <2>. QED  BY <1>1, <2>1, <2>2 DEF Spared
<1>2. OthersAreLeft
  BY <1>1 DEF OthersAreLeft, Stack, Asked
<1>3. ASSUME NEW p \in Verbs, pc[p] = "release", job[p].target = All
      PROVE  /\ out[p] = "down" => \A s \in Stack(p) : run[s] = Down
             /\ out[p] \in {"up", "restart"} =>
                  \A u \in Units : disk[u] = Rendered[cfg.id][u] \/ (u \notin Registry /\ Rendered[cfg.id][u] = None)
             /\ out[p] = "restart" => \A s \in Stack(p) : run[s] = loaded[s]
             /\ out[p] = "up" =>
                  /\ loaded = disk
                  /\ \A s \in Stack(p) : run[s] # Down /\ (s \in Having(p, "written") => run[s] = disk[s])
  <2>1. Reported(p)
    BY DEF VerbsInv, Doing
  <2>. QED  BY <1>3, <2>1 DEF Reported, AsRendered, Text
<1>4. VerbIsHonest
  BY <1>3 DEF VerbIsHonest, Stack
<1>. QED  BY <1>2, <1>4

\* A swap starts what it proves, or what it found running.
LEMMA SwapStarts ==
  ASSUME VerbsInv, NEW p \in Swaps, Step(p), NEW s \in Services, run[s] = Down, run'[s] # Down
  PROVE  lock = p /\ (s = Service \/ base[p][s] # Down)
<1>0. Shaped /\ p \in Procs /\ DOMAIN pc = Procs /\ run \in RunOf
  BY Places DEF VerbsInv, Shaped, HostType
<1>1. ~UNCHANGED host
  BY DEF host
<1>2. InsideStep(p) /\ lock = p
  BY <1>0, <1>1, SwapHost DEF VerbsInv, OneInside, Acquire, TrySwapMu, TryAcquire, Release
<1>3. RestartOne(p) \/ RestartProven(p) \/ RollbackRestart(p)
  <2>1. ~StopOrphan(p)
    BY <1>0 DEF StopOrphan, RunOf
  <2>2. ~(Load(p) \/ Change(p) \/ Capture(p) \/ SaveNext(p) \/ HealKey(p) \/ HealEnv(p) \/ PlanApply(p))
    BY DEF Load, Change, Capture, SaveNext, HealKey, HealEnv, PlanApply, host
  <2>3. ~(WriteUnit(p) \/ RemoveUnit(p) \/ Reload(p) \/ AfterApply(p) \/ Prove(p))
    BY DEF WriteUnit, RemoveUnit, Reload, AfterApply, Prove, host
  <2>4. ~(RollbackUnits(p) \/ RollbackConfig(p) \/ RollbackReload(p) \/ RolledBack(p))
    BY DEF RollbackUnits, RollbackConfig, RollbackReload, RolledBack, host
  <2>. QED  BY <1>2, <2>1, <2>2, <2>3, <2>4 DEF InsideStep
<1>4. base' = base /\ pc'[p] \in {"restart", "prove", "rbunits", "rbrestart"}
  BY <1>0, <1>3 DEF RestartOne, RestartProven, RollbackRestart, Goto
<1>5. Window(p)' /\ Working(p)'
  BY <1>0, <1>4, OwnStep DEF VerbsInv, Working, Critical, InRollback
<1>. QED  BY <1>2, <1>4, <1>5 DEF Window, Touched

\* A verb starts what it was asked to.
LEMMA VerbStarts ==
  ASSUME VerbsInv, NEW p \in Verbs, VerbStep(p), NEW s \in Services, run[s] = Down, run'[s] # Down
  PROVE  lock = p /\ job[p].verb \in {"up", "restart"} /\ job[p].target \in {All, s}
<1>0. /\ p \in Procs /\ DOMAIN pc = Procs /\ run \in RunOf /\ OneInside /\ Read(p) /\ left[p] \subseteq Services
      /\ pc[p] = "vstart" => lock = p
  BY Places DEF VerbsInv, Shaped, HostType, Doing, JobType, OneInside
<1>1. ASSUME NEW t \in Services, RestartOk(t) \/ RestartFails(t) \/ StartOk(t) \/ StartFails(t) PROVE t = s
  BY <1>0, <1>1 DEF RestartOk, RestartFails, StartOk, StartFails, RunOf
<1>2. CASE UpOne(p)
  <2>1. PICK t \in left[p] : run' = run \/ RestartOk(t) \/ RestartFails(t) \/ StartOk(t) \/ StartFails(t)
    BY <1>2 DEF UpOne
  <2>2. s \in left[p] /\ pc[p] = "vstart" /\ job[p].verb = "up"
    BY <1>0, <1>1, <1>2, <2>1 DEF UpOne, At
  <2>. QED  BY <1>0, <2>2 DEF Read, Targets
<1>3. CASE RestartEach(p)
  <2>1. PICK t \in left[p] : RestartOk(t) \/ RestartFails(t)
    BY <1>3 DEF RestartEach
  <2>2. s \in left[p] /\ pc[p] = "vstart" /\ job[p].verb = "restart"
    BY <1>0, <1>1, <1>3, <2>1 DEF RestartEach, At
  <2>. QED  BY <1>0, <2>2 DEF Read, Targets
<1>4. ~DownOne(p)
  BY <1>0 DEF DownOne, RunOf
<1>5. ~VerbApply(p)
  <2>1. ~StopOrphan(p)
    BY <1>0 DEF StopOrphan, RunOf
  <2>2. ~(HealKey(p) \/ HealEnv(p) \/ PlanApply(p) \/ WriteUnit(p) \/ RemoveUnit(p) \/ Reload(p))
    BY DEF HealKey, HealEnv, PlanApply, WriteUnit, RemoveUnit, Reload, host
  <2>. QED  BY <2>1, <2>2 DEF VerbApply, Apply
<1>6. ~(VerbAcquire(p) \/ VerbLoad(p) \/ VerbSet(p) \/ AfterVerbApply(p) \/ VerbDone(p) \/ VerbRelease(p))
  BY DEF VerbAcquire, VerbLoad, VerbSet, AfterVerbApply, VerbDone, VerbRelease, host
<1>. QED  BY <1>2, <1>3, <1>4, <1>5, <1>6 DEF VerbStep

LEMMA StartsAreAsked == VerbsInv /\ [VerbsNext]_allVars => OnlyTheAskedStarts
<1>. SUFFICES ASSUME VerbsInv, [VerbsNext]_allVars, NEW s \in Services, run[s] = Down, run'[s] # Down
              PROVE  \/ lock \in Verbs /\ job[lock].verb \in {"up", "restart"} /\ job[lock].target \in {All, s}
                     \/ lock \in Swaps /\ (s = Service \/ base[lock][s] # Down)
  BY DEF OnlyTheAskedStarts
<1>1. ASSUME NEW p \in Swaps, SwapStep(p) PROVE lock \in Swaps /\ (s = Service \/ base[lock][s] # Down)
  BY <1>1, SwapStarts DEF SwapStep
<1>2. ASSUME NEW p \in Verbs, VerbStep(p)
      PROVE  lock \in Verbs /\ job[lock].verb \in {"up", "restart"} /\ job[lock].target \in {All, s}
  BY <1>2, VerbStarts
<1>3. ~UNCHANGED run
  OBVIOUS
<1>. QED
  BY <1>1, <1>2, <1>3 DEF VerbsNext, VerbCrash, Crash, Edit, AllDone, allVars, vars, host

\* A verb does what it was asked, to what it was asked: from its load to its return it
\* leaves every other service of the stack alone, what it reports of a whole stack is so,
\* and no step of anyone starts a service that was not asked for, proven or found running.
THEOREM VerbsHonest == VerbsSpec => VerbsAreHonest
<1>1. VerbsInv' => DidAsAsked'
  BY AskedAndDone, PTL
<1>2. VerbsInv /\ VerbsInv' /\ [VerbsNext]_allVars => [DidAsAsked' /\ OnlyTheAskedStarts]_allVars
  BY <1>1, StartsAreAsked
<1>. QED  BY <1>2, AskedAndDone, VerbsInvHolds, PTL DEF VerbsSpec, VerbsAreHonest
=============================================================================

------------------------------ MODULE TaskRunner -----------------------------
(***************************************************************************)
(* internal/taskrun: the workspace agent's runner, in the dashboard's      *)
(* process.  One worker goroutine takes queued tasks one at a time and     *)
(* drives each one's sandbox; HTTP handlers submit, answer and cancel      *)
(* under the runner's mutex, concurrently with it; Close stops it; and a   *)
(* service start recovers the records a dead process left behind.          *)
(*                                                                         *)
(* A sandbox is a container (vm) and the podman client attached to it      *)
(* (client), whose stdout is the event stream: the stream ends when the    *)
(* client does, and the client is a child bound to the job's context, so   *)
(* it dies when that context is cancelled, container or no container.      *)
(***************************************************************************)
EXTENDS TaskStore, Approval, Naturals, Sequences, FiniteSets

CONSTANTS
  None,
  Handlers,     \* HTTP requests that submit a task or cancel a queued one
  Viewers,      \* who follows the event stream
  ModeOf,       \* each task's approval mode
  Asked,        \* the kinds of tool call a harness asks about
  MaxAsks,      \* bound on the permission requests of one task
  MaxStops,     \* bound on how often the service dies or is stopped
  MaxFaults     \* bound on the store writes and kills that fail

Grants == {"allow", "allow_session", "deny"}

ASSUME RunnerAssumption ==
  /\ None \notin Tasks /\ None \notin Grants
  /\ ModeOf \in [Tasks -> Modes] /\ Asked \subseteq Request
  /\ MaxAsks \in Nat /\ MaxStops \in Nat /\ MaxFaults \in Nat

VARIABLES
  phase,        \* "recovering" at start, then "serving"
  found,        \* what Recover interrupted and has still to kill
  skipped,      \* what Recover could not mark
  stops, faults,
  queue, wake,  \* the queued ids, and the token in the wake channel
  current,      \* Runner.current's task
  closer,       \* Close: "no", "stopping", "joining", "closed"
  waits,        \* the tasks with a detached Wait
  subs,         \* the registered <<task, viewer>> streams
  handler,      \* what each HTTP request has still to do, [at, task]
  \* the worker, and the active/job it owns
  at,           \* where it is
  job,          \* its task
  goal, then,   \* the state it is writing, and where it goes on afterwards
  flags,        \* of active: awaiting, cancelled, interrupted, signalled, ctx
  noted,        \* of job: session, complete, flagged
  answer,       \* the buffered answer
  pending,      \* the parked request, 0 for none
  asks,         \* how many requests the job has seen
  \* the sandboxes
  vm, client,
  \* histories
  told,         \* the answers, by the request that was parked when they arrived
  granted       \* the answers the sandbox got

service == <<phase, found, skipped, stops>>
shared  == <<queue, wake, current, closer, waits, subs>>
jobvars == <<noted, answer, pending, asks>>
history == <<told, granted>>
vars == <<rec, service, faults, shared, handler, at, job, goal, then, flags, jobvars,
          vm, client, history>>

Free == [at |-> "free", task |-> None]

Init ==
  /\ rec = [t \in Tasks |-> Absent]
  /\ phase = "serving"
  /\ found = {} /\ skipped = {}
  /\ queue = <<>> /\ wake = 0 /\ current = None
  /\ closer = "no" /\ waits = {} /\ subs = {}
  /\ handler = [h \in Handlers |-> Free]
  /\ at = "top" /\ job = None /\ goal = "queued" /\ then = "return"
  /\ flags = {} /\ noted = {} /\ answer = None /\ pending = 0 /\ asks = 0
  /\ client = {}
  /\ told = {} /\ granted = {}
  /\ stops = 0 /\ faults = 0 /\ vm = {}

Fault   == faults < MaxFaults /\ faults' = faults + 1
NoFault == faults' = faults

----------------------------------------------------------------------------
(* The service: start, stop, death                                          *)

\* The process dies, or Close has returned and it exits; systemd starts it again.
\* Nothing of the process but its records and its containers outlives it.
Restart ==
  /\ stops < MaxStops /\ stops' = stops + 1
  /\ phase' = "recovering"
  /\ found' = {} /\ skipped' = {}
  /\ queue' = <<>> /\ wake' = 0 /\ current' = None
  /\ closer' = "no" /\ waits' = {} /\ subs' = {}
  /\ handler' = [h \in Handlers |-> Free]
  /\ at' = "top" /\ job' = None /\ goal' = "queued" /\ then' = "return"
  /\ flags' = {} /\ noted' = {} /\ answer' = None /\ pending' = 0 /\ asks' = 0
  /\ client' = {}
  /\ told' = {} /\ granted' = {}
  /\ UNCHANGED <<rec, faults, vm>>

\* Store.Recover: every record that is not finished is interrupted; one that cannot
\* be written is skipped (#238).
RecoverStarted(t) == rec[t] \in Live        \* mutant: a queued record is left
RecoverAll(t) == rec[t] # Absent             \* mutant: every record is marked
Recoverable(t) == t \in Unfinished
RecoverMark ==
  /\ phase = "recovering"
  /\ \E t \in Tasks \ skipped :
       /\ Recoverable(t)
       /\ \/ Write(t, "interrupted") /\ found' = found \cup {t} /\ NoFault /\ UNCHANGED skipped
          \/ Fault /\ skipped' = skipped \cup {t} /\ UNCHANGED <<rec, found>>
  /\ UNCHANGED <<phase, stops, shared, handler, at, job, goal, then, flags, jobvars, vm, client, history>>

\* Runner.Recover then kills each one's container by name, best effort, and only
\* then does the dashboard bind its port.
RecoverKill ==
  /\ phase = "recovering"
  /\ {t \in Tasks : Recoverable(t)} \subseteq skipped
  /\ \/ /\ found = {} /\ phase' = "serving"
        /\ NoFault /\ UNCHANGED <<found, vm>>
     \/ \E t \in found :
          /\ found' = found \ {t}
          /\ \/ vm' = vm \ {t} /\ NoFault
             \/ Fault /\ UNCHANGED vm
          /\ UNCHANGED phase
  /\ UNCHANGED <<rec, skipped, stops, shared, handler, at, job, goal, then, flags, jobvars, client, history>>

\* Close: the stop channel is closed, ...
CloseStop ==
  /\ phase = "serving"
  /\ closer = "no" /\ closer' = "stopping"
  /\ UNCHANGED <<rec, service, faults, queue, wake, current, waits, subs, handler, at, job, goal,
                 then, flags, jobvars, vm, client, history>>

\* A cancel of the active task: its flags, its context once run has set one, and
\* the token for the worker.
CancelMark == {"cancelled"}        \* mutant: the worker is not told
CancelFlags == {"cancelled", "signalled"} \cup IF at = "run" THEN {} ELSE {"ctx"}

\* ... then, under the mutex, the current task is cancelled as Close's, ...
CloseCancel ==
  /\ closer = "stopping" /\ closer' = "joining"
  /\ flags' = IF current # None /\ "cancelled" \notin flags
              THEN flags \cup CancelFlags \cup {"interrupted"} ELSE flags
  /\ UNCHANGED <<rec, service, faults, queue, wake, current, waits, subs, handler, at, job, goal,
                 then, jobvars, vm, client, history>>

\* ... and the worker and every detached Wait are joined.
NothingJoined == TRUE      \* mutant: Close does not wait
Joined == at = "exited" /\ waits \cap client = {}
CloseReturn ==
  /\ closer = "joining" /\ Joined
  /\ closer' = "closed"
  /\ UNCHANGED <<rec, service, faults, queue, wake, current, waits, subs, handler, at, job, goal,
                 then, flags, jobvars, vm, client, history>>

----------------------------------------------------------------------------
(* The HTTP handlers                                                        *)

Serving == phase = "serving" /\ closer # "closed"
Become(h, place, t) == handler' = [handler EXCEPT ![h] = [at |-> place, task |-> t]]
Done(h) == handler' = [handler EXCEPT ![h] = Free]

\* Submit: a refusal is a finished record; otherwise the record is written queued,
\* and only then is the id appended to the queue and the worker woken.
Submit(h) ==
  /\ Serving /\ handler[h] = Free
  /\ \E t \in Tasks :
       \/ Create(t, "refused") /\ UNCHANGED handler
       \/ Create(t, "queued") /\ Become(h, "append", t)
  /\ UNCHANGED <<service, faults, shared, at, job, goal, then, flags, jobvars, vm, client, history>>

Enqueue(h) ==
  /\ handler[h].at = "append"
  /\ queue' = Append(queue, handler[h].task)
  /\ Become(h, "wake", handler[h].task)
  /\ UNCHANGED <<rec, service, faults, wake, current, closer, waits, subs, at, job, goal, then,
                 flags, jobvars, vm, client, history>>

\* The send to the wake channel: its one slot keeps the token.
WakeUnbuffered == wake' \in {wake, 1}     \* mutant: no slot; a worker not yet listening misses it
WakeCounts == wake' = wake + 1            \* mutant: a slot for every task
WakeToken == wake' = 1
Wake(h) ==
  /\ handler[h].at = "wake"
  /\ WakeToken
  /\ Done(h)
  /\ UNCHANGED <<rec, service, faults, queue, current, closer, waits, subs, at, job, goal, then,
                 flags, jobvars, vm, client, history>>

\* Cancel of a queued task: out of the queue under the mutex, then the record.
Keep(i) == queue                                   \* mutant: the id stays queued
Without(i) == SubSeq(queue, 1, i - 1) \o SubSeq(queue, i + 1, Len(queue))
CancelQueued(h) ==
  /\ Serving /\ handler[h] = Free
  /\ \E i \in DOMAIN queue : queue' = Without(i) /\ Become(h, "drop", queue[i])
  /\ UNCHANGED <<rec, service, faults, wake, current, closer, waits, subs, at, job, goal, then,
                 flags, jobvars, vm, client, history>>

Drop(h) ==
  /\ handler[h].at = "drop"
  /\ IF CanTransition(rec[handler[h].task], "cancelled")
     THEN Become(h, "dropwrite", handler[h].task) ELSE Done(h)
  /\ UNCHANGED <<rec, service, faults, shared, at, job, goal, then, flags, jobvars, vm, client, history>>

DropWrite(h) ==
  /\ handler[h].at = "dropwrite"
  /\ \/ Write(handler[h].task, "cancelled") /\ Become(h, "dropclose", handler[h].task) /\ NoFault
     \/ Fault /\ Done(h) /\ UNCHANGED rec
  /\ UNCHANGED <<service, shared, at, job, goal, then, flags, jobvars, vm, client, history>>

CloseSubs(t) == subs' = {s \in subs : s[1] # t}

DropClose(h) ==
  /\ handler[h].at = "dropclose"
  /\ CloseSubs(handler[h].task)
  /\ Done(h)
  /\ UNCHANGED <<rec, service, faults, queue, wake, current, closer, waits, at, job, goal, then,
                 flags, jobvars, vm, client, history>>

\* Cancel of the current task.  A second one changes nothing.
CancelCurrent ==
  /\ Serving
  /\ current # None /\ "cancelled" \notin flags
  /\ flags' = flags \cup CancelFlags
  /\ UNCHANGED <<rec, service, faults, shared, handler, at, job, goal, then, jobvars, vm, client, history>>

\* Approve and Deny name the task, not the request.  The claim flag is cleared
\* under the mutex, so that one answer reaches the worker.
Answer ==
  /\ Serving
  /\ current # None /\ "awaiting" \in flags
  /\ \E g \in Grants :
       /\ answer' = g
       /\ told' = told \cup {<<pending, g>>}
  /\ flags' = flags \ {"awaiting"}
  /\ UNCHANGED <<rec, service, faults, shared, handler, at, job, goal, then, noted, pending, asks,
                 vm, client, granted>>

\* Subscribe: registered, under the mutex, unless the record is already finished.
Registers(t) == rec[t] # Absent              \* mutant: the record is not looked at
Registrable(t) == t \in Unfinished
Subscribe ==
  /\ Serving
  /\ \E t \in Tasks, v \in Viewers :
       /\ Registrable(t)
       /\ \A s \in subs : s[2] # v
       /\ subs' = subs \cup {<<t, v>>}
  /\ UNCHANGED <<rec, service, faults, queue, wake, current, closer, waits, handler, at, job, goal,
                 then, flags, jobvars, vm, client, history>>

----------------------------------------------------------------------------
(* The worker                                                               *)

\* The store write of a transition (the worker goes on at k) or of a finish (its
\* task is over).
Transit(to, k) == goal' = to /\ then' = k /\ at' = "edge"
Finish(to) == Transit(to, "return")

\* The word a cancelled job ends on: Close's, or the operator's.
CancelWord == IF "interrupted" \in flags THEN "interrupted" ELSE "cancelled"

\* work: look at the stop channel, then take the head of the queue or sleep.
Top ==
  /\ at = "top"
  /\ at' = IF closer = "no" THEN "take" ELSE "exited"
  /\ UNCHANGED <<rec, service, faults, shared, handler, job, goal, then, flags, jobvars, vm, client, history>>

Take ==
  /\ at = "take"
  /\ IF queue = <<>>
     THEN at' = "sleep" /\ UNCHANGED <<queue, current, job, flags, jobvars, history>>
     ELSE /\ at' = "run"
          /\ job' = Head(queue) /\ current' = Head(queue) /\ queue' = Tail(queue)
          /\ flags' = {} /\ noted' = {} /\ answer' = None /\ pending' = 0 /\ asks' = 0
          /\ told' = {} /\ granted' = {}
  /\ UNCHANGED <<rec, service, faults, wake, closer, waits, subs, handler, goal, then, vm, client>>

Sleep ==
  /\ at = "sleep"
  /\ \/ wake = 1 /\ wake' = 0 /\ at' = "top"
     \/ closer # "no" /\ at' = "exited" /\ UNCHANGED wake
  /\ UNCHANGED <<rec, service, faults, queue, current, closer, waits, subs, handler, job, goal, then,
                 flags, jobvars, vm, client, history>>

\* run: a record that is not queued is not run.
Runs == rec[job] = "queued"
Run ==
  /\ at = "run"
  /\ at' = IF Runs THEN "launch" ELSE "return"
  /\ UNCHANGED <<rec, service, faults, shared, handler, job, goal, then, flags, jobvars, vm, client, history>>

\* The sandbox is launched under the job's context; whatever fails before it is
\* ready is a refusal.
Launch ==
  /\ at = "launch"
  /\ \/ "ctx" \notin flags /\ vm' = vm \cup {job} /\ client' = client \cup {job}
        /\ at' = "ready" /\ UNCHANGED <<goal, then>>
     \/ Finish("refused") /\ UNCHANGED <<vm, client>>
  /\ UNCHANGED <<rec, service, faults, shared, handler, job, flags, jobvars, history>>

\* One of the worker's selects sees the cancel token.
TakeSignal ==
  /\ at \in {"ready", "loop"}
  /\ "signalled" \in flags /\ flags' = flags \ {"signalled"}
  /\ at' = "kill"
  /\ UNCHANGED <<rec, service, faults, shared, handler, job, goal, then, jobvars, vm, client, history>>

\* awaitReady, and the prompt that follows it.
AwaitReady ==
  /\ at = "ready"
  /\ \/ job \in client /\ Transit("running", "send") /\ UNCHANGED waits
     \/ job \in client /\ Finish("refused") /\ waits' = waits \cup {job}    \* bridge_error
     \/ job \notin client /\ Finish("refused") /\ UNCHANGED waits
  /\ UNCHANGED <<rec, service, faults, queue, wake, current, closer, subs, handler, job, flags,
                 jobvars, vm, client, history>>

Send ==
  /\ at = "send"
  /\ \/ job \in client /\ at' = "loop" /\ NoFault /\ UNCHANGED <<goal, then, vm>>
     \/ Finish("failed") /\ vm' = vm \ {job} /\ NoFault
     \/ Finish("failed") /\ Fault /\ UNCHANGED vm
  /\ UNCHANGED <<rec, service, shared, handler, job, flags, jobvars, client, history>>

Grant(k, r, g, by) == granted' = granted \cup {[ask |-> k, req |-> r, grant |-> g, by |-> by]}

\* decide: the table, the slot that is taken (#229), the session grant that never
\* covers a deletion, or the request is parked.
SlotNeverTaken == FALSE              \* mutant: a second ask overwrites the slot
SlotTaken == pending # 0
SessionCoversAll(r) == "session" \in noted           \* mutant: deletions too
SessionCovers(r) == "session" \in noted /\ ~r.deletion
Decision(r) ==
  CASE Decide(ModeOf[job], r) # "ask" -> [grant |-> Decide(ModeOf[job], r), by |-> "policy"]
    [] Decide(ModeOf[job], r) = "ask" /\ SlotTaken -> [grant |-> "deny", by |-> "policy"]
    [] Decide(ModeOf[job], r) = "ask" /\ ~SlotTaken /\ SessionCovers(r) -> [grant |-> "allow", by |-> "session"]
    [] OTHER -> [grant |-> "none", by |-> "operator"]

PermissionRequest ==
  /\ at = "loop" /\ job \in client
  /\ asks < MaxAsks /\ asks' = asks + 1
  /\ \E r \in Asked :
       IF Decision(r).grant # "none"
       THEN Grant(asks', r, Decision(r).grant, Decision(r).by) /\ UNCHANGED <<at, pending>>
       ELSE /\ pending' = asks'
            /\ Grant(asks', r, "none", "operator")     \* noted as asked, not yet granted
            /\ at' = "park"
  /\ UNCHANGED <<rec, service, faults, shared, handler, job, goal, then, flags, noted, answer, vm,
                 client, told>>

\* Answerable before the record says so.
ParkUnflagged == UNCHANGED flags         \* mutant: not answerable
ParkFlag == flags' = flags \cup {"awaiting"}
Park ==
  /\ at = "park"
  /\ ParkFlag
  /\ Transit("awaiting_approval", "loop")
  /\ UNCHANGED <<rec, service, faults, shared, handler, job, jobvars, vm, client, history>>

\* answerPending.
AnswerPending ==
  /\ at = "loop" /\ answer # None
  /\ answer' = None
  /\ IF pending = 0 THEN UNCHANGED <<at, goal, then, noted, pending, granted>>
     ELSE /\ noted' = noted \cup IF answer = "allow_session" THEN {"session"} ELSE {}
          /\ \E g \in granted : g.ask = pending /\ Grant(pending, g.req, answer, "operator")
          /\ pending' = 0
          /\ Transit("running", "loop")
  /\ UNCHANGED <<rec, service, faults, shared, handler, job, flags, asks, vm, client, told>>

\* The rest of the stream: run_complete, and its end, which settles the task.
StreamEvent ==
  /\ at = "loop"
  /\ \/ job \in client /\ "complete" \notin noted
        /\ noted' = noted \cup {"complete"} /\ UNCHANGED <<at, goal, then>>
     \/ job \notin client /\ "complete" \in noted
        /\ at' = "audit" /\ UNCHANGED <<goal, then, noted>>
     \/ job \notin client /\ "complete" \notin noted
        /\ Finish("failed") /\ UNCHANGED noted
  /\ UNCHANGED <<rec, service, faults, shared, handler, job, flags, answer, pending, asks, vm, client, history>>

\* killAndCancel: podman kill, again by name if that fails, and the wait for the
\* client.  The retry is bound to the service's context, which a stop has cancelled.
Kill ==
  /\ at = "kill" /\ at' = "wait"
  /\ \/ vm' = vm \ {job} /\ NoFault
     \/ Fault /\ vm' \in {vm} \cup IF closer = "no" THEN {vm \ {job}} ELSE {}
  /\ UNCHANGED <<rec, service, shared, handler, job, goal, then, flags, jobvars, client, history>>

Wait ==
  /\ at = "wait" /\ job \notin client
  /\ Finish(CancelWord)
  /\ UNCHANGED <<rec, service, faults, shared, handler, job, flags, jobvars, vm, client, history>>

\* audit: the second pass over the documents, and then the look at the context.
Audit ==
  /\ at = "audit" /\ at' = "verdict"
  /\ noted' \in {noted, noted \cup {"flagged"}}
  /\ UNCHANGED <<rec, service, faults, shared, handler, job, goal, then, flags, answer, pending,
                 asks, vm, client, history>>

Verdict ==
  /\ at = "verdict"
  /\ Finish(IF "ctx" \in flags THEN CancelWord
            ELSE IF "flagged" \in noted THEN "flagged" ELSE "done")
  /\ UNCHANGED <<rec, service, faults, shared, handler, job, flags, jobvars, vm, client, history>>

\* transition and finish.  An edge the table refuses, or a write that fails, turns
\* the goal into failed; when that fails too the worker gives the record up.
Edge ==
  /\ at = "edge"
  /\ at' = IF CanTransition(rec[job], goal) THEN "write" ELSE "botch"
  /\ UNCHANGED <<rec, service, faults, shared, handler, job, goal, then, flags, jobvars, vm, client, history>>

WriteGoal ==
  /\ at = "write"
  /\ \/ Write(job, goal) /\ at' = (IF goal \in Terminal THEN "release" ELSE then) /\ NoFault
     \/ Fault /\ at' = "botch" /\ UNCHANGED rec
  /\ UNCHANGED <<service, shared, handler, job, goal, then, flags, jobvars, vm, client, history>>

Botch ==
  /\ at = "botch"
  /\ IF goal # "failed" THEN goal' = "failed" /\ at' = "edge" /\ UNCHANGED subs
     ELSE CloseSubs(job) /\ at' = then /\ UNCHANGED goal
  /\ UNCHANGED <<rec, service, faults, queue, wake, current, closer, waits, handler, job, then, flags,
                 jobvars, vm, client, history>>

\* After a terminal write: release drops the job, then the streams are closed.
Release ==
  /\ at = "release" /\ at' = "close"
  /\ current' = None
  /\ UNCHANGED <<rec, service, faults, queue, wake, closer, waits, subs, handler, job, goal, then,
                 flags, jobvars, vm, client, history>>

CloseStreams ==
  /\ at = "close" /\ at' = then
  /\ CloseSubs(job)
  /\ UNCHANGED <<rec, service, faults, queue, wake, current, closer, waits, handler, job, goal, then,
                 flags, jobvars, vm, client, history>>

\* run returns; its deferred cancel ends the client.
Return ==
  /\ at = "return" /\ at' = "top"
  /\ current' = None /\ job' = None
  /\ client' = client \ {job}
  /\ UNCHANGED <<rec, service, faults, queue, wake, closer, waits, subs, handler, goal, then, flags,
                 jobvars, vm, history>>

Worker ==
  \/ Top \/ Take \/ Sleep \/ Run \/ Launch \/ TakeSignal \/ AwaitReady \/ Send
  \/ PermissionRequest \/ Park \/ AnswerPending \/ StreamEvent \/ Kill \/ Wait
  \/ Audit \/ Verdict \/ Edge \/ WriteGoal \/ Botch \/ Release \/ CloseStreams \/ Return

----------------------------------------------------------------------------
(* The sandboxes                                                            *)

\* A container exits: its run is complete, its stdin ended, or it broke.
VmExits ==
  /\ \E t \in vm : vm' = vm \ {t}
  /\ UNCHANGED <<rec, service, faults, shared, handler, at, job, goal, then, flags, jobvars, client, history>>

\* A client exits with its container, or is killed with its context.
ClientExits ==
  /\ \E t \in client :
       /\ t \notin vm \/ (t = job /\ "ctx" \in flags)
       /\ client' = client \ {t}
  /\ UNCHANGED <<rec, service, faults, shared, handler, at, job, goal, then, flags, jobvars, vm, history>>

----------------------------------------------------------------------------
Handle(h) == Submit(h) \/ Enqueue(h) \/ Wake(h) \/ CancelQueued(h) \/ Drop(h) \/ DropWrite(h) \/ DropClose(h)

Next ==
  \/ Restart \/ RecoverMark \/ RecoverKill
  \/ CloseStop \/ CloseCancel \/ CloseReturn
  \/ \E h \in Handlers : Handle(h)
  \/ CancelCurrent \/ Answer \/ Subscribe
  \/ Worker
  \/ VmExits \/ ClientExits

Spec == Init /\ [][Next]_vars

\* The worker's goroutine runs, a client whose container or context is gone exits,
\* and a starting service recovers.  No operator has to answer, no container has to
\* exit, and no stop has to come.
Fairness == WF_vars(Worker) /\ WF_vars(ClientExits) /\ WF_vars(RecoverMark) /\ WF_vars(RecoverKill)
FairSpec == Spec /\ Fairness

----------------------------------------------------------------------------
(* Properties                                                               *)

Places == {"top", "take", "sleep", "exited", "run", "launch", "ready", "send", "loop", "park",
           "kill", "wait", "audit", "verdict", "edge", "write", "botch", "release", "close", "return"}

TypeOK ==
  /\ rec \in [Tasks -> State \cup {Absent}]
  /\ phase \in {"recovering", "serving"}
  /\ found \subseteq Tasks /\ skipped \subseteq Tasks
  /\ stops \in 0 .. MaxStops /\ faults \in 0 .. MaxFaults
  /\ queue \in Seq(Tasks) /\ wake \in {0, 1}
  /\ job \in Tasks \cup {None} /\ current \in {job, None}
  /\ closer \in {"no", "stopping", "joining", "closed"}
  /\ waits \subseteq Tasks
  /\ subs \subseteq Tasks \X Viewers
  /\ handler \in [Handlers -> [at : {"free", "append", "wake", "drop", "dropwrite", "dropclose"},
                              task : Tasks \cup {None}]]
  /\ at \in Places /\ goal \in State /\ then \in {"return", "send", "loop"}
  /\ flags \subseteq {"awaiting", "cancelled", "interrupted", "signalled", "ctx"}
  /\ noted \subseteq {"session", "complete", "flagged"}
  /\ answer \in Grants \cup {None}
  /\ pending \in 0 .. asks /\ asks \in 0 .. MaxAsks
  /\ vm \subseteq Tasks /\ client \subseteq Tasks

\* taskstore/state.go: a terminal state has no edge out of it.  Transition reads and
\* writes without a lock, so this is the doing of who calls it: the queue hands a
\* task to one of the worker and a cancel.
TerminalIsFinal == [][\A t \in Tasks : rec[t] \in Terminal => rec'[t] = rec[t]]_vars

\* taskstore.go:359: no record is left unfinished with nobody to finish it, after a
\* death and a recovery included.
NothingStranded ==
  phase = "serving" /\ faults = 0 =>
    \A t \in Unfinished :
      \/ job = t
      \/ \E i \in DOMAIN queue : queue[i] = t
      \/ \E h \in Handlers : handler[h].task = t

\* The worker never sleeps on a queue that nobody is about to wake it for.
NoLostWakeup ==
  at = "sleep" /\ queue # <<>> =>
    wake = 1 \/ closer # "no" \/ \E h \in Handlers : handler[h].at = "wake"

\* worker.go:274: an operator who reads awaiting_approval from the record must not
\* get ErrNotAwaiting, unless the request is answered already.
AwaitingIsAnswerable ==
  current # None /\ rec[current] = "awaiting_approval" /\ pending # 0 /\ answer = None =>
    "awaiting" \in flags

\* #229: what the operator's answer grants is the request that was parked when the
\* answer arrived, whatever the harness asked since.
GrantedAsTold ==
  \A g \in granted : g.by = "operator" /\ g.grant # "none" => <<g.ask, g.grant>> \in told

\* Spec 3.3, GHSA-mmp6: no mode, list or session grant allows a deletion; an
\* operator does, one at a time.
DeletionNeedsOperator ==
  \A g \in granted : g.req.deletion /\ g.grant \in {"allow", "allow_session"} =>
    g.by = "operator"

\* worker.go:387: a task whose record is finished is over: the worker is not still
\* running it, out of the reach of a cancel.
FinishedIsOver ==
  at \in {"launch", "ready", "send", "loop", "park", "kill", "wait", "audit", "verdict"} =>
    rec[job] \notin Terminal

\* Subscribe: the channel closes when the task is terminal.
NoStrandedViewer ==
  \A s \in subs : rec[s[1]] \in Terminal =>
    \/ job = s[1] /\ at \in {"release", "close"}
    \/ \E h \in Handlers : handler[h] = [at |-> "dropclose", task |-> s[1]]

\* When Close returns, no record says its task is running.
CloseLeavesNothingLive ==
  closer = "closed" /\ faults = 0 => \A t \in Tasks : rec[t] \notin Live

\* A finished record has no work behind it, and a finished worker leaves no record open.
OverIsOver == FinishedIsOver /\ CloseLeavesNothingLive

\* No task that was accepted is forgotten, and none that is over goes on.
NothingIsLost == NothingStranded /\ OverIsOver

\* Nobody who follows or answers a task waits on one that cannot answer back.
NobodyIsLeftWaiting == AwaitingIsAnswerable /\ NoStrandedViewer

\* A cancel of a current task ends it, whatever the worker is doing.
CancelEnds ==
  \A t \in Tasks : current = t /\ "cancelled" \in flags ~> rec[t] \in Terminal

\* What the records promise: TaskLife.
Life == INSTANCE TaskLife WITH state <- rec
ImplementsTaskLife == Life!Spec

=============================================================================

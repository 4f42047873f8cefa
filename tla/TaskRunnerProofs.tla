--------------------------- MODULE TaskRunnerProofs ---------------------------
(***************************************************************************)
(* Theorems about TaskRunner, for every set of tasks, requests and         *)
(* viewers, and every bound on stops, faults and requests.                 *)
(***************************************************************************)
EXTENDS TaskRunner, SequenceTheorems, TLAPS

----------------------------------------------------------------------------
(* Who may write a task's record.  The store has no lock: the id of a       *)
(* queued task is in one place, the queue or one request or the worker, and *)
(* what is in the queue or with a request has not started.                  *)

Idle == {"top", "take", "sleep", "exited"}
Busy == {"run", "launch", "ready", "send", "loop", "park", "kill", "wait", "audit", "verdict",
         "edge", "write", "botch", "release", "close", "return"}
HandlerAt == {"free", "append", "wake", "drop", "dropwrite", "dropclose"}

\* The request has the task's id in hand, and the task is not in the queue.
Holding(h) == handler[h].at \in {"append", "drop", "dropwrite"}
InQueue(t) == \E i \in 1 .. Len(queue) : queue[i] = t

OwnType ==
  /\ rec \in [Tasks -> State \cup {Absent}]
  /\ queue \in Seq(Tasks)
  /\ handler \in [Handlers -> [at : HandlerAt, task : Tasks \cup {None}]]
  /\ job \in Tasks \cup {None}
  /\ at \in Idle \cup Busy /\ then \in {"return", "send", "loop"}

QueueOwns ==
  /\ \A i \in 1 .. Len(queue) : rec[queue[i]] = "queued" /\ queue[i] # job
  /\ \A i, j \in 1 .. Len(queue) : queue[i] = queue[j] => i = j

HandlerOwns ==
  /\ \A h \in Handlers : Holding(h) =>
       LET t == handler[h].task IN t \in Tasks /\ rec[t] = "queued" /\ t # job /\ ~InQueue(t)
  /\ \A h, k \in Handlers : Holding(h) /\ Holding(k) /\ handler[h].task = handler[k].task => h = k

WorkerOwns ==
  /\ job = None <=> at \in Idle
  /\ job # None => rec[job] # Absent
  /\ at = "write" => CanTransition(rec[job], goal)

\* While the records are recovered nobody has an id.
RecoverOwns == phase = "recovering" => queue = <<>> /\ job = None /\ \A h \in Handlers : ~Holding(h)

Owned == OwnType /\ QueueOwns /\ HandlerOwns /\ WorkerOwns /\ RecoverOwns

LEMMA InitOwned == Init => Owned
  BY RunnerAssumption, SMT
  DEF Init, Owned, OwnType, QueueOwns, HandlerOwns, WorkerOwns, RecoverOwns, Holding, InQueue, Idle, Busy,
      HandlerAt, Free

\* Most actions leave the ids where they are: the worker, if it moves, keeps its task.
Stays ==
  /\ UNCHANGED <<rec, queue, job, handler>> /\ phase' \in {phase, "serving"}
  /\ then' \in {then, "return", "send", "loop"}
  /\ \/ UNCHANGED <<at, goal>>
     \/ at \in Busy /\ at' \in Busy \ {"write"}
     \/ at \in Idle /\ at' \in Idle

LEMMA StaysOwned ==
  ASSUME Owned, Stays
  PROVE  Owned'
<1>. USE DEF Owned, Stays
<1>1. OwnType'
  BY DEF OwnType
<1>2. QueueOwns' /\ RecoverOwns'
  BY SMT DEF QueueOwns, RecoverOwns, Holding
<1>3. HandlerOwns'
  BY DEF HandlerOwns, Holding, InQueue
<1>4. WorkerOwns'
  BY RunnerAssumption DEF WorkerOwns, OwnType, Idle, Busy
<1>. QED  BY <1>1, <1>2, <1>3, <1>4

LEMMA StaysCases ==
  ASSUME Owned
  PROVE  /\ Answer => Stays
         /\ CloseStop \/ CloseCancel \/ CloseReturn => Stays
         /\ CancelCurrent \/ Subscribe => Stays
         /\ RecoverKill => Stays
         /\ VmExits \/ ClientExits => Stays
         /\ Top \/ Sleep \/ Run => Stays
         /\ Launch \/ TakeSignal \/ AwaitReady \/ Send => Stays
         /\ Park \/ Kill \/ Wait \/ Audit \/ Verdict => Stays
         /\ PermissionRequest \/ AnswerPending => Stays
         /\ StreamEvent => Stays
         /\ Botch \/ Release \/ CloseStreams => Stays
<1>. USE DEF Stays, Busy, Idle, Transit, Finish, service, shared, jobvars, history
<1>1. Answer => Stays
  BY DEF Answer
<1>2. then \in {"return", "send", "loop"}
  BY DEF Owned, OwnType
<1>3. CloseStop \/ CloseCancel \/ CloseReturn => Stays
  BY <1>2 DEF CloseStop, CloseCancel, CloseReturn
<1>4. CancelCurrent \/ Subscribe => Stays
  BY <1>2 DEF CancelCurrent, Subscribe
<1>5. RecoverKill => Stays
  BY <1>2 DEF RecoverKill
<1>6. VmExits \/ ClientExits => Stays
  BY <1>2 DEF VmExits, ClientExits
<1>7. Top \/ Sleep \/ Run => Stays
  BY <1>2 DEF Top, Sleep, Run
<1>8. Launch \/ TakeSignal \/ AwaitReady \/ Send => Stays
  BY <1>2 DEF Launch, TakeSignal, AwaitReady, Send
<1>9. Park \/ Kill \/ Wait \/ Audit \/ Verdict => Stays
  BY <1>2 DEF Park, Kill, Wait, Audit, Verdict
<1>10. PermissionRequest \/ AnswerPending => Stays
  BY <1>2 DEF PermissionRequest, AnswerPending
<1>11. StreamEvent => Stays
  BY <1>2 DEF StreamEvent
<1>12. Botch \/ Release \/ CloseStreams => Stays
  BY <1>2 DEF Botch, Release, CloseStreams
<1>. QED  BY <1>1, <1>3, <1>4, <1>5, <1>6, <1>7, <1>8, <1>9, <1>10, <1>11, <1>12

\* A request goes on to another step with the task it had, or lets it go.
GoesOn(h) ==
  /\ UNCHANGED <<rec, queue, job, at, goal, then, phase>>
  /\ \E place \in HandlerAt, t \in Tasks \cup {None} :
       /\ Become(h, place, t)
       /\ place \in {"append", "drop", "dropwrite"} => Holding(h) /\ t = handler[h].task

LEMMA GoesOnOwned ==
  ASSUME Owned, NEW h \in Handlers, GoesOn(h)
  PROVE  Owned'
<1>1. PICK place \in HandlerAt, t \in Tasks \cup {None} :
        /\ Become(h, place, t)
        /\ place \in {"append", "drop", "dropwrite"} => Holding(h) /\ t = handler[h].task
  BY DEF GoesOn
<1>2. /\ rec' = rec /\ queue' = queue /\ job' = job /\ at' = at /\ goal' = goal /\ then' = then
      /\ phase' = phase
  BY DEF GoesOn
<1>3. handler \in [Handlers -> [at : HandlerAt, task : Tasks \cup {None}]]
  BY DEF Owned, OwnType
<1>4. handler' \in [Handlers -> [at : HandlerAt, task : Tasks \cup {None}]]
  BY <1>1, <1>3, SMT DEF Become
<1>5. \A k \in Handlers : Holding(k)' => Holding(k) /\ handler'[k].task = handler[k].task
  BY <1>1, <1>3, SMT DEF Become, Holding
<1>6. OwnType' /\ QueueOwns' /\ WorkerOwns'
  BY <1>2, <1>4 DEF Owned, OwnType, QueueOwns, WorkerOwns
<1>7. HandlerOwns'
  BY <1>2, <1>5, SMT DEF Owned, HandlerOwns, InQueue
<1>8. RecoverOwns'
  BY <1>2, <1>5 DEF Owned, RecoverOwns
<1>. QED  BY <1>6, <1>7, <1>8 DEF Owned

LEMMA GoesOnCases ==
  ASSUME Owned, NEW h \in Handlers, Wake(h) \/ Drop(h) \/ DropClose(h)
  PROVE  GoesOn(h)
<1>1. handler[h].task \in Tasks \cup {None}
  BY DEF Owned, OwnType
<1>2. Done(h) => \E place \in HandlerAt, t \in Tasks \cup {None} :
                   Become(h, place, t) /\ place \notin {"append", "drop", "dropwrite"}
  BY DEF Done, Become, Free, HandlerAt
<1>3. /\ rec' = rec /\ queue' = queue /\ job' = job /\ at' = at /\ goal' = goal /\ then' = then
      /\ phase' = phase
  BY DEF Wake, Drop, DropClose, service, shared
<1>4. Done(h) \/ (Holding(h) /\ Become(h, "dropwrite", handler[h].task))
  BY DEF Wake, Drop, DropClose, Holding
<1>5. "dropwrite" \in HandlerAt
  BY DEF HandlerAt
<1>. QED  BY <1>1, <1>2, <1>3, <1>4, <1>5 DEF GoesOn

\* A start forgets every id; nobody has one until the records are recovered.
LEMMA RestartOwned ==
  ASSUME Owned, Restart
  PROVE  Owned'
<1>1. /\ rec' = rec /\ queue' = <<>> /\ job' = None /\ at' = "top" /\ then' = "return"
      /\ handler' = [h \in Handlers |-> Free]
  BY DEF Restart
<1>2. \A h \in Handlers : ~Holding(h)'
  BY <1>1 DEF Holding, Free
<1>3. OwnType'
  BY <1>1, SMT DEF Owned, OwnType, Idle, Busy, Free, HandlerAt
<1>4. QueueOwns' /\ WorkerOwns' /\ RecoverOwns'
  BY <1>1, <1>2, SMT DEF QueueOwns, WorkerOwns, RecoverOwns, Idle
<1>5. HandlerOwns'
  BY <1>2 DEF HandlerOwns
<1>. QED  BY <1>3, <1>4, <1>5 DEF Owned

LEMMA RecoverMarkOwned ==
  ASSUME Owned, RecoverMark
  PROVE  Owned'
<1>1. /\ queue = <<>> /\ job = None /\ \A h \in Handlers : ~Holding(h)
      /\ queue' = queue /\ job' = job /\ at' = at /\ then' = then /\ handler' = handler
      /\ phase' = phase
  BY DEF Owned, RecoverOwns, RecoverMark, shared
<1>2. rec' \in [Tasks -> State \cup {Absent}]
  BY DEF Owned, OwnType, RecoverMark, Write, State, Terminal, Live
<1>3. OwnType'
  BY <1>1, <1>2 DEF Owned, OwnType
<1>4. QueueOwns' /\ HandlerOwns' /\ RecoverOwns'
  BY <1>1, SMT DEF QueueOwns, HandlerOwns, RecoverOwns, Holding
<1>5. WorkerOwns'
  BY <1>1 DEF Owned, WorkerOwns, Idle
<1>. QED  BY <1>3, <1>4, <1>5 DEF Owned

\* The record of a task that nobody has is created, and the request takes its id.
LEMMA SubmitOwned ==
  ASSUME Owned, NEW h \in Handlers, Submit(h)
  PROVE  Owned'
<1>1. PICK t \in Tasks, s \in {"queued", "refused"} :
        /\ rec[t] = Absent /\ rec' = [rec EXCEPT ![t] = s]
        /\ UNCHANGED handler \/ (s = "queued" /\ Become(h, "append", t))
  BY DEF Submit, Create
<1>2. /\ queue' = queue /\ job' = job /\ at' = at /\ goal' = goal /\ then' = then
      /\ phase' = phase /\ phase = "serving"
  BY DEF Submit, service, shared, Serving
<1>3. /\ rec \in [Tasks -> State \cup {Absent}] /\ queue \in Seq(Tasks)
      /\ handler \in [Handlers -> [at : HandlerAt, task : Tasks \cup {None}]]
      /\ job \in Tasks \cup {None}
  BY DEF Owned, OwnType
<1>4. t # job /\ ~InQueue(t) /\ \A k \in Handlers : Holding(k) => handler[k].task # t
  <2>1. Absent # "queued"
    BY StoreAssumption DEF State
  <2>2. t # job
    BY <1>1, RunnerAssumption DEF Owned, WorkerOwns
  <2>3. ~InQueue(t)
    BY <1>1, <2>1 DEF Owned, QueueOwns, InQueue
  <2>. QED  BY <1>1, <2>1, <2>2, <2>3 DEF Owned, HandlerOwns
<1>5. OwnType'
  <2>1. rec' \in [Tasks -> State \cup {Absent}]
    BY <1>1, <1>3 DEF State, Live, Terminal
  <2>2. handler' \in [Handlers -> [at : HandlerAt, task : Tasks \cup {None}]]
    BY <1>1, <1>3, SMT DEF Become, HandlerAt
  <2>. QED  BY <1>2, <2>1, <2>2 DEF Owned, OwnType
<1>6. QueueOwns'
  <2>1. \A i \in 1 .. Len(queue) : queue[i] \in Tasks /\ queue[i] # t
    BY <1>3, <1>4, SMT DEF InQueue
  <2>. QED  BY <1>1, <1>2, <1>3, <2>1, SMT DEF Owned, QueueOwns
<1>7. HandlerOwns'
  <2>1. \A k \in Handlers : Holding(k)' =>
          \/ k = h /\ handler'[k].task = t /\ rec'[t] = "queued"
          \/ Holding(k) /\ handler'[k].task = handler[k].task
    BY <1>1, <1>3, SMT DEF Holding, Become
  <2>2. \A u \in Tasks : u # t => rec'[u] = rec[u]
    BY <1>1, <1>3
  <2>3. \A u : InQueue(u)' <=> InQueue(u)
    BY <1>2 DEF InQueue
  <2>. QED  BY <1>2, <1>4, <2>1, <2>2, <2>3, SMT DEF Owned, HandlerOwns
<1>8. WorkerOwns'
  BY <1>1, <1>2, <1>3, <1>4, StoreAssumption, RunnerAssumption DEF Owned, WorkerOwns, State
<1>. QED  BY <1>2, <1>5, <1>6, <1>7, <1>8 DEF Owned, RecoverOwns

LEMMA EnqueueOwned ==
  ASSUME Owned, NEW h \in Handlers, Enqueue(h)
  PROVE  Owned'
<1>. DEFINE t == handler[h].task
<1>1. /\ Holding(h) /\ queue' = Append(queue, t) /\ Become(h, "wake", t)
      /\ rec' = rec /\ job' = job /\ at' = at /\ goal' = goal /\ then' = then /\ phase' = phase
  BY DEF Enqueue, Holding, service
<1>2. /\ queue \in Seq(Tasks)
      /\ handler \in [Handlers -> [at : HandlerAt, task : Tasks \cup {None}]]
  BY DEF Owned, OwnType
<1>3. t \in Tasks /\ rec[t] = "queued" /\ t # job /\ ~InQueue(t)
  BY <1>1 DEF Owned, HandlerOwns
<1>4. /\ Len(queue') = Len(queue) + 1 /\ queue' \in Seq(Tasks)
      /\ \A i \in 1 .. Len(queue') :
           \/ i \in 1 .. Len(queue) /\ queue'[i] = queue[i]
           \/ i = Len(queue) + 1 /\ queue'[i] = t
  BY <1>1, <1>2, <1>3, SMT
<1>5. OwnType'
  <2>1. handler' \in [Handlers -> [at : HandlerAt, task : Tasks \cup {None}]]
    BY <1>1, <1>2, SMT DEF Become, HandlerAt
  <2>. QED  BY <1>1, <1>4, <2>1 DEF Owned, OwnType
<1>6. QueueOwns'
  BY <1>1, <1>3, <1>4, SMT DEF Owned, QueueOwns, InQueue
<1>7. HandlerOwns'
  <2>1. \A k \in Handlers : Holding(k)' => k # h /\ Holding(k) /\ handler'[k].task = handler[k].task
    BY <1>1, <1>2, SMT DEF Holding, Become
  <2>2. \A u : InQueue(u)' => InQueue(u) \/ u = t
    BY <1>4, SMT DEF InQueue
  <2>. QED  BY <1>1, <2>1, <2>2, SMT DEF Owned, HandlerOwns
<1>8. WorkerOwns' /\ RecoverOwns'
  BY <1>1 DEF Owned, WorkerOwns, RecoverOwns
<1>. QED  BY <1>5, <1>6, <1>7, <1>8 DEF Owned

\* Removing one entry keeps the others, each once.
LEMMA WithoutOne ==
  ASSUME queue \in Seq(Tasks), NEW i \in 1 .. Len(queue)
  PROVE  /\ Without(i) \in Seq(Tasks) /\ Len(Without(i)) = Len(queue) - 1
         /\ \A j \in 1 .. Len(Without(i)) :
              Without(i)[j] = queue[IF j < i THEN j ELSE j + 1]
<1>1. Len(queue) \in Nat /\ i \in Nat
  OBVIOUS
<1>2. /\ SubSeq(queue, 1, i - 1) \in Seq(Tasks) /\ Len(SubSeq(queue, 1, i - 1)) = i - 1
      /\ \A j \in 1 .. i - 1 : SubSeq(queue, 1, i - 1)[j] = queue[j]
  BY <1>1, SMT
<1>3. /\ SubSeq(queue, i + 1, Len(queue)) \in Seq(Tasks)
      /\ Len(SubSeq(queue, i + 1, Len(queue))) = Len(queue) - i
      /\ \A j \in 1 .. Len(queue) - i : SubSeq(queue, i + 1, Len(queue))[j] = queue[i + j]
  BY <1>1, SMT
<1>4. PICK a \in Seq(Tasks), b \in Seq(Tasks) :
        /\ Without(i) = a \o b
        /\ Len(a) = i - 1 /\ Len(b) = Len(queue) - i
        /\ \A j \in 1 .. i - 1 : a[j] = queue[j]
        /\ \A j \in 1 .. Len(queue) - i : b[j] = queue[i + j]
  BY <1>2, <1>3 DEF Without
<1>5. /\ a \o b \in Seq(Tasks) /\ Len(a \o b) = Len(queue) - 1
      /\ \A j \in 1 .. Len(queue) - 1 : (a \o b)[j] = IF j < i THEN a[j] ELSE b[j - (i - 1)]
  <2>1. /\ a \o b \in Seq(Tasks) /\ Len(a \o b) = Len(a) + Len(b)
        /\ \A j \in 1 .. Len(a) + Len(b) : (a \o b)[j] = IF j <= Len(a) THEN a[j] ELSE b[j - Len(a)]
    BY ConcatProperties
  <2>2. Len(a) = i - 1 /\ Len(a) + Len(b) = Len(queue) - 1
    BY <1>1, <1>4
  <2>3. \A j \in 1 .. Len(queue) - 1 : j <= i - 1 <=> j < i
    BY <1>1
  <2>. QED  BY <2>1, <2>2, <2>3
<1>6. ASSUME NEW j \in 1 .. Len(queue) - 1, ~(j < i) PROVE b[j - (i - 1)] = queue[j + 1]
  <2>1. j - (i - 1) \in 1 .. Len(queue) - i /\ i + (j - (i - 1)) = j + 1
    BY <1>1, <1>6, SMT
  <2>. QED  BY <1>4, <2>1
<1>7. ASSUME NEW j \in 1 .. Len(queue) - 1, j < i PROVE a[j] = queue[j]
  BY <1>1, <1>4, <1>7, SMT
<1>. QED  BY <1>4, <1>5, <1>6, <1>7

LEMMA CancelQueuedOwned ==
  ASSUME Owned, NEW h \in Handlers, CancelQueued(h)
  PROVE  Owned'
<1>0. queue \in Seq(Tasks) /\ handler \in [Handlers -> [at : HandlerAt, task : Tasks \cup {None}]]
  BY DEF Owned, OwnType
<1>1. PICK i \in 1 .. Len(queue) : queue' = Without(i) /\ Become(h, "drop", queue[i])
  BY <1>0 DEF CancelQueued
<1>2. /\ rec' = rec /\ job' = job /\ at' = at /\ goal' = goal /\ then' = then
      /\ phase' = phase /\ phase = "serving"
  BY DEF CancelQueued, Serving, service
<1>3. /\ queue[i] \in Tasks /\ rec[queue[i]] = "queued" /\ queue[i] # job
      /\ \A j \in 1 .. Len(queue) : queue[j] = queue[i] => j = i
  BY <1>0, <1>1 DEF Owned, QueueOwns
<1>4. queue' \in Seq(Tasks) /\ Len(queue') = Len(queue) - 1
  BY <1>0, <1>1, WithoutOne
<1>5. ASSUME NEW j \in 1 .. Len(queue')
      PROVE  LET k == IF j < i THEN j ELSE j + 1 IN
             k \in 1 .. Len(queue) /\ k # i /\ queue'[j] = queue[k]
  <2>1. queue'[j] = queue[IF j < i THEN j ELSE j + 1]
    BY <1>0, <1>1, WithoutOne
  <2>2. Len(queue) \in Nat /\ i \in Nat /\ j \in Nat
    BY <1>0
  <2>. QED  BY <1>4, <2>1, <2>2, SMT
<1>6. OwnType'
  <2>1. handler' \in [Handlers -> [at : HandlerAt, task : Tasks \cup {None}]]
    BY <1>0, <1>1, <1>3, SMT DEF Become, HandlerAt
  <2>. QED  BY <1>2, <1>4, <2>1 DEF Owned, OwnType
<1>7. QueueOwns'
  <2>1. \A j \in 1 .. Len(queue') : rec'[queue'[j]] = "queued" /\ queue'[j] # job'
    BY <1>2, <1>5 DEF Owned, QueueOwns
  <2>2. ASSUME NEW j \in 1 .. Len(queue'), NEW k \in 1 .. Len(queue'), queue'[j] = queue'[k]
        PROVE  j = k
    <3>1. (IF j < i THEN j ELSE j + 1) = (IF k < i THEN k ELSE k + 1)
      BY <1>5, <2>2 DEF Owned, QueueOwns
    <3>. QED  BY <1>4, <3>1, SMT
  <2>. QED  BY <2>1, <2>2 DEF QueueOwns
<1>8. \A u : InQueue(u)' => InQueue(u) /\ u # queue[i]
  BY <1>3, <1>5 DEF InQueue
<1>9. HandlerOwns'
  <2>1. \A k \in Handlers : Holding(k)' =>
          \/ k = h /\ handler'[k].task = queue[i]
          \/ k # h /\ Holding(k) /\ handler'[k].task = handler[k].task
    BY <1>0, <1>1, SMT DEF Holding, Become
  <2>2. \A k \in Handlers : Holding(k) => handler[k].task # queue[i]
    BY DEF Owned, HandlerOwns, InQueue
  <2>. QED  BY <1>2, <1>3, <1>8, <2>1, <2>2, SMT DEF Owned, HandlerOwns
<1>10. WorkerOwns' /\ RecoverOwns'
  BY <1>2 DEF Owned, WorkerOwns, RecoverOwns
<1>. QED  BY <1>6, <1>7, <1>9, <1>10 DEF Owned

\* A write to a record whose id is in hand touches nobody else's.
LEMMA WriteOwned ==
  ASSUME Owned, NEW t \in Tasks, NEW s \in State, Write(t, s), rec[t] # Absent,
         UNCHANGED <<queue, job, then>>, phase' = phase, ~InQueue(t),
         handler' \in [Handlers -> [at : HandlerAt, task : Tasks \cup {None}]],
         \A k \in Handlers : Holding(k)' =>
            Holding(k) /\ handler'[k].task = handler[k].task /\ handler[k].task # t,
         \/ t # job /\ UNCHANGED <<at, goal>>
         \/ t = job /\ at \in Busy /\ at' \in Busy \ {"write"}
  PROVE  Owned'
<1>1. /\ rec \in [Tasks -> State \cup {Absent}] /\ queue \in Seq(Tasks)
      /\ job \in Tasks \cup {None} /\ at \in Idle \cup Busy
  BY DEF Owned, OwnType
<1>2. rec' \in [Tasks -> State \cup {Absent}] /\ rec'[t] = s
      /\ \A u \in Tasks : u # t => rec'[u] = rec[u]
  BY <1>1 DEF Write
<1>3. OwnType'
  BY <1>1, <1>2 DEF Owned, OwnType
<1>4. QueueOwns'
  <2>1. \A i \in 1 .. Len(queue) : queue[i] \in Tasks /\ queue[i] # t
    BY <1>1, SMT DEF InQueue
  <2>. QED  BY <1>2, <2>1 DEF Owned, QueueOwns
<1>5. HandlerOwns'
  <2>1. \A u : InQueue(u)' <=> InQueue(u)
    BY DEF InQueue
  <2>. QED  BY <1>2, <2>1, SMT DEF Owned, HandlerOwns
<1>6. WorkerOwns'
  <2>1. job # None => rec'[job] # Absent
    BY <1>1, <1>2, StoreAssumption DEF Owned, WorkerOwns
  <2>2. job = None <=> at' \in Idle
    BY RunnerAssumption DEF Owned, WorkerOwns, Idle, Busy
  <2>3. at' = "write" => at = "write" /\ t # job /\ job \in Tasks /\ goal' = goal
    BY <1>1 DEF Owned, WorkerOwns, Idle, Busy
  <2>. QED  BY <1>2, <2>1, <2>2, <2>3 DEF Owned, WorkerOwns
<1>7. RecoverOwns'
  BY DEF Owned, RecoverOwns
<1>. QED  BY <1>3, <1>4, <1>5, <1>6, <1>7 DEF Owned

LEMMA DropWriteOwned ==
  ASSUME Owned, NEW h \in Handlers, DropWrite(h)
  PROVE  Owned'
<1>. DEFINE t == handler[h].task
<1>0. handler \in [Handlers -> [at : HandlerAt, task : Tasks \cup {None}]]
  BY DEF Owned, OwnType
<1>1. t \in Tasks /\ rec[t] = "queued" /\ t # job /\ ~InQueue(t) /\ Holding(h)
  BY DEF Owned, HandlerOwns, DropWrite, Holding
<1>2. /\ queue' = queue /\ job' = job /\ at' = at /\ goal' = goal /\ then' = then /\ phase' = phase
  BY DEF DropWrite, service, shared
<1>3. \A k \in Handlers \ {h} : Holding(k) => handler[k].task # t
  BY <1>1 DEF Owned, HandlerOwns
<1>4. CASE Done(h) /\ rec' = rec
  <2>1. \E u \in Tasks \cup {None} : Become(h, "free", u)
    BY <1>4 DEF Done, Become, Free
  <2>2. GoesOn(h)
    BY <1>2, <1>4, <2>1 DEF GoesOn, HandlerAt
  <2>. QED  BY <2>2, GoesOnOwned
<1>5. CASE Write(t, "cancelled") /\ Become(h, "dropclose", t)
  <2>1. handler' \in [Handlers -> [at : HandlerAt, task : Tasks \cup {None}]]
    BY <1>0, <1>1, <1>5, SMT DEF Become, HandlerAt
  <2>2. \A k \in Handlers : Holding(k)' =>
          Holding(k) /\ handler'[k].task = handler[k].task /\ handler[k].task # t
    BY <1>0, <1>3, <1>5, SMT DEF Become, Holding
  <2>3. rec[t] # Absent /\ "cancelled" \in State
    BY <1>1, StoreAssumption DEF State, Terminal
  <2>. HIDE DEF t
  <2>. QED  BY <1>1, <1>2, <1>5, <2>1, <2>2, <2>3, WriteOwned
<1>. QED  BY <1>4, <1>5 DEF DropWrite

LEMMA WriteGoalOwned ==
  ASSUME Owned, WriteGoal
  PROVE  Owned'
<1>1. /\ at = "write" /\ job # None /\ job \in Tasks /\ CanTransition(rec[job], goal)
  BY DEF Owned, WorkerOwns, OwnType, WriteGoal, Idle
<1>2. /\ queue' = queue /\ job' = job /\ goal' = goal /\ then' = then /\ phase' = phase
      /\ handler' = handler
  BY DEF WriteGoal, service, shared
<1>3. CASE rec' = rec /\ at' = "botch"
  <2>1. Stays
    BY <1>1, <1>2, <1>3 DEF Stays, Busy
  <2>. QED  BY <2>1, StaysOwned
<1>4. CASE Write(job, goal) /\ at' = (IF goal \in Terminal THEN "release" ELSE then)
  <2>1. goal \in State /\ rec[job] # Absent
    BY <1>1, StoreAssumption DEF CanTransition, Edges, State, Live, Terminal
  <2>2. ~InQueue(job) /\ \A k \in Handlers : Holding(k) => handler[k].task # job
    BY DEF Owned, QueueOwns, HandlerOwns, InQueue
  <2>3. at \in Busy /\ at' \in Busy \ {"write"}
    BY <1>1, <1>4 DEF Owned, OwnType, Busy
  <2>4. handler' \in [Handlers -> [at : HandlerAt, task : Tasks \cup {None}]]
    BY <1>2 DEF Owned, OwnType
  <2>5. \A k \in Handlers : Holding(k)' => Holding(k) /\ handler'[k].task = handler[k].task
    BY <1>2 DEF Holding
  <2>. QED  BY <1>1, <1>2, <1>4, <2>1, <2>2, <2>3, <2>4, <2>5, WriteOwned
<1>. QED  BY <1>3, <1>4 DEF WriteGoal

\* The id leaves the queue with the worker; the ids behind it move up by one.
LEMMA TakeOwned ==
  ASSUME Owned, Take
  PROVE  Owned'
<1>0. /\ queue \in Seq(Tasks) /\ job = None /\ rec' = rec /\ then' = then /\ handler' = handler
      /\ phase' = phase /\ at = "take" /\ goal' = goal
  BY DEF Owned, OwnType, WorkerOwns, Take, Idle, service
<1>1. CASE queue = <<>>
  <2>1. Stays
    BY <1>0, <1>1 DEF Take, Stays, Idle
  <2>. QED  BY <2>1, StaysOwned
<1>2. CASE queue # <<>>
  <2>1. /\ at' = "run" /\ job' = Head(queue) /\ queue' = Tail(queue)
    BY <1>2 DEF Take
  <2>2. /\ Len(queue) \in Nat \ {0} /\ queue[1] \in Tasks /\ job' = queue[1]
        /\ queue' \in Seq(Tasks) /\ Len(queue') = Len(queue) - 1
        /\ \A i \in 1 .. Len(queue') : i + 1 \in 1 .. Len(queue) /\ queue'[i] = queue[i + 1]
    BY <1>0, <1>2, <2>1, SMT
  <2>3. rec[queue[1]] = "queued" /\ InQueue(queue[1])
    BY <2>2, SMT DEF Owned, QueueOwns, InQueue
  <2>4. OwnType'
    BY <1>0, <2>1, <2>2 DEF Owned, OwnType, Busy
  <2>5. QueueOwns'
    <3>1. ASSUME NEW i \in 1 .. Len(queue') PROVE rec'[queue'[i]] = "queued" /\ queue'[i] # job'
      <4>1. i + 1 \in 1 .. Len(queue) /\ queue'[i] = queue[i + 1] /\ 1 \in 1 .. Len(queue) /\ i + 1 # 1
        BY <2>2
      <4>. QED  BY <1>0, <2>2, <4>1 DEF Owned, QueueOwns
    <3>2. \A i, j \in 1 .. Len(queue') : queue'[i] = queue'[j] => i = j
      BY <2>2, SMT DEF Owned, QueueOwns
    <3>. QED  BY <3>1, <3>2 DEF QueueOwns
  <2>6. HandlerOwns'
    <3>1. ASSUME NEW u, NEW i \in 1 .. Len(queue'), queue'[i] = u PROVE InQueue(u)
      <4>1. i + 1 \in 1 .. Len(queue) /\ queue[i + 1] = u
        BY <2>2, <3>1
      <4>. QED  BY <4>1 DEF InQueue
    <3>2. \A k \in Handlers : Holding(k)' => Holding(k) /\ handler[k].task # job'
      BY <1>0, <2>2, <2>3 DEF Owned, HandlerOwns, Holding
    <3>3. \A u : InQueue(u)' => InQueue(u)
      BY <3>1 DEF InQueue
    <3>. QED  BY <1>0, <3>2, <3>3, SMT DEF Owned, HandlerOwns, Holding
  <2>7. WorkerOwns' /\ RecoverOwns'
    BY <1>0, <1>2, <2>1, <2>2, <2>3, RunnerAssumption, StoreAssumption
    DEF Owned, WorkerOwns, RecoverOwns, Idle, State
  <2>. QED  BY <2>4, <2>5, <2>6, <2>7 DEF Owned
<1>. QED  BY <1>1, <1>2

LEMMA ReturnOwned ==
  ASSUME Owned, Return
  PROVE  Owned'
<1>1. /\ at' = "top" /\ job' = None /\ rec' = rec /\ queue' = queue /\ handler' = handler
      /\ then' = then /\ phase' = phase
  BY DEF Return, service
<1>2. OwnType' /\ WorkerOwns' /\ RecoverOwns'
  BY <1>1 DEF Owned, OwnType, WorkerOwns, RecoverOwns, Idle, Holding
<1>3. \A i \in 1 .. Len(queue) : queue[i] \in Tasks
  BY DEF Owned, OwnType
<1>4. QueueOwns' /\ HandlerOwns'
  BY <1>1, <1>3, RunnerAssumption, SMT DEF Owned, QueueOwns, HandlerOwns, Holding, InQueue
<1>. QED  BY <1>2, <1>4 DEF Owned

LEMMA EdgeOwned ==
  ASSUME Owned, Edge
  PROVE  Owned'
<1>1. /\ rec' = rec /\ queue' = queue /\ job' = job /\ handler' = handler /\ goal' = goal
      /\ then' = then /\ phase' = phase
      /\ at \in Busy /\ at' \in Busy /\ (at' = "write" => CanTransition(rec[job], goal))
  BY DEF Edge, service, shared, Busy
<1>2. at \notin Idle /\ at' \notin Idle
  BY <1>1 DEF Busy, Idle
<1>. QED
  BY <1>1, <1>2 DEF Owned, OwnType, QueueOwns, HandlerOwns, WorkerOwns, RecoverOwns, Holding, InQueue

LEMMA NextOwned == Owned /\ [Next]_vars => Owned'
<1>. SUFFICES ASSUME Owned, [Next]_vars PROVE Owned'
  OBVIOUS
<1>1. ASSUME NEW h \in Handlers, Handle(h) PROVE Owned'
  BY <1>1, SubmitOwned, EnqueueOwned, CancelQueuedOwned, DropWriteOwned, GoesOnCases, GoesOnOwned
  DEF Handle
<1>2. ASSUME Worker PROVE Owned'
  BY <1>2, StaysCases, StaysOwned, TakeOwned, EdgeOwned, WriteGoalOwned, ReturnOwned DEF Worker
<1>3. ASSUME Restart \/ RecoverMark \/ RecoverKill PROVE Owned'
  BY <1>3, RestartOwned, RecoverMarkOwned, StaysCases, StaysOwned
<1>4. ASSUME CloseStop \/ CloseCancel \/ CloseReturn \/ CancelCurrent \/ Subscribe \/ VmExits \/ ClientExits
      PROVE  Owned'
  BY <1>4, StaysCases, StaysOwned
<1>5. ASSUME Answer PROVE Owned'
  BY <1>5, StaysCases, StaysOwned
<1>6. ASSUME UNCHANGED vars PROVE Owned'
  <2>1. Stays
    BY <1>6 DEF vars, service, shared, Stays
  <2>. QED  BY <2>1, StaysOwned
<1>. QED  BY <1>1, <1>2, <1>3, <1>4, <1>5, <1>6 DEF Next

LEMMA OwnedHolds == Spec => []Owned
  BY InitOwned, NextOwned, PTL DEF Spec

----------------------------------------------------------------------------
(* A finished record stays as it is                                         *)

\* A step that writes a record writes one that is not finished.
LEMMA WritesUnfinished ==
  ASSUME Owned, [Next]_vars, NEW t \in Tasks, rec[t] \in Terminal
  PROVE  rec'[t] = rec[t]
<1>0. rec \in [Tasks -> State \cup {Absent}] /\ rec[t] # Absent /\ rec[t] # "queued"
  BY StoreAssumption DEF Owned, OwnType, State, Terminal
<1>1. ASSUME rec' = rec \/ \E u \in Tasks, s \in State : u # t /\ Write(u, s)
      PROVE  rec'[t] = rec[t]
  BY <1>0, <1>1 DEF Write
<1>2. ASSUME NEW h \in Handlers, Submit(h) PROVE rec'[t] = rec[t]
  BY <1>0, <1>2 DEF Submit, Create
<1>3. ASSUME NEW h \in Handlers, DropWrite(h) PROVE rec'[t] = rec[t]
  BY <1>0, <1>1, <1>3 DEF DropWrite, Owned, HandlerOwns, Holding, State, Terminal
<1>4. ASSUME RecoverMark PROVE rec'[t] = rec[t]
  BY <1>0, <1>1, <1>4 DEF RecoverMark, Recoverable, Unfinished, State, Terminal
<1>5. ASSUME WriteGoal PROVE rec'[t] = rec[t]
  <2>1. CanTransition(rec[job], goal) /\ job \in Tasks
    BY <1>5 DEF WriteGoal, Owned, WorkerOwns, OwnType, Idle
  <2>2. job # t /\ goal \in State
    BY <2>1 DEF CanTransition, Edges, State, Terminal, Live
  <2>. QED  BY <1>1, <1>5, <2>1, <2>2 DEF WriteGoal
<1>6. ASSUME Stays \/ Edge \/ Take \/ Return \/ Restart \/ UNCHANGED vars PROVE rec'[t] = rec[t]
  BY <1>6 DEF Stays, Edge, Take, Return, Restart, vars
<1>7. ASSUME NEW h \in Handlers, Enqueue(h) \/ CancelQueued(h) \/ Wake(h) \/ Drop(h) \/ DropClose(h)
      PROVE  rec'[t] = rec[t]
  BY <1>7 DEF Enqueue, CancelQueued, Wake, Drop, DropClose
<1>8. ASSUME NEW h \in Handlers, Handle(h) PROVE rec'[t] = rec[t]
  BY <1>2, <1>3, <1>7, <1>8 DEF Handle
<1>9. ASSUME Worker PROVE rec'[t] = rec[t]
  BY <1>5, <1>6, <1>9, StaysCases DEF Worker
<1>. QED  BY <1>4, <1>6, <1>8, <1>9, StaysCases DEF Next

\* taskstore/state.go: no edge leaves a terminal state.  Though the store checks and
\* writes without a lock, no interleaving of the worker, the requests, a recovery and
\* failing writes changes a record that is finished.
THEOREM FinishedForGood == Spec => TerminalIsFinal
<1>1. Owned /\ [Next]_vars => [\A t \in Tasks : rec[t] \in Terminal => rec'[t] = rec[t]]_vars
  BY WritesUnfinished
<1>. QED  BY <1>1, OwnedHolds, PTL DEF Spec, TerminalIsFinal

----------------------------------------------------------------------------
(* The worker is woken                                                      *)

LEMMA WakeStep ==
  ASSUME Owned, NoLostWakeup, [Next]_vars
  PROVE  NoLostWakeup'
<1>. SUFFICES ASSUME at' = "sleep", queue' # <<>>
              PROVE  wake' = 1 \/ closer' # "no" \/ \E h \in Handlers : handler'[h].at = "wake"
  BY DEF NoLostWakeup
<1>0. /\ queue \in Seq(Tasks)
      /\ handler \in [Handlers -> [at : HandlerAt, task : Tasks \cup {None}]]
  BY DEF Owned, OwnType
<1>1. ASSUME at = "sleep", queue # <<>>, wake' = wake, closer' = closer,
             \A k \in Handlers : handler[k].at = "wake" => handler'[k].at = "wake"
      PROVE  wake' = 1 \/ closer' # "no" \/ \E h \in Handlers : handler'[h].at = "wake"
  BY <1>1 DEF NoLostWakeup
<1>2. ASSUME UNCHANGED <<at, queue, wake, closer, handler>>
      PROVE  wake' = 1 \/ closer' # "no" \/ \E h \in Handlers : handler'[h].at = "wake"
  BY <1>1, <1>2
<1>3. ASSUME NEW h \in Handlers, Handle(h)
      PROVE  wake' = 1 \/ closer' # "no" \/ \E k \in Handlers : handler'[k].at = "wake"
  <2>1. CASE Enqueue(h)
    BY <1>0, <2>1 DEF Enqueue, Become
  <2>2. CASE Wake(h)
    BY <2>2 DEF Wake, WakeToken
  <2>3. CASE Submit(h) \/ CancelQueued(h) \/ Drop(h) \/ DropWrite(h) \/ DropClose(h)
    <3>1. at' = at /\ wake' = wake /\ closer' = closer
      BY <2>3 DEF Submit, CancelQueued, Drop, DropWrite, DropClose, shared
    <3>2. queue # <<>>
      BY <1>0, <2>3, SMT DEF Submit, CancelQueued, Drop, DropWrite, DropClose, shared
    <3>3. handler[h].at # "wake"
      BY <2>3 DEF Submit, CancelQueued, Drop, DropWrite, DropClose, Free
    <3>4. \A k \in Handlers \ {h} : handler'[k] = handler[k]
      BY <1>0, <2>3 DEF Submit, CancelQueued, Drop, DropWrite, DropClose, Become, Done
    <3>. QED  BY <1>1, <3>1, <3>2, <3>3, <3>4
  <2>. QED  BY <1>3, <2>1, <2>2, <2>3 DEF Handle
<1>4. ASSUME Worker
      PROVE  wake' = 1 \/ closer' # "no" \/ \E h \in Handlers : handler'[h].at = "wake"
  <2>1. CASE Top \/ Take \/ Sleep \/ Run \/ Launch \/ TakeSignal
    BY <1>0, <2>1, SMT DEF Top, Take, Sleep, Run, Launch, TakeSignal, Finish, Transit
  <2>2. CASE AwaitReady \/ Send \/ PermissionRequest \/ Park \/ AnswerPending \/ StreamEvent
    BY <1>2, <2>2 DEF AwaitReady, Send, PermissionRequest, Park, AnswerPending, StreamEvent, Finish, Transit
  <2>3. CASE Kill \/ Wait \/ Audit \/ Verdict \/ Edge
    BY <2>3 DEF Kill, Wait, Audit, Verdict, Edge, Finish, Transit
  <2>4. CASE WriteGoal \/ Botch \/ Release \/ CloseStreams \/ Return
    BY <2>4 DEF WriteGoal, Botch, Release, CloseStreams, Return, Owned, OwnType
  <2>. QED  BY <1>4, <2>1, <2>2, <2>3, <2>4 DEF Worker
<1>5. ASSUME Restart \/ CloseStop \/ CloseCancel \/ CloseReturn
      PROVE  wake' = 1 \/ closer' # "no" \/ \E h \in Handlers : handler'[h].at = "wake"
  BY <1>5 DEF Restart, CloseStop, CloseCancel, CloseReturn
<1>6. ASSUME RecoverMark \/ RecoverKill \/ CancelCurrent \/ Subscribe \/ VmExits \/ ClientExits \/ UNCHANGED vars
      PROVE  UNCHANGED <<at, queue, wake, closer, handler>>
  BY <1>6 DEF RecoverMark, RecoverKill, CancelCurrent, Subscribe, VmExits, ClientExits, vars, shared
<1>7. ASSUME Answer
      PROVE  UNCHANGED <<at, queue, wake, closer, handler>>
  BY <1>7 DEF Answer, shared
<1>. QED  BY <1>2, <1>3, <1>4, <1>5, <1>6, <1>7 DEF Next

\* taskrun.go:266: the id is appended and the token sent in two steps, while the worker
\* may be anywhere between an empty queue and its sleep; it never sleeps on work that
\* nobody is about to wake it for.
THEOREM WorkerIsWoken == Spec => []NoLostWakeup
<1>1. Init => NoLostWakeup
  BY DEF Init, NoLostWakeup
<1>2. Owned /\ NoLostWakeup /\ [Next]_vars => NoLostWakeup'
  BY WakeStep
<1>. QED  BY <1>1, <1>2, OwnedHolds, PTL DEF Spec

----------------------------------------------------------------------------
(* An answer reaches the request it was given for                           *)

\* The slot is taken from the ask until the answer is used, and the answer in the
\* buffer was given while that request was the one parked.
Slot ==
  /\ asks \in Nat
  /\ at = "park" => pending # 0 /\ answer = None /\ "awaiting" \notin flags
  /\ "awaiting" \in flags => pending # 0
  /\ answer # None => pending # 0 /\ <<pending, answer>> \in told /\ "awaiting" \notin flags

Answered == Slot /\ GrantedAsTold /\ DeletionNeedsOperator

LEMMA DecisionSpares ==
  ASSUME NEW r \in Asked
  PROVE  /\ Decision(r).grant # "none" => Decision(r).by # "operator"
         /\ Decision(r).grant = "none" => pending = 0
         /\ r.deletion => Decision(r).grant \notin {"allow", "allow_session"}
<1>1. Decide(ModeOf[job], r) \in {"allow", "deny", "ask"}
  BY DEF Decide
<1>2. r.deletion => Decide(ModeOf[job], r) = "ask"
  BY DEF Decide
<1>3. CASE Decide(ModeOf[job], r) # "ask"
  <2>1. Decision(r) = [grant |-> Decide(ModeOf[job], r), by |-> "policy"]
    BY <1>3 DEF Decision
  <2>. QED  BY <1>1, <1>2, <1>3, <2>1
<1>4. CASE Decide(ModeOf[job], r) = "ask" /\ pending # 0
  <2>1. Decision(r) = [grant |-> "deny", by |-> "policy"]
    BY <1>4 DEF Decision, SlotTaken
  <2>. QED  BY <2>1
<1>5. CASE Decide(ModeOf[job], r) = "ask" /\ pending = 0 /\ SessionCovers(r)
  <2>1. Decision(r) = [grant |-> "allow", by |-> "session"]
    BY <1>5 DEF Decision, SlotTaken
  <2>. QED  BY <1>5, <2>1 DEF SessionCovers
<1>6. CASE Decide(ModeOf[job], r) = "ask" /\ pending = 0 /\ ~SessionCovers(r)
  <2>1. Decision(r) = [grant |-> "none", by |-> "operator"]
    BY <1>6 DEF Decision, SlotTaken
  <2>. QED  BY <1>6, <2>1
<1>. QED  BY <1>3, <1>4, <1>5, <1>6

\* Most steps leave the slot, the answer and the grants alone, or forget them all.
Settled ==
  \/ /\ UNCHANGED <<answer, pending, asks, told, granted>>
     /\ at' = "park" => at = "park"
     /\ "awaiting" \in flags' => "awaiting" \in flags
  \/ /\ asks' = 0 /\ answer' = None /\ flags' = {} /\ granted' = {} /\ at' # "park"

LEMMA SettledAnswered ==
  ASSUME Answered, Settled
  PROVE  Answered'
  BY DEF Answered, Settled, Slot, GrantedAsTold, DeletionNeedsOperator

LEMMA PermissionRequestAnswered ==
  ASSUME Answered, PermissionRequest
  PROVE  Answered'
<1>1. PICK r \in Asked :
        IF Decision(r).grant # "none"
        THEN Grant(asks', r, Decision(r).grant, Decision(r).by) /\ UNCHANGED <<at, pending>>
        ELSE /\ pending' = asks'
             /\ Grant(asks', r, "none", "operator")
             /\ at' = "park"
  BY DEF PermissionRequest
<1>2. asks \in Nat /\ asks' = asks + 1 /\ answer' = answer /\ told' = told /\ flags' = flags /\ at = "loop"
  BY DEF Answered, Slot, PermissionRequest
<1>3. Slot'
  BY <1>1, <1>2, DecisionSpares, SMT DEF Answered, Slot
<1>4. \A g \in granted' \ granted :
        \/ g.grant = "none"
        \/ g.by # "operator" /\ (g.req.deletion => g.grant \notin {"allow", "allow_session"})
  BY <1>1, DecisionSpares DEF Grant
<1>. QED  BY <1>2, <1>3, <1>4 DEF Answered, GrantedAsTold, DeletionNeedsOperator

LEMMA AnswerPendingAnswered ==
  ASSUME Answered, AnswerPending
  PROVE  Answered'
<1>1. /\ answer # None /\ pending # 0 /\ <<pending, answer>> \in told /\ "awaiting" \notin flags
      /\ answer' = None /\ pending' = 0 /\ told' = told /\ flags' = flags /\ asks' = asks /\ at' = "edge"
  BY DEF Answered, Slot, AnswerPending, Transit
<1>2. PICK g \in granted : Grant(pending, g.req, answer, "operator")
  BY <1>1 DEF AnswerPending
<1>3. Slot'
  BY <1>1 DEF Answered, Slot
<1>4. GrantedAsTold'
  BY <1>1, <1>2 DEF Answered, GrantedAsTold, Grant
<1>5. DeletionNeedsOperator'
  BY <1>2 DEF Answered, DeletionNeedsOperator, Grant
<1>. QED  BY <1>3, <1>4, <1>5 DEF Answered

LEMMA AnswerAnswered ==
  ASSUME Answered, Answer
  PROVE  Answered'
<1>1. PICK g \in Grants : answer' = g /\ told' = told \cup {<<pending, g>>}
  BY DEF Answer
<1>2. /\ "awaiting" \in flags /\ flags' = flags \ {"awaiting"}
      /\ pending' = pending /\ asks' = asks /\ granted' = granted /\ at' = at
  BY DEF Answer
<1>3. Slot'
  BY <1>1, <1>2 DEF Answered, Slot
<1>. QED  BY <1>1, <1>2, <1>3 DEF Answered, GrantedAsTold, DeletionNeedsOperator

LEMMA AnsweredStep == Owned /\ Answered /\ [Next]_vars => Answered'
<1>. SUFFICES ASSUME Owned, Answered, [Next]_vars PROVE Answered'
  OBVIOUS
<1>. USE DEF Settled, service, shared, jobvars, history, Transit, Finish
<1>1. ASSUME NEW h \in Handlers, Handle(h) PROVE Settled
  BY <1>1 DEF Handle, Submit, Enqueue, Wake, CancelQueued, Drop, DropWrite, DropClose
<1>2. ASSUME Restart \/ RecoverMark \/ RecoverKill \/ CloseStop \/ CloseCancel \/ CloseReturn PROVE Settled
  BY <1>2 DEF Restart, RecoverMark, RecoverKill, CloseStop, CloseCancel, CloseReturn, CancelFlags
<1>3. ASSUME CancelCurrent \/ Subscribe \/ VmExits \/ ClientExits \/ UNCHANGED vars PROVE Settled
  BY <1>3 DEF CancelCurrent, Subscribe, VmExits, ClientExits, CancelFlags, vars
<1>5. ASSUME Top \/ Take \/ Sleep \/ Run \/ Launch \/ TakeSignal \/ AwaitReady \/ Send PROVE Settled
  BY <1>5 DEF Top, Take, Sleep, Run, Launch, TakeSignal, AwaitReady, Send
<1>6. ASSUME StreamEvent \/ Kill \/ Wait \/ Audit \/ Verdict \/ Edge PROVE Settled
  BY <1>6 DEF StreamEvent, Kill, Wait, Audit, Verdict, Edge
<1>7. ASSUME WriteGoal \/ Botch \/ Release \/ CloseStreams \/ Return PROVE Settled
  BY <1>7 DEF WriteGoal, Botch, Release, CloseStreams, Return, Owned, OwnType
<1>8. ASSUME Park PROVE Answered'
  <2>1. /\ pending # 0 /\ answer = None
        /\ UNCHANGED <<answer, pending, asks, told, granted>> /\ at' = "edge"
    BY <1>8 DEF Park, Answered, Slot
  <2>. QED  BY <1>8, <2>1 DEF Park, ParkFlag, Answered, Slot, GrantedAsTold, DeletionNeedsOperator
<1>. HIDE DEF Settled
<1>9. ASSUME AnswerPending PROVE Answered'
  BY <1>9, AnswerPendingAnswered
<1>. QED
  BY <1>1, <1>2, <1>3, <1>5, <1>6, <1>7, <1>8, <1>9, SettledAnswered, AnswerAnswered,
     PermissionRequestAnswered
  DEF Next, Worker

LEMMA AnsweredHolds == Spec => []Answered
<1>1. Init => Answered
  BY DEF Init, Answered, Slot, GrantedAsTold, DeletionNeedsOperator
<1>. QED  BY <1>1, AnsweredStep, OwnedHolds, PTL DEF Spec

\* worker.go:239 (#229): an operator's answer is granted to the request that was parked
\* when it arrived, whatever the harness asks before the worker uses it.
THEOREM AnswerLandsWhereGiven == Spec => []GrantedAsTold
<1>1. Answered => GrantedAsTold
  BY DEF Answered
<1>. QED  BY <1>1, AnsweredHolds, PTL

\* worker.go:248 (GHSA-mmp6): in any mode, after any grant, a deletion is allowed only by
\* an operator's answer to it.
THEOREM DeletionIsAsked == Spec => []DeletionNeedsOperator
<1>1. Answered => DeletionNeedsOperator
  BY DEF Answered
<1>. QED  BY <1>1, AnsweredHolds, PTL

----------------------------------------------------------------------------
(* Types                                                                    *)

FlagNames == {"awaiting", "cancelled", "interrupted", "signalled", "ctx"}

\* What TypeOK says beside Owned.
ServiceType ==
  /\ phase \in {"recovering", "serving"}
  /\ found \subseteq Tasks /\ skipped \subseteq Tasks
  /\ stops \in 0 .. MaxStops /\ faults \in 0 .. MaxFaults
  /\ wake \in {0, 1} /\ current \in {job, None}
  /\ closer \in {"no", "stopping", "joining", "closed"}
  /\ waits \subseteq Tasks /\ subs \subseteq Tasks \X Viewers
  /\ vm \subseteq Tasks /\ client \subseteq Tasks
WorkerType ==
  /\ goal \in State
  /\ flags \subseteq FlagNames
  /\ noted \subseteq {"session", "complete", "flagged"}
  /\ answer \in Grants \cup {None}
  /\ pending \in 0 .. asks /\ asks \in 0 .. MaxAsks

LEMMA FaultType ==
  ASSUME faults \in 0 .. MaxFaults, Fault \/ NoFault
  PROVE  faults' \in 0 .. MaxFaults
  BY RunnerAssumption DEF Fault, NoFault

LEMMA ServiceTypeStep ==
  ASSUME Owned, ServiceType, [Next]_vars
  PROVE  ServiceType'
<1>. USE DEF ServiceType, service, shared, jobvars, history
<1>1. ASSUME NEW h \in Handlers, Handle(h) PROVE ServiceType'
  <2>1. CASE Submit(h) \/ Enqueue(h) \/ CancelQueued(h) \/ Drop(h)
    BY <2>1 DEF Submit, Enqueue, CancelQueued, Drop
  <2>2. CASE Wake(h) \/ DropClose(h)
    BY <2>2 DEF Wake, WakeToken, DropClose, CloseSubs
  <2>3. CASE DropWrite(h)
    BY <2>3, FaultType DEF DropWrite
  <2>. QED  BY <1>1, <2>1, <2>2, <2>3 DEF Handle
<1>2. ASSUME Restart \/ RecoverMark \/ RecoverKill PROVE ServiceType'
  <2>1. CASE Restart
    BY <2>1, RunnerAssumption DEF Restart
  <2>2. CASE RecoverMark
    BY <2>2, FaultType DEF RecoverMark
  <2>3. CASE RecoverKill
    BY <2>3, FaultType DEF RecoverKill
  <2>. QED  BY <1>2, <2>1, <2>2, <2>3
<1>3. ASSUME CloseStop \/ CloseCancel \/ CloseReturn \/ CancelCurrent \/ Answer PROVE ServiceType'
  BY <1>3 DEF CloseStop, CloseCancel, CloseReturn, CancelCurrent, Answer
<1>4. ASSUME Subscribe \/ VmExits \/ ClientExits \/ UNCHANGED vars PROVE ServiceType'
  BY <1>4 DEF Subscribe, VmExits, ClientExits, vars
<1>5. ASSUME Worker PROVE ServiceType'
  <2>. USE DEF Transit, Finish
  <2>1. at \in {"launch", "ready", "send", "loop", "kill", "wait"} => job \in Tasks
    BY DEF Owned, OwnType, WorkerOwns, Idle
  <2>2. CASE Top \/ Take \/ Sleep \/ Run
    BY <2>2 DEF Top, Take, Sleep, Run
  <2>3. CASE Launch \/ TakeSignal \/ AwaitReady
    BY <2>1, <2>3 DEF Launch, TakeSignal, AwaitReady
  <2>4. CASE Send \/ Kill
    BY <2>1, <2>4, FaultType DEF Send, Kill
  <2>5. CASE PermissionRequest \/ Park \/ AnswerPending \/ StreamEvent \/ Wait \/ Audit \/ Verdict \/ Edge
    BY <2>5 DEF PermissionRequest, Park, AnswerPending, StreamEvent, Wait, Audit, Verdict, Edge
  <2>6. CASE WriteGoal
    BY <2>6, FaultType DEF WriteGoal
  <2>7. CASE Botch \/ Release \/ CloseStreams \/ Return
    BY <2>7 DEF Botch, Release, CloseStreams, Return, CloseSubs
  <2>. QED  BY <1>5, <2>2, <2>3, <2>4, <2>5, <2>6, <2>7 DEF Worker
<1>. QED  BY <1>1, <1>2, <1>3, <1>4, <1>5 DEF Next

LEMMA WorkerTypeStep ==
  ASSUME WorkerType, [Next]_vars
  PROVE  WorkerType'
<1>. USE DEF WorkerType, service, shared, jobvars, history
<1>1. ASSUME NEW h \in Handlers, Handle(h) PROVE WorkerType'
  BY <1>1 DEF Handle, Submit, Enqueue, Wake, CancelQueued, Drop, DropWrite, DropClose
<1>2. ASSUME RecoverMark \/ RecoverKill \/ CloseStop \/ CloseReturn \/ Subscribe \/ VmExits \/ ClientExits
             \/ UNCHANGED vars
      PROVE  WorkerType'
  BY <1>2 DEF RecoverMark, RecoverKill, CloseStop, CloseReturn, Subscribe, VmExits, ClientExits, vars
<1>3. ASSUME Restart PROVE WorkerType'
  BY <1>3, RunnerAssumption DEF Restart, State
<1>4. ASSUME CloseCancel \/ CancelCurrent PROVE WorkerType'
  BY <1>4 DEF CloseCancel, CancelCurrent, CancelFlags, FlagNames
<1>5. ASSUME Answer PROVE WorkerType'
  BY <1>5 DEF Answer
<1>6. ASSUME Worker PROVE WorkerType'
  <2>. USE DEF Transit, Finish, State, Live, Terminal
  <2>1. CASE Top \/ Sleep \/ Run \/ TakeSignal \/ Kill \/ Audit \/ Edge
    BY <2>1 DEF Top, Sleep, Run, TakeSignal, Kill, Audit, Edge
  <2>2. CASE Take
    <3>1. CASE queue = <<>>
      <4>1. UNCHANGED <<goal, flags, noted, answer, pending, asks>>
        BY <2>2, <3>1 DEF Take
      <4>. QED  BY <4>1
    <3>2. CASE queue # <<>>
      <4>1. goal' = goal /\ flags' = {} /\ noted' = {} /\ answer' = None /\ pending' = 0 /\ asks' = 0
        BY <2>2, <3>2 DEF Take
      <4>. QED  BY <4>1, RunnerAssumption
    <3>. QED  BY <3>1, <3>2
  <2>3. CASE Launch \/ AwaitReady \/ Send \/ StreamEvent
    BY <2>3 DEF Launch, AwaitReady, Send, StreamEvent
  <2>4. CASE Wait \/ Verdict
    BY <2>4 DEF Wait, Verdict, CancelWord
  <2>5. CASE PermissionRequest
    <3>1. asks \in 0 .. MaxAsks /\ asks < MaxAsks /\ asks' = asks + 1 /\ pending' \in {pending, asks'}
          /\ UNCHANGED <<goal, flags, noted, answer>>
      BY <2>5 DEF PermissionRequest
    <3>. QED  BY <3>1, RunnerAssumption
  <2>6. CASE Park
    BY <2>6 DEF Park, ParkFlag, FlagNames
  <2>7. CASE AnswerPending
    <3>1. /\ UNCHANGED <<flags, asks>> /\ answer' = None
          /\ pending' \in {pending, 0} /\ goal' \in {goal, "running"}
          /\ noted' \in {noted, noted \cup {"session"}}
      BY <2>7 DEF AnswerPending
    <3>2. 0 \in 0 .. asks
      BY RunnerAssumption
    <3>. QED  BY <3>1, <3>2
  <2>8. CASE WriteGoal \/ Botch \/ Release \/ CloseStreams \/ Return
    BY <2>8 DEF WriteGoal, Botch, Release, CloseStreams, Return
  <2>. QED  BY <1>6, <2>1, <2>2, <2>3, <2>4, <2>5, <2>6, <2>7, <2>8 DEF Worker
<1>. QED  BY <1>1, <1>2, <1>3, <1>4, <1>5, <1>6 DEF Next

\* The types of TaskRunner hold of every run of it, whatever fails.
THEOREM TaskTypes == Spec => []TypeOK
<1>1. Init => ServiceType /\ WorkerType
  BY RunnerAssumption DEF Init, ServiceType, WorkerType, State
<1>2. Owned /\ ServiceType /\ WorkerType /\ [Next]_vars => (ServiceType /\ WorkerType)'
  BY ServiceTypeStep, WorkerTypeStep
<1>3. Owned /\ ServiceType /\ WorkerType => TypeOK
  BY DEF Owned, OwnType, ServiceType, WorkerType, TypeOK, Places, Idle, Busy, HandlerAt, FlagNames
<1>. QED  BY <1>1, <1>2, <1>3, OwnedHolds, PTL DEF Spec

----------------------------------------------------------------------------
(* No task is lost, and none that is over goes on                           *)

OnItsWay(t) == InQueue(t) \/ \E h \in Handlers : Holding(h) /\ handler[h].task = t

\* Every record that is open has an owner, and the only one that has started is the worker's.
Accounted ==
  /\ skipped = {}
  /\ \A t, u \in Tasks : rec[t] \in Live /\ rec[u] \in Live => t = u
  /\ phase = "serving" => \A t \in Unfinished : t = job \/ (rec[t] = "queued" /\ OnItsWay(t))

\* A close comes after the recovery, and has returned only when the worker has.
Closed ==
  /\ closer # "no" => phase = "serving"
  /\ closer = "closed" => at = "exited"

\* What the record of the worker's task says at each place of the worker.
Started(t) == rec[t] \in Live
Bound ==
  \/ goal = "running" /\ then = "send" /\ rec[job] = "queued" /\ pending = 0
  \/ goal = "running" /\ then = "loop" /\ rec[job] = "awaiting_approval" /\ pending = 0
  \/ goal = "awaiting_approval" /\ then = "loop" /\ rec[job] = "running" /\ pending # 0
  \/ goal \in {"cancelled", "interrupted"} /\ then = "return" /\ rec[job] \notin Terminal
  \/ goal = "refused" /\ then = "return" /\ rec[job] = "queued"
  \/ goal \in {"done", "flagged", "failed"} /\ then = "return" /\ Started(job)
Stage ==
  /\ at \in {"run", "launch", "ready"} => rec[job] = "queued" /\ pending = 0
  /\ at = "send" => rec[job] = "running" /\ pending = 0
  /\ at = "park" => rec[job] = "running"
  /\ at = "loop" => rec[job] = IF pending = 0 THEN "running" ELSE "awaiting_approval"
  /\ at \in {"kill", "wait"} => rec[job] \notin Terminal
  /\ at \in {"audit", "verdict"} => Started(job)
  /\ at \in {"edge", "write"} => Bound
  /\ at = "botch" => goal \in {"done", "flagged"} /\ then = "return" /\ Started(job)
  /\ at \in {"release", "close"} => then = "return" /\ rec[job] \in Terminal
  /\ at = "return" => rec[job] \in Terminal

Straight == Closed /\ (faults = 0 => Accounted /\ Stage)

\* A step that leaves the worker, its record and the request it parked alone.
Apart ==
  /\ UNCHANGED <<at, job, goal, then, pending>>
  /\ job # None => rec'[job] = rec[job]

LEMMA ApartStage ==
  ASSUME WorkerOwns, Stage, Apart
  PROVE  Stage'
<1>1. CASE job = None
  <2>1. at' \in Idle
    BY <1>1 DEF Apart, WorkerOwns
  <2>. QED  BY <2>1 DEF Stage, Idle
<1>2. CASE job # None
  BY <1>2 DEF Apart, Stage, Bound, Started
<1>. QED  BY <1>1, <1>2

LEMMA HandleApart ==
  ASSUME Owned, NEW h \in Handlers, Handle(h)
  PROVE  Apart
<1>. USE DEF Apart, service, shared, jobvars, history
<1>0. rec \in [Tasks -> State \cup {Absent}] /\ job \in Tasks \cup {None} /\ (job # None => rec[job] # Absent)
  BY DEF Owned, OwnType, WorkerOwns
<1>1. CASE Submit(h)
  BY <1>0, <1>1 DEF Submit, Create
<1>2. CASE DropWrite(h)
  <2>1. handler[h].task \in Tasks /\ handler[h].task # job
    BY <1>2 DEF DropWrite, Owned, HandlerOwns, Holding
  <2>. QED  BY <1>0, <1>2, <2>1 DEF DropWrite, Write
<1>3. CASE Enqueue(h) \/ CancelQueued(h) \/ Wake(h) \/ Drop(h) \/ DropClose(h)
  BY <1>3 DEF Enqueue, CancelQueued, Wake, Drop, DropClose
<1>. QED  BY <1>1, <1>2, <1>3 DEF Handle

\* The worker's own steps, one place after the other, when no store write fails.
LEMMA WorkerStage ==
  ASSUME Owned, ServiceType, WorkerType, Slot, Stage, Worker, faults = 0, faults' = 0
  PROVE  Stage'
<1>. USE DEF Stage, Bound, Started, service, shared, jobvars, history
<1>0. /\ rec \in [Tasks -> State \cup {Absent}]
      /\ Live = {"running", "awaiting_approval"}
      /\ Terminal = {"done", "flagged", "failed", "refused", "cancelled", "interrupted"}
      /\ job # None => rec[job] # Absent
      /\ job \in Tasks \cup {None}
      /\ then \in {"return", "send", "loop"}
  BY DEF Owned, OwnType, WorkerOwns, Live, Terminal
<1>1. CASE Top \/ Sleep
  BY <1>1 DEF Top, Sleep
<1>2. CASE Take
  <2>1. CASE queue = <<>>
    BY <1>2, <2>1 DEF Take
  <2>2. CASE queue # <<>>
    <3>1. Head(queue) = queue[1] /\ 1 \in 1 .. Len(queue)
      BY <2>2, SMT DEF Owned, OwnType
    <3>2. rec[Head(queue)] = "queued"
      BY <3>1 DEF Owned, QueueOwns
    <3>3. at' = "run" /\ job' = Head(queue) /\ rec' = rec /\ pending' = 0
      BY <1>2, <2>2 DEF Take
    <3>. QED  BY <3>2, <3>3
  <2>. QED  BY <2>1, <2>2
<1>3. CASE Run
  BY <1>0, <1>3 DEF Run, Runs
<1>4. CASE Launch \/ TakeSignal
  BY <1>0, <1>4 DEF Launch, TakeSignal, Finish, Transit
<1>5. CASE AwaitReady
  BY <1>0, <1>5 DEF AwaitReady, Finish, Transit
<1>16. CASE Send
  <2>1. \/ at' = "loop" /\ UNCHANGED <<goal, then>>
        \/ at' = "edge" /\ goal' = "failed" /\ then' = "return"
    BY <1>16 DEF Send, Finish, Transit
  <2>2. pending = 0
    BY <1>16 DEF Send
  <2>3. at = "send" /\ rec[job] = "running" /\ UNCHANGED <<rec, job, pending>>
    BY <1>16 DEF Send
  <2>. QED  BY <1>0, <2>1, <2>2, <2>3
<1>6. CASE PermissionRequest
  <2>1. PICK r \in Asked :
          IF Decision(r).grant # "none"
          THEN Grant(asks', r, Decision(r).grant, Decision(r).by) /\ UNCHANGED <<at, pending>>
          ELSE /\ pending' = asks'
               /\ Grant(asks', r, "none", "operator")
               /\ at' = "park"
    BY <1>6 DEF PermissionRequest
  <2>2. Decision(r).grant = "none" => pending = 0
    BY DecisionSpares
  <2>. QED  BY <1>0, <1>6, <2>1, <2>2 DEF PermissionRequest
<1>7. CASE Park
  BY <1>0, <1>7 DEF Park, Transit, Slot
<1>8. CASE AnswerPending
  BY <1>0, <1>8 DEF AnswerPending, Transit, Slot
<1>9. CASE StreamEvent \/ Kill \/ Audit
  BY <1>0, <1>9 DEF StreamEvent, Kill, Audit, Finish, Transit
<1>10. CASE Wait \/ Verdict
  BY <1>0, <1>10 DEF Wait, Verdict, Finish, Transit, CancelWord
<1>11. CASE Edge
  <2>1. job \in Tasks /\ rec[job] \in State
    BY <1>0, <1>11 DEF Edge, Owned, WorkerOwns, Idle
  <2>2. Bound /\ UNCHANGED <<rec, job, goal, then, pending>>
    BY <1>11 DEF Edge
  <2>3. CanTransition(rec[job], goal) \/ (goal \in {"done", "flagged"} /\ then = "return" /\ Started(job))
    BY <1>0, <2>1, <2>2 DEF CanTransition, Edges, State
  <2>. QED  BY <1>11, <2>2, <2>3 DEF Edge
<1>12. CASE WriteGoal
  <2>1. job \in Tasks /\ Write(job, goal) /\ at' = (IF goal \in Terminal THEN "release" ELSE then)
    BY <1>0, <1>12 DEF WriteGoal, Owned, WorkerOwns, Idle, Fault
  <2>2. rec'[job] = goal /\ UNCHANGED <<job, goal, then, pending>>
    BY <1>0, <1>12, <2>1 DEF WriteGoal, Write
  <2>. QED  BY <1>0, <1>12, <2>1, <2>2 DEF WriteGoal
<1>13. CASE Botch
  BY <1>0, <1>13 DEF Botch
<1>14. CASE Release \/ CloseStreams
  BY <1>14 DEF Release, CloseStreams
<1>15. CASE Return
  BY <1>15 DEF Return
<1>. QED
  BY <1>1, <1>2, <1>3, <1>4, <1>5, <1>6, <1>7, <1>8, <1>9, <1>10, <1>11, <1>12, <1>13, <1>14, <1>15, <1>16 DEF Worker

\* A restart is the only step that leaves the service recovering, and the only one after
\* which nothing runs.
LEMMA ClosedStep ==
  ASSUME Closed, [Next]_vars
  PROVE  Closed'
<1>. USE DEF Closed, service, shared, jobvars, history
<1>1. ASSUME NEW h \in Handlers, Handle(h) PROVE Closed'
  BY <1>1 DEF Handle, Submit, Enqueue, Wake, CancelQueued, Drop, DropWrite, DropClose
<1>2. CASE Restart \/ RecoverMark \/ RecoverKill
  BY <1>2 DEF Restart, RecoverMark, RecoverKill
<1>3. CASE CloseStop \/ CloseCancel \/ CloseReturn \/ CancelCurrent \/ Answer
  BY <1>3 DEF CloseStop, CloseCancel, CloseReturn, CancelCurrent, Answer, Joined
<1>4. CASE Subscribe \/ VmExits \/ ClientExits \/ UNCHANGED vars
  BY <1>4 DEF Subscribe, VmExits, ClientExits, vars
<1>5. ASSUME Worker PROVE at # "exited" /\ UNCHANGED <<closer, phase>>
  BY <1>5 DEF Worker, Top, Take, Sleep, Run, Launch, TakeSignal, AwaitReady, Send, PermissionRequest,
     Park, AnswerPending, StreamEvent, Kill, Wait, Audit, Verdict, Edge, WriteGoal, Botch, Release,
     CloseStreams, Return
<1>6. CASE Worker
  BY <1>5, <1>6
<1>. QED  BY <1>1, <1>2, <1>3, <1>4, <1>6 DEF Next

\* A step that writes no record, and gives every queued record's id on.
LEMMA SameAccounted ==
  ASSUME Owned, Accounted, UNCHANGED <<rec, phase, skipped>>,
         \A t \in Tasks : rec[t] = "queued" /\ (t = job \/ OnItsWay(t)) => t = job' \/ OnItsWay(t)',
         job \in Tasks /\ rec[job] \in Live => job' = job
  PROVE  Accounted'
<1>1. \A t \in Unfinished : rec[t] = "queued" \/ rec[t] \in Live
  BY DEF Owned, OwnType, Unfinished, State
<1>2. Unfinished' = Unfinished
  BY DEF Unfinished
<1>. QED  BY <1>1, <1>2 DEF Accounted, Unfinished

\* A task that a step finishes, or that had no record and is refused, leaves the others
\* as they are.
LEMMA FinishAccounted ==
  ASSUME Owned, Accounted, NEW t \in Tasks, NEW s \in Terminal, Write(t, s), UNCHANGED <<phase, skipped>>,
         \A u \in Tasks : u # t /\ rec[u] = "queued" /\ (u = job \/ OnItsWay(u)) => u = job' \/ OnItsWay(u)',
         job' = job
  PROVE  Accounted'
<1>1. rec \in [Tasks -> State \cup {Absent}] /\ Absent \notin Live /\ s \notin Live
  BY StoreAssumption DEF Owned, OwnType, State, Live, Terminal
<1>2. rec' = [rec EXCEPT ![t] = s]
  BY DEF Write
<1>3. rec'[t] = s /\ \A u \in Tasks : u # t => rec'[u] = rec[u]
  BY <1>1, <1>2
<1>. QED  BY <1>1, <1>3 DEF Accounted, Unfinished

LEMMA HandleAccounted ==
  ASSUME Owned, Accounted, NEW h \in Handlers, Handle(h), faults = 0, faults' = 0
  PROVE  Accounted'
<1>. USE DEF service, shared, jobvars, history
<1>0. /\ handler \in [Handlers -> [at : HandlerAt, task : Tasks \cup {None}]]
      /\ queue \in Seq(Tasks) /\ rec \in [Tasks -> State \cup {Absent}]
  BY DEF Owned, OwnType
<1>1. CASE Submit(h)
  <2>1. PICK t \in Tasks, s \in {"queued", "refused"} :
          /\ rec[t] = Absent /\ rec' = [rec EXCEPT ![t] = s]
          /\ (s = "refused" /\ handler' = handler) \/ (s = "queued" /\ handler[h] = Free /\ Become(h, "append", t))
    BY <1>1 DEF Submit, Create
  <2>2. UNCHANGED <<queue, job, phase, skipped>>
    BY <1>1 DEF Submit
  <2>3. \A u \in Tasks : u # t => rec'[u] = rec[u]
    BY <1>0, <2>1
  <2>4. rec'[t] = s /\ s \notin Live
    BY <1>0, <2>1 DEF Live
  <2>5. s = "queued" => Holding(h)' /\ handler'[h].task = t
    BY <1>0, <2>1, SMT DEF Become, Holding
  <2>6. \A k \in Handlers : Holding(k) => Holding(k)' /\ handler'[k].task = handler[k].task
    BY <1>0, <2>1, SMT DEF Become, Holding, Free
  <2>7. \A u \in Tasks : OnItsWay(u) => OnItsWay(u)'
    BY <2>2, <2>6 DEF OnItsWay, InQueue
  <2>8. s = "queued" => OnItsWay(t)'
    BY <2>5 DEF OnItsWay
  <2>. QED  BY <2>1, <2>2, <2>3, <2>4, <2>7, <2>8, StoreAssumption DEF Accounted, Unfinished, Live, State, Terminal
<1>2. CASE Enqueue(h)
  <2>1. UNCHANGED <<rec, phase, skipped, job>>
    BY <1>2 DEF Enqueue
  <2>2. \A u : InQueue(u) => InQueue(u)'
    BY <1>0, <1>2, SMT DEF Enqueue, InQueue, Owned, HandlerOwns, Holding
  <2>3. \A u : u = handler[h].task => InQueue(u)'
    <3>1. handler[h].task \in Tasks /\ queue' = Append(queue, handler[h].task)
      BY <1>2 DEF Enqueue, Owned, HandlerOwns, Holding
    <3>2. Len(queue') = Len(queue) + 1 /\ Len(queue) \in Nat /\ queue'[Len(queue) + 1] = handler[h].task
      BY <1>0, <3>1, SMT
    <3>. QED  BY <3>2 DEF InQueue
  <2>4. \A k \in Handlers \ {h} : handler'[k] = handler[k]
    BY <1>0, <1>2 DEF Enqueue, Become
  <2>. QED  BY <2>1, <2>2, <2>3, <2>4, SameAccounted DEF OnItsWay, Holding
<1>3. CASE CancelQueued(h)
  <2>1. UNCHANGED <<rec, phase, skipped, job>> /\ handler[h] = Free
    BY <1>3 DEF CancelQueued
  <2>2. PICK i \in 1 .. Len(queue) : queue' = Without(i) /\ Become(h, "drop", queue[i])
    BY <1>0, <1>3 DEF CancelQueued
  <2>3. Holding(h)' /\ handler'[h].task = queue[i]
    BY <1>0, <2>2, SMT DEF Become, Holding
  <2>4. ASSUME NEW u, NEW j \in 1 .. Len(queue), j # i, queue[j] = u PROVE InQueue(u)'
    <3>1. Len(queue) \in Nat /\ i \in Nat /\ j \in Nat
      BY <1>0
    <3>. DEFINE k == IF j < i THEN j ELSE j - 1
    <3>2. k \in 1 .. Len(queue) - 1 /\ (IF k < i THEN k ELSE k + 1) = j
      BY <2>4, <3>1
    <3>3. k \in 1 .. Len(Without(i)) /\ Without(i)[k] = queue[j]
      BY <1>0, <3>2, WithoutOne
    <3>. QED  BY <2>2, <2>4, <3>3 DEF InQueue
  <2>5. \A k \in Handlers \ {h} : handler'[k] = handler[k]
    BY <1>0, <2>2 DEF Become
  <2>6. \A k \in Handlers : Holding(k) => Holding(k)' /\ handler'[k].task = handler[k].task
    BY <2>1, <2>5 DEF Holding, Free
  <2>7. \A u : InQueue(u) => InQueue(u)' \/ u = queue[i]
    BY <2>4 DEF InQueue
  <2>8. \A u : OnItsWay(u) => OnItsWay(u)'
    BY <2>3, <2>6, <2>7 DEF OnItsWay
  <2>. QED  BY <2>1, <2>8, SameAccounted
<1>4. CASE Wake(h) \/ DropClose(h)
  <2>1. UNCHANGED <<rec, phase, skipped, job, queue>> /\ ~Holding(h)
    BY <1>4 DEF Wake, DropClose, Holding
  <2>2. \A k \in Handlers \ {h} : handler'[k] = handler[k]
    BY <1>0, <1>4 DEF Wake, DropClose, Done
  <2>3. \A u : OnItsWay(u) => OnItsWay(u)'
    BY <2>1, <2>2 DEF OnItsWay, InQueue, Holding
  <2>. QED  BY <2>1, <2>3, SameAccounted
<1>5. CASE Drop(h)
  <2>1. UNCHANGED <<rec, phase, skipped, job, queue>> /\ Holding(h)
    BY <1>5 DEF Drop, Holding
  <2>2. rec[handler[h].task] = "queued"
    BY <2>1 DEF Owned, HandlerOwns
  <2>3. Become(h, "dropwrite", handler[h].task)
    BY <1>5, <2>2 DEF Drop, CanTransition, Edges
  <2>4. \A k \in Handlers : Holding(k) => Holding(k)' /\ handler'[k].task = handler[k].task
    BY <1>0, <2>3, SMT DEF Become, Holding
  <2>5. \A u : OnItsWay(u) => OnItsWay(u)'
    BY <2>1, <2>4 DEF OnItsWay, InQueue
  <2>. QED  BY <2>1, <2>5, SameAccounted
<1>6. CASE DropWrite(h)
  <2>. DEFINE t == handler[h].task
  <2>1. UNCHANGED <<phase, skipped, job, queue>> /\ Holding(h) /\ t \in Tasks
    BY <1>6 DEF DropWrite, Holding, Owned, HandlerOwns
  <2>2. Write(t, "cancelled") /\ Become(h, "dropclose", t)
    BY <1>6 DEF DropWrite, Fault
  <2>3. \A k \in Handlers \ {h} : handler'[k] = handler[k]
    BY <1>0, <2>2 DEF Become
  <2>4. \A u : u # t /\ OnItsWay(u) => OnItsWay(u)'
    BY <2>1, <2>3 DEF OnItsWay, InQueue, Holding
  <2>5. "cancelled" \in Terminal
    BY DEF Terminal
  <2>. HIDE DEF t
  <2>. QED  BY <2>1, <2>2, <2>4, <2>5, FinishAccounted
<1>. QED  BY <1>1, <1>2, <1>3, <1>4, <1>5, <1>6 DEF Handle

LEMMA WorkerAccounted ==
  ASSUME Owned, ServiceType, Accounted, Stage, Worker, faults = 0, faults' = 0
  PROVE  Accounted'
<1>. USE DEF service, shared, jobvars, history
<1>0. /\ queue \in Seq(Tasks) /\ rec \in [Tasks -> State \cup {Absent}] /\ job \in Tasks \cup {None}
      /\ phase = "serving" \/ (job = None /\ queue = <<>>)
  BY DEF Owned, OwnType, RecoverOwns, ServiceType
<1>5. UNCHANGED <<handler, phase, skipped>>
  BY DEF Worker, Top, Take, Sleep, Run, Launch, TakeSignal, AwaitReady, Send, PermissionRequest,
     Park, AnswerPending, StreamEvent, Kill, Wait, Audit, Verdict, Edge, WriteGoal, Botch, Release,
     CloseStreams, Return
<1>1. CASE Take
  <2>1. CASE queue = <<>>
    <3>1. UNCHANGED <<rec, queue, job>>
      BY <1>1, <2>1 DEF Take
    <3>. QED  BY <1>0, <1>5, <3>1, SameAccounted DEF OnItsWay, InQueue, Holding
  <2>2. CASE queue # <<>>
    <3>1. rec' = rec /\ job' = Head(queue) /\ queue' = Tail(queue) /\ job = None
      BY <1>1, <2>2 DEF Take, Owned, WorkerOwns, Idle
    <3>2. \A u : InQueue(u) => u = job' \/ InQueue(u)'
      BY <1>0, <2>2, <3>1, SMT DEF InQueue
    <3>3. \A u \in Tasks : u # job
      BY <3>1, RunnerAssumption
    <3>4. \A u : OnItsWay(u) => u = job' \/ OnItsWay(u)'
      BY <1>5, <3>2 DEF OnItsWay, Holding
    <3>. QED  BY <1>5, <3>1, <3>3, <3>4, SameAccounted
  <2>. QED  BY <2>1, <2>2
<1>2. CASE WriteGoal
  <2>1. job \in Tasks /\ Write(job, goal) /\ UNCHANGED <<job, queue>> /\ Bound /\ phase = "serving"
    BY <1>0, <1>5, <1>2 DEF WriteGoal, Owned, WorkerOwns, Idle, Fault, Stage
  <2>2. \A u : OnItsWay(u)' <=> OnItsWay(u)
    BY <1>0, <1>5, <2>1 DEF OnItsWay, InQueue, Holding
  <2>3. CASE goal \in Terminal
    BY <1>0, <1>5, <2>1, <2>2, <2>3, FinishAccounted
  <2>4. CASE goal \in Live
    <3>1. rec'[job] = goal /\ \A u \in Tasks : u # job => rec'[u] = rec[u]
      BY <1>0, <1>5, <2>1 DEF Write
    <3>2. \A u \in Tasks : u # job => rec[u] \notin Live
      BY <2>1, StoreAssumption DEF Accounted, Unfinished, Live, Terminal, State
    <3>. QED  BY <1>0, <1>5, <2>1, <2>2, <3>1, <3>2 DEF Accounted, Unfinished
  <2>. QED  BY <2>1, <2>3, <2>4 DEF Bound, Live, Terminal
<1>3. CASE Return
  <2>1. rec' = rec /\ queue' = queue /\ job' = None /\ rec[job] \in Terminal
    BY <1>3 DEF Return, Stage
  <2>2. \A u \in Tasks : rec[u] = "queued" => u # job
    BY <2>1 DEF Terminal
  <2>. QED  BY <1>0, <1>5, <2>1, <2>2, SameAccounted DEF OnItsWay, InQueue, Holding, Terminal, Live
<1>4. CASE ~Take /\ ~WriteGoal /\ ~Return
  <2>1. UNCHANGED <<rec, queue, job>>
    BY <1>4 DEF Worker, Top, Sleep, Run, Launch, TakeSignal, AwaitReady, Send, PermissionRequest,
     Park, AnswerPending, StreamEvent, Kill, Wait, Audit, Verdict, Edge, Botch, Release, CloseStreams
  <2>. QED  BY <1>0, <1>5, <2>1, SameAccounted DEF OnItsWay, InQueue, Holding
<1>. QED  BY <1>1, <1>2, <1>3, <1>4

LEMMA StraightStep ==
  ASSUME Owned, ServiceType, WorkerType, Slot, Straight, [Next]_vars
  PROVE  Straight'
<1>. USE DEF service, shared, jobvars, history
<1>1. Closed'
  BY ClosedStep DEF Straight
<1>2. SUFFICES ASSUME faults' = 0 PROVE Accounted' /\ Stage'
  BY <1>1 DEF Straight
<1>3. faults = 0
  <2>1. faults' = faults \/ faults' = faults + 1
    BY DEF Next, Handle, Submit, Enqueue, Wake, CancelQueued, Drop, DropWrite, DropClose, Restart, RecoverMark,
       RecoverKill, CloseStop, CloseCancel, CloseReturn, CancelCurrent, Answer, Subscribe, VmExits, ClientExits,
       vars, Worker, Top, Take, Sleep, Run, Launch, TakeSignal, AwaitReady, Send, PermissionRequest,
       Park, AnswerPending, StreamEvent, Kill, Wait, Audit, Verdict, Edge, WriteGoal, Botch, Release,
       CloseStreams, Return, Fault, NoFault
  <2>. QED  BY <1>2, <2>1 DEF ServiceType
<1>4. Accounted /\ Stage
  BY <1>3 DEF Straight
<1>5. ASSUME NEW h \in Handlers, Handle(h) PROVE Accounted' /\ Stage'
  BY <1>2, <1>3, <1>4, <1>5, HandleAccounted, HandleApart, ApartStage DEF Owned
<1>6. CASE Worker
  BY <1>2, <1>3, <1>4, <1>6, WorkerAccounted, WorkerStage
<1>7. CASE Restart
  <2>1. /\ rec' = rec /\ phase' = "recovering" /\ skipped' = {} /\ at' = "top"
    BY <1>7 DEF Restart
  <2>. QED  BY <1>4, <2>1 DEF Accounted, Stage
<1>8. CASE RecoverMark
  <2>1. PICK t \in Tasks : Recoverable(t) /\ Write(t, "interrupted")
    BY <1>2, <1>3, <1>8 DEF RecoverMark, Fault
  <2>2. UNCHANGED <<queue, handler, job, at, phase, skipped>> /\ job = None
    BY <1>2, <1>3, <1>8 DEF RecoverMark, Fault, Owned, RecoverOwns
  <2>3. Stage'
    BY <2>2 DEF Stage, Owned, WorkerOwns, Idle
  <2>4. "interrupted" \in Terminal
    BY DEF Terminal
  <2>5. \A u : OnItsWay(u)' <=> OnItsWay(u)
    BY <2>2 DEF OnItsWay, InQueue, Holding
  <2>. QED  BY <1>4, <2>1, <2>2, <2>3, <2>4, <2>5, FinishAccounted
<1>9. CASE RecoverKill
  <2>1. Apart /\ UNCHANGED <<rec, skipped, job, queue, handler>> /\ Unfinished = {}
    BY <1>4, <1>9 DEF RecoverKill, Apart, Accounted, Recoverable, Unfinished
  <2>2. Unfinished' = {}
    BY <2>1 DEF Unfinished
  <2>. QED  BY <1>4, <2>1, <2>2, ApartStage DEF Accounted, Owned
<1>10. CASE CloseStop \/ CloseCancel \/ CloseReturn \/ CancelCurrent \/ Answer \/ Subscribe
            \/ VmExits \/ ClientExits \/ UNCHANGED vars
  <2>1. Apart /\ UNCHANGED <<rec, phase, skipped, job, queue, handler>>
    BY <1>10 DEF CloseStop, CloseCancel, CloseReturn, CancelCurrent, Answer, Subscribe,
       VmExits, ClientExits, vars, Apart
  <2>. QED  BY <1>4, <2>1, ApartStage, SameAccounted DEF OnItsWay, InQueue, Holding, Owned
<1>. QED  BY <1>5, <1>6, <1>7, <1>8, <1>9, <1>10 DEF Next

LEMMA TypesHold == Spec => [](ServiceType /\ WorkerType)
<1>1. Init => ServiceType /\ WorkerType
  BY RunnerAssumption DEF Init, ServiceType, WorkerType, State
<1>2. Owned /\ ServiceType /\ WorkerType /\ [Next]_vars => (ServiceType /\ WorkerType)'
  BY ServiceTypeStep, WorkerTypeStep
<1>. QED  BY <1>1, <1>2, OwnedHolds, PTL DEF Spec

LEMMA StraightHolds == Spec => []Straight
<1>1. Init => Straight
  <2>1. SUFFICES ASSUME Init PROVE Straight
    OBVIOUS
  <2>2. \A t \in Tasks : rec[t] = Absent /\ rec[t] \notin Live
    BY <2>1, StoreAssumption DEF Init, State
  <2>3. Accounted
    BY <2>1, <2>2 DEF Init, Accounted, Unfinished
  <2>4. Stage /\ Closed
    BY <2>1 DEF Init, Stage, Closed
  <2>. QED  BY <2>3, <2>4 DEF Straight
<1>2. Owned /\ ServiceType /\ WorkerType /\ Answered /\ Straight /\ [Next]_vars => Straight'
  BY StraightStep DEF Answered
<1>. QED  BY <1>1, <1>2, OwnedHolds, TypesHold, AnsweredHolds, PTL DEF Spec

\* taskstore.go:359, worker.go:387: as long as no write of the store fails, every task
\* that was accepted has the worker, the queue or a request to finish it, deaths and
\* recoveries included; the worker does not go on with a task whose record is finished;
\* and a close that has returned leaves no record that says its task is running.
THEOREM NoTaskIsLost == Spec => [](faults = 0 => NothingIsLost)
<1>1. ASSUME Owned, Straight, faults = 0 PROVE NothingIsLost
  <2>1. Accounted /\ Stage /\ Closed
    BY <1>1 DEF Straight
  <2>2. NothingStranded
    <3>1. queue \in Seq(Tasks)
      BY <1>1 DEF Owned, OwnType
    <3>2. DOMAIN queue = 1 .. Len(queue)
      BY <3>1
    <3>. QED  BY <2>1, <3>2 DEF NothingStranded, Accounted, OnItsWay, InQueue
  <2>3. FinishedIsOver
    BY <2>1 DEF FinishedIsOver, Stage, Started, Live, Terminal
  <2>4. CloseLeavesNothingLive
    <3>1. SUFFICES ASSUME closer = "closed", NEW t \in Tasks, rec[t] \in Live PROVE FALSE
      BY DEF CloseLeavesNothingLive
    <3>2. phase = "serving" /\ job = None
      BY <1>1, <2>1, <3>1 DEF Closed, Owned, WorkerOwns, Idle
    <3>3. t \in Unfinished /\ rec[t] # "queued"
      BY <3>1, StoreAssumption DEF Unfinished, State, Live, Terminal
    <3>. QED  BY <2>1, <3>2, <3>3, RunnerAssumption DEF Accounted, RunnerAssumption
  <2>. QED  BY <2>2, <2>3, <2>4 DEF NothingIsLost, OverIsOver
<1>. QED  BY <1>1, OwnedHolds, StraightHolds, PTL

----------------------------------------------------------------------------
(* The records keep what TaskLife promises *)

\* A write of a record that goes along an edge of TaskLife.
LEMMA LifeSubmit ==
  ASSUME NEW t \in Tasks, NEW s \in {"queued", "refused"}, rec[t] = Absent, Write(t, s)
  PROVE  Life!Next
  BY DEF Write, Life!Next, Life!Submit, Life!Become

LEMMA LifeEnd ==
  ASSUME NEW t \in Tasks, NEW s, s \in Life!Ends(rec[t]), Write(t, s)
  PROVE  Life!Next
  BY DEF Write, Life!Next, Life!End, Life!Become

LEMMA LifeStep ==
  ASSUME Owned, ServiceType, Straight, faults = 0, faults' = 0, [Next]_vars
  PROVE  [Life!Next]_rec
<1>. USE DEF service, shared, jobvars, history
<1>0. /\ Accounted /\ Stage
      /\ rec \in [Tasks -> State \cup {Absent}] /\ job \in Tasks \cup {None}
  BY DEF Straight, Owned, OwnType
<1>1. ASSUME NEW h \in Handlers, Submit(h) PROVE [Life!Next]_rec
  BY <1>1, LifeSubmit DEF Submit, Create, Write
<1>2. ASSUME NEW h \in Handlers, DropWrite(h) PROVE [Life!Next]_rec
  <2>1. handler[h].task \in Tasks /\ rec[handler[h].task] = "queued" /\ Write(handler[h].task, "cancelled")
    BY <1>2 DEF DropWrite, Owned, HandlerOwns, Holding, Fault
  <2>2. "cancelled" \in Life!Ends("queued")
    BY DEF Life!Ends
  <2>. QED  BY <2>1, <2>2, LifeEnd
<1>3. CASE RecoverMark
  <2>1. PICK t \in Tasks : Recoverable(t) /\ Write(t, "interrupted")
    BY <1>3 DEF RecoverMark, Fault
  <2>2. rec[t] \in {"queued", "running", "awaiting_approval"}
    BY <1>0, <2>1 DEF Recoverable, Unfinished, State, Live, Terminal
  <2>3. "interrupted" \in Life!Ends(rec[t])
    BY <2>2 DEF Life!Ends
  <2>. QED  BY <2>1, <2>3, LifeEnd
<1>4. CASE WriteGoal
  <2>1. job \in Tasks /\ Write(job, goal) /\ Bound
    BY <1>0, <1>4 DEF WriteGoal, Owned, WorkerOwns, Idle, Fault, Stage
  <2>2. CanTransition(rec[job], goal)
    BY <1>4 DEF WriteGoal, Owned, WorkerOwns
  <2>3. CASE goal \in Terminal
    <3>1. goal \in Life!Ends(rec[job])
      BY <2>2, <2>3 DEF CanTransition, Edges, Terminal, Life!Ends
    <3>. QED  BY <2>1, <3>1, LifeEnd
  <2>4. CASE goal = "running" /\ rec[job] = "queued"
    <3>1. \A u \in Tasks : rec[u] \notin {"running", "awaiting_approval"}
      <4>1. phase = "serving"
        BY <2>1, RunnerAssumption DEF Owned, RecoverOwns, ServiceType
      <4>2. \A u \in Tasks : rec[u] \in Live => u \in Unfinished /\ rec[u] # "queued"
        BY StoreAssumption DEF Unfinished, Live, State, Terminal
      <4>. QED  BY <1>0, <2>4, <4>1, <4>2 DEF Accounted, Live
    <3>. QED  BY <2>1, <2>4, <3>1 DEF Write, Life!Next, Life!Start, Life!Become
  <2>5. CASE goal = "running" /\ rec[job] = "awaiting_approval"
    BY <2>1, <2>5 DEF Write, Life!Next, Life!Resume, Life!Become
  <2>6. CASE goal = "awaiting_approval" /\ rec[job] = "running"
    BY <2>1, <2>6 DEF Write, Life!Next, Life!Park, Life!Become
  <2>. QED  BY <2>1, <2>3, <2>4, <2>5, <2>6 DEF Bound, Terminal
<1>5. ASSUME rec' = rec PROVE [Life!Next]_rec
  BY <1>5
<1>6. ASSUME NEW h \in Handlers, Handle(h) PROVE [Life!Next]_rec
  BY <1>1, <1>2, <1>5, <1>6 DEF Handle, Enqueue, Wake, CancelQueued, Drop, DropClose
<1>7. CASE Worker /\ ~WriteGoal
  BY <1>5, <1>7 DEF Worker, Top, Take, Sleep, Run, Launch, TakeSignal, AwaitReady, Send, PermissionRequest,
     Park, AnswerPending, StreamEvent, Kill, Wait, Audit, Verdict, Edge, Botch, Release,
     CloseStreams, Return
<1>8. CASE Restart \/ RecoverKill \/ CloseStop \/ CloseCancel \/ CloseReturn \/ CancelCurrent \/ Answer \/ Subscribe
            \/ VmExits \/ ClientExits \/ UNCHANGED vars
  BY <1>5, <1>8 DEF Restart, RecoverKill, CloseStop, CloseCancel, CloseReturn, CancelCurrent, Answer, Subscribe,
       VmExits, ClientExits, vars
<1>. QED  BY <1>3, <1>4, <1>6, <1>7, <1>8 DEF Next

\* docs/spec/v1.11-workspace-agent.md 3.2: as long as no write of the store fails, the
\* records live as TaskLife says: a task is queued or refused, runs when no other
\* does, may wait for the operator, ends once and stays ended.
THEOREM RecordsLiveAsPromised == Spec /\ [](faults = 0) => ImplementsTaskLife
<1>1. Init => Life!Init
  BY DEF Init, Life!Init
<1>2. Owned /\ ServiceType /\ Straight /\ faults = 0 /\ (faults = 0)' /\ [Next]_vars => [Life!Next]_rec
  BY LifeStep
<1>. QED  BY <1>1, <1>2, OwnedHolds, TypesHold, StraightHolds, PTL DEF Spec, ImplementsTaskLife, Life!Spec

----------------------------------------------------------------------------
(* Nobody is left waiting *)

\* Who follows a task follows one that has a record, and nobody follows one before the
\* service has recovered.
Followed ==
  /\ phase = "recovering" => subs = {}
  /\ \A s \in subs : s[1] \in Tasks /\ rec[s[1]] # Absent
  /\ NoStrandedViewer

LEMMA FollowedStep ==
  ASSUME Owned, ServiceType, Followed, [Next]_vars
  PROVE  Followed'
<1>. USE DEF service, shared, jobvars, history
<1>0. /\ rec \in [Tasks -> State \cup {Absent}]
      /\ handler \in [Handlers -> [at : HandlerAt, task : Tasks \cup {None}]]
      /\ Absent \notin State /\ Terminal \subseteq State
  BY StoreAssumption DEF Owned, OwnType, State
\* What leaves the streams, and who is about to close them, alone.
<1>1. ASSUME UNCHANGED <<rec, subs, job>>, phase' \in {phase, "serving"},
             at' = at \/ at \notin {"release", "close"},
             \A h \in Handlers : handler'[h] = handler[h] \/ handler[h].at # "dropclose"
      PROVE  Followed'
  BY <1>1 DEF Followed, NoStrandedViewer
<1>2. ASSUME NEW h \in Handlers, Handle(h) PROVE Followed'
  <2>1. \A k \in Handlers : k # h => handler'[k] = handler[k]
    BY <1>0, <1>2 DEF Handle, Submit, Enqueue, Wake, CancelQueued, Drop, DropWrite, DropClose, Become, Done
  <2>2. CASE Submit(h)
    <3>1. PICK t \in Tasks, s \in {"queued", "refused"} :
            rec[t] = Absent /\ rec' = [rec EXCEPT ![t] = s]
      BY <2>2 DEF Submit, Create
    <3>2. \A u \in Tasks : u # t => rec'[u] = rec[u]
      BY <1>0, <3>1
    <3>3. UNCHANGED <<subs, job, at, phase>> /\ (handler[h].at # "dropclose" \/ handler' = handler)
      BY <2>2 DEF Submit, Free
    <3>. QED  BY <2>1, <3>1, <3>2, <3>3 DEF Followed, NoStrandedViewer
  <2>3. CASE Enqueue(h) \/ Wake(h) \/ CancelQueued(h) \/ Drop(h)
    <3>1. UNCHANGED <<rec, subs, job, phase, at>> /\ handler[h].at # "dropclose"
      BY <2>3 DEF Enqueue, Wake, CancelQueued, Drop, Free
    <3>. QED  BY <1>1, <2>1, <3>1
  <2>4. CASE DropWrite(h)
    <3>. DEFINE t == handler[h].task
    <3>1. CASE rec' = rec
      BY <1>1, <2>1, <2>4, <3>1 DEF DropWrite
    <3>2. CASE Write(t, "cancelled") /\ Become(h, "dropclose", t)
      <4>1. UNCHANGED <<subs, job, at, phase>> /\ t \in Tasks
        BY <2>4 DEF DropWrite, Owned, HandlerOwns, Holding
      <4>2. rec'[t] # Absent /\ \A u \in Tasks : u # t => rec'[u] = rec[u]
        BY <1>0, <3>2, <4>1 DEF Write, State, Terminal
      <4>3. handler'[h] = [at |-> "dropclose", task |-> t] /\ handler[h].at = "dropwrite"
        BY <1>0, <2>4, <3>2 DEF Become, DropWrite
      <4>. QED  BY <2>1, <4>1, <4>2, <4>3 DEF Followed, NoStrandedViewer
    <3>. QED  BY <2>4, <3>1, <3>2 DEF DropWrite
  <2>5. CASE DropClose(h)
    <3>1. UNCHANGED <<rec, job, at, phase>> /\ subs' = {s \in subs : s[1] # handler[h].task}
      BY <2>5 DEF DropClose, CloseSubs
    <3>2. \A s \in subs' : s \in subs /\ s[1] # handler[h].task
      BY <3>1
    <3>3. \A s \in subs' : rec[s[1]] \in Terminal =>
            \/ job = s[1] /\ at \in {"release", "close"}
            \/ \E k \in Handlers : k # h /\ handler[k] = [at |-> "dropclose", task |-> s[1]]
      <4>1. \A u : \A k \in Handlers : handler[k] = [at |-> "dropclose", task |-> u] => handler[k].task = u
        OBVIOUS
      <4>. QED  BY <3>2, <4>1 DEF Followed, NoStrandedViewer
    <3>. QED  BY <2>1, <3>1, <3>2, <3>3 DEF Followed, NoStrandedViewer
  <2>. QED  BY <1>2, <2>2, <2>3, <2>4, <2>5 DEF Handle
<1>3. CASE Restart
  BY <1>3 DEF Restart, Followed, NoStrandedViewer
<1>4. CASE RecoverMark
  <2>1. phase = "recovering" /\ UNCHANGED <<subs, phase>>
    BY <1>4 DEF RecoverMark
  <2>. QED  BY <2>1 DEF Followed, NoStrandedViewer
<1>5. CASE Subscribe
  <2>1. PICK t \in Tasks, v \in Viewers : Registrable(t) /\ subs' = subs \cup {<<t, v>>}
    BY <1>5 DEF Subscribe
  <2>2. UNCHANGED <<rec, job, at, handler, phase>> /\ phase = "serving"
    BY <1>5 DEF Subscribe, Serving
  <2>. QED  BY <2>1, <2>2 DEF Followed, NoStrandedViewer, Registrable, Unfinished
<1>6. CASE WriteGoal
  <2>1. job \in Tasks /\ UNCHANGED <<subs, job, handler, phase>> /\ at = "write"
    BY <1>6 DEF WriteGoal, Owned, WorkerOwns, OwnType, Idle
  <2>2. CASE rec' = rec
    BY <1>1, <2>1, <2>2
  <2>3. CASE Write(job, goal) /\ at' = (IF goal \in Terminal THEN "release" ELSE then)
    <3>1. goal \in State
      BY <1>6 DEF WriteGoal, Owned, WorkerOwns, CanTransition, Edges, State, Live, Terminal
    <3>2. rec'[job] = goal /\ \A u \in Tasks : u # job => rec'[u] = rec[u]
      BY <1>0, <2>1, <2>3 DEF Write
    <3>. QED  BY <1>0, <2>1, <2>3, <3>1, <3>2 DEF Followed, NoStrandedViewer
  <2>. QED  BY <1>6, <2>2, <2>3 DEF WriteGoal
<1>7. CASE Botch
  <2>1. UNCHANGED <<rec, job, handler, phase>> /\ at = "botch" /\ subs' \subseteq subs
    BY <1>7 DEF Botch, CloseSubs
  <2>. QED  BY <2>1 DEF Followed, NoStrandedViewer
<1>8. CASE Release
  BY <1>8 DEF Release, Followed, NoStrandedViewer
<1>9. CASE CloseStreams
  <2>1. UNCHANGED <<rec, job, handler, phase>> /\ \A s \in subs' : s \in subs /\ s[1] # job
    BY <1>9 DEF CloseStreams, CloseSubs
  <2>. QED  BY <2>1 DEF Followed, NoStrandedViewer
<1>10. CASE Take \/ Return
  <2>1. UNCHANGED <<rec, subs, handler, phase>> /\ at \notin {"release", "close"}
    BY <1>10 DEF Take, Return
  <2>. QED  BY <2>1 DEF Followed, NoStrandedViewer
<1>11. CASE Worker /\ ~WriteGoal /\ ~Botch /\ ~Release /\ ~CloseStreams /\ ~Take /\ ~Return
  <2>1. UNCHANGED <<rec, subs, job, handler, phase>> /\ at \notin {"release", "close"}
    BY <1>11 DEF Worker, Top, Sleep, Run, Launch, TakeSignal, AwaitReady, Send, PermissionRequest,
       Park, AnswerPending, StreamEvent, Kill, Wait, Audit, Verdict, Edge
  <2>. QED  BY <1>1, <2>1
<1>12. CASE RecoverKill \/ CloseStop \/ CloseCancel \/ CloseReturn \/ CancelCurrent \/ Answer
            \/ VmExits \/ ClientExits \/ UNCHANGED vars
  <2>1. UNCHANGED <<rec, subs, job, handler, at>> /\ phase' \in {phase, "serving"}
    BY <1>12 DEF RecoverKill, CloseStop, CloseCancel, CloseReturn, CancelCurrent, Answer,
       VmExits, ClientExits, vars
  <2>. QED  BY <1>1, <2>1
<1>. QED  BY <1>2, <1>3, <1>4, <1>5, <1>6, <1>7, <1>8, <1>9, <1>10, <1>11, <1>12 DEF Next

Writing == at \in {"edge", "write", "botch"}

\* What the worker writes, and where it goes on.
Errand ==
  Writing =>
    /\ goal = "awaiting_approval" => then = "loop" /\ pending # 0 /\ (answer # None \/ "awaiting" \in flags)
    /\ then = "loop" => goal \in {"running", "awaiting_approval", "failed"}

\* The current task's record says it waits, and at most one write has failed: the
\* request is parked and can be answered, or its answer is on its way to the record.
Waiting ==
  faults <= 1 /\ current # None /\ rec[current] = "awaiting_approval" =>
    /\ pending # 0 /\ answer = None => "awaiting" \in flags
    /\ at \notin {"run", "launch", "ready", "send", "park", "release", "close"}
    /\ at = "loop" => pending # 0
    /\ Writing => goal # "awaiting_approval" /\ then # "send"
    /\ Writing /\ then = "loop" /\ (at = "botch" \/ goal = "failed") => faults = 1
    /\ at = "botch" /\ then = "loop" => goal # "failed"

LEMMA ErrandStep ==
  ASSUME Owned, Slot, Errand, [Next]_vars
  PROVE  Errand'
<1>. USE DEF Errand, Writing, service, shared, jobvars, history, Transit, Finish
<1>1. ASSUME UNCHANGED <<goal, then, pending, answer>>, flags \subseteq flags', at' = at \/ at' \notin {"edge", "write", "botch"} \/ Writing
      PROVE  Errand'
  BY <1>1
<1>2. ASSUME NEW h \in Handlers, Handle(h) PROVE Errand'
  BY <1>1, <1>2 DEF Handle, Submit, Enqueue, Wake, CancelQueued, Drop, DropWrite, DropClose
<1>3. CASE Restart
  BY <1>3 DEF Restart
<1>4. CASE RecoverMark \/ RecoverKill \/ CloseStop \/ CloseCancel \/ CloseReturn \/ CancelCurrent \/ Subscribe
           \/ VmExits \/ ClientExits \/ UNCHANGED vars
  BY <1>1, <1>4 DEF RecoverMark, RecoverKill, CloseStop, CloseCancel, CloseReturn, CancelCurrent, Subscribe,
     VmExits, ClientExits, vars, CancelFlags
<1>5. CASE Answer
  BY <1>5, RunnerAssumption DEF Answer
<1>6. CASE Top \/ Take \/ Sleep \/ Run
  BY <1>6 DEF Top, Take, Sleep, Run
<1>7. CASE Launch \/ AwaitReady \/ Send \/ StreamEvent
  BY <1>7 DEF Launch, AwaitReady, Send, StreamEvent
<1>8. CASE TakeSignal \/ PermissionRequest \/ Kill \/ Audit
  BY <1>8 DEF TakeSignal, PermissionRequest, Kill, Audit
<1>9. CASE Wait \/ Verdict
  BY <1>9 DEF Wait, Verdict, CancelWord
<1>10. CASE Park
  BY <1>10 DEF Park, ParkFlag, Slot
<1>11. CASE AnswerPending
  <2>1. CASE pending = 0
    BY <1>11, <2>1 DEF AnswerPending, Slot
  <2>2. CASE pending # 0
    BY <1>11, <2>2 DEF AnswerPending
  <2>. QED  BY <2>1, <2>2
<1>12. CASE Edge \/ Release \/ Return
  BY <1>1, <1>12 DEF Edge, Release, Return
<1>13. CASE WriteGoal \/ CloseStreams
  BY <1>1, <1>13 DEF WriteGoal, CloseStreams, Owned, OwnType
<1>14. CASE Botch
  BY <1>14 DEF Botch, Owned, OwnType
<1>. QED
  BY <1>2, <1>3, <1>4, <1>5, <1>6, <1>7, <1>8, <1>9, <1>10, <1>11, <1>12, <1>13, <1>14 DEF Next, Worker

\* A step that makes no current task's record wait, and leaves the request and its
\* answer alone.
LeavesWaiting ==
  /\ UNCHANGED <<at, goal, then, pending, current, answer>> /\ flags \subseteq flags'
  /\ faults' \in {faults, faults + 1}
  /\ current # None /\ rec'[current] = "awaiting_approval" => rec[current] = "awaiting_approval"

LEMMA LeavesWaitingStep ==
  ASSUME ServiceType, Waiting, LeavesWaiting
  PROVE  Waiting'
  BY RunnerAssumption DEF ServiceType, Waiting, LeavesWaiting, Writing

LEMMA OthersLeaveWaiting ==
  ASSUME Owned, ServiceType
  PROVE  /\ \A h \in Handlers : Handle(h) => LeavesWaiting
         /\ RecoverMark => LeavesWaiting
         /\ \/ RecoverKill \/ CloseStop \/ CloseCancel \/ CloseReturn \/ CancelCurrent \/ Subscribe
            \/ VmExits \/ ClientExits \/ UNCHANGED vars
            => LeavesWaiting
<1>. USE DEF LeavesWaiting, service, shared, jobvars, history
<1>0. /\ rec \in [Tasks -> State \cup {Absent}] /\ current \in {job, None} /\ job \in Tasks \cup {None}
      /\ job # None => rec[job] # Absent
  BY DEF Owned, OwnType, WorkerOwns, ServiceType
<1>1. ASSUME NEW h \in Handlers, Submit(h) PROVE LeavesWaiting
  BY <1>0, <1>1 DEF Submit, Create
<1>2. ASSUME NEW h \in Handlers, DropWrite(h) PROVE LeavesWaiting
  <2>1. handler[h].task \in Tasks /\ handler[h].task # job
    BY <1>2 DEF DropWrite, Owned, HandlerOwns, Holding
  <2>. QED  BY <1>0, <1>2, <2>1 DEF DropWrite, Write, Fault, NoFault
<1>3. ASSUME NEW h \in Handlers, Handle(h) PROVE LeavesWaiting
  BY <1>1, <1>2, <1>3 DEF Handle, Enqueue, Wake, CancelQueued, Drop, DropClose
<1>4. ASSUME RecoverMark PROVE LeavesWaiting
  <2>1. current = None
    BY <1>0, <1>4 DEF RecoverMark, Owned, RecoverOwns
  <2>. QED  BY <1>4, <2>1 DEF RecoverMark, Fault, NoFault
<1>5. ASSUME RecoverKill \/ CloseStop \/ CloseCancel \/ CloseReturn \/ CancelCurrent \/ Subscribe
             \/ VmExits \/ ClientExits \/ UNCHANGED vars
      PROVE  LeavesWaiting
  BY <1>5 DEF RecoverKill, CloseStop, CloseCancel, CloseReturn, CancelCurrent, Subscribe,
     VmExits, ClientExits, vars, CancelFlags, Fault, NoFault
<1>. QED  BY <1>3, <1>4, <1>5

LEMMA WaitingStep ==
  ASSUME Owned, ServiceType, Slot, Errand, Waiting, [Next]_vars
  PROVE  Waiting'
<1>. USE DEF Waiting, Writing, service, shared, jobvars, history
<1>0. /\ rec \in [Tasks -> State \cup {Absent}] /\ current \in {job, None} /\ job \in Tasks \cup {None}
      /\ faults \in Nat /\ then \in {"return", "send", "loop"}
  BY RunnerAssumption DEF Owned, OwnType, ServiceType
<1>1. CASE Restart
  BY <1>1 DEF Restart
<1>2. CASE Answer
  BY <1>2, RunnerAssumption DEF Answer
<1>3. CASE Top \/ Sleep \/ Run
  BY <1>0, <1>3, RunnerAssumption DEF Top, Sleep, Run, Owned, WorkerOwns, Idle
<1>4. CASE Take
  <2>1. CASE queue = <<>>
    BY <1>4, <2>1 DEF Take
  <2>2. CASE queue # <<>>
    <3>1. Head(queue) = queue[1] /\ 1 \in 1 .. Len(queue)
      BY <2>2, SMT DEF Owned, OwnType
    <3>2. rec[Head(queue)] = "queued"
      BY <3>1 DEF Owned, QueueOwns
    <3>3. current' = Head(queue) /\ rec' = rec
      BY <1>4, <2>2 DEF Take
    <3>. QED  BY <3>2, <3>3
  <2>. QED  BY <2>1, <2>2
<1>5. CASE Launch \/ AwaitReady
  BY <1>0, <1>5 DEF Launch, AwaitReady, Finish, Transit
<1>6. CASE Send
  BY <1>0, <1>6 DEF Send, Finish, Transit, Fault, NoFault
<1>7. CASE TakeSignal \/ Kill \/ Audit
  BY <1>0, <1>7 DEF TakeSignal, Kill, Audit, Fault, NoFault
<1>8. CASE Wait \/ Verdict \/ StreamEvent
  BY <1>0, <1>8 DEF Wait, Verdict, StreamEvent, Finish, Transit, CancelWord
<1>9. CASE PermissionRequest
  <2>1. UNCHANGED <<rec, current, flags, answer, faults>> /\ at = "loop"
    BY <1>9 DEF PermissionRequest
  <2>2. pending = 0 \/ UNCHANGED <<at, pending>>
    BY <1>9, DecisionSpares DEF PermissionRequest
  <2>. QED  BY <2>1, <2>2
<1>10. CASE Park
  BY <1>10 DEF Park, Transit
<1>11. CASE AnswerPending
  <2>1. pending # 0
    BY <1>11 DEF AnswerPending, Slot
  <2>2. UNCHANGED <<rec, current, faults>> /\ pending' = 0 /\ at' = "edge" /\ goal' = "running" /\ then' = "loop"
    BY <1>11, <2>1 DEF AnswerPending, Transit
  <2>. QED  BY <2>2
<1>12. CASE Edge
  <2>1. UNCHANGED <<rec, current, flags, answer, faults, pending, goal, then>> /\ at = "edge"
        /\ at' = IF CanTransition(rec[job], goal) THEN "write" ELSE "botch"
    BY <1>12 DEF Edge
  <2>2. \A g \in {"running", "failed"} : CanTransition("awaiting_approval", g)
    BY DEF CanTransition, Edges
  <2>. QED  BY <1>0, <2>1, <2>2 DEF Errand
<1>13. CASE WriteGoal
  <2>1. UNCHANGED <<current, flags, answer, pending, goal, then, job>> /\ at = "write" /\ job \in Tasks
    BY <1>13 DEF WriteGoal, Owned, OwnType, WorkerOwns, Idle
  <2>2. CASE Fault /\ at' = "botch" /\ rec' = rec
    BY <1>0, <2>1, <2>2 DEF Fault
  <2>3. CASE Write(job, goal) /\ at' = (IF goal \in Terminal THEN "release" ELSE then)
    <3>1. rec'[job] = goal
      BY <1>0, <2>1, <2>3 DEF Write
    <3>2. SUFFICES ASSUME current # None, goal = "awaiting_approval" PROVE Waiting'
      BY <1>0, <2>1, <3>1
    <3>. QED  BY <2>1, <2>3, <3>2 DEF Errand, Terminal
  <2>. QED  BY <1>13, <2>2, <2>3 DEF WriteGoal
<1>14. CASE Botch
  <2>1. UNCHANGED <<rec, current, flags, answer, faults, pending, then>> /\ at = "botch"
    BY <1>14 DEF Botch
  <2>2. CASE goal # "failed"
    <3>1. goal' = "failed" /\ at' = "edge"
      BY <1>14, <2>2 DEF Botch
    <3>. QED  BY <2>1, <3>1
  <2>3. CASE goal = "failed"
    <3>1. goal' = goal /\ at' = then
      BY <1>14, <2>3 DEF Botch
    <3>. QED  BY <1>0, <2>1, <2>3, <3>1
  <2>. QED  BY <2>2, <2>3
<1>15. CASE Release \/ Return
  BY <1>15 DEF Release, Return
<1>16. CASE CloseStreams
  BY <1>0, <1>16 DEF CloseStreams
<1>. QED
  BY <1>1, <1>2, <1>3, <1>4, <1>5, <1>6, <1>7, <1>8, <1>9, <1>10, <1>11, <1>12, <1>13, <1>14, <1>15, <1>16,
     OthersLeaveWaiting, LeavesWaitingStep
  DEF Next, Worker

LEMMA WaitingHolds == Spec => [](Errand /\ Waiting /\ Followed)
<1>1. Init => Errand /\ Waiting /\ Followed
  BY DEF Init, Errand, Waiting, Writing, Followed, NoStrandedViewer
<1>2. Answered => Slot
  BY DEF Answered
<1>3. Owned /\ ServiceType /\ Slot /\ Errand /\ Waiting /\ Followed /\ [Next]_vars
        => (Errand /\ Waiting /\ Followed)'
  BY ErrandStep, WaitingStep, FollowedStep
<1>. QED  BY <1>1, <1>2, <1>3, OwnedHolds, TypesHold, AnsweredHolds, PTL DEF Spec

\* worker.go:274, taskrun.go:372: an operator who reads that a task awaits approval
\* can answer it, or has, unless two writes of the store have failed; and a stream whose
\* task is finished is being closed, whatever has failed.
THEOREM NobodyWaitsInVain ==
  Spec => []NoStrandedViewer /\ [](faults <= 1 => NobodyIsLeftWaiting)
<1>1. Waiting /\ Followed => NoStrandedViewer /\ (faults <= 1 => NobodyIsLeftWaiting)
  BY DEF Waiting, Followed, NobodyIsLeftWaiting, AwaitingIsAnswerable
<1>. QED  BY <1>1, WaitingHolds, PTL
=============================================================================

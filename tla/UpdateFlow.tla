------------------------------ MODULE UpdateFlow ------------------------------
(***************************************************************************)
(* villa update: the check, which reads the pin store, fetches a manifest  *)
(* and saves the store without the stack lock; and the apply, which under  *)
(* that lock takes each subsystem through                                  *)
(*                                                                         *)
(*   prove, capture, pull, [stop, snapshot,] mutate, [start,] prove, commit *)
(*                                                                         *)
(* and otherwise rolls it back and halts.  A stateful subsystem's image    *)
(* migrates its data volume when it starts, and an older image cannot read *)
(* it afterwards.                                                          *)
(*                                                                         *)
(* One transaction is open at a time, by the lock, so its state (tx) is    *)
(* one record.  A unit is the image it names.                              *)
(***************************************************************************)
EXTENDS PinStore

CONSTANTS
  Runs,         \* invocations of villa update
  Order,        \* the place of each in apply order
  Stateful,     \* the ones that own a data volume
  Core,         \* the inference subsystem
  Nobody, Down,
  Lost,         \* what a failed import leaves in a volume
  MaxFaults     \* bound on the calls that fail and the runs that die

ASSUME UpdateAssumption ==
  /\ Stateful \subseteq Kinds /\ Core \in Kinds
  /\ Order \in [Kinds -> Nat] /\ \A j, k \in Kinds : Order[j] = Order[k] => j = k
  /\ Down \notin Nat /\ Lost \notin Nat /\ Nobody \notin Runs
  /\ NoTuple \notin Kinds \X Nat /\ NoTuple \notin [ref : Nat, snap : (Kinds \X Nat) \cup {NoTuple}]
  /\ MaxFaults \in Nat

VARIABLES
  villa,        \* the installed release
  published,    \* the newest manifest
  store,        \* pin-state.json
  unit,         \* the image of each unit on disk
  running,      \* the image of each service
  data,         \* the schema of each volume: the newest image it has run under
  images,       \* the image store
  snaps,        \* the snapshot files, and the schema each holds
  exports,      \* how many were taken, for their paths
  lock,
  at,           \* where each run is
  seen, got,    \* the store it loaded and the serial it fetched
  todo,         \* the subsystems still to update, under the lock
  tx,           \* the current subsystem's transaction
  result,       \* what the run says of each subsystem
  displaced,    \* the captured pins and the prior snapshots of what was committed
  faults,
  \* histories
  before,       \* the stack when the lock was taken
  proven,       \* the images of each subsystem that passed a proof
  taint         \* what the run's own steps do not answer for

host  == <<villa, published>>
stack == <<unit, running, data>>
disk  == <<images, snaps, exports>>
run   == <<todo, tx, result, displaced>>
history == <<before, proven>>
vars == <<host, store, stack, disk, lock, at, seen, got, run, faults, history, taint>>

\* Nothing is captured, touched or left to restart.
NoTx == [ref |-> Unpinned, units |-> <<>>, prior |-> NoTuple, snap |-> NoTuple, touched |-> {}, left |-> {}]
NoneDisplaced == [refs |-> {}, snaps |-> {}]
This == CHOOSE k \in todo : \A j \in todo : Order[k] <= Order[j]
Target == Table[got[lock]][This]

Init ==
  /\ villa = 1 /\ published = 1
  /\ store = Fresh
  /\ unit = Table[1] /\ running = Table[1] /\ data = [k \in Stateful |-> Table[1][k]]
  /\ images = {Table[1][k] : k \in Kinds} /\ snaps = [s \in {} |-> 0] /\ exports = 0
  /\ lock = Nobody
  /\ at = [r \in Runs |-> "load"] /\ seen = [r \in Runs |-> Fresh] /\ got = [r \in Runs |-> 1]
  /\ todo = {} /\ tx = NoTx /\ result = [k \in Kinds |-> "not_tried"] /\ displaced = NoneDisplaced
  /\ faults = 0
  /\ before = [unit |-> unit, running |-> running, data |-> data]
  /\ proven = [k \in Kinds |-> {Table[1][k]}]
  /\ taint = {}

Fault   == faults < MaxFaults /\ faults' = faults + 1
NoFault == faults' = faults
Go(place) == at' = [at EXCEPT ![lock] = place]
InTx(place) == lock # Nobody /\ at[lock] = place

----------------------------------------------------------------------------
(* The world: a new release installed, between runs, or a manifest published *)

Upgrade ==
  /\ \A r \in Runs : at[r] \in {"load", "done"}
  /\ villa < published /\ villa' \in villa + 1 .. published
  /\ taint' = taint \cup {"upgraded"}
  /\ UNCHANGED <<published, store, stack, disk, lock, at, seen, got, run, faults, history>>

Publish ==
  /\ published < MaxSerial /\ published' = published + 1
  /\ UNCHANGED <<villa, store, stack, disk, lock, at, seen, got, run, faults, history, taint>>

----------------------------------------------------------------------------
(* The check, without the lock                                              *)

Load(r) ==
  /\ at[r] = "load"
  /\ \/ seen' = [seen EXCEPT ![r] = store] /\ NoFault
     \/ seen' = [seen EXCEPT ![r] = Fresh] /\ Fault      \* unreadable reads as fresh
  /\ at' = [at EXCEPT ![r] = "fetch"]
  /\ UNCHANGED <<host, store, stack, disk, lock, got, run, history, taint>>

\* The run ends without the lock.
Leave(r) == at' = [at EXCEPT ![r] = "done"] /\ seen' = [seen EXCEPT ![r] = Fresh] /\ got' = [got EXCEPT ![r] = 1]

\* A manifest below the floor, or no manifest, is a could-not-check.
Fetch(r) ==
  /\ at[r] = "fetch"
  /\ \/ \E n \in 1 .. published :
          /\ n >= SerialFloor(seen[r], villa)
          /\ got' = [got EXCEPT ![r] = n] /\ at' = [at EXCEPT ![r] = "save"] /\ UNCHANGED seen
     \/ Leave(r)
  /\ UNCHANGED <<host, store, stack, disk, lock, run, faults, history, taint>>

\* The whole document is written back as it was loaded before the fetch.
Save(r) ==
  /\ at[r] = "save"
  /\ \/ store' = Accept(seen[r], got[r]) /\ NoFault
        /\ taint' = taint \cup IF seen[r] = store THEN {} ELSE {"clobbered"}
     \/ Fault /\ UNCHANGED <<store, taint>>
  /\ at' = [at EXCEPT ![r] = "decide"]
  /\ UNCHANGED <<host, stack, disk, lock, seen, got, run, history>>

\* --check and --dry-run end here, and an apply with nothing offered or with the
\* inference service down.
Decide(r) ==
  /\ at[r] = "decide"
  /\ \/ Leave(r)
     \/ /\ Offered(seen[r], villa, got[r]) # {} /\ running[Core] # Down
        /\ at' = [at EXCEPT ![r] = "want"] /\ UNCHANGED <<seen, got>>
  /\ UNCHANGED <<host, store, stack, disk, lock, run, faults, history, taint>>

\* The targets are those of the report, made before the lock was waited for.
Acquire(r) ==
  /\ at[r] = "want" /\ lock = Nobody
  /\ lock' = r /\ at' = [at EXCEPT ![r] = "prove"]
  /\ todo' \in (SUBSET Offered(seen[r], villa, got[r])) \ {{}}
  /\ tx' = NoTx /\ seen' = [seen EXCEPT ![r] = Fresh]
  /\ before' = [unit |-> unit, running |-> running, data |-> data]
  /\ UNCHANGED <<host, store, stack, disk, got, result, displaced, faults, proven, taint>>

----------------------------------------------------------------------------
(* One subsystem                                                            *)

\* The snapshot was taken; these services are left to restart.
Exported(path) == [tx EXCEPT !.snap = path]
Leaving(services) == [tx EXCEPT !.left = services]

\* A service starts the image of its unit, fetched if need be.  The image migrates
\* the data of an older one and leaves the data of a newer one alone.
StartFrom(units, services, down, volumes) ==
  /\ running' = [k \in Kinds |-> IF k \in services THEN units[k] ELSE down[k]]
  /\ data' = [k \in Stateful |-> IF k \in services /\ volumes[k] # Lost
                                 THEN Max({volumes[k], units[k]}) ELSE volumes[k]]
  /\ images' = images \cup {units[k] : k \in services}
Start(services) == StartFrom(unit, services, running, data)
ReadsItsData(k) == data[k] # Lost /\ data[k] <= running[k]
Healthy(k) == running[k] # Down /\ (k \in Stateful => ReadsItsData(k))

\* The outcome of the current subsystem; anything but a commit halts the run.
Concludes(word) ==
  /\ result' = [result EXCEPT ![This] = word]
  /\ Go("finish")
  /\ UNCHANGED todo

\* A healthy subsystem can still fail to be proven, within its budget or at all; one
\* that is not never passes.
ProveCurrent ==
  /\ InTx("prove")
  /\ \/ Healthy(This) /\ Go("capture") /\ UNCHANGED <<todo, result>>
        /\ proven' = [proven EXCEPT ![This] = @ \cup {running[This]}]
     \/ Concludes("refused") /\ UNCHANGED proven
  /\ UNCHANGED <<host, store, stack, disk, lock, seen, got, tx, displaced, faults, before, taint>>

\* The rollback tuple: the pin as it resolves now, every unit on disk, and the
\* snapshot the retained previous names.  An unreadable store reads as fresh.
CaptureOf(st) ==
  [ref |-> Resolve(st, villa, This), units |-> unit,
   prior |-> IF st.prev[This] = NoTuple THEN NoTuple ELSE st.prev[This].snap,
   snap |-> NoTuple, touched |-> {}, left |-> {}]
Capture ==
  /\ InTx("capture")
  /\ \/ tx' = CaptureOf(store) /\ Go("pull") /\ NoFault /\ UNCHANGED <<todo, result, taint>>
     \/ tx' = CaptureOf(Fresh) /\ Go("pull") /\ Fault /\ UNCHANGED <<todo, result>>
        /\ taint' = taint \cup {"misread"}
     \/ Concludes("refused") /\ Fault /\ UNCHANGED <<tx, taint>>
  /\ UNCHANGED <<host, store, stack, disk, lock, seen, got, displaced, history>>

OwnsNothing(k) == FALSE                   \* mutant: no stopped window
OwnsPersistentState(k) == k \in Stateful
Pull ==
  /\ InTx("pull")
  /\ \/ images' = images \cup {Target} /\ NoFault /\ UNCHANGED <<todo, result>>
        /\ Go(IF OwnsPersistentState(This) THEN "stop" ELSE "mutate")
     \/ Concludes("refused") /\ Fault /\ UNCHANGED images
  /\ UNCHANGED <<host, store, stack, snaps, exports, lock, seen, got, tx, displaced, history, taint>>

\* The stopped window opens; a failure in it starts the services again.
Stop ==
  /\ InTx("stop")
  /\ \/ running' = [running EXCEPT ![This] = Down] /\ Go("snapshot") /\ NoFault
     \/ running' \in {running, [running EXCEPT ![This] = Down]} /\ Go("reopen") /\ Fault
  /\ UNCHANGED <<host, store, unit, data, disk, lock, seen, got, run, history, taint>>

\* A path of its own for every capture.
StablePath(k) == <<k, 0>>                  \* mutant: one path for each subsystem
SnapshotPath(k) == <<k, exports + 1>>
Snapshot ==
  /\ InTx("snapshot")
  /\ \/ LET path == SnapshotPath(This) IN
          /\ snaps' = [s \in DOMAIN snaps \cup {path} |-> IF s = path THEN data[This] ELSE snaps[s]]
          /\ tx' = Exported(path) /\ exports' = exports + 1
          /\ Go("mutate") /\ NoFault
     \/ Go("reopen") /\ Fault /\ UNCHANGED <<snaps, exports, tx>>
  /\ UNCHANGED <<host, store, stack, images, lock, seen, got, todo, result, displaced, history, taint>>

Reopen ==
  /\ InTx("reopen")
  /\ \/ (IF running[This] = Down THEN Start({This}) ELSE UNCHANGED <<running, data, images>>)
        /\ Concludes("refused") /\ NoFault
     \/ Concludes("incomplete") /\ Fault /\ UNCHANGED <<running, data, images>>
  /\ UNCHANGED <<host, store, unit, snaps, exports, lock, seen, got, tx, displaced, history, taint>>

\* Mutate writes the pin, then applies the config to every unit, then restarts the
\* subsystem's service and every running service whose unit changed.
WritePins ==
  /\ InTx("mutate")
  /\ \/ store' = Record(store, This, Target) /\ Go("apply") /\ NoFault
     \/ Go("rollback") /\ Fault /\ UNCHANGED store
  /\ UNCHANGED <<host, stack, disk, lock, seen, got, run, history, taint>>

Rendered == [k \in Kinds |-> Resolve(store, villa, k)]
Changed == {k \in Kinds : Rendered[k] # unit[k]}
Apply ==
  /\ InTx("apply")
  /\ \/ /\ unit' = Rendered /\ NoFault /\ Go("restart")
        /\ tx' = Leaving({This} \cup {k \in Changed : running[k] # Down})
     \/ /\ \E written \in SUBSET Changed : unit' = [k \in Kinds |-> IF k \in written THEN Rendered[k] ELSE unit[k]]
        /\ Fault /\ Go("rollback") /\ UNCHANGED tx
  /\ UNCHANGED <<host, store, running, data, disk, lock, seen, got, todo, result, displaced, history, taint>>

\* Each is noted before it is tried, for the rollback.
NotNoted(k) == tx.touched                     \* mutant: it is noted nowhere
Noted(k) == tx.touched \cup {k}
Trying(k) == [tx EXCEPT !.left = @ \ {k}, !.touched = Noted(k)]
Restart ==
  /\ InTx("restart")
  /\ \/ \E k \in tx.left :
          /\ tx' = Trying(k)
          /\ \/ Start({k}) /\ NoFault /\ UNCHANGED at
             \/ running' \in {running, [running EXCEPT ![k] = Down]} /\ Fault /\ Go("rollback")
                /\ UNCHANGED <<data, images>>
     \/ /\ tx.left = {} /\ Go(IF OwnsPersistentState(This) THEN "start" ELSE "prove_new")
        /\ NoFault /\ UNCHANGED <<running, data, images, tx>>
  /\ UNCHANGED <<host, store, unit, snaps, exports, lock, seen, got, todo, result, displaced, history, taint>>

\* The window closes; it is open no more if the restart started the service.
StartDown(k) == IF running[k] = Down THEN Start({k}) ELSE UNCHANGED <<running, data, images>>
StartNew ==
  /\ InTx("start")
  /\ \/ StartDown(This) /\ Go("prove_new") /\ NoFault
     \/ Go("rollback") /\ Fault /\ UNCHANGED <<running, data, images>>
  /\ UNCHANGED <<host, store, unit, snaps, exports, lock, seen, got, run, history, taint>>

ProveNew ==
  /\ InTx("prove_new")
  /\ \/ Healthy(This) /\ Go("commit") /\ proven' = [proven EXCEPT ![This] = @ \cup {running[This]}]
     \/ Go("rollback") /\ UNCHANGED proven
  /\ UNCHANGED <<host, store, stack, disk, lock, seen, got, run, faults, before, taint>>

\* The captured tuple becomes the retained previous.  A commit that cannot be recorded
\* is still a commit, and has displaced nothing.
Commit ==
  /\ InTx("commit")
  /\ \/ /\ store' = Retain(Record(store, This, Target), This, [ref |-> tx.ref, snap |-> tx.snap])
        /\ result' = [result EXCEPT ![This] = "committed"]
        /\ displaced' = [refs |-> displaced.refs \cup {tx.ref},
                         snaps |-> displaced.snaps \cup ({tx.prior} \ {NoTuple})]
        /\ NoFault
     \/ /\ result' = [result EXCEPT ![This] = "unrecorded"]
        /\ Fault /\ UNCHANGED <<store, displaced>>
  /\ todo' = todo \ {This} /\ tx' = NoTx
  /\ Go(IF todo = {This} THEN "finish" ELSE "prove")
  /\ UNCHANGED <<host, stack, disk, lock, seen, got, history, taint>>

----------------------------------------------------------------------------
(* Rollback: stop, restore the data, the pin, the units and the services,   *)
(* start, and prove again                                                   *)

\* A step that fails after the data was restored starts the service on the way out.
Abandon ==
  IF tx.snap = NoTuple THEN Concludes("incomplete") ELSE Go("abandon") /\ UNCHANGED <<todo, result>>

RbStop ==
  /\ InTx("rollback")
  /\ IF tx.snap = NoTuple THEN Go("rb_pins") /\ NoFault /\ UNCHANGED <<todo, result, running>>
     ELSE \/ running' = [running EXCEPT ![This] = Down] /\ Go("rb_data") /\ NoFault
             /\ UNCHANGED <<todo, result>>
          \/ running' \in {running, [running EXCEPT ![This] = Down]} /\ Fault /\ Concludes("incomplete")
  /\ UNCHANGED <<host, store, unit, data, disk, lock, seen, got, tx, displaced, history, taint>>

RbData ==
  /\ InTx("rb_data")
  /\ \/ data' = [data EXCEPT ![This] = snaps[tx.snap]] /\ Go("rb_pins") /\ NoFault
     \/ data' \in {data, [data EXCEPT ![This] = Lost]} /\ Go("abandon") /\ Fault
  /\ UNCHANGED <<host, store, unit, running, disk, lock, seen, got, run, history, taint>>

PinKept(st) == st                            \* mutant: the new pin stays recorded
PinBack(st) == Record(st, This, tx.ref)
RbPins ==
  /\ InTx("rb_pins")
  /\ \/ store' = PinBack(store) /\ Go("rb_units") /\ NoFault /\ UNCHANGED <<todo, result>>
     \/ Fault /\ Abandon /\ UNCHANGED store
  /\ UNCHANGED <<host, stack, disk, lock, seen, got, tx, displaced, history, taint>>

RbUnits ==
  /\ InTx("rb_units")
  /\ \/ /\ unit' = tx.units /\ tx' = Leaving(tx.touched)
        /\ Go("rb_restart") /\ NoFault /\ UNCHANGED <<todo, result>>
     \/ /\ \E written \in SUBSET Kinds : unit' = [k \in Kinds |-> IF k \in written THEN tx.units[k] ELSE unit[k]]
        /\ Fault /\ Abandon /\ UNCHANGED tx
  /\ UNCHANGED <<host, store, running, data, disk, lock, seen, got, displaced, history, taint>>

RbRestart ==
  /\ InTx("rb_restart")
  /\ \/ \E k \in tx.left :
          /\ tx' = Leaving(tx.left \ {k})
          /\ \/ Start({k}) /\ NoFault /\ UNCHANGED <<at, todo, result>>
             \/ running' \in {running, [running EXCEPT ![k] = Down]} /\ Fault /\ Abandon
                /\ UNCHANGED <<data, images>>
     \/ /\ tx.left = {} /\ Go("rb_start") /\ NoFault
        /\ UNCHANGED <<running, data, images, tx, todo, result>>
  /\ UNCHANGED <<host, store, unit, snaps, exports, lock, seen, got, displaced, history, taint>>

RbStart ==
  /\ InTx("rb_start")
  /\ \/ (IF tx.snap = NoTuple THEN UNCHANGED <<running, data, images>> ELSE StartDown(This))
        /\ Go("rb_prove") /\ NoFault /\ UNCHANGED <<todo, result>>
     \/ tx.snap # NoTuple /\ Fault /\ Concludes("incomplete") /\ UNCHANGED <<running, data, images>>
  /\ UNCHANGED <<host, store, unit, snaps, exports, lock, seen, got, tx, displaced, history, taint>>

RbProve ==
  /\ InTx("rb_prove")
  /\ \/ Healthy(This) /\ Concludes("rolled_back")
     \/ Concludes("incomplete")
  /\ UNCHANGED <<host, store, stack, disk, lock, seen, got, tx, displaced, faults, history, taint>>

RbAbandon ==
  /\ InTx("abandon")
  /\ \/ StartDown(This) /\ NoFault
     \/ Fault /\ UNCHANGED <<running, data, images>>
  /\ Concludes("incomplete")
  /\ UNCHANGED <<host, store, unit, snaps, exports, lock, seen, got, tx, displaced, history, taint>>

----------------------------------------------------------------------------
(* The end of the run                                                       *)

\* An interrupted run reclaims nothing.
Finish ==
  /\ InTx("finish")
  /\ Go("prune") \/ Go("release")
  /\ UNCHANGED <<host, store, stack, disk, lock, seen, got, run, faults, history, taint>>

\* The captured pins of what was committed are superseded; a store that names nothing
\* is not known, and podman removes no image that a container runs.
Prune ==
  /\ InTx("prune") /\ Go("cleanup")
  /\ \/ /\ Referenced(store) # {} /\ NoFault
        /\ images' = images \ (displaced.refs \ (Referenced(store) \cup {running[k] : k \in Kinds}))
     \/ Referenced(store) = {} /\ NoFault /\ UNCHANGED images
     \/ Fault /\ UNCHANGED images
  /\ UNCHANGED <<host, store, stack, snaps, exports, lock, seen, got, run, history, taint>>

UnnamedSnapshots == DOMAIN snaps \ LiveTargets(store)     \* mutant: whatever the store does not name
Reclaimed == displaced.snaps \ LiveTargets(store)
SnapshotCleanup ==
  /\ InTx("cleanup") /\ Go("release")
  /\ \/ snaps' = [s \in DOMAIN snaps \ Reclaimed |-> snaps[s]] /\ NoFault
     \/ Fault /\ UNCHANGED snaps
  /\ UNCHANGED <<host, store, stack, images, exports, lock, seen, got, run, history, taint>>

\* Nothing of the run is left but what is on disk and running.
End(why) ==
  /\ lock' = Nobody /\ Go("done") /\ got' = [got EXCEPT ![lock] = 1]
  /\ todo' = {} /\ tx' = NoTx /\ displaced' = NoneDisplaced /\ result' = [k \in Kinds |-> "not_tried"]
  /\ before' = [unit |-> unit, running |-> running, data |-> data']
  /\ taint' = taint \cup why
  /\ UNCHANGED <<host, store, unit, running, disk, seen, proven>>

Release ==
  /\ InTx("release")
  /\ UNCHANGED <<data, faults>>
  /\ End({"incomplete" : k \in {j \in Kinds : result[j] = "incomplete"}})

\* The run dies; the kernel drops its lock.  A volume whose import it was in the
\* middle of is lost.
Crash ==
  /\ lock # Nobody /\ at[lock] # "release" /\ Fault
  /\ data' \in {data} \cup IF at[lock] = "rb_data" THEN {[data EXCEPT ![This] = Lost]} ELSE {}
  /\ End({"crashed"})

----------------------------------------------------------------------------
Check(r) == Load(r) \/ Fetch(r) \/ Save(r) \/ Decide(r) \/ Acquire(r)
Forward == ProveCurrent \/ Capture \/ Pull \/ Stop \/ Snapshot \/ Reopen \/ WritePins \/ Apply \/ Restart
           \/ StartNew \/ ProveNew \/ Commit
Rollback == RbStop \/ RbData \/ RbPins \/ RbUnits \/ RbRestart \/ RbStart \/ RbProve \/ RbAbandon
Ending == Finish \/ Prune \/ SnapshotCleanup \/ Release

Next == Upgrade \/ Publish \/ Crash \/ Forward \/ Rollback \/ Ending \/ \E r \in Runs : Check(r)

Spec == Init /\ [][Next]_vars

----------------------------------------------------------------------------
(* Properties                                                               *)

Places == {"load", "fetch", "save", "decide", "want", "prove", "capture", "pull", "stop", "snapshot",
           "reopen", "mutate", "apply", "restart", "start", "prove_new", "commit", "rollback", "rb_data",
           "rb_pins", "rb_units", "rb_restart", "rb_start", "rb_prove", "abandon", "finish", "prune",
           "cleanup", "release", "done"}
Words == {"not_tried", "committed", "unrecorded", "refused", "rolled_back", "incomplete"}
Snapshots == Stateful \X (1 .. exports)
Stores ==
  [pins : [Kinds -> Image \cup {Unpinned}],
   prev : [Kinds -> [ref : Image, snap : Snapshots \cup {NoTuple}] \cup {NoTuple}],
   serial : 0 .. MaxSerial]
Tuples ==
  [ref : Image \cup {Unpinned}, units : [Kinds -> Image] \cup {<<>>}, prior : Snapshots \cup {NoTuple},
   snap : Snapshots \cup {NoTuple}, touched : SUBSET Kinds, left : SUBSET Kinds]

HostType  == villa \in 1 .. MaxSerial /\ published \in villa .. MaxSerial
StoreType == store \in Stores /\ seen \in [Runs -> Stores] /\ got \in [Runs -> 1 .. MaxSerial]
StackType ==
  /\ unit \in [Kinds -> Image] /\ running \in [Kinds -> Image \cup {Down}]
  /\ data \in [Stateful -> Image \cup {Lost}]
DiskType ==
  /\ images \subseteq Image /\ exports \in Nat
  /\ DOMAIN snaps \subseteq Snapshots /\ \A s \in DOMAIN snaps : snaps[s] \in Image
RunType ==
  /\ lock \in Runs \cup {Nobody} /\ at \in [Runs -> Places]
  /\ todo \subseteq Kinds /\ result \in [Kinds -> Words] /\ faults \in 0 .. MaxFaults
  /\ displaced \in [refs : SUBSET Image, snaps : SUBSET Snapshots]
TxType == tx \in Tuples /\ tx.snap \in DOMAIN snaps \cup {NoTuple}

TypeOK == HostType /\ StoreType /\ StackType /\ DiskType /\ RunType /\ TxType

\* pinstate/store.go: the retained previous is a state the subsystem can be rolled
\* back to.  Its image and its snapshot are there whatever failed, was misread or died
\* since, unless a stale document replaced the record or a new release the pins; and
\* the image reads that data, which a run that dies leaves so, but for a second fault.
RollbackTargetRestorable ==
  taint \cap {"clobbered", "upgraded"} = {} =>
    \A k \in {j \in Kinds : store.prev[j] # NoTuple} :
      /\ store.prev[k].ref \in images
      /\ k \in Stateful => store.prev[k].snap \in DOMAIN snaps
      /\ k \in Stateful /\ (taint = {} \/ (taint = {"crashed"} /\ faults = 1)) =>
           snaps[store.prev[k].snap] <= store.prev[k].ref

\* The three records of what a subsystem runs agree whenever no update is under way.
WhatIsRecordedRuns ==
  lock = Nobody /\ taint = {} =>
    \A k \in Kinds : running[k] = unit[k] /\ unit[k] = Resolve(store, villa, k)

\* pinstate/store.go: a pin is recorded for a proven image only.
PinsAreProven ==
  lock = Nobody /\ taint = {} => \A k \in Kinds : store.pins[k] \in proven[k] \cup {Unpinned}

\* printHaltSummary, printSnapshotRefusal: what the run says of each subsystem is so,
\* whatever was done to the others since.
AsBefore(k) == running[k] = before.running[k] /\ unit[k] = before.unit[k]
               /\ (k \in Stateful => data[k] = before.data[k])
OutcomeIsHonest ==
  InTx("finish") /\ taint = {} =>
    \A k \in Kinds :
      /\ result[k] \in {"not_tried", "refused", "rolled_back"} => AsBefore(k)
      /\ result[k] \in {"committed", "unrecorded"} => running[k] = Table[got[lock]][k] /\ unit[k] = running[k]

\* Between updates the pin store describes a stack that was proven and that runs,
\* the way back it names can be taken, and what a run says of a subsystem is so.
ReportsAreTrue == WhatIsRecordedRuns /\ PinsAreProven /\ RollbackTargetRestorable /\ OutcomeIsHonest

\* A service that is up between updates can read its data.
DataReadable ==
  lock = Nobody /\ taint = {} => \A k \in Stateful : running[k] # Down => ReadsItsData(k)

\* printHaltSummary: when an import fails, the snapshot is still on disk.
LostDataHasACopy ==
  \A k \in Stateful : data[k] = Lost => \E s \in DOMAIN snaps : s[1] = k

\* Data is migrated only by its own subsystem's update, which holds a copy of it.
Migrates(k) == data[k] # Lost /\ data'[k] # Lost /\ data'[k] > data[k]
Snapshotted(k) == lock # Nobody /\ todo # {} /\ This = k /\ tx.snap # NoTuple /\ snaps[tx.snap] = data[k]
MigratesWithSnapshot == taint = {} => \A k \in Stateful : Migrates(k) => Snapshotted(k)

\* No update costs the operator data: what runs can read it, or a copy of it is
\* left; and an update takes that copy before it migrates anything.
DataIsThere == DataReadable /\ LostDataHasACopy
DataSurvives == DataIsThere /\ [][DataIsThere' /\ MigratesWithSnapshot]_vars

=============================================================================

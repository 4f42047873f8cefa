-------------------------- MODULE UpdateFlowProofs --------------------------
(***************************************************************************)
(* Theorems about UpdateFlow, for every set of subsystems, table of        *)
(* releases, set of runs and bound on faults.                              *)
(*                                                                         *)
(* The invariant Safe has four layers.  Sane holds whatever fails: types,  *)
(* one run past the lock, where the record of the update in flight stands, *)
(* and that data an import lost is in a snapshot.  Present holds until a   *)
(* stale save or an upgrade replaces what a record names.  Rested and      *)
(* Working hold while nothing has failed: subsystems at rest agree with    *)
(* their pins, and the one in hand stands where its place says.  Calmed    *)
(* and Bound hold through one death as well.                               *)
(***************************************************************************)
EXTENDS UpdateFlow, WellFoundedInduction, TLAPS

----------------------------------------------------------------------------
(* Operators of the model, and the parts of the invariant.                 *)

\* The subsystem under way is one of those still to update.
LEMMA ThisIsToDo ==
  ASSUME todo \subseteq Kinds, todo # {}
  PROVE  This \in todo
<1>. DEFINE R == {p \in Nat \X Nat : p[1] < p[2]}
            T == {Order[k] : k \in todo}
<1>1. IsWellFoundedOn(R, Nat)
  BY NatLessThanWellFounded DEF OpToRel
<1>2. T \subseteq Nat /\ T # {}
  BY UpdateAssumption, SMT
<1>3. PICK n \in T : \A m \in T : ~ (<<m, n>> \in R)
  <2>. HIDE DEF R, T
  <2>. QED  BY <1>1, <1>2, WFMin
<1>4. \A m \in T : n <= m
  <2>. SUFFICES ASSUME NEW m \in T PROVE n <= m
    OBVIOUS
  <2>1. m \in Nat /\ n \in Nat /\ ~ (<<m, n>> \in R)
    BY <1>2, <1>3
  <2>. HIDE DEF T
  <2>. QED  BY <2>1, SMT
<1>5. \E k \in todo : \A j \in todo : Order[k] <= Order[j]
  BY <1>3, <1>4
<1>. QED  BY <1>5 DEF This

\* The larger of two numbers, as CHOOSE finds it.
LEMMA MaxOfTwo ==
  ASSUME NEW a \in Nat, NEW b \in Nat
  PROVE  Max({a, b}) \in {a, b} /\ Max({a, b}) >= a /\ Max({a, b}) >= b
<1>1. \E x \in {a, b} : \A y \in {a, b} : x >= y
  BY SMT
<1>. QED  BY <1>1 DEF Max

\* Which subsystem is under way depends on those still to update only.
LEMMA SameThis ==
  ASSUME todo' = todo
  PROVE  This' = This
BY DEF This

\* What the images are: what some release of the manifest pins.
LEMMA ImageIs ==
  ASSUME NEW x
  PROVE  x \in Image <=> \E n \in 1 .. MaxSerial, k \in Kinds : x = Table[n][k]
BY DEF Image

\* Every image a release pins is a number of the table.
LEMMA TableType == \A n \in 1 .. MaxSerial, k \in Kinds : Table[n][k] \in Image /\ Table[n][k] \in Nat \ {0}
BY ImageIs, PinAssumption

\* Images are numbers.
LEMMA ImageType == Image \subseteq Nat \ {0}
BY ImageIs, TableType

\* The markers for "down", "lost" and "unpinned" are no images.
LEMMA NotAnImage == Down \notin Image /\ Lost \notin Image /\ Unpinned \notin Image
BY ImageType, PinAssumption, UpdateAssumption

\* The marker for "no snapshot" is no path.
LEMMA NotASnapshot == exports \in Nat => NoTuple \notin Snapshots
BY UpdateAssumption DEF Snapshots

\* What the store operations return and keep (pinstore.go).
LEMMA FreshIs == Fresh \in Stores /\ Fresh.pins = [k \in Kinds |-> Unpinned] /\ Fresh.prev = [k \in Kinds |-> NoTuple]
BY PinAssumption DEF Fresh, Stores

\* A commit records one pin and nothing else (pinstore.go).
LEMMA RecordIs ==
  ASSUME NEW st \in Stores, NEW k \in Kinds, NEW image \in Image
  PROVE  /\ Record(st, k, image) \in Stores
         /\ Record(st, k, image).pins = [st.pins EXCEPT ![k] = image]
         /\ Record(st, k, image).prev = st.prev /\ Record(st, k, image).serial = st.serial
BY DEF Record, Stores

\* Retaining a tuple changes one way back and nothing else.
LEMMA RetainIs ==
  ASSUME NEW st \in Stores, NEW k \in Kinds, NEW tuple \in [ref : Image, snap : Snapshots \cup {NoTuple}]
  PROVE  /\ Retain(st, k, tuple) \in Stores
         /\ Retain(st, k, tuple).prev = [st.prev EXCEPT ![k] = tuple]
         /\ Retain(st, k, tuple).pins = st.pins /\ Retain(st, k, tuple).serial = st.serial
BY DEF Retain, Stores

\* Accepting a manifest raises the serial and nothing else.
LEMMA AcceptIs ==
  ASSUME NEW st \in Stores, NEW n \in 1 .. MaxSerial
  PROVE  /\ Accept(st, n) \in Stores
         /\ Accept(st, n).pins = st.pins /\ Accept(st, n).prev = st.prev
<1>. DEFINE m == Max({st.serial, n})
<1>1. m \in 0 .. MaxSerial
  <2>1. st.serial \in 0 .. MaxSerial /\ st.serial \in Nat /\ n \in Nat
    BY PinAssumption DEF Stores
  <2>. QED  BY <2>1, MaxOfTwo
<1>2. Accept(st, n) = [st EXCEPT !.serial = m]
  BY DEF Accept
<1>. HIDE DEF m
<1>. QED  BY <1>1, <1>2 DEF Stores

\* What a store resolves to is an image: the pin, or the default of the release.
LEMMA ResolveType ==
  ASSUME NEW st \in Stores, NEW k \in Kinds, villa \in 1 .. MaxSerial
  PROVE  Resolve(st, villa, k) \in Image
BY TableType DEF Resolve, Stores

\* What each step of the record of an update in flight keeps of it.
LEMMA ExportedIs ==
  ASSUME tx \in Tuples, NEW path \in Snapshots
  PROVE  /\ Exported(path) \in Tuples /\ Exported(path).snap = path
         /\ Exported(path).ref = tx.ref /\ Exported(path).units = tx.units /\ Exported(path).prior = tx.prior
         /\ Exported(path).touched = tx.touched /\ Exported(path).left = tx.left
BY DEF Exported, Tuples

\* A tuple that notes the services left to restart is the tuple otherwise.
LEMMA LeavingIs ==
  ASSUME tx \in Tuples, NEW S \in SUBSET Kinds
  PROVE  /\ Leaving(S) \in Tuples /\ Leaving(S).left = S
         /\ Leaving(S).ref = tx.ref /\ Leaving(S).units = tx.units /\ Leaving(S).prior = tx.prior
         /\ Leaving(S).touched = tx.touched /\ Leaving(S).snap = tx.snap
BY DEF Leaving, Tuples

\* A tuple that notes one service tried is the tuple otherwise.
LEMMA TryingIs ==
  ASSUME tx \in Tuples, NEW k \in Kinds
  PROVE  /\ Trying(k) \in Tuples /\ Trying(k).left = tx.left \ {k} /\ Trying(k).touched = tx.touched \cup {k}
         /\ Trying(k).ref = tx.ref /\ Trying(k).units = tx.units /\ Trying(k).prior = tx.prior
         /\ Trying(k).snap = tx.snap
BY DEF Trying, Noted, Tuples

\* The empty record is a tuple with nothing in it.
LEMMA NoTxIs ==
  /\ NoTx \in Tuples /\ NoTx.snap = NoTuple /\ NoTx.prior = NoTuple /\ NoTx.touched = {} /\ NoTx.left = {}
  /\ NoTx.ref = Unpinned
BY DEF NoTx, Tuples

\* What the record is when it is captured.
LEMMA CaptureOfIs ==
  ASSUME NEW st \in Stores, HostType, StackType, This \in Kinds
  PROVE  /\ CaptureOf(st) \in Tuples
         /\ CaptureOf(st).ref = Resolve(st, villa, This) /\ CaptureOf(st).units = unit
         /\ CaptureOf(st).prior = (IF st.prev[This] = NoTuple THEN NoTuple ELSE st.prev[This].snap)
         /\ CaptureOf(st).snap = NoTuple /\ CaptureOf(st).touched = {} /\ CaptureOf(st).left = {}
<1>. DEFINE p == IF st.prev[This] = NoTuple THEN NoTuple ELSE st.prev[This].snap
<1>1. p \in Snapshots \cup {NoTuple}
  BY DEF Stores
<1>2. Resolve(st, villa, This) \in Image
  BY ResolveType DEF HostType
<1>3. CaptureOf(st) = [ref |-> Resolve(st, villa, This), units |-> unit, prior |-> p, snap |-> NoTuple,
                       touched |-> {}, left |-> {}]
  BY DEF CaptureOf
<1>. HIDE DEF p
<1>4. CaptureOf(st) \in Tuples
  BY <1>1, <1>2, <1>3 DEF Tuples, StackType
<1>5. CaptureOf(st).prior = p /\ CaptureOf(st).ref = Resolve(st, villa, This) /\ CaptureOf(st).units = unit
      /\ CaptureOf(st).snap = NoTuple /\ CaptureOf(st).touched = {} /\ CaptureOf(st).left = {}
  BY <1>3
<1>. QED  BY <1>4, <1>5 DEF p

\* What starting one service does: it runs the image its unit names, which is in the
\* store after, and migrates the data of a subsystem that owns some.
LEMMA StartDoes ==
  ASSUME StackType, NEW k \in Kinds, Start({k})
  PROVE  /\ running' = [running EXCEPT ![k] = unit[k]] /\ images' = images \cup {unit[k]}
         /\ \A j \in Stateful \ {k} : data'[j] = data[j]
         /\ k \in Stateful => data'[k] = IF data[k] = Lost THEN Lost ELSE Max({data[k], unit[k]})
         /\ data' \in [Stateful -> Image \cup {Lost}]
<1>1. running' = [running EXCEPT ![k] = unit[k]]
  BY DEF Start, StartFrom, StackType
<1>2. images' = images \cup {unit[k]}
  BY DEF Start, StartFrom
<1>3. data' = [j \in Stateful |-> IF j = k /\ data[j] # Lost THEN Max({data[j], unit[j]}) ELSE data[j]]
  BY DEF Start, StartFrom
<1>4. ASSUME NEW j \in Stateful, data[j] # Lost PROVE Max({data[j], unit[j]}) \in Image
  <2>1. data[j] \in Image /\ unit[j] \in Image
    BY <1>4, UpdateAssumption DEF StackType
  <2>. QED  BY <2>1, MaxOfTwo, ImageType
<1>5. data' \in [Stateful -> Image \cup {Lost}]
  <2>. SUFFICES ASSUME NEW j \in Stateful
                PROVE  (IF j = k /\ data[j] # Lost THEN Max({data[j], unit[j]}) ELSE data[j]) \in Image \cup {Lost}
    BY <1>3, Zenon
  <2>. QED  BY <1>4 DEF StackType
<1>. QED  BY <1>1, <1>2, <1>3, <1>5, Zenon

\* Where runs are: without the lock, with a subsystem in hand, after the capture, before
\* and after the snapshot, and where the data is known to be there.
Free == {"load", "fetch", "save", "decide", "want", "done"}
InFlight == {"prove", "capture", "pull", "stop", "snapshot", "reopen", "mutate", "apply", "restart", "start",
             "prove_new", "commit", "rollback", "rb_data", "rb_pins", "rb_units", "rb_restart", "rb_start",
             "rb_prove", "abandon"}
Captured == InFlight \ {"prove", "capture"}
Before == {"prove", "capture", "pull", "stop", "snapshot", "reopen"}
Windowed == InFlight \ Before
Kept == {"capture", "pull", "stop", "snapshot", "reopen", "mutate", "apply", "restart", "start",
         "prove_new", "commit", "rollback", "rb_data"}
Among(S) == lock # Nobody /\ at[lock] \in S

\* A retained tuple names a snapshot of its own subsystem.
Owned(st) == \A k \in Kinds : st.prev[k] # NoTuple /\ st.prev[k].snap # NoTuple => st.prev[k].snap[1] = k

\* One run is past the lock, and what it has in hand it has not reported.
Held ==
  /\ \A r \in Runs : r # lock => at[r] \in Free
  /\ lock # Nobody => at[lock] \notin Free
  /\ lock = Nobody => todo = {} /\ tx = NoTx /\ displaced = NoneDisplaced /\ \A k \in Kinds : result[k] = "not_tried"
  /\ Among(InFlight) => todo # {} /\ \A k \in todo : result[k] = "not_tried"

\* Where the record of the update in flight is filled in, and where it has a snapshot:
\* the snapshot belongs to the subsystem in hand and is not the one its tuple retains.
TxPlaced ==
  /\ Among(Captured) => tx.ref \in Image /\ tx.units \in [Kinds -> Image]
  /\ Among(Before) => tx.snap = NoTuple
  /\ Among(Windowed) => (This \in Stateful <=> tx.snap # NoTuple)
  /\ Among({"stop", "snapshot", "reopen", "rb_data", "abandon"}) => This \in Stateful
TxPaths ==
  /\ lock # Nobody /\ tx.snap # NoTuple => tx.snap[1] = This /\ tx.snap # tx.prior /\ tx.snap \notin displaced.snaps
  /\ Among(Captured) /\ tx.prior # NoTuple => tx.prior[1] = This
PrevOwned == Owned(store) /\ \A r \in Runs : Owned(seen[r])
TupleHeld == TxPlaced /\ TxPaths /\ PrevOwned

\* Data is not lost while its update has yet to touch it; a snapshot is up for removal only
\* when the data it was displaced from is there; and lost data has a copy.
Saved ==
  /\ Among(Kept) /\ This \in Stateful => data[This] # Lost
  /\ \A s \in displaced.snaps : s[1] \in Stateful /\ s[1] \notin todo /\ data[s[1]] # Lost
  /\ LostDataHasACopy

\* Where an update works on the subsystem in hand, and what agrees of one that no update
\* works on: it runs its unit, its unit is what the pins resolve to, its data is of that
\* image and the pin was proven.
Work == {"snapshot", "reopen", "mutate", "apply", "restart", "start", "prove_new", "commit", "rollback",
         "rb_data", "rb_pins", "rb_units", "rb_restart", "rb_start", "rb_prove", "abandon"}
Agrees(k) ==
  /\ running[k] = unit[k] /\ unit[k] = Resolve(store, villa, k)
  /\ k \in Stateful => data[k] = unit[k]
  /\ store.pins[k] \in proven[k] \cup {Unpinned}
InWork(k) == Among(Work) /\ k = This

\* While nothing has failed, every subsystem no update works on agrees, and is as it was
\* before the run or on the target, as its result says.
Rested ==
  taint = {} =>
    /\ \A k \in Kinds : ~InWork(k) /\ result[k] # "incomplete" => Agrees(k)
    /\ before.unit \in [Kinds -> Image]
    /\ \A k \in Kinds : before.running[k] = before.unit[k]
    /\ \A k \in Stateful : before.data[k] = before.unit[k]
    /\ lock # Nobody => \A k \in Kinds :
         /\ result[k] \in {"not_tried", "refused", "rolled_back"} /\ ~InWork(k) => unit[k] = before.unit[k]
         /\ result[k] \in {"committed", "unrecorded"} => unit[k] = Table[got[lock]][k]
\* A run with a subsystem in hand has not halted.
Unhalted == Among(InFlight) => \A k \in Kinds : result[k] \in {"not_tried", "committed", "unrecorded"}

\* What has answered its proof is an image.
ProvenType == proven \in [Kinds -> SUBSET Image]

\* The image the update in hand started from, whether the service still runs it or is
\* down for the window, and what its data may be of.
Old == before.unit[This]
AtOld == running[This] = Old \/ (This \in Stateful /\ running[This] = Down)
DataIn(S) == This \in Stateful => data[This] \in S
Grown == Max({Old, Target})

\* What the record of the update in hand holds while nothing has failed, and where the
\* stack stands at each place of the way forward and of the rollback.
TxHeld ==
  /\ Among(InFlight \ {"prove"}) => Old \in proven[This]
  /\ Among(Captured) => tx.ref = Old /\ tx.units[This] = Old /\ \A k \in Kinds \ {This} : tx.units[k] = unit[k]
  /\ Among(Windowed) /\ This \in Stateful => snaps[tx.snap] = Old
  /\ Among(Captured) => tx.touched \subseteq {This}
TxForward ==
  /\ Among({"pull", "stop", "snapshot", "reopen", "mutate", "apply"}) => tx.touched = {}
  /\ Among({"snapshot", "reopen", "mutate", "apply"}) => unit[This] = Old /\ AtOld /\ DataIn({Old})
  /\ Among({"snapshot", "reopen", "mutate"}) =>
       Resolve(store, villa, This) = Old /\ store.pins[This] \in proven[This] \cup {Unpinned}
  /\ Among({"apply", "restart", "start", "prove_new", "commit"}) => store.pins[This] = Target
  /\ Among({"restart", "start", "prove_new", "commit"}) => unit[This] = Target
  /\ Among({"restart"}) =>
       /\ tx.left \subseteq {This}
       /\ This \in tx.left => AtOld /\ DataIn({Old})
       /\ This \notin tx.left => running[This] = Target /\ DataIn({Grown}) /\ This \in tx.touched
  /\ Among({"start", "prove_new"}) => running[This] = Target /\ DataIn({Grown}) /\ This \in tx.touched
  /\ Among({"commit"}) => running[This] = Target /\ DataIn({Target}) /\ Target \in proven[This]
TxBack ==
  /\ Among({"rollback", "rb_data", "rb_pins", "rb_units", "abandon"}) => unit[This] \in {Old, Target}
  /\ Among({"rollback", "rb_data"}) => DataIn({Old, Grown})
  /\ Among({"abandon"}) => DataIn({Lost, Old, Grown})
  /\ Among({"rollback", "rb_pins", "rb_units"}) => This \in tx.touched \/ AtOld
  /\ Among({"rb_data"}) => running[This] = Down
  /\ Among({"rb_pins", "rb_units", "rb_restart", "rb_start", "rb_prove"}) => DataIn({Old})
  /\ Among({"rb_units", "rb_restart", "rb_start", "rb_prove"}) => store.pins[This] = Old
  /\ Among({"rb_restart", "rb_start", "rb_prove"}) => unit[This] = Old
  /\ Among({"rb_restart"}) => tx.left \subseteq {This} /\ (This \in tx.left \/ AtOld)
  /\ Among({"rb_start"}) => AtOld
  /\ Among({"rb_prove"}) => running[This] = Old
Working == taint = {} => TxHeld /\ TxForward /\ TxBack

\* Nothing has failed but the one run that died.
Calm == (taint = {} /\ faults = 0) \/ (taint = {"crashed"} /\ faults = 1)

\* A death is counted among the faults.
Counted == "crashed" \in taint => faults >= 1

\* What holds through one death: a subsystem that owns data is down, or runs its unit as
\* its pin resolves; and the update in hand knows what it captured.
Standing(k) == running[k] = Down \/ (running[k] = unit[k] /\ unit[k] = Resolve(store, villa, k))
CalmTuple ==
  /\ Among(Captured) => \A k \in Stateful : k = This \/ running[k] = Down \/ tx.units[k] = unit[k]
  /\ Among(Captured) => tx.touched \cap Stateful \subseteq {This}
  /\ Among(Captured) /\ This \in Stateful => tx.units[This] = tx.ref
  /\ Among(Windowed) /\ This \in Stateful => snaps[tx.snap] <= tx.ref
CalmPlaces ==
  /\ ~Among({"reopen", "abandon"})
  /\ Among({"capture", "pull", "stop"}) /\ This \in Stateful => running[This] # Down /\ data[This] <= running[This]
  /\ Among({"pull", "stop"}) /\ This \in Stateful => running[This] = tx.ref
  /\ Among({"snapshot"}) => data[This] <= tx.ref
  /\ Among({"snapshot", "mutate", "apply", "rb_data", "rb_pins", "rb_units"}) /\ This \in Stateful => running[This] = Down
  /\ Among({"apply", "restart", "start", "prove_new", "commit"}) => store.pins[This] = Target
  /\ Among({"restart", "start", "prove_new", "commit"}) => unit[This] = Target
  /\ Among({"restart", "rb_restart"}) => tx.left \cap Stateful \subseteq {This}
  /\ Among({"rb_units", "rb_restart", "rb_start", "rb_prove"}) => store.pins[This] = tx.ref
  /\ Among({"rb_restart", "rb_start", "rb_prove"}) => unit[This] = tx.units[This]
Calmed == Calm => (\A k \in Stateful : Standing(k)) /\ CalmTuple /\ CalmPlaces

\* A retained way back restores data its image can read.
Bound ==
  (taint = {} \/ Calm) =>
    \A k \in Stateful : store.prev[k] # NoTuple => snaps[store.prev[k].snap] <= store.prev[k].ref

\* No pin was overwritten by a stale save and the program was not replaced; then every
\* image the way back needs is in the store, and every snapshot is on disk.
Replaced == taint \cap {"clobbered", "upgraded"} # {}
Present ==
  ~Replaced =>
    /\ villa = 1
    /\ \A k \in Kinds : Table[1][k] \in images /\ store.pins[k] \in images \cup {Unpinned}
    /\ \A k \in Kinds : store.prev[k] # NoTuple =>
         store.prev[k].ref \in images /\ (k \in Stateful => store.prev[k].snap \in DOMAIN snaps)
    /\ Among(Captured) => tx.ref \in images
    /\ Among({"stop", "snapshot", "mutate", "apply", "restart", "start", "prove_new", "commit"}) => Target \in images
    /\ \A x \in displaced.refs : \E k \in Kinds \ todo : store.prev[k] # NoTuple /\ store.prev[k].ref = x

----------------------------------------------------------------------------
(* Type correctness: the host and the stack.                               *)

\* The release and the published manifest stay releases of the table.
LEMMA HostStep ==
  ASSUME HostType, Next
  PROVE  HostType'
<1>1. CASE ProveCurrent \/ Capture \/ Pull \/ Stop \/ Snapshot \/ Reopen \/ WritePins \/ Apply \/ Restart \/
            StartNew \/ ProveNew \/ Commit \/ RbStop \/ RbData \/ RbPins \/ RbUnits \/ RbRestart \/ RbStart \/
            RbProve \/ RbAbandon \/ Finish \/ Prune \/ SnapshotCleanup \/ Release \/ Crash
  BY <1>1 DEF ProveCurrent, Capture, Pull, Stop, Snapshot, Reopen, WritePins, Apply, Restart,
         StartNew, ProveNew, Commit, RbStop, RbData, RbPins, RbUnits, RbRestart, RbStart, RbProve,
         RbAbandon, Finish, Prune, SnapshotCleanup, Release, Crash, host, stack, disk, run, history,
         End, HostType
<1>2. CASE Upgrade
  BY <1>2, PinAssumption DEF Upgrade, HostType
<1>3. CASE Publish
  BY <1>3, PinAssumption DEF Publish, HostType
<1>4. ASSUME NEW r \in Runs, Load(r) \/ Fetch(r) \/ Save(r) \/ Decide(r) \/ Acquire(r) PROVE HostType'
  BY <1>4 DEF Load, Fetch, Save, Decide, Acquire, host, stack, disk, run, history, HostType
<1>. QED  BY <1>1, <1>2, <1>3, <1>4 DEF Next, Forward, Rollback, Ending, Check

\* Starting a service keeps the stack of known images.
LEMMA StartType ==
  ASSUME StackType, NEW k \in Kinds, Start({k}), unit' = unit
  PROVE  StackType'
<1>1. unit[k] \in Image /\ running \in [Kinds -> Image \cup {Down}]
  BY DEF StackType
<1>2. running' \in [Kinds -> Image \cup {Down}]
  BY <1>1, StartDoes
<1>. QED  BY <1>2, StartDoes DEF StackType

\* What is installed, what runs and the data stay of known images.
LEMMA StackStep ==
  ASSUME TypeOK, Held, TupleHeld, Next
  PROVE  StackType'
<1>. USE DEF TypeOK
<1>0. Among(InFlight) => This \in todo /\ This \in Kinds
  BY ThisIsToDo DEF RunType, Held
<1>1. CASE ProveCurrent \/ Capture \/ Pull \/ Snapshot \/ WritePins \/ ProveNew \/ Commit \/ RbPins \/ RbProve \/
            Finish \/ Prune \/ SnapshotCleanup \/ Release \/ Upgrade \/ Publish
  BY <1>1 DEF ProveCurrent, Capture, Pull, Snapshot, WritePins, ProveNew, Commit, RbPins, RbProve,
         Finish, Prune, SnapshotCleanup, Release, Upgrade, Publish, host, stack, disk, run, history,
         End, StackType
<1>2. CASE Stop
  <2>1. This \in Kinds
    BY <1>2, <1>0 DEF Stop, InTx, Among, InFlight
  <2>. QED  BY <1>2, <2>1 DEF Stop, StackType
<1>3. CASE Reopen
  <2>u. unit' = unit
    BY <1>3 DEF Reopen
  <2>1. This \in Kinds
    BY <1>3, <1>0 DEF Reopen, InTx, Among, InFlight
  <2>2. CASE Start({This})
    BY <2>u, <2>1, <2>2, StartType
  <2>3. CASE UNCHANGED <<running, data>>
    BY <2>u, <2>3 DEF StackType
  <2>. QED  BY <1>3, <2>2, <2>3 DEF Reopen, StartDown
<1>4. CASE Apply
  <2>1. \A k \in Kinds : Rendered[k] \in Image
    BY ResolveType DEF Rendered, HostType, StoreType
  <2>. QED  BY <1>4, <2>1 DEF Apply, StackType, Rendered
<1>5. CASE Restart
  <2>u. unit' = unit
    BY <1>5 DEF Restart
  <2>1. ASSUME NEW k \in Kinds, Start({k}) PROVE StackType'
    BY <2>u, <2>1, StartType
  <2>2. ASSUME NEW k \in Kinds, running' \in {running, [running EXCEPT ![k] = Down]}, data' = data PROVE StackType'
    BY <2>u, <2>2 DEF StackType
  <2>3. CASE UNCHANGED <<running, data>>
    BY <2>u, <2>3 DEF StackType
  <2>4. tx.left \subseteq Kinds
    BY DEF TxType, Tuples
  <2>. QED  BY <1>5, <2>1, <2>2, <2>3, <2>4 DEF Restart
<1>6. CASE StartNew
  <2>u. unit' = unit
    BY <1>6 DEF StartNew
  <2>1. This \in Kinds
    BY <1>6, <1>0 DEF StartNew, InTx, Among, InFlight
  <2>2. CASE Start({This})
    BY <2>u, <2>1, <2>2, StartType
  <2>3. CASE UNCHANGED <<running, data>>
    BY <2>u, <2>3 DEF StackType
  <2>. QED  BY <1>6, <2>2, <2>3 DEF StartNew, StartDown
<1>7. CASE RbStop
  <2>1. This \in Kinds
    BY <1>7, <1>0 DEF RbStop, InTx, Among, InFlight
  <2>. QED  BY <1>7, <2>1 DEF RbStop, StackType
<1>8. CASE RbData
  <2>1. This \in Kinds /\ tx.snap \in DOMAIN snaps
    BY <1>8, <1>0
    DEF RbData, InTx, Among, InFlight, Windowed, Before, TupleHeld, TxPlaced, TxPaths, TxType
  <2>2. snaps[tx.snap] \in Image
    BY <2>1 DEF DiskType
  <2>. QED  BY <1>8, <2>1, <2>2 DEF RbData, StackType
<1>9. CASE RbUnits
  <2>1. tx.units \in [Kinds -> Image]
    BY <1>9 DEF RbUnits, InTx, Among, InFlight, Captured, TupleHeld, TxPlaced, TxPaths
  <2>. QED  BY <1>9, <2>1 DEF RbUnits, StackType
<1>10. CASE RbRestart
  <2>u. unit' = unit
    BY <1>10 DEF RbRestart
  <2>1. ASSUME NEW k \in Kinds, Start({k}) PROVE StackType'
    BY <2>u, <2>1, StartType
  <2>2. ASSUME NEW k \in Kinds, running' \in {running, [running EXCEPT ![k] = Down]}, data' = data PROVE StackType'
    BY <2>u, <2>2 DEF StackType
  <2>3. CASE UNCHANGED <<running, data>>
    BY <2>u, <2>3 DEF StackType
  <2>4. tx.left \subseteq Kinds
    BY DEF TxType, Tuples
  <2>. QED  BY <1>10, <2>1, <2>2, <2>3, <2>4 DEF RbRestart
<1>11. CASE RbStart
  <2>u. unit' = unit
    BY <1>11 DEF RbStart
  <2>1. This \in Kinds
    BY <1>11, <1>0 DEF RbStart, InTx, Among, InFlight
  <2>2. CASE Start({This})
    BY <2>u, <2>1, <2>2, StartType
  <2>3. CASE UNCHANGED <<running, data>>
    BY <2>u, <2>3 DEF StackType
  <2>. QED  BY <1>11, <2>2, <2>3 DEF RbStart, StartDown
<1>12. CASE RbAbandon
  <2>u. unit' = unit
    BY <1>12 DEF RbAbandon
  <2>1. This \in Kinds
    BY <1>12, <1>0 DEF RbAbandon, InTx, Among, InFlight
  <2>2. CASE Start({This})
    BY <2>u, <2>1, <2>2, StartType
  <2>3. CASE UNCHANGED <<running, data>>
    BY <2>u, <2>3 DEF StackType
  <2>. QED  BY <1>12, <2>2, <2>3 DEF RbAbandon, StartDown
<1>13. CASE Crash
  <2>1. CASE data' = data
    BY <1>13, <2>1 DEF Crash, End, StackType
  <2>2. CASE at[lock] = "rb_data" /\ data' = [data EXCEPT ![This] = Lost]
    BY <1>13, <2>2 DEF Crash, End, StackType
  <2>. QED  BY <1>13, <2>1, <2>2 DEF Crash
<1>14. ASSUME NEW r \in Runs, Load(r) \/ Fetch(r) \/ Save(r) \/ Decide(r) \/ Acquire(r) PROVE StackType'
  BY <1>14 DEF Load, Fetch, Save, Decide, Acquire, host, stack, disk, run, history, StackType
<1>. QED  BY <1>1, <1>2, <1>3, <1>4, <1>5, <1>6, <1>7, <1>8, <1>9, <1>10, <1>11, <1>12, <1>13,
         <1>14 DEF Next, Forward, Rollback, Ending, Check

----------------------------------------------------------------------------
(* Type correctness: the store and the disk.                               *)

\* An export makes more paths, so every type that mentions them grows.
LEMMA TypesGrow ==
  ASSUME exports \in Nat, exports' \in {exports, exports + 1}
  PROVE  Snapshots \subseteq Snapshots' /\ Stores \subseteq Stores' /\ Tuples \subseteq Tuples'
<1>1. Snapshots \subseteq Snapshots'
  BY DEF Snapshots
<1>2. Stores \subseteq Stores'
  BY <1>1, Zenon DEF Stores
<1>3. Tuples \subseteq Tuples'
  BY <1>1, Zenon DEF Tuples
<1>. QED  BY <1>1, <1>2, <1>3

\* What an update brings is an image of the manifest.
LEMMA TargetType ==
  ASSUME RunType, StoreType, lock # Nobody, This \in Kinds
  PROVE  Target \in Image
BY TableType DEF RunType, StoreType, Target

\* Exports are counted one at a time.
LEMMA ExportsStep ==
  ASSUME DiskType, Next
  PROVE  exports' \in {exports, exports + 1}
<1>1. CASE ProveCurrent \/ Capture \/ Pull \/ Stop \/ Reopen \/ WritePins \/ Apply \/ Restart \/ StartNew \/
            ProveNew \/ Commit \/ RbStop \/ RbData \/ RbPins \/ RbUnits \/ RbRestart \/ RbStart \/ RbProve \/
            RbAbandon \/ Finish \/ Prune \/ SnapshotCleanup \/ Release \/ Crash \/ Upgrade \/ Publish
  BY <1>1 DEF ProveCurrent, Capture, Pull, Stop, Reopen, WritePins, Apply, Restart, StartNew,
         ProveNew, Commit, RbStop, RbData, RbPins, RbUnits, RbRestart, RbStart, RbProve, RbAbandon,
         Finish, Prune, SnapshotCleanup, Release, Crash, Upgrade, Publish, host, stack, disk, run,
         history, End
<1>2. CASE Snapshot
  BY <1>2 DEF Snapshot
<1>3. ASSUME NEW r \in Runs, Load(r) \/ Fetch(r) \/ Save(r) \/ Decide(r) \/ Acquire(r) PROVE exports' \in {exports, exports + 1}
  BY <1>3 DEF Load, Fetch, Save, Decide, Acquire, host, stack, disk, run, history
<1>. QED  BY <1>1, <1>2, <1>3 DEF Next, Forward, Rollback, Ending, Check

\* The pin store and every copy of it a run read stay stores.
LEMMA StoreStep ==
  ASSUME TypeOK, Held, TupleHeld, Next
  PROVE  StoreType'
<1>. USE DEF TypeOK
<1>0. Among(InFlight) => This \in todo /\ This \in Kinds
  BY ThisIsToDo DEF RunType, Held
<1>g. Stores \subseteq Stores'
  BY ExportsStep, TypesGrow DEF DiskType
<1>1. CASE ProveCurrent \/ Capture \/ Pull \/ Stop \/ Snapshot \/ Reopen \/ Apply \/ Restart \/ StartNew \/ ProveNew \/
            RbStop \/ RbData \/ RbUnits \/ RbRestart \/ RbStart \/ RbProve \/ RbAbandon \/ Finish \/ Prune \/
            SnapshotCleanup \/ Upgrade \/ Publish
  BY <1>1, <1>g DEF ProveCurrent, Capture, Pull, Stop, Snapshot, Reopen, Apply, Restart, StartNew,
         ProveNew, RbStop, RbData, RbUnits, RbRestart, RbStart, RbProve, RbAbandon, Finish, Prune,
         SnapshotCleanup, Upgrade, Publish, host, stack, disk, run, history, StoreType
<1>2. CASE WritePins
  <2>1. This \in Kinds /\ lock # Nobody
    BY <1>2, <1>0 DEF WritePins, InTx, Among, InFlight
  <2>2. Record(store, This, Target) \in Stores
    BY <2>1, TargetType, RecordIs DEF StoreType
  <2>. QED  BY <1>2, <2>2, <1>g DEF WritePins, StoreType
<1>3. CASE Commit
  <2>1. This \in Kinds /\ lock # Nobody
    BY <1>3, <1>0 DEF Commit, InTx, Among, InFlight
  <2>2. Record(store, This, Target) \in Stores
    BY <2>1, TargetType, RecordIs DEF StoreType
  <2>3. tx.ref \in Image /\ tx.snap \in Snapshots \cup {NoTuple}
    BY <1>3 DEF Commit, InTx, Among, InFlight, Captured, TupleHeld, TxPlaced, TxPaths, TxType, Tuples
  <2>4. Retain(Record(store, This, Target), This, [ref |-> tx.ref, snap |-> tx.snap]) \in Stores
    BY <2>1, <2>2, <2>3, RetainIs
  <2>. QED  BY <1>3, <2>4, <1>g DEF Commit, StoreType
<1>4. CASE RbPins
  <2>1. This \in Kinds /\ lock # Nobody
    BY <1>4, <1>0 DEF RbPins, InTx, Among, InFlight
  <2>2. tx.ref \in Image
    BY <1>4 DEF RbPins, InTx, Among, InFlight, Captured, TupleHeld, TxPlaced, TxPaths
  <2>3. PinBack(store) \in Stores
    BY <2>1, <2>2, RecordIs DEF StoreType, PinBack
  <2>. QED  BY <1>4, <2>3, <1>g DEF RbPins, StoreType
<1>5. CASE Release
  <2>1. 1 \in 1 .. MaxSerial
    BY PinAssumption
  <2>2. got' \in [Runs -> 1 .. MaxSerial] /\ UNCHANGED <<store, seen>>
    BY <1>5, <2>1 DEF Release, End, StoreType, disk
  <2>. QED  BY <2>2, <1>g DEF StoreType
<1>6. CASE Crash
  <2>1. 1 \in 1 .. MaxSerial
    BY PinAssumption
  <2>2. got' \in [Runs -> 1 .. MaxSerial] /\ UNCHANGED <<store, seen>>
    BY <1>6, <2>1 DEF Crash, End, StoreType, disk
  <2>. QED  BY <2>2, <1>g DEF StoreType
<1>7. ASSUME NEW r \in Runs, Load(r) PROVE StoreType'
  BY <1>7, <1>g, FreshIs DEF Load, StoreType
<1>8. ASSUME NEW r \in Runs, Fetch(r) PROVE StoreType'
  <2>1. 1 \in 1 .. MaxSerial /\ Fresh \in Stores
    BY PinAssumption, FreshIs
  <2>2. 1 .. published \subseteq 1 .. MaxSerial
    BY PinAssumption DEF HostType
  <2>. QED  BY <1>8, <1>g, <2>1, <2>2 DEF Fetch, Leave, StoreType
<1>9. ASSUME NEW r \in Runs, Save(r) PROVE StoreType'
  <2>1. Accept(seen[r], got[r]) \in Stores
    BY AcceptIs DEF StoreType
  <2>. QED  BY <1>9, <1>g, <2>1 DEF Save, StoreType
<1>10. ASSUME NEW r \in Runs, Decide(r) PROVE StoreType'
  <2>1. 1 \in 1 .. MaxSerial /\ Fresh \in Stores
    BY PinAssumption, FreshIs
  <2>. QED  BY <1>10, <1>g, <2>1 DEF Decide, Leave, StoreType
<1>11. ASSUME NEW r \in Runs, Acquire(r) PROVE StoreType'
  <2>1. 1 \in 1 .. MaxSerial /\ Fresh \in Stores
    BY PinAssumption, FreshIs
  <2>. QED  BY <1>11, <1>g, <2>1 DEF Acquire, StoreType
<1>. QED
  BY <1>1, <1>2, <1>3, <1>4, <1>5, <1>6, <1>7, <1>8, <1>9, <1>10, <1>11
  DEF Next, Forward, Rollback, Ending, Check

\* The images, the snapshots and what is published on disk keep their types.
LEMMA DiskStep ==
  ASSUME TypeOK, Held, TupleHeld, Saved, Next
  PROVE  DiskType'
<1>. USE DEF TypeOK
<1>0. Among(InFlight) => This \in todo /\ This \in Kinds
  BY ThisIsToDo DEF RunType, Held
<1>1. CASE ProveCurrent \/ Capture \/ Stop \/ WritePins \/ Apply \/ ProveNew \/ Commit \/ RbStop \/ RbData \/ RbPins \/
            RbUnits \/ RbProve \/ Finish \/ Release \/ Crash \/ Upgrade \/ Publish
  BY <1>1 DEF ProveCurrent, Capture, Stop, WritePins, Apply, ProveNew, Commit, RbStop, RbData,
         RbPins, RbUnits, RbProve, Finish, Release, Crash, Upgrade, Publish, host, stack, disk, run,
         history, End, DiskType, Snapshots
<1>2. CASE Pull
  <2>1. This \in Kinds /\ lock # Nobody
    BY <1>2, <1>0 DEF Pull, InTx, Among, InFlight
  <2>. QED  BY <1>2, <2>1, TargetType DEF Pull, DiskType, Snapshots
<1>3. CASE Snapshot
  <2>1. This \in Kinds /\ lock # Nobody
    BY <1>3, <1>0 DEF Snapshot, InTx, Among, InFlight
  <2>2. This \in Stateful /\ data[This] \in Image
    BY <1>3 DEF Snapshot, InTx, Among, TupleHeld, TxPlaced, TxPaths, Saved, Kept, StackType
  <2>3. exports + 1 \in Nat /\ images' = images /\ exports \in Nat /\ exports' \in {exports, exports + 1}
    BY <1>3 DEF Snapshot, DiskType
  <2>4. SnapshotPath(This) \in Stateful \X (1 .. exports + 1)
    BY <2>2, <2>3 DEF SnapshotPath
  <2>5. CASE UNCHANGED <<snaps, exports>>
    BY <2>3, <2>5 DEF DiskType, Snapshots
  <2>6. CASE /\ exports' = exports + 1
             /\ snaps' = [s \in DOMAIN snaps \cup {SnapshotPath(This)} |->
                           IF s = SnapshotPath(This) THEN data[This] ELSE snaps[s]]
    <3>1. DOMAIN snaps' \subseteq Snapshots'
      BY <2>3, <2>4, <2>6 DEF DiskType, Snapshots
    <3>2. \A s \in DOMAIN snaps' : snaps'[s] \in Image
      BY <2>2, <2>6 DEF DiskType
    <3>. QED  BY <2>3, <2>6, <3>1, <3>2 DEF DiskType
  <2>. QED  BY <1>3, <2>5, <2>6 DEF Snapshot
<1>4. CASE Reopen
  <2>1. This \in Kinds /\ lock # Nobody
    BY <1>4, <1>0 DEF Reopen, InTx, Among, InFlight
  <2>2. images' \subseteq Image
    <3>1. CASE Start({This})
      <4>1. unit[This] \in Image /\ images' = images \cup {unit[This]}
        BY <2>1, <3>1, StartDoes DEF StackType
      <4>. QED  BY <4>1 DEF DiskType
    <3>2. CASE images' = images
      BY <3>2 DEF DiskType
    <3>. QED  BY <1>4, <3>1, <3>2 DEF Reopen, StartDown
  <2>. QED  BY <1>4, <2>2 DEF Reopen, DiskType, Snapshots
<1>5. CASE Restart
  <2>1. tx.left \subseteq Kinds
    BY DEF TxType, Tuples
  <2>2. ASSUME NEW k \in Kinds, Start({k}) PROVE images' \subseteq Image
    <3>1. unit[k] \in Image /\ images' = images \cup {unit[k]}
      BY <2>2, StartDoes DEF StackType
    <3>. QED  BY <3>1 DEF DiskType
  <2>3. images' \subseteq Image
    BY <1>5, <2>1, <2>2 DEF Restart, DiskType
  <2>. QED  BY <1>5, <2>3 DEF Restart, DiskType, Snapshots
<1>6. CASE StartNew
  <2>1. This \in Kinds /\ lock # Nobody
    BY <1>6, <1>0 DEF StartNew, InTx, Among, InFlight
  <2>2. images' \subseteq Image
    <3>1. CASE Start({This})
      <4>1. unit[This] \in Image /\ images' = images \cup {unit[This]}
        BY <2>1, <3>1, StartDoes DEF StackType
      <4>. QED  BY <4>1 DEF DiskType
    <3>2. CASE images' = images
      BY <3>2 DEF DiskType
    <3>. QED  BY <1>6, <3>1, <3>2 DEF StartNew, StartDown
  <2>. QED  BY <1>6, <2>2 DEF StartNew, DiskType, Snapshots
<1>7. CASE RbRestart
  <2>1. tx.left \subseteq Kinds
    BY DEF TxType, Tuples
  <2>2. ASSUME NEW k \in Kinds, Start({k}) PROVE images' \subseteq Image
    <3>1. unit[k] \in Image /\ images' = images \cup {unit[k]}
      BY <2>2, StartDoes DEF StackType
    <3>. QED  BY <3>1 DEF DiskType
  <2>3. images' \subseteq Image
    BY <1>7, <2>1, <2>2 DEF RbRestart, DiskType
  <2>. QED  BY <1>7, <2>3 DEF RbRestart, DiskType, Snapshots
<1>8. CASE RbStart
  <2>1. This \in Kinds /\ lock # Nobody
    BY <1>8, <1>0 DEF RbStart, InTx, Among, InFlight
  <2>2. images' \subseteq Image
    <3>1. CASE Start({This})
      <4>1. unit[This] \in Image /\ images' = images \cup {unit[This]}
        BY <2>1, <3>1, StartDoes DEF StackType
      <4>. QED  BY <4>1 DEF DiskType
    <3>2. CASE images' = images
      BY <3>2 DEF DiskType
    <3>. QED  BY <1>8, <3>1, <3>2 DEF RbStart, StartDown
  <2>. QED  BY <1>8, <2>2 DEF RbStart, DiskType, Snapshots
<1>9. CASE RbAbandon
  <2>1. This \in Kinds /\ lock # Nobody
    BY <1>9, <1>0 DEF RbAbandon, InTx, Among, InFlight
  <2>2. images' \subseteq Image
    <3>1. CASE Start({This})
      <4>1. unit[This] \in Image /\ images' = images \cup {unit[This]}
        BY <2>1, <3>1, StartDoes DEF StackType
      <4>. QED  BY <4>1 DEF DiskType
    <3>2. CASE images' = images
      BY <3>2 DEF DiskType
    <3>. QED  BY <1>9, <3>1, <3>2 DEF RbAbandon, StartDown
  <2>. QED  BY <1>9, <2>2 DEF RbAbandon, DiskType, Snapshots
<1>10. CASE Prune
  BY <1>10 DEF Prune, DiskType, Snapshots
<1>11. CASE SnapshotCleanup
  BY <1>11 DEF SnapshotCleanup, DiskType, Snapshots
<1>12. ASSUME NEW r \in Runs, Load(r) \/ Fetch(r) \/ Save(r) \/ Decide(r) \/ Acquire(r) PROVE DiskType'
  BY <1>12 DEF Load, Fetch, Save, Decide, Acquire, host, stack, disk, run, history, DiskType,
         Snapshots
<1>. QED
  BY <1>1, <1>2, <1>3, <1>4, <1>5, <1>6, <1>7, <1>8, <1>9, <1>10, <1>11, <1>12
  DEF Next, Forward, Rollback, Ending, Check

----------------------------------------------------------------------------
(* Type correctness: the runs and the record of the update in flight.      *)

\* The places of the runs, the lock, what is still to do and the results keep their types.
LEMMA RunStep ==
  ASSUME TypeOK, Held, TupleHeld, Next
  PROVE  RunType'
<1>. USE DEF TypeOK
<1>0. Among(InFlight) => This \in todo /\ This \in Kinds
  BY ThisIsToDo DEF RunType, Held
<1>g. Snapshots \subseteq Snapshots'
  BY ExportsStep, TypesGrow DEF DiskType
<1>1. CASE Upgrade \/ Publish
  BY <1>1, <1>g DEF Upgrade, Publish, host, stack, disk, run, history, RunType
<1>2. CASE ProveCurrent
  <2>1. lock' \in Runs \cup {Nobody} /\ at' \in [Runs -> Places]
    BY <1>2 DEF ProveCurrent, run, Go, InTx, Concludes, Abandon, RunType, Places, End, Leave
  <2>2. faults' \in 0 .. MaxFaults
    BY <1>2, UpdateAssumption DEF ProveCurrent, run, Fault, NoFault, RunType, End
  <2>3. todo' \subseteq Kinds /\ result' \in [Kinds -> Words]
    BY <1>2, <1>0
    DEF ProveCurrent, run, InTx, Among, InFlight, Concludes, Abandon, RunType, Words, End, Offered
  <2>4. displaced' \in [refs : SUBSET Image, snaps : SUBSET Snapshots']
    BY <1>2, <1>g DEF ProveCurrent, run, RunType, End, NoneDisplaced
  <2>. QED  BY <2>1, <2>2, <2>3, <2>4 DEF RunType
<1>3. CASE Capture
  <2>1. lock' \in Runs \cup {Nobody} /\ at' \in [Runs -> Places]
    BY <1>3 DEF Capture, run, Go, InTx, Concludes, Abandon, RunType, Places, End, Leave
  <2>2. faults' \in 0 .. MaxFaults
    BY <1>3, UpdateAssumption DEF Capture, run, Fault, NoFault, RunType, End
  <2>3. todo' \subseteq Kinds /\ result' \in [Kinds -> Words]
    BY <1>3, <1>0
    DEF Capture, run, InTx, Among, InFlight, Concludes, Abandon, RunType, Words, End, Offered
  <2>4. displaced' \in [refs : SUBSET Image, snaps : SUBSET Snapshots']
    BY <1>3, <1>g DEF Capture, run, RunType, End, NoneDisplaced
  <2>. QED  BY <2>1, <2>2, <2>3, <2>4 DEF RunType
<1>4. CASE Pull
  <2>1. lock' \in Runs \cup {Nobody} /\ at' \in [Runs -> Places]
    BY <1>4 DEF Pull, run, Go, InTx, Concludes, Abandon, RunType, Places, End, Leave
  <2>2. faults' \in 0 .. MaxFaults
    BY <1>4, UpdateAssumption DEF Pull, run, Fault, NoFault, RunType, End
  <2>3. todo' \subseteq Kinds /\ result' \in [Kinds -> Words]
    BY <1>4, <1>0 DEF Pull, run, InTx, Among, InFlight, Concludes, Abandon, RunType, Words, End, Offered
  <2>4. displaced' \in [refs : SUBSET Image, snaps : SUBSET Snapshots']
    BY <1>4, <1>g DEF Pull, run, RunType, End, NoneDisplaced
  <2>. QED  BY <2>1, <2>2, <2>3, <2>4 DEF RunType
<1>5. CASE Stop
  <2>1. lock' \in Runs \cup {Nobody} /\ at' \in [Runs -> Places]
    BY <1>5 DEF Stop, run, Go, InTx, Concludes, Abandon, RunType, Places, End, Leave
  <2>2. faults' \in 0 .. MaxFaults
    BY <1>5, UpdateAssumption DEF Stop, run, Fault, NoFault, RunType, End
  <2>3. todo' \subseteq Kinds /\ result' \in [Kinds -> Words]
    BY <1>5, <1>0 DEF Stop, run, InTx, Among, InFlight, Concludes, Abandon, RunType, Words, End, Offered
  <2>4. displaced' \in [refs : SUBSET Image, snaps : SUBSET Snapshots']
    BY <1>5, <1>g DEF Stop, run, RunType, End, NoneDisplaced
  <2>. QED  BY <2>1, <2>2, <2>3, <2>4 DEF RunType
<1>6. CASE Snapshot
  <2>1. lock' \in Runs \cup {Nobody} /\ at' \in [Runs -> Places]
    BY <1>6 DEF Snapshot, run, Go, InTx, Concludes, Abandon, RunType, Places, End, Leave
  <2>2. faults' \in 0 .. MaxFaults
    BY <1>6, UpdateAssumption DEF Snapshot, run, Fault, NoFault, RunType, End
  <2>3. todo' \subseteq Kinds /\ result' \in [Kinds -> Words]
    BY <1>6, <1>0
    DEF Snapshot, run, InTx, Among, InFlight, Concludes, Abandon, RunType, Words, End, Offered
  <2>4. displaced' \in [refs : SUBSET Image, snaps : SUBSET Snapshots']
    BY <1>6, <1>g DEF Snapshot, run, RunType, End, NoneDisplaced
  <2>. QED  BY <2>1, <2>2, <2>3, <2>4 DEF RunType
<1>7. CASE Reopen
  <2>1. lock' \in Runs \cup {Nobody} /\ at' \in [Runs -> Places]
    BY <1>7 DEF Reopen, run, Go, InTx, Concludes, Abandon, RunType, Places, End, Leave
  <2>2. faults' \in 0 .. MaxFaults
    BY <1>7, UpdateAssumption DEF Reopen, run, Fault, NoFault, RunType, End
  <2>3. todo' \subseteq Kinds /\ result' \in [Kinds -> Words]
    BY <1>7, <1>0
    DEF Reopen, run, InTx, Among, InFlight, Concludes, Abandon, RunType, Words, End, Offered
  <2>4. displaced' \in [refs : SUBSET Image, snaps : SUBSET Snapshots']
    BY <1>7, <1>g DEF Reopen, run, RunType, End, NoneDisplaced
  <2>. QED  BY <2>1, <2>2, <2>3, <2>4 DEF RunType
<1>8. CASE WritePins
  <2>1. lock' \in Runs \cup {Nobody} /\ at' \in [Runs -> Places]
    BY <1>8 DEF WritePins, run, Go, InTx, Concludes, Abandon, RunType, Places, End, Leave
  <2>2. faults' \in 0 .. MaxFaults
    BY <1>8, UpdateAssumption DEF WritePins, run, Fault, NoFault, RunType, End
  <2>3. todo' \subseteq Kinds /\ result' \in [Kinds -> Words]
    BY <1>8, <1>0
    DEF WritePins, run, InTx, Among, InFlight, Concludes, Abandon, RunType, Words, End, Offered
  <2>4. displaced' \in [refs : SUBSET Image, snaps : SUBSET Snapshots']
    BY <1>8, <1>g DEF WritePins, run, RunType, End, NoneDisplaced
  <2>. QED  BY <2>1, <2>2, <2>3, <2>4 DEF RunType
<1>9. CASE Apply
  <2>1. lock' \in Runs \cup {Nobody} /\ at' \in [Runs -> Places]
    BY <1>9 DEF Apply, run, Go, InTx, Concludes, Abandon, RunType, Places, End, Leave
  <2>2. faults' \in 0 .. MaxFaults
    BY <1>9, UpdateAssumption DEF Apply, run, Fault, NoFault, RunType, End
  <2>3. todo' \subseteq Kinds /\ result' \in [Kinds -> Words]
    BY <1>9, <1>0
    DEF Apply, run, InTx, Among, InFlight, Concludes, Abandon, RunType, Words, End, Offered
  <2>4. displaced' \in [refs : SUBSET Image, snaps : SUBSET Snapshots']
    BY <1>9, <1>g DEF Apply, run, RunType, End, NoneDisplaced
  <2>. QED  BY <2>1, <2>2, <2>3, <2>4 DEF RunType
<1>10. CASE Restart
  <2>1. lock' \in Runs \cup {Nobody} /\ at' \in [Runs -> Places]
    BY <1>10 DEF Restart, run, Go, InTx, Concludes, Abandon, RunType, Places, End, Leave
  <2>2. faults' \in 0 .. MaxFaults
    <3>1. faults' = faults \/ (faults < MaxFaults /\ faults' = faults + 1)
      BY <1>10, Zenon DEF Restart, Fault, NoFault
    <3>. QED  BY <3>1, UpdateAssumption DEF RunType
  <2>3. todo' \subseteq Kinds /\ result' \in [Kinds -> Words]
    BY <1>10, <1>0
    DEF Restart, run, InTx, Among, InFlight, Concludes, Abandon, RunType, Words, End, Offered
  <2>4. displaced' \in [refs : SUBSET Image, snaps : SUBSET Snapshots']
    BY <1>10, <1>g DEF Restart, run, RunType, End, NoneDisplaced
  <2>. QED  BY <2>1, <2>2, <2>3, <2>4 DEF RunType
<1>11. CASE StartNew
  <2>1. lock' \in Runs \cup {Nobody} /\ at' \in [Runs -> Places]
    BY <1>11 DEF StartNew, run, Go, InTx, Concludes, Abandon, RunType, Places, End, Leave
  <2>2. faults' \in 0 .. MaxFaults
    BY <1>11, UpdateAssumption DEF StartNew, run, Fault, NoFault, RunType, End
  <2>3. todo' \subseteq Kinds /\ result' \in [Kinds -> Words]
    BY <1>11, <1>0
    DEF StartNew, run, InTx, Among, InFlight, Concludes, Abandon, RunType, Words, End, Offered
  <2>4. displaced' \in [refs : SUBSET Image, snaps : SUBSET Snapshots']
    BY <1>11, <1>g DEF StartNew, run, RunType, End, NoneDisplaced
  <2>. QED  BY <2>1, <2>2, <2>3, <2>4 DEF RunType
<1>12. CASE ProveNew
  <2>1. lock' \in Runs \cup {Nobody} /\ at' \in [Runs -> Places]
    BY <1>12 DEF ProveNew, run, Go, InTx, Concludes, Abandon, RunType, Places, End, Leave
  <2>2. faults' \in 0 .. MaxFaults
    BY <1>12, UpdateAssumption DEF ProveNew, run, Fault, NoFault, RunType, End
  <2>3. todo' \subseteq Kinds /\ result' \in [Kinds -> Words]
    BY <1>12, <1>0
    DEF ProveNew, run, InTx, Among, InFlight, Concludes, Abandon, RunType, Words, End, Offered
  <2>4. displaced' \in [refs : SUBSET Image, snaps : SUBSET Snapshots']
    BY <1>12, <1>g DEF ProveNew, run, RunType, End, NoneDisplaced
  <2>. QED  BY <2>1, <2>2, <2>3, <2>4 DEF RunType
<1>13. CASE Commit
  <2>1. lock' \in Runs \cup {Nobody} /\ at' \in [Runs -> Places]
    BY <1>13 DEF Commit, run, Go, InTx, Concludes, Abandon, RunType, Places, End, Leave
  <2>2. faults' \in 0 .. MaxFaults
    BY <1>13, UpdateAssumption DEF Commit, run, Fault, NoFault, RunType, End
  <2>3. todo' \subseteq Kinds /\ result' \in [Kinds -> Words]
    BY <1>13, <1>0
    DEF Commit, run, InTx, Among, InFlight, Concludes, Abandon, RunType, Words, End, Offered
  <2>4. displaced' \in [refs : SUBSET Image, snaps : SUBSET Snapshots']
    <3>1. tx.ref \in Image /\ tx.prior \in Snapshots \cup {NoTuple}
      BY <1>13 DEF Commit, InTx, Among, InFlight, Captured, TupleHeld, TxPlaced, TxPaths, TxType, Tuples
    <3>. QED  BY <1>13, <1>g, <3>1 DEF Commit, RunType
  <2>. QED  BY <2>1, <2>2, <2>3, <2>4 DEF RunType
<1>14. CASE RbStop
  <2>1. lock' \in Runs \cup {Nobody} /\ at' \in [Runs -> Places]
    BY <1>14 DEF RbStop, run, Go, InTx, Concludes, Abandon, RunType, Places, End, Leave
  <2>2. faults' \in 0 .. MaxFaults
    BY <1>14, UpdateAssumption DEF RbStop, run, Fault, NoFault, RunType, End
  <2>3. todo' \subseteq Kinds /\ result' \in [Kinds -> Words]
    BY <1>14, <1>0
    DEF RbStop, run, InTx, Among, InFlight, Concludes, Abandon, RunType, Words, End, Offered
  <2>4. displaced' \in [refs : SUBSET Image, snaps : SUBSET Snapshots']
    BY <1>14, <1>g DEF RbStop, run, RunType, End, NoneDisplaced
  <2>. QED  BY <2>1, <2>2, <2>3, <2>4 DEF RunType
<1>15. CASE RbData
  <2>1. lock' \in Runs \cup {Nobody} /\ at' \in [Runs -> Places]
    BY <1>15 DEF RbData, run, Go, InTx, Concludes, Abandon, RunType, Places, End, Leave
  <2>2. faults' \in 0 .. MaxFaults
    BY <1>15, UpdateAssumption DEF RbData, run, Fault, NoFault, RunType, End
  <2>3. todo' \subseteq Kinds /\ result' \in [Kinds -> Words]
    BY <1>15, <1>0
    DEF RbData, run, InTx, Among, InFlight, Concludes, Abandon, RunType, Words, End, Offered
  <2>4. displaced' \in [refs : SUBSET Image, snaps : SUBSET Snapshots']
    BY <1>15, <1>g DEF RbData, run, RunType, End, NoneDisplaced
  <2>. QED  BY <2>1, <2>2, <2>3, <2>4 DEF RunType
<1>16. CASE RbPins
  <2>1. lock' \in Runs \cup {Nobody} /\ at' \in [Runs -> Places]
    BY <1>16 DEF RbPins, run, Go, InTx, Concludes, Abandon, RunType, Places, End, Leave
  <2>2. faults' \in 0 .. MaxFaults
    BY <1>16, UpdateAssumption DEF RbPins, run, Fault, NoFault, RunType, End
  <2>3. todo' \subseteq Kinds /\ result' \in [Kinds -> Words]
    BY <1>16, <1>0
    DEF RbPins, run, InTx, Among, InFlight, Concludes, Abandon, RunType, Words, End, Offered
  <2>4. displaced' \in [refs : SUBSET Image, snaps : SUBSET Snapshots']
    BY <1>16, <1>g DEF RbPins, run, RunType, End, NoneDisplaced
  <2>. QED  BY <2>1, <2>2, <2>3, <2>4 DEF RunType
<1>17. CASE RbUnits
  <2>1. lock' \in Runs \cup {Nobody} /\ at' \in [Runs -> Places]
    BY <1>17 DEF RbUnits, run, Go, InTx, Concludes, Abandon, RunType, Places, End, Leave
  <2>2. faults' \in 0 .. MaxFaults
    BY <1>17, UpdateAssumption DEF RbUnits, run, Fault, NoFault, RunType, End
  <2>3. todo' \subseteq Kinds /\ result' \in [Kinds -> Words]
    BY <1>17, <1>0
    DEF RbUnits, run, InTx, Among, InFlight, Concludes, Abandon, RunType, Words, End, Offered
  <2>4. displaced' \in [refs : SUBSET Image, snaps : SUBSET Snapshots']
    BY <1>17, <1>g DEF RbUnits, run, RunType, End, NoneDisplaced
  <2>. QED  BY <2>1, <2>2, <2>3, <2>4 DEF RunType
<1>18. CASE RbRestart
  <2>1. lock' \in Runs \cup {Nobody} /\ at' \in [Runs -> Places]
    BY <1>18 DEF RbRestart, run, Go, InTx, Concludes, Abandon, RunType, Places, End, Leave
  <2>2. faults' \in 0 .. MaxFaults
    <3>1. faults' = faults \/ (faults < MaxFaults /\ faults' = faults + 1)
      BY <1>18, Zenon DEF RbRestart, Fault, NoFault
    <3>. QED  BY <3>1, UpdateAssumption DEF RunType
  <2>3. todo' \subseteq Kinds /\ result' \in [Kinds -> Words]
    BY <1>18, <1>0
    DEF RbRestart, run, InTx, Among, InFlight, Concludes, Abandon, RunType, Words, End, Offered
  <2>4. displaced' \in [refs : SUBSET Image, snaps : SUBSET Snapshots']
    BY <1>18, <1>g DEF RbRestart, run, RunType, End, NoneDisplaced
  <2>. QED  BY <2>1, <2>2, <2>3, <2>4 DEF RunType
<1>19. CASE RbStart
  <2>1. lock' \in Runs \cup {Nobody} /\ at' \in [Runs -> Places]
    BY <1>19 DEF RbStart, run, Go, InTx, Concludes, Abandon, RunType, Places, End, Leave
  <2>2. faults' \in 0 .. MaxFaults
    BY <1>19, UpdateAssumption DEF RbStart, run, Fault, NoFault, RunType, End
  <2>3. todo' \subseteq Kinds /\ result' \in [Kinds -> Words]
    BY <1>19, <1>0
    DEF RbStart, run, InTx, Among, InFlight, Concludes, Abandon, RunType, Words, End, Offered
  <2>4. displaced' \in [refs : SUBSET Image, snaps : SUBSET Snapshots']
    BY <1>19, <1>g DEF RbStart, run, RunType, End, NoneDisplaced
  <2>. QED  BY <2>1, <2>2, <2>3, <2>4 DEF RunType
<1>20. CASE RbProve
  <2>1. lock' \in Runs \cup {Nobody} /\ at' \in [Runs -> Places]
    BY <1>20 DEF RbProve, run, Go, InTx, Concludes, Abandon, RunType, Places, End, Leave
  <2>2. faults' \in 0 .. MaxFaults
    BY <1>20, UpdateAssumption DEF RbProve, run, Fault, NoFault, RunType, End
  <2>3. todo' \subseteq Kinds /\ result' \in [Kinds -> Words]
    BY <1>20, <1>0
    DEF RbProve, run, InTx, Among, InFlight, Concludes, Abandon, RunType, Words, End, Offered
  <2>4. displaced' \in [refs : SUBSET Image, snaps : SUBSET Snapshots']
    BY <1>20, <1>g DEF RbProve, run, RunType, End, NoneDisplaced
  <2>. QED  BY <2>1, <2>2, <2>3, <2>4 DEF RunType
<1>21. CASE RbAbandon
  <2>1. lock' \in Runs \cup {Nobody} /\ at' \in [Runs -> Places]
    BY <1>21 DEF RbAbandon, run, Go, InTx, Concludes, Abandon, RunType, Places, End, Leave
  <2>2. faults' \in 0 .. MaxFaults
    BY <1>21, UpdateAssumption DEF RbAbandon, run, Fault, NoFault, RunType, End
  <2>3. todo' \subseteq Kinds /\ result' \in [Kinds -> Words]
    BY <1>21, <1>0
    DEF RbAbandon, run, InTx, Among, InFlight, Concludes, Abandon, RunType, Words, End, Offered
  <2>4. displaced' \in [refs : SUBSET Image, snaps : SUBSET Snapshots']
    BY <1>21, <1>g DEF RbAbandon, run, RunType, End, NoneDisplaced
  <2>. QED  BY <2>1, <2>2, <2>3, <2>4 DEF RunType
<1>22. CASE Finish
  <2>1. lock' \in Runs \cup {Nobody} /\ at' \in [Runs -> Places]
    BY <1>22 DEF Finish, run, Go, InTx, Concludes, Abandon, RunType, Places, End, Leave
  <2>2. faults' \in 0 .. MaxFaults
    BY <1>22, UpdateAssumption DEF Finish, run, Fault, NoFault, RunType, End
  <2>3. todo' \subseteq Kinds /\ result' \in [Kinds -> Words]
    BY <1>22, <1>0
    DEF Finish, run, InTx, Among, InFlight, Concludes, Abandon, RunType, Words, End, Offered
  <2>4. displaced' \in [refs : SUBSET Image, snaps : SUBSET Snapshots']
    BY <1>22, <1>g DEF Finish, run, RunType, End, NoneDisplaced
  <2>. QED  BY <2>1, <2>2, <2>3, <2>4 DEF RunType
<1>23. CASE Prune
  <2>1. lock' \in Runs \cup {Nobody} /\ at' \in [Runs -> Places]
    BY <1>23 DEF Prune, run, Go, InTx, Concludes, Abandon, RunType, Places, End, Leave
  <2>2. faults' \in 0 .. MaxFaults
    BY <1>23, UpdateAssumption DEF Prune, run, Fault, NoFault, RunType, End
  <2>3. todo' \subseteq Kinds /\ result' \in [Kinds -> Words]
    BY <1>23, <1>0
    DEF Prune, run, InTx, Among, InFlight, Concludes, Abandon, RunType, Words, End, Offered
  <2>4. displaced' \in [refs : SUBSET Image, snaps : SUBSET Snapshots']
    BY <1>23, <1>g DEF Prune, run, RunType, End, NoneDisplaced
  <2>. QED  BY <2>1, <2>2, <2>3, <2>4 DEF RunType
<1>24. CASE SnapshotCleanup
  <2>1. lock' \in Runs \cup {Nobody} /\ at' \in [Runs -> Places]
    BY <1>24 DEF SnapshotCleanup, run, Go, InTx, Concludes, Abandon, RunType, Places, End, Leave
  <2>2. faults' \in 0 .. MaxFaults
    BY <1>24, UpdateAssumption DEF SnapshotCleanup, run, Fault, NoFault, RunType, End
  <2>3. todo' \subseteq Kinds /\ result' \in [Kinds -> Words]
    BY <1>24, <1>0
    DEF SnapshotCleanup, run, InTx, Among, InFlight, Concludes, Abandon, RunType, Words, End, Offered
  <2>4. displaced' \in [refs : SUBSET Image, snaps : SUBSET Snapshots']
    BY <1>24, <1>g DEF SnapshotCleanup, run, RunType, End, NoneDisplaced
  <2>. QED  BY <2>1, <2>2, <2>3, <2>4 DEF RunType
<1>25. CASE Release
  <2>1. lock' \in Runs \cup {Nobody} /\ at' \in [Runs -> Places]
    BY <1>25 DEF Release, run, Go, InTx, Concludes, Abandon, RunType, Places, End, Leave
  <2>2. faults' \in 0 .. MaxFaults
    BY <1>25, UpdateAssumption DEF Release, run, Fault, NoFault, RunType, End
  <2>3. todo' \subseteq Kinds /\ result' \in [Kinds -> Words]
    BY <1>25, <1>0
    DEF Release, run, InTx, Among, InFlight, Concludes, Abandon, RunType, Words, End, Offered
  <2>4. displaced' \in [refs : SUBSET Image, snaps : SUBSET Snapshots']
    BY <1>25, <1>g DEF Release, run, RunType, End, NoneDisplaced
  <2>. QED  BY <2>1, <2>2, <2>3, <2>4 DEF RunType
<1>26. CASE Crash
  <2>1. lock' \in Runs \cup {Nobody} /\ at' \in [Runs -> Places]
    BY <1>26 DEF Crash, run, Go, InTx, Concludes, Abandon, RunType, Places, End, Leave
  <2>2. faults' \in 0 .. MaxFaults
    BY <1>26, UpdateAssumption DEF Crash, run, Fault, NoFault, RunType, End
  <2>3. todo' \subseteq Kinds /\ result' \in [Kinds -> Words]
    BY <1>26, <1>0
    DEF Crash, run, InTx, Among, InFlight, Concludes, Abandon, RunType, Words, End, Offered
  <2>4. displaced' \in [refs : SUBSET Image, snaps : SUBSET Snapshots']
    BY <1>26, <1>g DEF Crash, run, RunType, End, NoneDisplaced
  <2>. QED  BY <2>1, <2>2, <2>3, <2>4 DEF RunType
<1>27. ASSUME NEW r \in Runs, Load(r) PROVE RunType'
  <2>1. lock' \in Runs \cup {Nobody} /\ at' \in [Runs -> Places]
    BY <1>27 DEF Load, run, Go, InTx, Concludes, Abandon, RunType, Places, End, Leave
  <2>2. faults' \in 0 .. MaxFaults
    BY <1>27, UpdateAssumption DEF Load, run, Fault, NoFault, RunType, End
  <2>3. todo' \subseteq Kinds /\ result' \in [Kinds -> Words]
    BY <1>27, <1>0
    DEF Load, run, InTx, Among, InFlight, Concludes, Abandon, RunType, Words, End, Offered
  <2>4. displaced' \in [refs : SUBSET Image, snaps : SUBSET Snapshots']
    BY <1>27, <1>g DEF Load, run, RunType, End, NoneDisplaced
  <2>. QED  BY <2>1, <2>2, <2>3, <2>4 DEF RunType
<1>28. ASSUME NEW r \in Runs, Fetch(r) PROVE RunType'
  <2>1. lock' \in Runs \cup {Nobody} /\ at' \in [Runs -> Places]
    BY <1>28 DEF Fetch, run, Go, InTx, Concludes, Abandon, RunType, Places, End, Leave
  <2>2. faults' \in 0 .. MaxFaults
    BY <1>28, UpdateAssumption DEF Fetch, run, Fault, NoFault, RunType, End
  <2>3. todo' \subseteq Kinds /\ result' \in [Kinds -> Words]
    BY <1>28, <1>0
    DEF Fetch, run, InTx, Among, InFlight, Concludes, Abandon, RunType, Words, End, Offered
  <2>4. displaced' \in [refs : SUBSET Image, snaps : SUBSET Snapshots']
    BY <1>28, <1>g DEF Fetch, run, RunType, End, NoneDisplaced
  <2>. QED  BY <2>1, <2>2, <2>3, <2>4 DEF RunType
<1>29. ASSUME NEW r \in Runs, Save(r) PROVE RunType'
  <2>1. lock' \in Runs \cup {Nobody} /\ at' \in [Runs -> Places]
    BY <1>29 DEF Save, run, Go, InTx, Concludes, Abandon, RunType, Places, End, Leave
  <2>2. faults' \in 0 .. MaxFaults
    BY <1>29, UpdateAssumption DEF Save, run, Fault, NoFault, RunType, End
  <2>3. todo' \subseteq Kinds /\ result' \in [Kinds -> Words]
    BY <1>29, <1>0
    DEF Save, run, InTx, Among, InFlight, Concludes, Abandon, RunType, Words, End, Offered
  <2>4. displaced' \in [refs : SUBSET Image, snaps : SUBSET Snapshots']
    BY <1>29, <1>g DEF Save, run, RunType, End, NoneDisplaced
  <2>. QED  BY <2>1, <2>2, <2>3, <2>4 DEF RunType
<1>30. ASSUME NEW r \in Runs, Decide(r) PROVE RunType'
  <2>1. lock' \in Runs \cup {Nobody} /\ at' \in [Runs -> Places]
    BY <1>30 DEF Decide, run, Go, InTx, Concludes, Abandon, RunType, Places, End, Leave
  <2>2. faults' \in 0 .. MaxFaults
    BY <1>30, UpdateAssumption DEF Decide, run, Fault, NoFault, RunType, End
  <2>3. todo' \subseteq Kinds /\ result' \in [Kinds -> Words]
    BY <1>30, <1>0
    DEF Decide, run, InTx, Among, InFlight, Concludes, Abandon, RunType, Words, End, Offered
  <2>4. displaced' \in [refs : SUBSET Image, snaps : SUBSET Snapshots']
    BY <1>30, <1>g DEF Decide, run, RunType, End, NoneDisplaced
  <2>. QED  BY <2>1, <2>2, <2>3, <2>4 DEF RunType
<1>31. ASSUME NEW r \in Runs, Acquire(r) PROVE RunType'
  <2>1. lock' \in Runs \cup {Nobody} /\ at' \in [Runs -> Places]
    BY <1>31 DEF Acquire, run, Go, InTx, Concludes, Abandon, RunType, Places, End, Leave
  <2>2. faults' \in 0 .. MaxFaults
    BY <1>31, UpdateAssumption DEF Acquire, run, Fault, NoFault, RunType, End
  <2>3. todo' \subseteq Kinds /\ result' \in [Kinds -> Words]
    BY <1>31, <1>0
    DEF Acquire, run, InTx, Among, InFlight, Concludes, Abandon, RunType, Words, End, Offered
  <2>4. displaced' \in [refs : SUBSET Image, snaps : SUBSET Snapshots']
    BY <1>31, <1>g DEF Acquire, run, RunType, End, NoneDisplaced
  <2>. QED  BY <2>1, <2>2, <2>3, <2>4 DEF RunType
<1>. QED  BY <1>1, <1>2, <1>3, <1>4, <1>5, <1>6, <1>7, <1>8, <1>9, <1>10, <1>11, <1>12, <1>13,
         <1>14, <1>15, <1>16, <1>17, <1>18, <1>19, <1>20, <1>21, <1>22, <1>23, <1>24, <1>25, <1>26,
         <1>27, <1>28, <1>29, <1>30, <1>31 DEF Next, Forward, Rollback, Ending, Check

\* The record of the update in flight stays a tuple.
LEMMA TxStep ==
  ASSUME TypeOK, Held, TupleHeld, Next
  PROVE  TxType'
<1>. USE DEF TypeOK
<1>0. Among(InFlight) => This \in todo /\ This \in Kinds
  BY ThisIsToDo DEF RunType, Held
<1>g. Tuples \subseteq Tuples'
  BY ExportsStep, TypesGrow DEF DiskType
<1>s. NoTuple \notin Snapshots
  BY NotASnapshot DEF DiskType
<1>1. CASE ProveCurrent \/ Pull \/ Stop \/ Reopen \/ WritePins \/ StartNew \/ ProveNew \/ RbStop \/ RbData \/ RbPins \/
            RbStart \/ RbProve \/ RbAbandon \/ Finish \/ Prune \/ Upgrade \/ Publish
  BY <1>1, <1>g DEF ProveCurrent, Pull, Stop, Reopen, WritePins, StartNew, ProveNew, RbStop,
         RbData, RbPins, RbStart, RbProve, RbAbandon, Finish, Prune, Upgrade, Publish, host, stack,
         disk, run, history, TxType
<1>2. CASE Capture
  <2>1. This \in Kinds
    BY <1>2, <1>0 DEF Capture, InTx, Among, InFlight
  <2>2. CASE tx' = CaptureOf(store) \/ tx' = CaptureOf(Fresh)
    <3>1. tx' \in Tuples /\ tx'.snap = NoTuple
      BY <2>1, <2>2, CaptureOfIs, FreshIs DEF StoreType
    <3>. QED  BY <1>g, <3>1 DEF TxType
  <2>3. CASE tx' = tx
    BY <1>2, <2>3, <1>g DEF Capture, disk, TxType
  <2>. QED  BY <1>2, <2>2, <2>3 DEF Capture
<1>3. CASE Snapshot
  <2>1. This \in Stateful
    BY <1>3 DEF Snapshot, InTx, Among, TupleHeld, TxPlaced, TxPaths
  <2>2. CASE UNCHANGED <<snaps, tx>>
    BY <1>g, <2>2 DEF TxType
  <2>3. CASE /\ exports' = exports + 1 /\ tx' = Exported(SnapshotPath(This))
             /\ DOMAIN snaps' = DOMAIN snaps \cup {SnapshotPath(This)}
    <3>1. SnapshotPath(This) \in Snapshots'
      BY <2>1, <2>3 DEF SnapshotPath, Snapshots, DiskType
    <3>2. tx \in Tuples'
      BY <1>g DEF TxType
    <3>3. Exported(SnapshotPath(This)) \in Tuples' /\ Exported(SnapshotPath(This)).snap = SnapshotPath(This)
      BY <3>1, <3>2 DEF Exported, Tuples
    <3>. QED  BY <2>3, <3>3 DEF TxType
  <2>. QED  BY <1>3, <2>2, <2>3 DEF Snapshot
<1>4. CASE Apply
  <2>1. This \in Kinds
    BY <1>4, <1>0 DEF Apply, InTx, Among, InFlight
  <2>2. ASSUME NEW S \in SUBSET Kinds, tx' = Leaving(S) PROVE tx' \in Tuples /\ tx'.snap = tx.snap
    BY <2>2, LeavingIs DEF TxType
  <2>3. {This} \cup {k \in Changed : running[k] # Down} \in SUBSET Kinds
    BY <2>1 DEF Changed
  <2>4. UNCHANGED snaps /\ (tx' = tx \/ (tx' \in Tuples /\ tx'.snap = tx.snap))
    BY <1>4, <2>2, <2>3 DEF Apply, disk
  <2>. QED  BY <1>g, <2>4 DEF TxType
<1>5. CASE Restart
  <2>1. tx.left \in SUBSET Kinds
    BY DEF TxType, Tuples
  <2>2. ASSUME NEW k \in Kinds, tx' = Trying(k) PROVE tx' \in Tuples /\ tx'.snap = tx.snap
    BY <2>2, TryingIs DEF TxType
  <2>3. UNCHANGED snaps /\ (tx' = tx \/ (tx' \in Tuples /\ tx'.snap = tx.snap))
    BY <1>5, <2>1, <2>2 DEF Restart
  <2>. QED  BY <1>g, <2>3 DEF TxType
<1>6. CASE Commit
  <2>1. tx' = NoTx
    BY <1>6 DEF Commit, End
  <2>. QED  BY <1>g, <2>1, NoTxIs DEF TxType
<1>7. CASE RbUnits
  <2>2. tx.touched \in SUBSET Kinds
    BY DEF TxType, Tuples
  <2>3. UNCHANGED snaps /\ (tx' = tx \/ (tx' \in Tuples /\ tx'.snap = tx.snap))
    BY <1>7, <2>2, LeavingIs DEF RbUnits, disk, TxType
  <2>. QED  BY <1>g, <2>3 DEF TxType
<1>8. CASE RbRestart
  <2>1. tx.left \in SUBSET Kinds
    BY DEF TxType, Tuples
  <2>2. ASSUME NEW k \in Kinds, tx' = Leaving(tx.left \ {k}) PROVE tx' \in Tuples /\ tx'.snap = tx.snap
    BY <2>1, <2>2, LeavingIs DEF TxType
  <2>3. UNCHANGED snaps /\ (tx' = tx \/ (tx' \in Tuples /\ tx'.snap = tx.snap))
    BY <1>8, <2>1, <2>2 DEF RbRestart
  <2>. QED  BY <1>g, <2>3 DEF TxType
<1>9. CASE SnapshotCleanup
  <2>1. tx.snap # NoTuple => tx.snap \notin Reclaimed
    BY <1>9 DEF SnapshotCleanup, InTx, Reclaimed, TupleHeld, TxPlaced, TxPaths
  <2>2. DOMAIN snaps \ Reclaimed \subseteq DOMAIN snaps'
    BY <1>9 DEF SnapshotCleanup
  <2>3. tx' = tx
    BY <1>9 DEF SnapshotCleanup, run
  <2>. QED  BY <1>g, <2>1, <2>2, <2>3 DEF TxType
<1>10. CASE Release
  <2>1. tx' = NoTx
    BY <1>10 DEF Release, End
  <2>. QED  BY <1>g, <2>1, NoTxIs DEF TxType
<1>11. CASE Crash
  <2>1. tx' = NoTx
    BY <1>11 DEF Crash, End
  <2>. QED  BY <1>g, <2>1, NoTxIs DEF TxType
<1>12. ASSUME NEW r \in Runs, Load(r) \/ Fetch(r) \/ Save(r) \/ Decide(r) PROVE TxType'
  BY <1>12, <1>g DEF Load, Fetch, Save, Decide, host, stack, disk, run, history, TxType
<1>13. ASSUME NEW r \in Runs, Acquire(r) PROVE TxType'
  <2>1. tx' = NoTx
    BY <1>13 DEF Acquire, End
  <2>. QED  BY <1>g, <2>1, NoTxIs DEF TxType
<1>. QED
  BY <1>1, <1>2, <1>3, <1>4, <1>5, <1>6, <1>7, <1>8, <1>9, <1>10, <1>11, <1>12, <1>13
  DEF Next, Forward, Rollback, Ending, Check

----------------------------------------------------------------------------
(* One run is past the lock.                                               *)

\* One run is past the lock: each step keeps Held.
LEMMA HeldStep ==
  ASSUME TypeOK, Held, Next
  PROVE  Held'
<1>. USE DEF TypeOK
<1>0. Among(InFlight) => This \in todo /\ This \in Kinds
  BY ThisIsToDo DEF RunType, Held
<1>1. CASE Upgrade \/ Publish
  BY <1>1 DEF Upgrade, Publish, host, stack, disk, run, history, Held, Among, InFlight
<1>2. CASE ProveCurrent
  <2>1. lock # Nobody /\ lock' = lock
    BY <1>2 DEF ProveCurrent, InTx, disk
  <2>2. (\A r \in Runs : r # lock => at'[r] \in Free) /\ at'[lock] \notin Free
    BY <1>2, <2>1 DEF ProveCurrent, run, Go, InTx, Concludes, Abandon, RunType, Held, Free
  <2>3. Among(InFlight)' => todo' # {} /\ \A k \in todo' : result'[k] = "not_tried"
    BY <1>2, <2>1, <1>0
    DEF ProveCurrent, run, Go, InTx, Concludes, Abandon, RunType, Held, Among, InFlight
  <2>. QED  BY <2>1, <2>2, <2>3 DEF Held
<1>3. CASE Capture
  <2>1. lock # Nobody /\ lock' = lock
    BY <1>3 DEF Capture, InTx, disk
  <2>2. (\A r \in Runs : r # lock => at'[r] \in Free) /\ at'[lock] \notin Free
    BY <1>3, <2>1 DEF Capture, run, Go, InTx, Concludes, Abandon, RunType, Held, Free
  <2>3. Among(InFlight)' => todo' # {} /\ \A k \in todo' : result'[k] = "not_tried"
    BY <1>3, <2>1, <1>0 DEF Capture, run, Go, InTx, Concludes, Abandon, RunType, Held, Among, InFlight
  <2>. QED  BY <2>1, <2>2, <2>3 DEF Held
<1>4. CASE Pull
  <2>1. lock # Nobody /\ lock' = lock
    BY <1>4 DEF Pull, InTx, disk
  <2>2. (\A r \in Runs : r # lock => at'[r] \in Free) /\ at'[lock] \notin Free
    BY <1>4, <2>1 DEF Pull, run, Go, InTx, Concludes, Abandon, RunType, Held, Free
  <2>3. Among(InFlight)' => todo' # {} /\ \A k \in todo' : result'[k] = "not_tried"
    BY <1>4, <2>1, <1>0 DEF Pull, run, Go, InTx, Concludes, Abandon, RunType, Held, Among, InFlight
  <2>. QED  BY <2>1, <2>2, <2>3 DEF Held
<1>5. CASE Stop
  <2>1. lock # Nobody /\ lock' = lock
    BY <1>5 DEF Stop, InTx, disk
  <2>2. (\A r \in Runs : r # lock => at'[r] \in Free) /\ at'[lock] \notin Free
    BY <1>5, <2>1 DEF Stop, run, Go, InTx, Concludes, Abandon, RunType, Held, Free
  <2>3. Among(InFlight)' => todo' # {} /\ \A k \in todo' : result'[k] = "not_tried"
    BY <1>5, <2>1, <1>0 DEF Stop, run, Go, InTx, Concludes, Abandon, RunType, Held, Among, InFlight
  <2>. QED  BY <2>1, <2>2, <2>3 DEF Held
<1>6. CASE Snapshot
  <2>1. lock # Nobody /\ lock' = lock
    BY <1>6 DEF Snapshot, InTx, disk
  <2>2. (\A r \in Runs : r # lock => at'[r] \in Free) /\ at'[lock] \notin Free
    BY <1>6, <2>1 DEF Snapshot, run, Go, InTx, Concludes, Abandon, RunType, Held, Free
  <2>3. Among(InFlight)' => todo' # {} /\ \A k \in todo' : result'[k] = "not_tried"
    BY <1>6, <2>1, <1>0 DEF Snapshot, run, Go, InTx, Concludes, Abandon, RunType, Held, Among, InFlight
  <2>. QED  BY <2>1, <2>2, <2>3 DEF Held
<1>7. CASE Reopen
  <2>1. lock # Nobody /\ lock' = lock
    BY <1>7 DEF Reopen, InTx, disk
  <2>2. (\A r \in Runs : r # lock => at'[r] \in Free) /\ at'[lock] \notin Free
    BY <1>7, <2>1 DEF Reopen, run, Go, InTx, Concludes, Abandon, RunType, Held, Free
  <2>3. Among(InFlight)' => todo' # {} /\ \A k \in todo' : result'[k] = "not_tried"
    BY <1>7, <2>1, <1>0 DEF Reopen, run, Go, InTx, Concludes, Abandon, RunType, Held, Among, InFlight
  <2>. QED  BY <2>1, <2>2, <2>3 DEF Held
<1>8. CASE WritePins
  <2>1. lock # Nobody /\ lock' = lock
    BY <1>8 DEF WritePins, InTx, disk
  <2>2. (\A r \in Runs : r # lock => at'[r] \in Free) /\ at'[lock] \notin Free
    BY <1>8, <2>1 DEF WritePins, run, Go, InTx, Concludes, Abandon, RunType, Held, Free
  <2>3. Among(InFlight)' => todo' # {} /\ \A k \in todo' : result'[k] = "not_tried"
    BY <1>8, <2>1, <1>0 DEF WritePins, run, Go, InTx, Concludes, Abandon, RunType, Held, Among, InFlight
  <2>. QED  BY <2>1, <2>2, <2>3 DEF Held
<1>9. CASE Apply
  <2>1. lock # Nobody /\ lock' = lock
    BY <1>9 DEF Apply, InTx, disk
  <2>2. (\A r \in Runs : r # lock => at'[r] \in Free) /\ at'[lock] \notin Free
    BY <1>9, <2>1 DEF Apply, run, Go, InTx, Concludes, Abandon, RunType, Held, Free
  <2>3. Among(InFlight)' => todo' # {} /\ \A k \in todo' : result'[k] = "not_tried"
    BY <1>9, <2>1, <1>0 DEF Apply, run, Go, InTx, Concludes, Abandon, RunType, Held, Among, InFlight
  <2>. QED  BY <2>1, <2>2, <2>3 DEF Held
<1>10. CASE Restart
  <2>1. lock # Nobody /\ lock' = lock
    BY <1>10 DEF Restart, InTx, disk
  <2>2. (\A r \in Runs : r # lock => at'[r] \in Free) /\ at'[lock] \notin Free
    BY <1>10, <2>1 DEF Restart, run, Go, InTx, Concludes, Abandon, RunType, Held, Free
  <2>3. Among(InFlight)' => todo' # {} /\ \A k \in todo' : result'[k] = "not_tried"
    BY <1>10, <2>1, <1>0 DEF Restart, run, Go, InTx, Concludes, Abandon, RunType, Held, Among, InFlight
  <2>. QED  BY <2>1, <2>2, <2>3 DEF Held
<1>11. CASE StartNew
  <2>1. lock # Nobody /\ lock' = lock
    BY <1>11 DEF StartNew, InTx, disk
  <2>2. (\A r \in Runs : r # lock => at'[r] \in Free) /\ at'[lock] \notin Free
    BY <1>11, <2>1 DEF StartNew, run, Go, InTx, Concludes, Abandon, RunType, Held, Free
  <2>3. Among(InFlight)' => todo' # {} /\ \A k \in todo' : result'[k] = "not_tried"
    BY <1>11, <2>1, <1>0 DEF StartNew, run, Go, InTx, Concludes, Abandon, RunType, Held, Among, InFlight
  <2>. QED  BY <2>1, <2>2, <2>3 DEF Held
<1>12. CASE ProveNew
  <2>1. lock # Nobody /\ lock' = lock
    BY <1>12 DEF ProveNew, InTx, disk
  <2>2. (\A r \in Runs : r # lock => at'[r] \in Free) /\ at'[lock] \notin Free
    BY <1>12, <2>1 DEF ProveNew, run, Go, InTx, Concludes, Abandon, RunType, Held, Free
  <2>3. Among(InFlight)' => todo' # {} /\ \A k \in todo' : result'[k] = "not_tried"
    BY <1>12, <2>1, <1>0 DEF ProveNew, run, Go, InTx, Concludes, Abandon, RunType, Held, Among, InFlight
  <2>. QED  BY <2>1, <2>2, <2>3 DEF Held
<1>13. CASE Commit
  <2>1. lock # Nobody /\ lock' = lock
    BY <1>13 DEF Commit, InTx, disk
  <2>2. (\A r \in Runs : r # lock => at'[r] \in Free) /\ at'[lock] \notin Free
    BY <1>13, <2>1 DEF Commit, run, Go, InTx, Concludes, Abandon, RunType, Held, Free
  <2>3. Among(InFlight)' => todo' # {} /\ \A k \in todo' : result'[k] = "not_tried"
    BY <1>13, <2>1, <1>0 DEF Commit, run, Go, InTx, Concludes, Abandon, RunType, Held, Among, InFlight
  <2>. QED  BY <2>1, <2>2, <2>3 DEF Held
<1>14. CASE RbStop
  <2>1. lock # Nobody /\ lock' = lock
    BY <1>14 DEF RbStop, InTx, disk
  <2>2. (\A r \in Runs : r # lock => at'[r] \in Free) /\ at'[lock] \notin Free
    BY <1>14, <2>1 DEF RbStop, run, Go, InTx, Concludes, Abandon, RunType, Held, Free
  <2>3. Among(InFlight)' => todo' # {} /\ \A k \in todo' : result'[k] = "not_tried"
    BY <1>14, <2>1, <1>0 DEF RbStop, run, Go, InTx, Concludes, Abandon, RunType, Held, Among, InFlight
  <2>. QED  BY <2>1, <2>2, <2>3 DEF Held
<1>15. CASE RbData
  <2>1. lock # Nobody /\ lock' = lock
    BY <1>15 DEF RbData, InTx, disk
  <2>2. (\A r \in Runs : r # lock => at'[r] \in Free) /\ at'[lock] \notin Free
    BY <1>15, <2>1 DEF RbData, run, Go, InTx, Concludes, Abandon, RunType, Held, Free
  <2>3. Among(InFlight)' => todo' # {} /\ \A k \in todo' : result'[k] = "not_tried"
    BY <1>15, <2>1, <1>0 DEF RbData, run, Go, InTx, Concludes, Abandon, RunType, Held, Among, InFlight
  <2>. QED  BY <2>1, <2>2, <2>3 DEF Held
<1>16. CASE RbPins
  <2>1. lock # Nobody /\ lock' = lock
    BY <1>16 DEF RbPins, InTx, disk
  <2>2. (\A r \in Runs : r # lock => at'[r] \in Free) /\ at'[lock] \notin Free
    BY <1>16, <2>1 DEF RbPins, run, Go, InTx, Concludes, Abandon, RunType, Held, Free
  <2>3. Among(InFlight)' => todo' # {} /\ \A k \in todo' : result'[k] = "not_tried"
    BY <1>16, <2>1, <1>0 DEF RbPins, run, Go, InTx, Concludes, Abandon, RunType, Held, Among, InFlight
  <2>. QED  BY <2>1, <2>2, <2>3 DEF Held
<1>17. CASE RbUnits
  <2>1. lock # Nobody /\ lock' = lock
    BY <1>17 DEF RbUnits, InTx, disk
  <2>2. (\A r \in Runs : r # lock => at'[r] \in Free) /\ at'[lock] \notin Free
    BY <1>17, <2>1 DEF RbUnits, run, Go, InTx, Concludes, Abandon, RunType, Held, Free
  <2>3. Among(InFlight)' => todo' # {} /\ \A k \in todo' : result'[k] = "not_tried"
    BY <1>17, <2>1, <1>0 DEF RbUnits, run, Go, InTx, Concludes, Abandon, RunType, Held, Among, InFlight
  <2>. QED  BY <2>1, <2>2, <2>3 DEF Held
<1>18. CASE RbRestart
  <2>1. lock # Nobody /\ lock' = lock
    BY <1>18 DEF RbRestart, InTx, disk
  <2>2. (\A r \in Runs : r # lock => at'[r] \in Free) /\ at'[lock] \notin Free
    BY <1>18, <2>1 DEF RbRestart, run, Go, InTx, Concludes, Abandon, RunType, Held, Free
  <2>3. Among(InFlight)' => todo' # {} /\ \A k \in todo' : result'[k] = "not_tried"
    <3>1. CASE UNCHANGED <<todo, result>>
      BY <1>18, <2>1, <3>1 DEF RbRestart, InTx, Held, Among, InFlight
    <3>2. CASE Concludes("incomplete")
      BY <1>18, <2>1, <3>2 DEF Concludes, Go, Among, InFlight, RunType
    <3>. QED  BY <1>18, <3>1, <3>2 DEF RbRestart, Abandon
  <2>. QED  BY <2>1, <2>2, <2>3 DEF Held
<1>19. CASE RbStart
  <2>1. lock # Nobody /\ lock' = lock
    BY <1>19 DEF RbStart, InTx, disk
  <2>2. (\A r \in Runs : r # lock => at'[r] \in Free) /\ at'[lock] \notin Free
    BY <1>19, <2>1 DEF RbStart, run, Go, InTx, Concludes, Abandon, RunType, Held, Free
  <2>3. Among(InFlight)' => todo' # {} /\ \A k \in todo' : result'[k] = "not_tried"
    BY <1>19, <2>1, <1>0 DEF RbStart, run, Go, InTx, Concludes, Abandon, RunType, Held, Among, InFlight
  <2>. QED  BY <2>1, <2>2, <2>3 DEF Held
<1>20. CASE RbProve
  <2>1. lock # Nobody /\ lock' = lock
    BY <1>20 DEF RbProve, InTx, disk
  <2>2. (\A r \in Runs : r # lock => at'[r] \in Free) /\ at'[lock] \notin Free
    BY <1>20, <2>1 DEF RbProve, run, Go, InTx, Concludes, Abandon, RunType, Held, Free
  <2>3. Among(InFlight)' => todo' # {} /\ \A k \in todo' : result'[k] = "not_tried"
    BY <1>20, <2>1, <1>0 DEF RbProve, run, Go, InTx, Concludes, Abandon, RunType, Held, Among, InFlight
  <2>. QED  BY <2>1, <2>2, <2>3 DEF Held
<1>21. CASE RbAbandon
  <2>1. lock # Nobody /\ lock' = lock
    BY <1>21 DEF RbAbandon, InTx, disk
  <2>2. (\A r \in Runs : r # lock => at'[r] \in Free) /\ at'[lock] \notin Free
    BY <1>21, <2>1 DEF RbAbandon, run, Go, InTx, Concludes, Abandon, RunType, Held, Free
  <2>3. Among(InFlight)' => todo' # {} /\ \A k \in todo' : result'[k] = "not_tried"
    BY <1>21, <2>1, <1>0
    DEF RbAbandon, run, Go, InTx, Concludes, Abandon, RunType, Held, Among, InFlight
  <2>. QED  BY <2>1, <2>2, <2>3 DEF Held
<1>22. CASE Finish
  <2>1. lock # Nobody /\ lock' = lock
    BY <1>22 DEF Finish, InTx, disk
  <2>2. (\A r \in Runs : r # lock => at'[r] \in Free) /\ at'[lock] \notin Free
    BY <1>22, <2>1 DEF Finish, run, Go, InTx, Concludes, Abandon, RunType, Held, Free
  <2>3. Among(InFlight)' => todo' # {} /\ \A k \in todo' : result'[k] = "not_tried"
    BY <1>22, <2>1, <1>0 DEF Finish, run, Go, InTx, Concludes, Abandon, RunType, Held, Among, InFlight
  <2>. QED  BY <2>1, <2>2, <2>3 DEF Held
<1>23. CASE Prune
  <2>1. lock # Nobody /\ lock' = lock
    BY <1>23 DEF Prune, InTx, disk
  <2>2. (\A r \in Runs : r # lock => at'[r] \in Free) /\ at'[lock] \notin Free
    BY <1>23, <2>1 DEF Prune, run, Go, InTx, Concludes, Abandon, RunType, Held, Free
  <2>3. Among(InFlight)' => todo' # {} /\ \A k \in todo' : result'[k] = "not_tried"
    BY <1>23, <2>1, <1>0 DEF Prune, run, Go, InTx, Concludes, Abandon, RunType, Held, Among, InFlight
  <2>. QED  BY <2>1, <2>2, <2>3 DEF Held
<1>24. CASE SnapshotCleanup
  <2>1. lock # Nobody /\ lock' = lock
    BY <1>24 DEF SnapshotCleanup, InTx, disk
  <2>2. (\A r \in Runs : r # lock => at'[r] \in Free) /\ at'[lock] \notin Free
    BY <1>24, <2>1 DEF SnapshotCleanup, run, Go, InTx, Concludes, Abandon, RunType, Held, Free
  <2>3. Among(InFlight)' => todo' # {} /\ \A k \in todo' : result'[k] = "not_tried"
    BY <1>24, <2>1, <1>0
    DEF SnapshotCleanup, run, Go, InTx, Concludes, Abandon, RunType, Held, Among, InFlight
  <2>. QED  BY <2>1, <2>2, <2>3 DEF Held
<1>25. CASE Release
  <2>1. lock \in Runs /\ lock' = Nobody
    BY <1>25 DEF Release, InTx, End, RunType
  <2>2. \A r \in Runs : at'[r] \in Free
    BY <1>25, <2>1 DEF Release, Go, InTx, End, RunType, Held, Free
  <2>3. todo' = {} /\ tx' = NoTx /\ displaced' = NoneDisplaced /\ \A k \in Kinds : result'[k] = "not_tried"
    BY <1>25 DEF Release, End
  <2>4. NoTx' = NoTx /\ NoneDisplaced' = NoneDisplaced
    BY DEF NoTx, NoneDisplaced
  <2>. QED  BY <2>1, <2>2, <2>3, <2>4 DEF Held, Among
<1>26. CASE Crash
  <2>1. lock \in Runs /\ lock' = Nobody
    BY <1>26 DEF Crash, InTx, End, RunType
  <2>2. \A r \in Runs : at'[r] \in Free
    BY <1>26, <2>1 DEF Crash, Go, InTx, End, RunType, Held, Free
  <2>3. todo' = {} /\ tx' = NoTx /\ displaced' = NoneDisplaced /\ \A k \in Kinds : result'[k] = "not_tried"
    BY <1>26 DEF Crash, End
  <2>4. NoTx' = NoTx /\ NoneDisplaced' = NoneDisplaced
    BY DEF NoTx, NoneDisplaced
  <2>. QED  BY <2>1, <2>2, <2>3, <2>4 DEF Held, Among
<1>27. ASSUME NEW r \in Runs, Load(r) PROVE Held'
  <2>1. r # lock /\ lock' = lock /\ UNCHANGED <<todo, tx, displaced, result>>
    BY <1>27, UpdateAssumption DEF Load, Held, Free, run
  <2>2. at' \in [Runs -> Places] /\ at'[r] \in Free /\ \A q \in Runs \ {r} : at'[q] = at[q]
    BY <1>27 DEF Load, Leave, RunType, Free, Places
  <2>3. lock # Nobody => at'[lock] = at[lock]
    BY <2>1, <2>2 DEF RunType
  <2>. QED  BY <2>1, <2>2, <2>3 DEF Held, Among
<1>28. ASSUME NEW r \in Runs, Fetch(r) PROVE Held'
  <2>1. r # lock /\ lock' = lock /\ UNCHANGED <<todo, tx, displaced, result>>
    BY <1>28, UpdateAssumption DEF Fetch, Held, Free, run
  <2>2. at' \in [Runs -> Places] /\ at'[r] \in Free /\ \A q \in Runs \ {r} : at'[q] = at[q]
    BY <1>28 DEF Fetch, Leave, RunType, Free, Places
  <2>3. lock # Nobody => at'[lock] = at[lock]
    BY <2>1, <2>2 DEF RunType
  <2>. QED  BY <2>1, <2>2, <2>3 DEF Held, Among
<1>29. ASSUME NEW r \in Runs, Save(r) PROVE Held'
  <2>1. r # lock /\ lock' = lock /\ UNCHANGED <<todo, tx, displaced, result>>
    BY <1>29, UpdateAssumption DEF Save, Held, Free, run
  <2>2. at' \in [Runs -> Places] /\ at'[r] \in Free /\ \A q \in Runs \ {r} : at'[q] = at[q]
    BY <1>29 DEF Save, Leave, RunType, Free, Places
  <2>3. lock # Nobody => at'[lock] = at[lock]
    BY <2>1, <2>2 DEF RunType
  <2>. QED  BY <2>1, <2>2, <2>3 DEF Held, Among
<1>30. ASSUME NEW r \in Runs, Decide(r) PROVE Held'
  <2>1. r # lock /\ lock' = lock /\ UNCHANGED <<todo, tx, displaced, result>>
    BY <1>30, UpdateAssumption DEF Decide, Held, Free, run
  <2>2. at' \in [Runs -> Places] /\ at'[r] \in Free /\ \A q \in Runs \ {r} : at'[q] = at[q]
    BY <1>30 DEF Decide, Leave, RunType, Free, Places
  <2>3. lock # Nobody => at'[lock] = at[lock]
    BY <2>1, <2>2 DEF RunType
  <2>. QED  BY <2>1, <2>2, <2>3 DEF Held, Among
<1>31. ASSUME NEW r \in Runs, Acquire(r) PROVE Held'
  <2>1. lock = Nobody /\ lock' = r /\ r # Nobody
    BY <1>31, UpdateAssumption DEF Acquire
  <2>2. at' \in [Runs -> Places] /\ at'[r] = "prove" /\ \A q \in Runs \ {r} : at'[q] = at[q]
    BY <1>31 DEF Acquire, RunType, Places
  <2>3. todo' # {} /\ todo' \subseteq Kinds /\ result' = result
    BY <1>31 DEF Acquire, Offered
  <2>4. \A q \in Runs : at[q] \in Free
    BY <2>1, UpdateAssumption DEF Held
  <2>5. \A k \in todo' : result'[k] = "not_tried"
    BY <2>1, <2>3 DEF Held
  <2>6. (\A q \in Runs : q # lock' => at'[q] \in Free) /\ at'[lock'] \notin Free /\ lock' # Nobody
    BY <2>1, <2>2, <2>4 DEF Free
  <2>. QED  BY <2>3, <2>5, <2>6 DEF Held
<1>. QED  BY <1>1, <1>2, <1>3, <1>4, <1>5, <1>6, <1>7, <1>8, <1>9, <1>10, <1>11, <1>12, <1>13,
         <1>14, <1>15, <1>16, <1>17, <1>18, <1>19, <1>20, <1>21, <1>22, <1>23, <1>24, <1>25, <1>26,
         <1>27, <1>28, <1>29, <1>30, <1>31 DEF Next, Forward, Rollback, Ending, Check

----------------------------------------------------------------------------
(* The record and its snapshot.                                            *)

\* What applying, restarting and their undoing leave of the record.
Keeps == tx'.ref = tx.ref /\ tx'.units = tx.units /\ tx'.prior = tx.prior /\ tx'.snap = tx.snap

\* Applying and restarting note services, and change nothing else of the record.
LEMMA TxKeeps ==
  ASSUME TypeOK, Held, Apply \/ Restart \/ RbUnits \/ RbRestart
  PROVE  Keeps
<1>. USE DEF TypeOK, TxType
<1>1. tx' = tx => Keeps
  BY DEF Keeps
<1>2. ASSUME NEW S \in SUBSET Kinds, tx' = Leaving(S) PROVE Keeps
  BY <1>2, LeavingIs DEF Keeps
<1>3. ASSUME NEW k \in Kinds, tx' = Trying(k) PROVE Keeps
  BY <1>3, TryingIs DEF Keeps
<1>4. tx.left \in SUBSET Kinds /\ tx.touched \in SUBSET Kinds
  BY DEF Tuples
<1>5. CASE Apply
  <2>1. This \in Kinds
    BY <1>5, ThisIsToDo DEF Apply, InTx, Among, InFlight, Held, RunType
  <2>2. {This} \cup {k \in Changed : running[k] # Down} \in SUBSET Kinds
    BY <2>1 DEF Changed
  <2>. QED  BY <1>1, <1>2, <1>5, <2>2 DEF Apply
<1>6. CASE Restart
  <2>1. tx' = tx \/ \E k \in tx.left : tx' = Trying(k)
    BY <1>6, Zenon DEF Restart
  <2>. QED  BY <1>1, <1>3, <1>4, <2>1
<1>7. CASE RbUnits
  BY <1>1, <1>2, <1>4, <1>7 DEF RbUnits
<1>8. CASE RbRestart
  <2>1. tx' = tx \/ \E k \in tx.left : tx' = Leaving(tx.left \ {k})
    BY <1>8, Zenon DEF RbRestart
  <2>2. ASSUME NEW k \in tx.left, tx' = Leaving(tx.left \ {k}) PROVE Keeps
    <3>1. tx.left \ {k} \in SUBSET Kinds
      BY <1>4
    <3>. QED  BY <1>2, <2>2, <3>1
  <2>. QED  BY <1>1, <2>1, <2>2
<1>. QED  BY <1>5, <1>6, <1>7, <1>8

\* Each step keeps where the record is filled in.
LEMMA PlacedStep ==
  ASSUME TypeOK, Held, TupleHeld, Next
  PROVE  TxPlaced'
<1>. USE DEF TypeOK
<1>0. Among(InFlight) => This \in todo /\ This \in Kinds
  BY ThisIsToDo DEF RunType, Held
<1>. USE DEF TupleHeld
<1>1. CASE ProveCurrent
  <2>1. lock \in Runs /\ lock # Nobody /\ lock' = lock /\ This' = This
    BY <1>1, SameThis DEF ProveCurrent, InTx, RunType, disk, run, Concludes, Abandon
  <2>2. tx' = tx
    BY <1>1 DEF ProveCurrent, run
  <2>. QED
    BY <1>1, <2>1, <2>2
    DEF ProveCurrent, Go, InTx, Concludes, Abandon, OwnsPersistentState, TxPlaced, Among,
              InFlight, Captured, Before, Windowed, RunType, Keeps
<1>2. CASE Capture
  <2>1. lock \in Runs /\ lock # Nobody /\ lock' = lock /\ This' = This /\ This \in Kinds
    BY <1>2, <1>0, SameThis DEF Capture, InTx, RunType, Among, InFlight, Concludes
  <2>2. CASE tx' = CaptureOf(store) \/ tx' = CaptureOf(Fresh)
    <3>1. tx'.ref \in Image /\ tx'.units = unit /\ tx'.snap = NoTuple
      BY <2>1, <2>2, CaptureOfIs, FreshIs, ResolveType DEF StoreType, HostType
    <3>2. at'[lock] \in {"pull", "finish"}
      BY <1>2, <2>1 DEF Capture, Go, Concludes, RunType
    <3>. QED  BY <2>1, <3>1, <3>2 DEF TxPlaced, Among, InFlight, Captured, Before, Windowed, StackType
  <2>3. CASE tx' = tx /\ at' = [at EXCEPT ![lock] = "finish"]
    BY <2>1, <2>3 DEF TxPlaced, Among, InFlight, Captured, Before, Windowed, RunType
  <2>. QED  BY <1>2, <2>2, <2>3 DEF Capture, Go, Concludes
<1>3. CASE Pull
  <2>1. lock \in Runs /\ lock # Nobody /\ lock' = lock /\ This' = This
    BY <1>3, SameThis DEF Pull, InTx, RunType, disk, run, Concludes, Abandon
  <2>2. tx' = tx
    BY <1>3 DEF Pull, run
  <2>. QED
    BY <1>3, <2>1, <2>2 DEF Pull, Go, InTx, Concludes, Abandon, OwnsPersistentState, TxPlaced, Among,
              InFlight, Captured, Before, Windowed, RunType, Keeps
<1>4. CASE Stop
  <2>1. lock \in Runs /\ lock # Nobody /\ lock' = lock /\ This' = This
    BY <1>4, SameThis DEF Stop, InTx, RunType, disk, run, Concludes, Abandon
  <2>2. tx' = tx
    BY <1>4 DEF Stop, run
  <2>. QED
    BY <1>4, <2>1, <2>2 DEF Stop, Go, InTx, Concludes, Abandon, OwnsPersistentState, TxPlaced, Among,
              InFlight, Captured, Before, Windowed, RunType, Keeps
<1>5. CASE Snapshot
  <2>1. lock \in Runs /\ lock # Nobody /\ lock' = lock /\ This' = This /\ This \in Stateful
    BY <1>5, SameThis DEF Snapshot, InTx, RunType, Among, TxPlaced
  <2>2. CASE tx' = tx /\ at' = [at EXCEPT ![lock] = "reopen"]
    BY <1>5, <2>1, <2>2
    DEF Snapshot, InTx, TxPlaced, Among, InFlight, Captured, Before, Windowed, RunType
  <2>3. CASE exports' = exports + 1 /\ tx' = Exported(SnapshotPath(This)) /\ at' = [at EXCEPT ![lock] = "mutate"]
    <3>1. tx'.ref = tx.ref /\ tx'.units = tx.units /\ tx'.snap = SnapshotPath(This)
      BY <2>3 DEF Exported, TxType, Tuples
    <3>2. SnapshotPath(This) \in Kinds \X Nat
      BY <2>1, UpdateAssumption DEF SnapshotPath, DiskType
    <3>3. tx'.snap # NoTuple
      BY <3>1, <3>2, UpdateAssumption
    <3>. QED  BY <1>5, <2>1, <2>3, <3>1, <3>3
              DEF Snapshot, InTx, TxPlaced, Among, InFlight, Captured, Before, Windowed, RunType
  <2>. QED  BY <1>5, <2>2, <2>3 DEF Snapshot, Go
<1>6. CASE Reopen
  <2>1. lock \in Runs /\ lock # Nobody /\ lock' = lock /\ This' = This
    BY <1>6, SameThis DEF Reopen, InTx, RunType, disk, run, Concludes, Abandon
  <2>2. tx' = tx
    BY <1>6 DEF Reopen, run
  <2>. QED
    BY <1>6, <2>1, <2>2 DEF Reopen, Go, InTx, Concludes, Abandon, OwnsPersistentState, TxPlaced, Among,
              InFlight, Captured, Before, Windowed, RunType, Keeps
<1>7. CASE WritePins
  <2>1. lock \in Runs /\ lock # Nobody /\ lock' = lock /\ This' = This
    BY <1>7, SameThis DEF WritePins, InTx, RunType, disk, run, Concludes, Abandon
  <2>2. tx' = tx
    BY <1>7 DEF WritePins, run
  <2>. QED
    BY <1>7, <2>1, <2>2
    DEF WritePins, Go, InTx, Concludes, Abandon, OwnsPersistentState, TxPlaced, Among,
              InFlight, Captured, Before, Windowed, RunType, Keeps
<1>8. CASE Apply
  <2>1. lock \in Runs /\ lock # Nobody /\ lock' = lock /\ This' = This
    BY <1>8, SameThis DEF Apply, InTx, RunType, disk, run, Concludes, Abandon
  <2>2. Keeps
    BY <1>8, TxKeeps
  <2>. QED
    BY <1>8, <2>1, <2>2 DEF Apply, Go, InTx, Concludes, Abandon, OwnsPersistentState, TxPlaced, Among,
              InFlight, Captured, Before, Windowed, RunType, Keeps
<1>9. CASE Restart
  <2>1. lock \in Runs /\ lock # Nobody /\ lock' = lock /\ This' = This
    BY <1>9, SameThis DEF Restart, InTx, RunType, disk, run, Concludes, Abandon
  <2>2. Keeps
    BY <1>9, TxKeeps
  <2>. QED
    BY <1>9, <2>1, <2>2 DEF Restart, Go, InTx, Concludes, Abandon, OwnsPersistentState, TxPlaced, Among,
              InFlight, Captured, Before, Windowed, RunType, Keeps
<1>10. CASE StartNew
  <2>1. lock \in Runs /\ lock # Nobody /\ lock' = lock /\ This' = This
    BY <1>10, SameThis DEF StartNew, InTx, RunType, disk, run, Concludes, Abandon
  <2>2. tx' = tx
    BY <1>10 DEF StartNew, run
  <2>. QED
    BY <1>10, <2>1, <2>2
    DEF StartNew, Go, InTx, Concludes, Abandon, OwnsPersistentState, TxPlaced, Among,
              InFlight, Captured, Before, Windowed, RunType, Keeps
<1>11. CASE ProveNew
  <2>1. lock \in Runs /\ lock # Nobody /\ lock' = lock /\ This' = This
    BY <1>11, SameThis DEF ProveNew, InTx, RunType, disk, run, Concludes, Abandon
  <2>2. tx' = tx
    BY <1>11 DEF ProveNew, run
  <2>. QED
    BY <1>11, <2>1, <2>2
    DEF ProveNew, Go, InTx, Concludes, Abandon, OwnsPersistentState, TxPlaced, Among,
              InFlight, Captured, Before, Windowed, RunType, Keeps
<1>12. CASE Commit
  <2>1. lock \in Runs /\ lock # Nobody /\ lock' = lock /\ tx'.snap = NoTuple
    BY <1>12, NoTxIs DEF Commit, InTx, RunType, disk
  <2>2. at'[lock] \in {"finish", "prove"}
    BY <1>12, <2>1 DEF Commit, Go, RunType
  <2>. QED  BY <2>1, <2>2 DEF TxPlaced, Among, InFlight, Captured, Before, Windowed
<1>13. CASE RbStop
  <2>1. lock \in Runs /\ lock # Nobody /\ lock' = lock /\ This' = This
    BY <1>13, SameThis DEF RbStop, InTx, RunType, disk, run, Concludes, Abandon
  <2>2. tx' = tx
    BY <1>13 DEF RbStop, run
  <2>. QED
    BY <1>13, <2>1, <2>2 DEF RbStop, Go, InTx, Concludes, Abandon, OwnsPersistentState, TxPlaced, Among,
              InFlight, Captured, Before, Windowed, RunType, Keeps
<1>14. CASE RbData
  <2>1. lock \in Runs /\ lock # Nobody /\ lock' = lock /\ This' = This
    BY <1>14, SameThis DEF RbData, InTx, RunType, disk, run, Concludes, Abandon
  <2>2. tx' = tx
    BY <1>14 DEF RbData, run
  <2>. QED
    BY <1>14, <2>1, <2>2 DEF RbData, Go, InTx, Concludes, Abandon, OwnsPersistentState, TxPlaced, Among,
              InFlight, Captured, Before, Windowed, RunType, Keeps
<1>15. CASE RbPins
  <2>1. lock \in Runs /\ lock # Nobody /\ lock' = lock /\ This' = This
    BY <1>15, SameThis DEF RbPins, InTx, RunType, disk, run, Concludes, Abandon
  <2>2. tx' = tx
    BY <1>15 DEF RbPins, run
  <2>. QED
    BY <1>15, <2>1, <2>2 DEF RbPins, Go, InTx, Concludes, Abandon, OwnsPersistentState, TxPlaced, Among,
              InFlight, Captured, Before, Windowed, RunType, Keeps
<1>16. CASE RbUnits
  <2>1. lock \in Runs /\ lock # Nobody /\ lock' = lock /\ This' = This
    BY <1>16, SameThis DEF RbUnits, InTx, RunType, disk, run, Concludes, Abandon
  <2>2. Keeps
    BY <1>16, TxKeeps
  <2>. QED
    BY <1>16, <2>1, <2>2
    DEF RbUnits, Go, InTx, Concludes, Abandon, OwnsPersistentState, TxPlaced, Among,
              InFlight, Captured, Before, Windowed, RunType, Keeps
<1>17. CASE RbRestart
  <2>1. lock \in Runs /\ lock # Nobody /\ lock' = lock /\ This' = This
    BY <1>17, SameThis DEF RbRestart, InTx, RunType, disk, run, Concludes, Abandon
  <2>2. Keeps
    BY <1>17, TxKeeps
  <2>. QED
    BY <1>17, <2>1, <2>2
    DEF RbRestart, Go, InTx, Concludes, Abandon, OwnsPersistentState, TxPlaced, Among,
              InFlight, Captured, Before, Windowed, RunType, Keeps
<1>18. CASE RbStart
  <2>1. lock \in Runs /\ lock # Nobody /\ lock' = lock /\ This' = This
    BY <1>18, SameThis DEF RbStart, InTx, RunType, disk, run, Concludes, Abandon
  <2>2. tx' = tx
    BY <1>18 DEF RbStart, run
  <2>. QED
    BY <1>18, <2>1, <2>2
    DEF RbStart, Go, InTx, Concludes, Abandon, OwnsPersistentState, TxPlaced, Among,
              InFlight, Captured, Before, Windowed, RunType, Keeps
<1>19. CASE RbProve
  <2>1. lock \in Runs /\ lock # Nobody /\ lock' = lock /\ This' = This
    BY <1>19, SameThis DEF RbProve, InTx, RunType, disk, run, Concludes, Abandon
  <2>2. tx' = tx
    BY <1>19 DEF RbProve, run
  <2>. QED
    BY <1>19, <2>1, <2>2
    DEF RbProve, Go, InTx, Concludes, Abandon, OwnsPersistentState, TxPlaced, Among,
              InFlight, Captured, Before, Windowed, RunType, Keeps
<1>20. CASE RbAbandon
  <2>1. lock \in Runs /\ lock # Nobody /\ lock' = lock /\ This' = This
    BY <1>20, SameThis DEF RbAbandon, InTx, RunType, disk, run, Concludes, Abandon
  <2>2. tx' = tx
    BY <1>20 DEF RbAbandon, run
  <2>. QED
    BY <1>20, <2>1, <2>2
    DEF RbAbandon, Go, InTx, Concludes, Abandon, OwnsPersistentState, TxPlaced, Among,
              InFlight, Captured, Before, Windowed, RunType, Keeps
<1>21. CASE Finish
  <2>1. lock \in Runs /\ lock # Nobody /\ lock' = lock /\ This' = This
    BY <1>21, SameThis DEF Finish, InTx, RunType, disk, run, Concludes, Abandon
  <2>2. tx' = tx
    BY <1>21 DEF Finish, run
  <2>. QED
    BY <1>21, <2>1, <2>2 DEF Finish, Go, InTx, Concludes, Abandon, OwnsPersistentState, TxPlaced, Among,
              InFlight, Captured, Before, Windowed, RunType, Keeps
<1>22. CASE Prune
  <2>1. lock \in Runs /\ lock # Nobody /\ lock' = lock /\ This' = This
    BY <1>22, SameThis DEF Prune, InTx, RunType, disk, run, Concludes, Abandon
  <2>2. tx' = tx
    BY <1>22 DEF Prune, run
  <2>. QED
    BY <1>22, <2>1, <2>2 DEF Prune, Go, InTx, Concludes, Abandon, OwnsPersistentState, TxPlaced, Among,
              InFlight, Captured, Before, Windowed, RunType, Keeps
<1>23. CASE SnapshotCleanup
  <2>1. lock \in Runs /\ lock # Nobody /\ lock' = lock /\ This' = This
    BY <1>23, SameThis DEF SnapshotCleanup, InTx, RunType, disk, run, Concludes, Abandon
  <2>2. tx' = tx
    BY <1>23 DEF SnapshotCleanup, run
  <2>. QED
    BY <1>23, <2>1, <2>2
    DEF SnapshotCleanup, Go, InTx, Concludes, Abandon, OwnsPersistentState, TxPlaced, Among,
              InFlight, Captured, Before, Windowed, RunType, Keeps
<1>24. CASE Release
  BY <1>24 DEF Release, End, TxPlaced, Among
<1>25. CASE Crash
  BY <1>25 DEF Crash, End, TxPlaced, Among
<1>26. CASE Upgrade
  BY <1>26, SameThis DEF Upgrade, run, TxPlaced, Among
<1>27. CASE Publish
  BY <1>27, SameThis DEF Publish, run, TxPlaced, Among
<1>28. ASSUME NEW r \in Runs, Load(r) PROVE TxPlaced'
  <2>1. r # lock /\ lock' = lock /\ UNCHANGED <<todo, tx, displaced, result>> /\ This' = This
    BY <1>28, UpdateAssumption, SameThis DEF Load, Held, Free, run
  <2>2. lock # Nobody => at'[lock] = at[lock]
    BY <1>28, <2>1 DEF Load, Leave, RunType
  <2>. QED  BY <2>1, <2>2 DEF TxPlaced, Among
<1>29. ASSUME NEW r \in Runs, Fetch(r) PROVE TxPlaced'
  <2>1. r # lock /\ lock' = lock /\ UNCHANGED <<todo, tx, displaced, result>> /\ This' = This
    BY <1>29, UpdateAssumption, SameThis DEF Fetch, Held, Free, run
  <2>2. lock # Nobody => at'[lock] = at[lock]
    BY <1>29, <2>1 DEF Fetch, Leave, RunType
  <2>. QED  BY <2>1, <2>2 DEF TxPlaced, Among
<1>30. ASSUME NEW r \in Runs, Save(r) PROVE TxPlaced'
  <2>1. r # lock /\ lock' = lock /\ UNCHANGED <<todo, tx, displaced, result>> /\ This' = This
    BY <1>30, UpdateAssumption, SameThis DEF Save, Held, Free, run
  <2>2. lock # Nobody => at'[lock] = at[lock]
    BY <1>30, <2>1 DEF Save, Leave, RunType
  <2>. QED  BY <2>1, <2>2 DEF TxPlaced, Among
<1>31. ASSUME NEW r \in Runs, Decide(r) PROVE TxPlaced'
  <2>1. r # lock /\ lock' = lock /\ UNCHANGED <<todo, tx, displaced, result>> /\ This' = This
    BY <1>31, UpdateAssumption, SameThis DEF Decide, Held, Free, run
  <2>2. lock # Nobody => at'[lock] = at[lock]
    BY <1>31, <2>1 DEF Decide, Leave, RunType
  <2>. QED  BY <2>1, <2>2 DEF TxPlaced, Among
<1>32. ASSUME NEW r \in Runs, Acquire(r) PROVE TxPlaced'
  <2>1. lock' = r /\ r # Nobody /\ at'[r] = "prove" /\ tx'.snap = NoTuple
    BY <1>32, UpdateAssumption, NoTxIs DEF Acquire, RunType
  <2>. QED  BY <2>1 DEF TxPlaced, Among, InFlight, Captured, Before, Windowed
<1>. QED  BY <1>1, <1>2, <1>3, <1>4, <1>5, <1>6, <1>7, <1>8, <1>9, <1>10, <1>11, <1>12, <1>13,
         <1>14, <1>15, <1>16, <1>17, <1>18, <1>19, <1>20, <1>21, <1>22, <1>23, <1>24, <1>25, <1>26,
         <1>27, <1>28, <1>29, <1>30, <1>31, <1>32 DEF Next, Forward, Rollback, Ending, Check

\* Each step keeps the record's snapshot apart from the retained one.
LEMMA PathsStep ==
  ASSUME TypeOK, Held, TupleHeld, Next
  PROVE  TxPaths'
<1>. USE DEF TypeOK
<1>0. Among(InFlight) => This \in todo /\ This \in Kinds
  BY ThisIsToDo DEF RunType, Held
<1>. USE DEF TupleHeld
<1>1. CASE ProveCurrent
  <2>1. lock \in Runs /\ lock # Nobody /\ lock' = lock /\ This' = This
    BY <1>1, SameThis DEF ProveCurrent, InTx, RunType, disk, run, Concludes, Abandon
  <2>2. ~Among(Captured)'
    BY <1>1, <2>1 DEF ProveCurrent, Go, Concludes, Among, InFlight, Captured, RunType
  <2>3. tx' = tx /\ displaced' = displaced
    BY <1>1 DEF ProveCurrent
  <2>. QED  BY <2>1, <2>2, <2>3 DEF TxPaths
<1>2. CASE Capture
  <2>1. lock \in Runs /\ lock # Nobody /\ lock' = lock /\ This' = This /\ This \in Kinds
    BY <1>2, <1>0, SameThis DEF Capture, InTx, RunType, Among, InFlight, Concludes
  <2>2. CASE tx' = CaptureOf(store) \/ tx' = CaptureOf(Fresh)
    <3>1. tx'.snap = NoTuple /\ (tx'.prior # NoTuple => tx'.prior[1] = This)
      <4>1. CASE tx' = CaptureOf(store)
        BY <2>1, <4>1, CaptureOfIs DEF StoreType, PrevOwned, Owned
      <4>2. CASE tx' = CaptureOf(Fresh)
        BY <2>1, <4>2, CaptureOfIs, FreshIs
      <4>. QED  BY <2>2, <4>1, <4>2
    <3>. QED  BY <2>1, <3>1 DEF TxPaths
  <2>3. CASE tx' = tx /\ at' = [at EXCEPT ![lock] = "finish"] /\ displaced' = displaced
    BY <2>1, <2>3 DEF TxPaths, Among, InFlight, Captured, RunType
  <2>. QED  BY <1>2, <2>2, <2>3 DEF Capture, Go, Concludes
<1>3. CASE Pull
  <2>1. lock \in Runs /\ lock # Nobody /\ lock' = lock /\ This' = This
    BY <1>3, SameThis DEF Pull, InTx, RunType, disk, run, Concludes, Abandon
  <2>2. tx' = tx
    BY <1>3 DEF Pull, run
  <2>3. Among(Captured)' => Among(Captured)
    BY <1>3, <2>1 DEF Pull, run, Go, InTx, Concludes, Abandon, Among, InFlight, Captured, RunType
  <2>4. displaced' = displaced
    BY <1>3 DEF Pull, run
  <2>. QED  BY <2>1, <2>2, <2>3, <2>4 DEF TxPaths, Keeps
<1>4. CASE Stop
  <2>1. lock \in Runs /\ lock # Nobody /\ lock' = lock /\ This' = This
    BY <1>4, SameThis DEF Stop, InTx, RunType, disk, run, Concludes, Abandon
  <2>2. tx' = tx
    BY <1>4 DEF Stop, run
  <2>3. Among(Captured)' => Among(Captured)
    BY <1>4, <2>1 DEF Stop, run, Go, InTx, Concludes, Abandon, Among, InFlight, Captured, RunType
  <2>4. displaced' = displaced
    BY <1>4 DEF Stop, run
  <2>. QED  BY <2>1, <2>2, <2>3, <2>4 DEF TxPaths, Keeps
<1>5. CASE Snapshot
  <2>1. lock \in Runs /\ lock # Nobody /\ lock' = lock /\ This' = This /\ This \in Stateful
    BY <1>5, SameThis DEF Snapshot, InTx, RunType, Among, TxPlaced
  <2>2. displaced' = displaced /\ Among(Captured)
    BY <1>5 DEF Snapshot, InTx, Among, InFlight, Captured
  <2>3. CASE tx' = tx
    BY <2>1, <2>2, <2>3 DEF TxPaths
  <2>4. CASE tx' = Exported(SnapshotPath(This))
    <3>1. tx'.prior = tx.prior /\ tx'.snap = SnapshotPath(This)
      BY <2>4 DEF Exported, TxType, Tuples
    <3>2. SnapshotPath(This)[1] = This /\ SnapshotPath(This) \notin Snapshots /\ SnapshotPath(This) # NoTuple
      BY <2>1, UpdateAssumption DEF SnapshotPath, Snapshots, DiskType
    <3>3. tx.prior \in Snapshots \cup {NoTuple} /\ displaced.snaps \subseteq Snapshots
      BY DEF TxType, Tuples, RunType
    <3>. QED  BY <2>1, <2>2, <3>1, <3>2, <3>3 DEF TxPaths
  <2>. QED  BY <1>5, <2>3, <2>4 DEF Snapshot
<1>6. CASE Reopen
  <2>1. lock \in Runs /\ lock # Nobody /\ lock' = lock /\ This' = This
    BY <1>6, SameThis DEF Reopen, InTx, RunType, disk, run, Concludes, Abandon
  <2>2. tx' = tx
    BY <1>6 DEF Reopen, run
  <2>3. Among(Captured)' => Among(Captured)
    BY <1>6, <2>1 DEF Reopen, run, Go, InTx, Concludes, Abandon, Among, InFlight, Captured, RunType
  <2>4. displaced' = displaced
    BY <1>6 DEF Reopen, run
  <2>. QED  BY <2>1, <2>2, <2>3, <2>4 DEF TxPaths, Keeps
<1>7. CASE WritePins
  <2>1. lock \in Runs /\ lock # Nobody /\ lock' = lock /\ This' = This
    BY <1>7, SameThis DEF WritePins, InTx, RunType, disk, run, Concludes, Abandon
  <2>2. tx' = tx
    BY <1>7 DEF WritePins, run
  <2>3. Among(Captured)' => Among(Captured)
    BY <1>7, <2>1 DEF WritePins, run, Go, InTx, Concludes, Abandon, Among, InFlight, Captured, RunType
  <2>4. displaced' = displaced
    BY <1>7 DEF WritePins, run
  <2>. QED  BY <2>1, <2>2, <2>3, <2>4 DEF TxPaths, Keeps
<1>8. CASE Apply
  <2>1. lock \in Runs /\ lock # Nobody /\ lock' = lock /\ This' = This
    BY <1>8, SameThis DEF Apply, InTx, RunType, disk, run, Concludes, Abandon
  <2>2. Keeps
    BY <1>8, TxKeeps
  <2>3. Among(Captured)' => Among(Captured)
    BY <1>8, <2>1 DEF Apply, run, Go, InTx, Concludes, Abandon, Among, InFlight, Captured, RunType
  <2>4. displaced' = displaced
    BY <1>8 DEF Apply, run
  <2>. QED  BY <2>1, <2>2, <2>3, <2>4 DEF TxPaths, Keeps
<1>9. CASE Restart
  <2>1. lock \in Runs /\ lock # Nobody /\ lock' = lock /\ This' = This
    BY <1>9, SameThis DEF Restart, InTx, RunType, disk, run, Concludes, Abandon
  <2>2. Keeps
    BY <1>9, TxKeeps
  <2>3. Among(Captured)' => Among(Captured)
    BY <1>9, <2>1 DEF Restart, run, Go, InTx, Concludes, Abandon, Among, InFlight, Captured, RunType
  <2>4. displaced' = displaced
    BY <1>9 DEF Restart, run
  <2>. QED  BY <2>1, <2>2, <2>3, <2>4 DEF TxPaths, Keeps
<1>10. CASE StartNew
  <2>1. lock \in Runs /\ lock # Nobody /\ lock' = lock /\ This' = This
    BY <1>10, SameThis DEF StartNew, InTx, RunType, disk, run, Concludes, Abandon
  <2>2. tx' = tx
    BY <1>10 DEF StartNew, run
  <2>3. Among(Captured)' => Among(Captured)
    BY <1>10, <2>1 DEF StartNew, run, Go, InTx, Concludes, Abandon, Among, InFlight, Captured, RunType
  <2>4. displaced' = displaced
    BY <1>10 DEF StartNew, run
  <2>. QED  BY <2>1, <2>2, <2>3, <2>4 DEF TxPaths, Keeps
<1>11. CASE ProveNew
  <2>1. lock \in Runs /\ lock # Nobody /\ lock' = lock /\ This' = This
    BY <1>11, SameThis DEF ProveNew, InTx, RunType, disk, run, Concludes, Abandon
  <2>2. tx' = tx
    BY <1>11 DEF ProveNew, run
  <2>3. Among(Captured)' => Among(Captured)
    BY <1>11, <2>1 DEF ProveNew, run, Go, InTx, Concludes, Abandon, Among, InFlight, Captured, RunType
  <2>4. displaced' = displaced
    BY <1>11 DEF ProveNew, run
  <2>. QED  BY <2>1, <2>2, <2>3, <2>4 DEF TxPaths, Keeps
<1>12. CASE Commit
  <2>1. lock \in Runs /\ lock # Nobody /\ lock' = lock /\ tx'.snap = NoTuple
    BY <1>12, NoTxIs DEF Commit, InTx, RunType, disk
  <2>2. at'[lock] \in {"finish", "prove"}
    BY <1>12, <2>1 DEF Commit, Go, RunType
  <2>. QED  BY <2>1, <2>2 DEF TxPaths, Among, InFlight, Captured
<1>13. CASE RbStop
  <2>1. lock \in Runs /\ lock # Nobody /\ lock' = lock /\ This' = This
    BY <1>13, SameThis DEF RbStop, InTx, RunType, disk, run, Concludes, Abandon
  <2>2. tx' = tx
    BY <1>13 DEF RbStop, run
  <2>3. Among(Captured)' => Among(Captured)
    BY <1>13, <2>1 DEF RbStop, run, Go, InTx, Concludes, Abandon, Among, InFlight, Captured, RunType
  <2>4. displaced' = displaced
    BY <1>13 DEF RbStop, run
  <2>. QED  BY <2>1, <2>2, <2>3, <2>4 DEF TxPaths, Keeps
<1>14. CASE RbData
  <2>1. lock \in Runs /\ lock # Nobody /\ lock' = lock /\ This' = This
    BY <1>14, SameThis DEF RbData, InTx, RunType, disk, run, Concludes, Abandon
  <2>2. tx' = tx
    BY <1>14 DEF RbData, run
  <2>3. Among(Captured)' => Among(Captured)
    BY <1>14, <2>1 DEF RbData, run, Go, InTx, Concludes, Abandon, Among, InFlight, Captured, RunType
  <2>4. displaced' = displaced
    BY <1>14 DEF RbData, run
  <2>. QED  BY <2>1, <2>2, <2>3, <2>4 DEF TxPaths, Keeps
<1>15. CASE RbPins
  <2>1. lock \in Runs /\ lock # Nobody /\ lock' = lock /\ This' = This
    BY <1>15, SameThis DEF RbPins, InTx, RunType, disk, run, Concludes, Abandon
  <2>2. tx' = tx
    BY <1>15 DEF RbPins, run
  <2>3. Among(Captured)' => Among(Captured)
    BY <1>15, <2>1 DEF RbPins, run, Go, InTx, Concludes, Abandon, Among, InFlight, Captured, RunType
  <2>4. displaced' = displaced
    BY <1>15 DEF RbPins, run
  <2>. QED  BY <2>1, <2>2, <2>3, <2>4 DEF TxPaths, Keeps
<1>16. CASE RbUnits
  <2>1. lock \in Runs /\ lock # Nobody /\ lock' = lock /\ This' = This
    BY <1>16, SameThis DEF RbUnits, InTx, RunType, disk, run, Concludes, Abandon
  <2>2. Keeps
    BY <1>16, TxKeeps
  <2>3. Among(Captured)' => Among(Captured)
    BY <1>16, <2>1 DEF RbUnits, run, Go, InTx, Concludes, Abandon, Among, InFlight, Captured, RunType
  <2>4. displaced' = displaced
    BY <1>16 DEF RbUnits, run
  <2>. QED  BY <2>1, <2>2, <2>3, <2>4 DEF TxPaths, Keeps
<1>17. CASE RbRestart
  <2>1. lock \in Runs /\ lock # Nobody /\ lock' = lock /\ This' = This
    BY <1>17, SameThis DEF RbRestart, InTx, RunType, disk, run, Concludes, Abandon
  <2>2. Keeps
    BY <1>17, TxKeeps
  <2>3. Among(Captured)' => Among(Captured)
    BY <1>17, <2>1 DEF RbRestart, run, Go, InTx, Concludes, Abandon, Among, InFlight, Captured, RunType
  <2>4. displaced' = displaced
    BY <1>17 DEF RbRestart, run
  <2>. QED  BY <2>1, <2>2, <2>3, <2>4 DEF TxPaths, Keeps
<1>18. CASE RbStart
  <2>1. lock \in Runs /\ lock # Nobody /\ lock' = lock /\ This' = This
    BY <1>18, SameThis DEF RbStart, InTx, RunType, disk, run, Concludes, Abandon
  <2>2. tx' = tx
    BY <1>18 DEF RbStart, run
  <2>3. Among(Captured)' => Among(Captured)
    BY <1>18, <2>1 DEF RbStart, run, Go, InTx, Concludes, Abandon, Among, InFlight, Captured, RunType
  <2>4. displaced' = displaced
    BY <1>18 DEF RbStart, run
  <2>. QED  BY <2>1, <2>2, <2>3, <2>4 DEF TxPaths, Keeps
<1>19. CASE RbProve
  <2>1. lock \in Runs /\ lock # Nobody /\ lock' = lock /\ This' = This
    BY <1>19, SameThis DEF RbProve, InTx, RunType, disk, run, Concludes, Abandon
  <2>2. tx' = tx
    BY <1>19 DEF RbProve, run
  <2>3. Among(Captured)' => Among(Captured)
    BY <1>19, <2>1 DEF RbProve, run, Go, InTx, Concludes, Abandon, Among, InFlight, Captured, RunType
  <2>4. displaced' = displaced
    BY <1>19 DEF RbProve, run
  <2>. QED  BY <2>1, <2>2, <2>3, <2>4 DEF TxPaths, Keeps
<1>20. CASE RbAbandon
  <2>1. lock \in Runs /\ lock # Nobody /\ lock' = lock /\ This' = This
    BY <1>20, SameThis DEF RbAbandon, InTx, RunType, disk, run, Concludes, Abandon
  <2>2. tx' = tx
    BY <1>20 DEF RbAbandon, run
  <2>3. Among(Captured)' => Among(Captured)
    BY <1>20, <2>1 DEF RbAbandon, run, Go, InTx, Concludes, Abandon, Among, InFlight, Captured, RunType
  <2>4. displaced' = displaced
    BY <1>20 DEF RbAbandon, run
  <2>. QED  BY <2>1, <2>2, <2>3, <2>4 DEF TxPaths, Keeps
<1>21. CASE Finish
  <2>1. lock \in Runs /\ lock # Nobody /\ lock' = lock /\ This' = This
    BY <1>21, SameThis DEF Finish, InTx, RunType, disk, run, Concludes, Abandon
  <2>2. tx' = tx
    BY <1>21 DEF Finish, run
  <2>3. Among(Captured)' => Among(Captured)
    BY <1>21, <2>1 DEF Finish, run, Go, InTx, Concludes, Abandon, Among, InFlight, Captured, RunType
  <2>4. displaced' = displaced
    BY <1>21 DEF Finish, run
  <2>. QED  BY <2>1, <2>2, <2>3, <2>4 DEF TxPaths, Keeps
<1>22. CASE Prune
  <2>1. lock \in Runs /\ lock # Nobody /\ lock' = lock /\ This' = This
    BY <1>22, SameThis DEF Prune, InTx, RunType, disk, run, Concludes, Abandon
  <2>2. tx' = tx
    BY <1>22 DEF Prune, run
  <2>3. Among(Captured)' => Among(Captured)
    BY <1>22, <2>1 DEF Prune, run, Go, InTx, Concludes, Abandon, Among, InFlight, Captured, RunType
  <2>4. displaced' = displaced
    BY <1>22 DEF Prune, run
  <2>. QED  BY <2>1, <2>2, <2>3, <2>4 DEF TxPaths, Keeps
<1>23. CASE SnapshotCleanup
  <2>1. lock \in Runs /\ lock # Nobody /\ lock' = lock /\ This' = This
    BY <1>23, SameThis DEF SnapshotCleanup, InTx, RunType, disk, run, Concludes, Abandon
  <2>2. tx' = tx
    BY <1>23 DEF SnapshotCleanup, run
  <2>3. Among(Captured)' => Among(Captured)
    BY <1>23, <2>1
    DEF SnapshotCleanup, run, Go, InTx, Concludes, Abandon, Among, InFlight, Captured, RunType
  <2>4. displaced' = displaced
    BY <1>23 DEF SnapshotCleanup, run
  <2>. QED  BY <2>1, <2>2, <2>3, <2>4 DEF TxPaths, Keeps
<1>24. CASE Release
  BY <1>24 DEF Release, End, TxPaths, Among
<1>25. CASE Crash
  BY <1>25 DEF Crash, End, TxPaths, Among
<1>26. CASE Upgrade
  BY <1>26, SameThis DEF Upgrade, run, TxPaths, Among
<1>27. CASE Publish
  BY <1>27, SameThis DEF Publish, run, TxPaths, Among
<1>28. ASSUME NEW r \in Runs, Load(r) PROVE TxPaths'
  <2>1. r # lock /\ lock' = lock /\ UNCHANGED <<todo, tx, displaced, result>> /\ This' = This
    BY <1>28, UpdateAssumption, SameThis DEF Load, Held, Free, run
  <2>2. lock # Nobody => at'[lock] = at[lock]
    BY <1>28, <2>1 DEF Load, Leave, RunType
  <2>. QED  BY <2>1, <2>2 DEF TxPaths, Among
<1>29. ASSUME NEW r \in Runs, Fetch(r) PROVE TxPaths'
  <2>1. r # lock /\ lock' = lock /\ UNCHANGED <<todo, tx, displaced, result>> /\ This' = This
    BY <1>29, UpdateAssumption, SameThis DEF Fetch, Held, Free, run
  <2>2. lock # Nobody => at'[lock] = at[lock]
    BY <1>29, <2>1 DEF Fetch, Leave, RunType
  <2>. QED  BY <2>1, <2>2 DEF TxPaths, Among
<1>30. ASSUME NEW r \in Runs, Save(r) PROVE TxPaths'
  <2>1. r # lock /\ lock' = lock /\ UNCHANGED <<todo, tx, displaced, result>> /\ This' = This
    BY <1>30, UpdateAssumption, SameThis DEF Save, Held, Free, run
  <2>2. lock # Nobody => at'[lock] = at[lock]
    BY <1>30, <2>1 DEF Save, Leave, RunType
  <2>. QED  BY <2>1, <2>2 DEF TxPaths, Among
<1>31. ASSUME NEW r \in Runs, Decide(r) PROVE TxPaths'
  <2>1. r # lock /\ lock' = lock /\ UNCHANGED <<todo, tx, displaced, result>> /\ This' = This
    BY <1>31, UpdateAssumption, SameThis DEF Decide, Held, Free, run
  <2>2. lock # Nobody => at'[lock] = at[lock]
    BY <1>31, <2>1 DEF Decide, Leave, RunType
  <2>. QED  BY <2>1, <2>2 DEF TxPaths, Among
<1>32. ASSUME NEW r \in Runs, Acquire(r) PROVE TxPaths'
  <2>1. lock' = r /\ r # Nobody /\ at'[r] = "prove" /\ tx'.snap = NoTuple
    BY <1>32, UpdateAssumption, NoTxIs DEF Acquire, RunType
  <2>. QED  BY <2>1 DEF TxPaths, Among, InFlight, Captured
<1>. QED  BY <1>1, <1>2, <1>3, <1>4, <1>5, <1>6, <1>7, <1>8, <1>9, <1>10, <1>11, <1>12, <1>13,
         <1>14, <1>15, <1>16, <1>17, <1>18, <1>19, <1>20, <1>21, <1>22, <1>23, <1>24, <1>25, <1>26,
         <1>27, <1>28, <1>29, <1>30, <1>31, <1>32 DEF Next, Forward, Rollback, Ending, Check

\* Each step keeps the retained tuples on snapshots of their own subsystem.
LEMMA OwnedStep ==
  ASSUME TypeOK, Held, TupleHeld, Next
  PROVE  PrevOwned'
<1>. USE DEF TypeOK
<1>0. Among(InFlight) => This \in todo /\ This \in Kinds
  BY ThisIsToDo DEF RunType, Held
<1>. USE DEF TupleHeld
<1>1. CASE ProveCurrent \/ Capture \/ Pull \/ Stop \/ Snapshot \/ Reopen \/ Apply \/ Restart \/ StartNew \/ ProveNew \/
            RbStop \/ RbData \/ RbUnits \/ RbRestart \/ RbStart \/ RbProve \/ RbAbandon \/ Finish \/ Prune \/
            SnapshotCleanup \/ Release \/ Crash \/ Upgrade \/ Publish
  BY <1>1 DEF ProveCurrent, Capture, Pull, Stop, Snapshot, Reopen, Apply, Restart, StartNew,
         ProveNew, RbStop, RbData, RbUnits, RbRestart, RbStart, RbProve, RbAbandon, Finish, Prune,
         SnapshotCleanup, Release, Crash, Upgrade, Publish, host, stack, disk, run, history, End,
         PrevOwned, Owned
<1>2. CASE WritePins
  <2>1. This \in Kinds /\ lock # Nobody
    BY <1>2, <1>0 DEF WritePins, InTx, Among, InFlight
  <2>2. Record(store, This, Target).prev = store.prev
    BY <2>1, TargetType, RecordIs DEF StoreType
  <2>. QED  BY <1>2, <2>2 DEF WritePins, PrevOwned, Owned
<1>3. CASE Commit
  <2>1. This \in Kinds /\ lock # Nobody
    BY <1>3, <1>0 DEF Commit, InTx, Among, InFlight
  <2>2. tx.ref \in Image /\ tx.snap \in Snapshots \cup {NoTuple} /\ (tx.snap # NoTuple => tx.snap[1] = This)
    BY <1>3, <2>1 DEF Commit, InTx, Among, InFlight, Captured, TxPlaced, TxPaths, TxType, Tuples
  <2>3. Record(store, This, Target) \in Stores /\ Record(store, This, Target).prev = store.prev
    BY <2>1, TargetType, RecordIs DEF StoreType
  <2>4. store' = store \/ store'.prev = [store.prev EXCEPT ![This] = [ref |-> tx.ref, snap |-> tx.snap]]
    BY <1>3, <2>1, <2>2, <2>3, RetainIs DEF Commit
  <2>5. Owned(store)'
    <3>. SUFFICES ASSUME NEW k \in Kinds, store'.prev[k] # NoTuple, store'.prev[k].snap # NoTuple
                  PROVE  store'.prev[k].snap[1] = k
      BY DEF Owned
    <3>1. CASE store'.prev[k] = store.prev[k]
      BY <3>1 DEF PrevOwned, Owned
    <3>2. CASE k = This /\ store'.prev[k] = [ref |-> tx.ref, snap |-> tx.snap]
      BY <2>2, <3>2
    <3>. QED  BY <2>1, <2>4, <3>1, <3>2 DEF StoreType, Stores
  <2>. QED  BY <1>3, <2>5 DEF Commit, PrevOwned, Owned
<1>4. CASE RbPins
  <2>1. This \in Kinds /\ tx.ref \in Image
    BY <1>4, <1>0 DEF RbPins, InTx, Among, InFlight, Captured, TxPlaced
  <2>2. PinBack(store).prev = store.prev
    BY <2>1, RecordIs DEF StoreType, PinBack
  <2>. QED  BY <1>4, <2>2 DEF RbPins, PrevOwned, Owned
<1>5. ASSUME NEW r \in Runs, Load(r) PROVE PrevOwned'
  <2>1. \A q \in Runs : seen'[q] \in {seen[q], store, Fresh}
    BY <1>5 DEF Load, StoreType
  <2>. QED  BY <1>5, <2>1, FreshIs DEF Load, PrevOwned, Owned
<1>6. ASSUME NEW r \in Runs, Fetch(r) PROVE PrevOwned'
  <2>1. \A q \in Runs : seen'[q] \in {seen[q], Fresh}
    BY <1>6 DEF Fetch, Leave, StoreType
  <2>. QED  BY <1>6, <2>1, FreshIs DEF Fetch, PrevOwned, Owned
<1>7. ASSUME NEW r \in Runs, Save(r) PROVE PrevOwned'
  <2>1. store' = store \/ store'.prev = seen[r].prev
    BY <1>7, AcceptIs DEF Save, StoreType
  <2>. QED  BY <1>7, <2>1 DEF Save, PrevOwned, Owned
<1>8. ASSUME NEW r \in Runs, Decide(r) PROVE PrevOwned'
  <2>1. \A q \in Runs : seen'[q] \in {seen[q], Fresh}
    BY <1>8 DEF Decide, Leave, StoreType
  <2>. QED  BY <1>8, <2>1, FreshIs DEF Decide, PrevOwned, Owned
<1>9. ASSUME NEW r \in Runs, Acquire(r) PROVE PrevOwned'
  <2>1. \A q \in Runs : seen'[q] \in {seen[q], Fresh}
    BY <1>9 DEF Acquire, Leave, StoreType
  <2>. QED  BY <1>9, <2>1, FreshIs DEF Acquire, PrevOwned, Owned
<1>. QED
  BY <1>1, <1>2, <1>3, <1>4, <1>5, <1>6, <1>7, <1>8, <1>9 DEF Next, Forward, Rollback, Ending, Check

----------------------------------------------------------------------------
(* Lost data has a copy.                                                   *)

\* Nothing but an import loses data, and nothing finds it again.
NoLoss == \A k \in Stateful : data'[k] = Lost => data[k] = Lost

\* A start loses no data.
LEMMA StartNoLoss ==
  ASSUME StackType, NEW k \in Kinds, Start({k})
  PROVE  NoLoss
<1>. SUFFICES ASSUME NEW j \in Stateful, data'[j] = Lost, data[j] # Lost PROVE FALSE
  BY DEF NoLoss
<1>1. data[j] \in Image /\ unit[j] \in Image
  BY UpdateAssumption DEF StackType
<1>2. Max({data[j], unit[j]}) \in Image
  BY <1>1, MaxOfTwo, ImageType
<1>. QED  BY <1>2, StartDoes, NotAnImage

\* Only an import over the volume can lose data.
LEMMA LossStep ==
  ASSUME TypeOK, Held,
         ProveCurrent \/ Capture \/ Pull \/ Stop \/ Snapshot \/ Reopen \/ WritePins \/ Apply \/ Restart \/ StartNew \/
         ProveNew \/ RbStop \/ RbPins \/ RbUnits \/ RbRestart \/ RbStart \/ RbProve \/ RbAbandon
  PROVE  NoLoss
<1>. USE DEF TypeOK
<1>0. Among(InFlight) => This \in todo /\ This \in Kinds
  BY ThisIsToDo DEF RunType, Held
<1>1. CASE ProveCurrent \/ Capture \/ Pull \/ Stop \/ Snapshot \/ WritePins \/ Apply \/ ProveNew \/ RbStop \/ RbPins \/
            RbUnits \/ RbProve
  BY <1>1 DEF ProveCurrent, Capture, Pull, Stop, Snapshot, WritePins, Apply, ProveNew, RbStop,
         RbPins, RbUnits, RbProve, host, stack, disk, run, history, NoLoss
<1>2. CASE Reopen
  <2>1. This \in Kinds
    BY <1>2, <1>0 DEF Reopen, InTx, Among, InFlight
  <2>. QED  BY <1>2, <2>1, StartNoLoss DEF Reopen, StartDown, NoLoss
<1>3. CASE StartNew
  <2>1. This \in Kinds
    BY <1>3, <1>0 DEF StartNew, InTx, Among, InFlight
  <2>. QED  BY <1>3, <2>1, StartNoLoss DEF StartNew, StartDown, NoLoss
<1>4. CASE RbStart
  <2>1. This \in Kinds
    BY <1>4, <1>0 DEF RbStart, InTx, Among, InFlight
  <2>. QED  BY <1>4, <2>1, StartNoLoss DEF RbStart, StartDown, NoLoss
<1>5. CASE RbAbandon
  <2>1. This \in Kinds
    BY <1>5, <1>0 DEF RbAbandon, InTx, Among, InFlight
  <2>. QED  BY <1>5, <2>1, StartNoLoss DEF RbAbandon, StartDown, NoLoss
<1>6. CASE Restart
  <2>1. tx.left \subseteq Kinds
    BY DEF TxType, Tuples
  <2>2. data' = data \/ \E k \in tx.left : Start({k})
    BY <1>6, Zenon DEF Restart
  <2>. QED  BY <2>1, <2>2, StartNoLoss DEF NoLoss
<1>7. CASE RbRestart
  <2>1. tx.left \subseteq Kinds
    BY DEF TxType, Tuples
  <2>2. data' = data \/ \E k \in tx.left : Start({k})
    BY <1>7, Zenon DEF RbRestart
  <2>. QED  BY <2>1, <2>2, StartNoLoss DEF NoLoss
<1>. QED  BY <1>1, <1>2, <1>3, <1>4, <1>5, <1>6, <1>7

\* Each step keeps a copy of what it loses: the cleanup removes a snapshot only when the
\* data it was displaced from is there.
LEMMA SavedStep ==
  ASSUME TypeOK, Held, TupleHeld, Saved, Next
  PROVE  Saved'
<1>. USE DEF TypeOK
<1>0. Among(InFlight) => This \in todo /\ This \in Kinds
  BY ThisIsToDo DEF RunType, Held
<1>. USE DEF TupleHeld
<1>1. CASE ProveCurrent
  <2>1. lock \in Runs /\ lock # Nobody /\ lock' = lock /\ This \in Kinds /\ This' = This
    BY <1>1, <1>0, SameThis
    DEF ProveCurrent, InTx, Among, InFlight, RunType, disk, run, Concludes, Abandon
  <2>2. NoLoss /\ todo' = todo /\ displaced' = displaced /\ DOMAIN snaps \subseteq DOMAIN snaps'
    BY <1>1, LossStep DEF ProveCurrent, run, disk, Concludes, Abandon
  <2>3. Among(Kept)' /\ This \in Stateful => data'[This] # Lost
    BY <1>1, <2>1 DEF ProveCurrent, Go, Concludes, Among, Kept, RunType, Healthy, ReadsItsData, stack
  <2>. QED  BY <2>1, <2>2, <2>3, UpdateAssumption DEF Saved, NoLoss, LostDataHasACopy
<1>2. CASE Capture
  <2>1. lock \in Runs /\ lock # Nobody /\ lock' = lock /\ This \in Kinds /\ This' = This
    BY <1>2, <1>0, SameThis DEF Capture, InTx, Among, InFlight, RunType, disk, run, Concludes, Abandon
  <2>2. NoLoss /\ todo' = todo /\ displaced' = displaced /\ DOMAIN snaps \subseteq DOMAIN snaps'
    BY <1>2, LossStep DEF Capture, run, disk, Concludes, Abandon
  <2>3. Among(Kept)' => Among(Kept)
    BY <1>2, <2>1 DEF Capture, run, Go, InTx, Concludes, Abandon, Among, Kept, RunType
  <2>. QED  BY <2>1, <2>2, <2>3, UpdateAssumption DEF Saved, NoLoss, LostDataHasACopy
<1>3. CASE Pull
  <2>1. lock \in Runs /\ lock # Nobody /\ lock' = lock /\ This \in Kinds /\ This' = This
    BY <1>3, <1>0, SameThis DEF Pull, InTx, Among, InFlight, RunType, disk, run, Concludes, Abandon
  <2>2. NoLoss /\ todo' = todo /\ displaced' = displaced /\ DOMAIN snaps \subseteq DOMAIN snaps'
    BY <1>3, LossStep DEF Pull, run, disk, Concludes, Abandon
  <2>3. Among(Kept)' => Among(Kept)
    BY <1>3, <2>1 DEF Pull, run, Go, InTx, Concludes, Abandon, Among, Kept, RunType
  <2>. QED  BY <2>1, <2>2, <2>3, UpdateAssumption DEF Saved, NoLoss, LostDataHasACopy
<1>4. CASE Stop
  <2>1. lock \in Runs /\ lock # Nobody /\ lock' = lock /\ This \in Kinds /\ This' = This
    BY <1>4, <1>0, SameThis DEF Stop, InTx, Among, InFlight, RunType, disk, run, Concludes, Abandon
  <2>2. NoLoss /\ todo' = todo /\ displaced' = displaced /\ DOMAIN snaps \subseteq DOMAIN snaps'
    BY <1>4, LossStep DEF Stop, run, disk, Concludes, Abandon
  <2>3. Among(Kept)' => Among(Kept)
    BY <1>4, <2>1 DEF Stop, run, Go, InTx, Concludes, Abandon, Among, Kept, RunType
  <2>. QED  BY <2>1, <2>2, <2>3, UpdateAssumption DEF Saved, NoLoss, LostDataHasACopy
<1>5. CASE Snapshot
  <2>1. lock \in Runs /\ lock # Nobody /\ lock' = lock /\ This \in Kinds /\ This' = This
    BY <1>5, <1>0, SameThis DEF Snapshot, InTx, Among, InFlight, RunType, disk, run, Concludes, Abandon
  <2>2. NoLoss /\ todo' = todo /\ displaced' = displaced /\ DOMAIN snaps \subseteq DOMAIN snaps'
    BY <1>5, LossStep DEF Snapshot
  <2>3. Among(Kept)' => Among(Kept)
    BY <1>5, <2>1 DEF Snapshot, run, Go, InTx, Concludes, Abandon, Among, Kept, RunType
  <2>. QED  BY <2>1, <2>2, <2>3, UpdateAssumption DEF Saved, NoLoss, LostDataHasACopy
<1>6. CASE Reopen
  <2>1. lock \in Runs /\ lock # Nobody /\ lock' = lock /\ This \in Kinds /\ This' = This
    BY <1>6, <1>0, SameThis DEF Reopen, InTx, Among, InFlight, RunType, disk, run, Concludes, Abandon
  <2>2. NoLoss /\ todo' = todo /\ displaced' = displaced /\ DOMAIN snaps \subseteq DOMAIN snaps'
    BY <1>6, LossStep DEF Reopen, run, disk, Concludes, Abandon
  <2>3. Among(Kept)' => Among(Kept)
    BY <1>6, <2>1 DEF Reopen, run, Go, InTx, Concludes, Abandon, Among, Kept, RunType
  <2>. QED  BY <2>1, <2>2, <2>3, UpdateAssumption DEF Saved, NoLoss, LostDataHasACopy
<1>7. CASE WritePins
  <2>1. lock \in Runs /\ lock # Nobody /\ lock' = lock /\ This \in Kinds /\ This' = This
    BY <1>7, <1>0, SameThis DEF WritePins, InTx, Among, InFlight, RunType, disk, run, Concludes, Abandon
  <2>2. NoLoss /\ todo' = todo /\ displaced' = displaced /\ DOMAIN snaps \subseteq DOMAIN snaps'
    BY <1>7, LossStep DEF WritePins, run, disk, Concludes, Abandon
  <2>3. Among(Kept)' => Among(Kept)
    BY <1>7, <2>1 DEF WritePins, run, Go, InTx, Concludes, Abandon, Among, Kept, RunType
  <2>. QED  BY <2>1, <2>2, <2>3, UpdateAssumption DEF Saved, NoLoss, LostDataHasACopy
<1>8. CASE Apply
  <2>1. lock \in Runs /\ lock # Nobody /\ lock' = lock /\ This \in Kinds /\ This' = This
    BY <1>8, <1>0, SameThis DEF Apply, InTx, Among, InFlight, RunType, disk, run, Concludes, Abandon
  <2>2. NoLoss /\ todo' = todo /\ displaced' = displaced /\ DOMAIN snaps \subseteq DOMAIN snaps'
    BY <1>8, LossStep DEF Apply, run, disk, Concludes, Abandon
  <2>3. Among(Kept)' => Among(Kept)
    BY <1>8, <2>1 DEF Apply, run, Go, InTx, Concludes, Abandon, Among, Kept, RunType
  <2>. QED  BY <2>1, <2>2, <2>3, UpdateAssumption DEF Saved, NoLoss, LostDataHasACopy
<1>9. CASE Restart
  <2>1. lock \in Runs /\ lock # Nobody /\ lock' = lock /\ This \in Kinds /\ This' = This
    BY <1>9, <1>0, SameThis DEF Restart, InTx, Among, InFlight, RunType, disk, run, Concludes, Abandon
  <2>2. NoLoss /\ todo' = todo /\ displaced' = displaced /\ DOMAIN snaps \subseteq DOMAIN snaps'
    BY <1>9, LossStep DEF Restart, run, disk, Concludes, Abandon
  <2>3. Among(Kept)' => Among(Kept)
    BY <1>9, <2>1 DEF Restart, run, Go, InTx, Concludes, Abandon, Among, Kept, RunType
  <2>. QED  BY <2>1, <2>2, <2>3, UpdateAssumption DEF Saved, NoLoss, LostDataHasACopy
<1>10. CASE StartNew
  <2>1. lock \in Runs /\ lock # Nobody /\ lock' = lock /\ This \in Kinds /\ This' = This
    BY <1>10, <1>0, SameThis DEF StartNew, InTx, Among, InFlight, RunType, disk, run, Concludes, Abandon
  <2>2. NoLoss /\ todo' = todo /\ displaced' = displaced /\ DOMAIN snaps \subseteq DOMAIN snaps'
    BY <1>10, LossStep DEF StartNew, run, disk, Concludes, Abandon
  <2>3. Among(Kept)' => Among(Kept)
    BY <1>10, <2>1 DEF StartNew, run, Go, InTx, Concludes, Abandon, Among, Kept, RunType
  <2>. QED  BY <2>1, <2>2, <2>3, UpdateAssumption DEF Saved, NoLoss, LostDataHasACopy
<1>11. CASE ProveNew
  <2>1. lock \in Runs /\ lock # Nobody /\ lock' = lock /\ This \in Kinds /\ This' = This
    BY <1>11, <1>0, SameThis DEF ProveNew, InTx, Among, InFlight, RunType, disk, run, Concludes, Abandon
  <2>2. NoLoss /\ todo' = todo /\ displaced' = displaced /\ DOMAIN snaps \subseteq DOMAIN snaps'
    BY <1>11, LossStep DEF ProveNew, run, disk, Concludes, Abandon
  <2>3. Among(Kept)' => Among(Kept)
    BY <1>11, <2>1 DEF ProveNew, run, Go, InTx, Concludes, Abandon, Among, Kept, RunType
  <2>. QED  BY <2>1, <2>2, <2>3, UpdateAssumption DEF Saved, NoLoss, LostDataHasACopy
<1>12. CASE Commit
  <2>1. lock \in Runs /\ lock # Nobody /\ lock' = lock /\ This \in todo /\ UNCHANGED <<data, snaps>>
    BY <1>12, <1>0 DEF Commit, InTx, Among, InFlight, RunType, disk, stack
  <2>2. ~Among(Kept)'
    BY <1>12, <2>1 DEF Commit, Go, Among, Kept, RunType
  <2>3. tx.prior \in Snapshots \cup {NoTuple} /\ (tx.prior # NoTuple => tx.prior[1] = This)
    BY <1>12 DEF Commit, InTx, Among, InFlight, Captured, TxPaths, TxType, Tuples
  <2>4. tx.prior # NoTuple => This \in Stateful /\ data[This] # Lost
    <3>1. tx.prior # NoTuple => tx.prior[1] \in Stateful
      BY <2>3 DEF Snapshots
    <3>. QED  BY <1>12, <2>3, <3>1 DEF Commit, InTx, Among, Kept, Saved
  <2>5. displaced'.snaps \subseteq displaced.snaps \cup ({tx.prior} \ {NoTuple}) /\ todo' = todo \ {This}
    BY <1>12 DEF Commit
  <2>6. ASSUME NEW s \in displaced'.snaps PROVE s[1] \in Stateful /\ s[1] \notin todo' /\ data[s[1]] # Lost
    BY <2>3, <2>4, <2>5, <2>6 DEF Saved
  <2>. QED  BY <2>1, <2>2, <2>6 DEF Saved, LostDataHasACopy
<1>13. CASE RbStop
  <2>1. lock \in Runs /\ lock # Nobody /\ lock' = lock /\ This \in Kinds /\ This' = This
    BY <1>13, <1>0, SameThis DEF RbStop, InTx, Among, InFlight, RunType, disk, run, Concludes, Abandon
  <2>2. NoLoss /\ todo' = todo /\ displaced' = displaced /\ DOMAIN snaps \subseteq DOMAIN snaps'
    BY <1>13, LossStep DEF RbStop, run, disk, Concludes, Abandon
  <2>3. Among(Kept)' => Among(Kept)
    BY <1>13, <2>1 DEF RbStop, run, Go, InTx, Concludes, Abandon, Among, Kept, RunType
  <2>. QED  BY <2>1, <2>2, <2>3, UpdateAssumption DEF Saved, NoLoss, LostDataHasACopy
<1>14. CASE RbData
  <2>1. lock \in Runs /\ lock # Nobody /\ lock' = lock /\ This \in todo /\ This \in Stateful
        /\ UNCHANGED <<todo, displaced, snaps>>
    BY <1>14, <1>0 DEF RbData, InTx, Among, InFlight, RunType, disk, run, TxPlaced
  <2>2. tx.snap \in DOMAIN snaps /\ tx.snap[1] = This
    BY <1>14, <2>1 DEF RbData, InTx, Among, InFlight, Windowed, Before, TxPlaced, TxPaths, TxType
  <2>3. ~Among(Kept)'
    BY <1>14, <2>1 DEF RbData, Go, Among, Kept, RunType
  <2>4. \A k \in Stateful \ {This} : data'[k] = data[k]
    BY <1>14 DEF RbData, StackType
  <2>. QED  BY <2>1, <2>2, <2>3, <2>4 DEF Saved, LostDataHasACopy
<1>15. CASE RbPins
  <2>1. lock \in Runs /\ lock # Nobody /\ lock' = lock /\ This \in Kinds /\ This' = This
    BY <1>15, <1>0, SameThis DEF RbPins, InTx, Among, InFlight, RunType, disk, run, Concludes, Abandon
  <2>2. NoLoss /\ todo' = todo /\ displaced' = displaced /\ DOMAIN snaps \subseteq DOMAIN snaps'
    BY <1>15, LossStep DEF RbPins, run, disk, Concludes, Abandon
  <2>3. Among(Kept)' => Among(Kept)
    BY <1>15, <2>1 DEF RbPins, run, Go, InTx, Concludes, Abandon, Among, Kept, RunType
  <2>. QED  BY <2>1, <2>2, <2>3, UpdateAssumption DEF Saved, NoLoss, LostDataHasACopy
<1>16. CASE RbUnits
  <2>1. lock \in Runs /\ lock # Nobody /\ lock' = lock /\ This \in Kinds /\ This' = This
    BY <1>16, <1>0, SameThis DEF RbUnits, InTx, Among, InFlight, RunType, disk, run, Concludes, Abandon
  <2>2. NoLoss /\ todo' = todo /\ displaced' = displaced /\ DOMAIN snaps \subseteq DOMAIN snaps'
    BY <1>16, LossStep DEF RbUnits, run, disk, Concludes, Abandon
  <2>3. Among(Kept)' => Among(Kept)
    BY <1>16, <2>1 DEF RbUnits, run, Go, InTx, Concludes, Abandon, Among, Kept, RunType
  <2>. QED  BY <2>1, <2>2, <2>3, UpdateAssumption DEF Saved, NoLoss, LostDataHasACopy
<1>17. CASE RbRestart
  <2>1. lock \in Runs /\ lock # Nobody /\ lock' = lock /\ This \in Kinds /\ This' = This
    BY <1>17, <1>0, SameThis
    DEF RbRestart, InTx, Among, InFlight, RunType, disk, run, Concludes, Abandon
  <2>2. NoLoss /\ todo' = todo /\ displaced' = displaced /\ DOMAIN snaps \subseteq DOMAIN snaps'
    BY <1>17, LossStep DEF RbRestart, run, disk, Concludes, Abandon
  <2>3. Among(Kept)' => Among(Kept)
    BY <1>17, <2>1 DEF RbRestart, run, Go, InTx, Concludes, Abandon, Among, Kept, RunType
  <2>. QED  BY <2>1, <2>2, <2>3, UpdateAssumption DEF Saved, NoLoss, LostDataHasACopy
<1>18. CASE RbStart
  <2>1. lock \in Runs /\ lock # Nobody /\ lock' = lock /\ This \in Kinds /\ This' = This
    BY <1>18, <1>0, SameThis DEF RbStart, InTx, Among, InFlight, RunType, disk, run, Concludes, Abandon
  <2>2. NoLoss /\ todo' = todo /\ displaced' = displaced /\ DOMAIN snaps \subseteq DOMAIN snaps'
    BY <1>18, LossStep DEF RbStart, run, disk, Concludes, Abandon
  <2>3. Among(Kept)' => Among(Kept)
    BY <1>18, <2>1 DEF RbStart, run, Go, InTx, Concludes, Abandon, Among, Kept, RunType
  <2>. QED  BY <2>1, <2>2, <2>3, UpdateAssumption DEF Saved, NoLoss, LostDataHasACopy
<1>19. CASE RbProve
  <2>1. lock \in Runs /\ lock # Nobody /\ lock' = lock /\ This \in Kinds /\ This' = This
    BY <1>19, <1>0, SameThis DEF RbProve, InTx, Among, InFlight, RunType, disk, run, Concludes, Abandon
  <2>2. NoLoss /\ todo' = todo /\ displaced' = displaced /\ DOMAIN snaps \subseteq DOMAIN snaps'
    BY <1>19, LossStep DEF RbProve, run, disk, Concludes, Abandon
  <2>3. Among(Kept)' => Among(Kept)
    BY <1>19, <2>1 DEF RbProve, run, Go, InTx, Concludes, Abandon, Among, Kept, RunType
  <2>. QED  BY <2>1, <2>2, <2>3, UpdateAssumption DEF Saved, NoLoss, LostDataHasACopy
<1>20. CASE RbAbandon
  <2>1. lock \in Runs /\ lock # Nobody /\ lock' = lock /\ This \in Kinds /\ This' = This
    BY <1>20, <1>0, SameThis
    DEF RbAbandon, InTx, Among, InFlight, RunType, disk, run, Concludes, Abandon
  <2>2. NoLoss /\ todo' = todo /\ displaced' = displaced /\ DOMAIN snaps \subseteq DOMAIN snaps'
    BY <1>20, LossStep DEF RbAbandon, run, disk, Concludes, Abandon
  <2>3. Among(Kept)' => Among(Kept)
    BY <1>20, <2>1 DEF RbAbandon, run, Go, InTx, Concludes, Abandon, Among, Kept, RunType
  <2>. QED  BY <2>1, <2>2, <2>3, UpdateAssumption DEF Saved, NoLoss, LostDataHasACopy
<1>21. CASE Finish
  <2>1. lock \in Runs /\ lock # Nobody /\ lock' = lock /\ data' = data /\ todo' = todo /\ displaced' = displaced
    BY <1>21 DEF Finish, InTx, RunType, disk, run, stack
  <2>2. ~Among(Kept)'
    BY <1>21, <2>1 DEF Finish, Go, Among, Kept, RunType
  <2>. QED  BY <1>21, <2>1, <2>2 DEF Finish, disk, Saved, LostDataHasACopy
<1>22. CASE Prune
  <2>1. lock \in Runs /\ lock # Nobody /\ lock' = lock /\ data' = data /\ todo' = todo /\ displaced' = displaced
    BY <1>22 DEF Prune, InTx, RunType, disk, run, stack
  <2>2. ~Among(Kept)'
    BY <1>22, <2>1 DEF Prune, Go, Among, Kept, RunType
  <2>. QED  BY <1>22, <2>1, <2>2 DEF Prune, Saved, LostDataHasACopy
<1>23. CASE SnapshotCleanup
  <2>1. lock \in Runs /\ lock # Nobody /\ lock' = lock /\ data' = data /\ todo' = todo /\ displaced' = displaced
    BY <1>23 DEF SnapshotCleanup, InTx, RunType, disk, run, stack
  <2>2. ~Among(Kept)'
    BY <1>23, <2>1 DEF SnapshotCleanup, Go, Among, Kept, RunType
  <2>3. DOMAIN snaps' = DOMAIN snaps \/ DOMAIN snaps' = DOMAIN snaps \ Reclaimed
    BY <1>23 DEF SnapshotCleanup
  <2>4. \A s \in Reclaimed : s[1] \in Stateful /\ data[s[1]] # Lost
    BY DEF Reclaimed, Saved
  <2>5. LostDataHasACopy'
    <3>. SUFFICES ASSUME NEW k \in Stateful, data[k] = Lost
                  PROVE  \E s \in DOMAIN snaps' : s[1] = k
      BY <2>1 DEF LostDataHasACopy
    <3>1. PICK s \in DOMAIN snaps : s[1] = k
      BY DEF Saved, LostDataHasACopy
    <3>. QED  BY <2>3, <2>4, <3>1
  <2>. QED  BY <2>1, <2>2, <2>5 DEF Saved
<1>24. CASE Release
  <2>1. lock' = Nobody /\ displaced'.snaps = {} /\ UNCHANGED <<data, snaps>>
    BY <1>24 DEF Release, End, NoneDisplaced, disk
  <2>. QED  BY <2>1 DEF Saved, Among, LostDataHasACopy
<1>25. CASE Crash
  <2>1. lock' = Nobody /\ displaced'.snaps = {} /\ snaps' = snaps
    BY <1>25 DEF Crash, End, NoneDisplaced, disk
  <2>2. CASE data' = data
    BY <2>1, <2>2 DEF Saved, Among, LostDataHasACopy
  <2>3. CASE at[lock] = "rb_data" /\ data' = [data EXCEPT ![This] = Lost]
    <3>1. tx.snap \in DOMAIN snaps /\ tx.snap[1] = This
      BY <1>25, <2>3 DEF Crash, Among, InFlight, Windowed, Before, TxPlaced, TxPaths, TxType
    <3>2. \A k \in Stateful : data'[k] = Lost => data[k] = Lost \/ k = This
      BY <2>3 DEF StackType
    <3>. QED  BY <2>1, <3>1, <3>2 DEF Saved, Among, LostDataHasACopy
  <2>. QED  BY <1>25, <2>2, <2>3 DEF Crash
<1>26. CASE Upgrade
  BY <1>26, SameThis DEF Upgrade, run, stack, disk, Saved, LostDataHasACopy, Among
<1>27. CASE Publish
  BY <1>27, SameThis DEF Publish, run, stack, disk, Saved, LostDataHasACopy, Among
<1>28. ASSUME NEW r \in Runs, Load(r) PROVE Saved'
  <2>1. r # lock /\ lock' = lock /\ UNCHANGED <<todo, displaced, data, snaps>> /\ This' = This
    BY <1>28, UpdateAssumption, SameThis DEF Load, Held, Free, run, stack, disk
  <2>2. lock # Nobody => at'[lock] = at[lock]
    BY <1>28, <2>1 DEF Load, Leave, RunType
  <2>. QED  BY <2>1, <2>2 DEF Saved, LostDataHasACopy, Among
<1>29. ASSUME NEW r \in Runs, Fetch(r) PROVE Saved'
  <2>1. r # lock /\ lock' = lock /\ UNCHANGED <<todo, displaced, data, snaps>> /\ This' = This
    BY <1>29, UpdateAssumption, SameThis DEF Fetch, Held, Free, run, stack, disk
  <2>2. lock # Nobody => at'[lock] = at[lock]
    BY <1>29, <2>1 DEF Fetch, Leave, RunType
  <2>. QED  BY <2>1, <2>2 DEF Saved, LostDataHasACopy, Among
<1>30. ASSUME NEW r \in Runs, Save(r) PROVE Saved'
  <2>1. r # lock /\ lock' = lock /\ UNCHANGED <<todo, displaced, data, snaps>> /\ This' = This
    BY <1>30, UpdateAssumption, SameThis DEF Save, Held, Free, run, stack, disk
  <2>2. lock # Nobody => at'[lock] = at[lock]
    BY <1>30, <2>1 DEF Save, Leave, RunType
  <2>. QED  BY <2>1, <2>2 DEF Saved, LostDataHasACopy, Among
<1>31. ASSUME NEW r \in Runs, Decide(r) PROVE Saved'
  <2>1. r # lock /\ lock' = lock /\ UNCHANGED <<todo, displaced, data, snaps>> /\ This' = This
    BY <1>31, UpdateAssumption, SameThis DEF Decide, Held, Free, run, stack, disk
  <2>2. lock # Nobody => at'[lock] = at[lock]
    BY <1>31, <2>1 DEF Decide, Leave, RunType
  <2>. QED  BY <2>1, <2>2 DEF Saved, LostDataHasACopy, Among
<1>32. ASSUME NEW r \in Runs, Acquire(r) PROVE Saved'
  <2>1. lock = Nobody /\ lock' = r /\ at'[r] = "prove" /\ UNCHANGED <<displaced, data, snaps>>
    BY <1>32 DEF Acquire, RunType, stack, disk
  <2>2. displaced.snaps = {}
    BY <2>1 DEF Held, NoneDisplaced
  <2>. QED  BY <2>1, <2>2 DEF Saved, LostDataHasACopy, Among, Kept
<1>. QED  BY <1>1, <1>2, <1>3, <1>4, <1>5, <1>6, <1>7, <1>8, <1>9, <1>10, <1>11, <1>12, <1>13,
         <1>14, <1>15, <1>16, <1>17, <1>18, <1>19, <1>20, <1>21, <1>22, <1>23, <1>24, <1>25, <1>26,
         <1>27, <1>28, <1>29, <1>30, <1>31, <1>32 DEF Next, Forward, Rollback, Ending, Check

\* Types, the places of the run and of its record, and a copy of every loss.
Sane == TypeOK /\ Held /\ TupleHeld /\ Saved

\* A fresh install is sane.
LEMMA SaneInit == Init => Sane
<1>. SUFFICES ASSUME Init PROVE Sane
  OBVIOUS
<1>1. HostType /\ StoreType
  BY FreshIs, PinAssumption DEF Init, HostType, StoreType
<1>2. StackType
  BY TableType, PinAssumption, UpdateAssumption DEF Init, StackType
<1>3. DiskType
  BY TableType, PinAssumption DEF Init, DiskType
<1>4. RunType
  BY UpdateAssumption DEF Init, RunType, Places, Words, NoneDisplaced
<1>5. TxType
  BY NoTxIs DEF Init, TxType
<1>6. Held
  BY DEF Init, Held, Free, Among
<1>7. TupleHeld
  BY FreshIs DEF Init, TupleHeld, TxPlaced, TxPaths, PrevOwned, Owned, Among
<1>8. Saved
  BY TableType, NotAnImage, PinAssumption, UpdateAssumption
  DEF Init, Saved, LostDataHasACopy, Among, NoneDisplaced
<1>. QED  BY <1>1, <1>2, <1>3, <1>4, <1>5, <1>6, <1>7, <1>8 DEF Sane, TypeOK

\* Every step keeps it.
LEMMA SaneStep == Sane /\ [Next]_vars => Sane'
<1>. SUFFICES ASSUME Sane, [Next]_vars PROVE Sane'
  OBVIOUS
<1>. USE DEF Sane
<1>1. CASE Next
  <2>. USE <1>1 DEF TypeOK
  <2>1. HostType' /\ StoreType' /\ StackType' /\ DiskType' /\ RunType' /\ TxType'
    BY HostStep, StoreStep, StackStep, DiskStep, RunStep, TxStep
  <2>2. Held' /\ TupleHeld' /\ Saved'
    BY HeldStep, PlacedStep, PathsStep, OwnedStep, SavedStep DEF TupleHeld
  <2>. QED  BY <2>1, <2>2
<1>2. CASE UNCHANGED vars
  <2>1. UNCHANGED <<villa, published, store, unit, running, data, images, snaps, exports, lock, at, seen, got,
                    todo, tx, result, displaced, faults>>
    BY <1>2 DEF vars, host, stack, disk, run
  <2>2. HostType' /\ StoreType' /\ StackType' /\ DiskType' /\ RunType' /\ TxType'
    BY <2>1
    DEF TypeOK, HostType, StoreType, StackType, DiskType, RunType, TxType, Stores, Snapshots, Tuples
  <2>3. Held' /\ TxPlaced' /\ TxPaths' /\ PrevOwned' /\ Saved'
    BY <2>1, SameThis
    DEF TupleHeld, Held, TxPlaced, TxPaths, PrevOwned, Owned, Saved, LostDataHasACopy, Among
  <2>. QED  BY <2>2, <2>3 DEF TypeOK, TupleHeld
<1>. QED  BY <1>1, <1>2

\* Whatever fails, the state stays well-typed, one run is past the lock, and data that an
\* import lost is left in a snapshot (update_apply.go: the snapshot, the rollback, the cleanup).
THEOREM StackIsSane == Spec => []Sane
BY SaneInit, SaneStep, PTL DEF Spec

----------------------------------------------------------------------------
(* What the way back needs is there.                                       *)

\* What the run brings depends on what it checked and on the subsystem under way.
LEMMA SameTarget ==
  ASSUME todo' = todo, got' = got, lock' = lock
  PROVE  Target' = Target /\ This' = This
BY DEF Target, This

\* What went wrong is never forgotten.
LEMMA TaintGrows ==
  ASSUME Next
  PROVE  taint \subseteq taint'
<1>1. CASE ProveCurrent \/ Pull \/ Stop \/ Snapshot \/ Reopen \/ WritePins \/ Apply \/ Restart \/ StartNew \/
            ProveNew \/ Commit \/ RbStop \/ RbData \/ RbPins \/ RbUnits \/ RbRestart \/ RbStart \/ RbProve \/
            RbAbandon \/ Finish \/ Prune \/ SnapshotCleanup \/ Publish
  BY <1>1 DEF ProveCurrent, Pull, Stop, Snapshot, Reopen, WritePins, Apply, Restart, StartNew,
         ProveNew, Commit, RbStop, RbData, RbPins, RbUnits, RbRestart, RbStart, RbProve, RbAbandon,
         Finish, Prune, SnapshotCleanup, Publish, host, stack, disk, run, history
<1>2. CASE Capture
  BY <1>2 DEF Capture
<1>3. CASE Release
  BY <1>3 DEF Release, End
<1>4. CASE Crash
  BY <1>4 DEF Crash, End
<1>5. CASE Upgrade
  BY <1>5 DEF Upgrade
<1>6. ASSUME NEW r \in Runs, Load(r) \/ Fetch(r) \/ Decide(r) \/ Acquire(r) PROVE taint \subseteq taint'
  BY <1>6 DEF Load, Fetch, Decide, Acquire, host, stack, disk, run, history
<1>7. ASSUME NEW r \in Runs, Save(r) PROVE taint \subseteq taint'
  BY <1>7 DEF Save
<1>. QED  BY <1>1, <1>2, <1>3, <1>4, <1>5, <1>6, <1>7 DEF Next, Forward, Rollback, Ending, Check

\* Without a prune of images in use, no image leaves the store: the prune removes only what
\* a displaced tuple named and no tuple or pin names now.
LEMMA ImagesStay ==
  ASSUME Sane, Present, ~Replaced, Next
  PROVE  images \subseteq images'
<1>. USE DEF Sane, TypeOK, TupleHeld
<1>0. Among(InFlight) => This \in todo /\ This \in Kinds
  BY ThisIsToDo DEF RunType, Held
<1>1. CASE ProveCurrent \/ Capture \/ Stop \/ Snapshot \/ WritePins \/ Apply \/ ProveNew \/ Commit \/ RbStop \/
            RbData \/ RbPins \/ RbUnits \/ RbProve \/ Finish \/ SnapshotCleanup \/ Release \/ Crash \/ Upgrade \/
            Publish
  BY <1>1 DEF ProveCurrent, Capture, Stop, Snapshot, WritePins, Apply, ProveNew, Commit, RbStop,
         RbData, RbPins, RbUnits, RbProve, Finish, SnapshotCleanup, Release, Crash, Upgrade,
         Publish, host, stack, disk, run, history, End
<1>2. CASE Pull
  BY <1>2 DEF Pull
<1>3. CASE Reopen
  <2>1. This \in Kinds
    BY <1>3, <1>0 DEF Reopen, InTx, Among, InFlight
  <2>. QED  BY <1>3, <2>1, StartDoes DEF Reopen, StartDown
<1>4. CASE Restart
  <2>1. tx.left \subseteq Kinds
    BY DEF TxType, Tuples
  <2>2. images' = images \/ \E k \in tx.left : Start({k})
    BY <1>4, Zenon DEF Restart
  <2>. QED  BY <2>1, <2>2, StartDoes
<1>5. CASE StartNew
  <2>1. This \in Kinds
    BY <1>5, <1>0 DEF StartNew, InTx, Among, InFlight
  <2>. QED  BY <1>5, <2>1, StartDoes DEF StartNew, StartDown
<1>6. CASE RbRestart
  <2>1. tx.left \subseteq Kinds
    BY DEF TxType, Tuples
  <2>2. images' = images \/ \E k \in tx.left : Start({k})
    BY <1>6, Zenon DEF RbRestart
  <2>. QED  BY <2>1, <2>2, StartDoes
<1>7. CASE RbStart
  <2>1. This \in Kinds
    BY <1>7, <1>0 DEF RbStart, InTx, Among, InFlight
  <2>. QED  BY <1>7, <2>1, StartDoes DEF RbStart, StartDown
<1>8. CASE RbAbandon
  <2>1. This \in Kinds
    BY <1>8, <1>0 DEF RbAbandon, InTx, Among, InFlight
  <2>. QED  BY <1>8, <2>1, StartDoes DEF RbAbandon, StartDown
<1>9. CASE Prune
  <2>1. displaced.refs \subseteq Referenced(store)
    BY DEF Present, Referenced
  <2>. QED  BY <1>9, <2>1 DEF Prune
<1>10. ASSUME NEW r \in Runs, Load(r) \/ Fetch(r) \/ Save(r) \/ Decide(r) \/ Acquire(r) PROVE images \subseteq images'
  BY <1>10 DEF Load, Fetch, Save, Decide, Acquire, host, stack, disk, run, history
<1>. QED
  BY <1>1, <1>2, <1>3, <1>4, <1>5, <1>6, <1>7, <1>8, <1>9, <1>10
  DEF Next, Forward, Rollback, Ending, Check

\* Where the new image is in the store.
Mid == {"stop", "snapshot", "mutate", "apply", "restart", "start", "prove_new", "commit"}

\* What a step that records nothing leaves as it is.
Recorded ==
  /\ lock \in Runs /\ lock # Nobody /\ UNCHANGED <<lock, got, todo, store, villa, displaced>>
  /\ tx'.ref = tx.ref

\* A step that records nothing keeps the images and snapshots the way back needs.
LEMMA RecordedPresent ==
  ASSUME Present, images \subseteq images', ~Replaced, Recorded,
         \A k \in Kinds : store.prev[k] # NoTuple /\ store.prev[k].snap \in DOMAIN snaps => store.prev[k].snap \in DOMAIN snaps',
         Among(Captured)' => Among(Captured), Among(Mid)' => Among(Mid)
  PROVE  Present'
BY SameTarget DEF Present, Recorded, Among, Mid

\* Each step keeps the images and snapshots the way back needs.
LEMMA PresentStep ==
  ASSUME Sane, Present, Next
  PROVE  Present'
<1>. USE DEF Sane, TypeOK, TupleHeld
<1>0. Among(InFlight) => This \in todo /\ This \in Kinds
  BY ThisIsToDo DEF RunType, Held
<1>. SUFFICES ASSUME ~Replaced' PROVE Present'
  BY DEF Present
<1>t. ~Replaced /\ images \subseteq images'
  BY TaintGrows, ImagesStay DEF Replaced
<1>1. CASE ProveCurrent
  <2>1. lock \in Runs /\ lock # Nobody /\ UNCHANGED <<lock, got, todo, store, villa, displaced>>
    BY <1>1 DEF ProveCurrent, InTx, RunType, host, disk, run, Concludes, Abandon
  <2>2. tx'.ref = tx.ref
    BY <1>1, ExportedIs DEF ProveCurrent, run, Exported, TxType, Tuples
  <2>3. DOMAIN snaps \subseteq DOMAIN snaps'
    BY <1>1 DEF ProveCurrent, disk
  <2>4. (Among(Captured)' => Among(Captured)) /\ (Among(Mid)' => Among(Mid))
    BY <1>1, <2>1
    DEF ProveCurrent, run, Go, InTx, Concludes, Abandon, Among, InFlight, Captured, Mid, RunType
  <2>. QED  BY <1>t, <2>1, <2>2, <2>3, <2>4, RecordedPresent DEF Recorded
<1>2. CASE Capture
  <2>1. lock \in Runs /\ lock # Nobody /\ UNCHANGED <<lock, got, todo, store, villa, displaced, snaps>> /\ This \in Kinds
    BY <1>2, <1>0 DEF Capture, InTx, RunType, host, disk, Concludes, Among, InFlight
  <2>2. ~Among(Mid)'
    BY <1>2, <2>1 DEF Capture, Go, Concludes, Among, Mid, RunType
  <2>3. Among(Captured)' => tx'.ref \in images
    <3>1. CASE tx' = CaptureOf(store) \/ tx' = CaptureOf(Fresh)
      <4>1. \A st \in {store, Fresh} : Resolve(st, villa, This) \in images
        BY <1>t, <2>1, FreshIs DEF Resolve, Present
      <4>. QED  BY <2>1, <3>1, <4>1, CaptureOfIs, FreshIs DEF StoreType
    <3>2. CASE at' = [at EXCEPT ![lock] = "finish"]
      BY <2>1, <3>2 DEF Among, InFlight, Captured, RunType
    <3>. QED  BY <1>2, <3>1, <3>2 DEF Capture, Concludes, Go
  <2>. QED  BY <1>t, <2>1, <2>2, <2>3 DEF Present, Mid
<1>3. CASE Pull
  <2>1. lock \in Runs /\ lock # Nobody /\ UNCHANGED <<lock, got, todo, store, villa, displaced, tx, snaps>>
    BY <1>3 DEF Pull, InTx, RunType, host, run, Concludes
  <2>2. Among(Captured) /\ Target' = Target
    BY <1>3, <2>1, SameTarget DEF Pull, InTx, Among, Captured, InFlight
  <2>3. Among(Mid)' => Target \in images'
    BY <1>3, <2>1 DEF Pull, Go, Concludes, Among, Mid, RunType
  <2>. QED  BY <1>t, <2>1, <2>2, <2>3 DEF Present, Mid
<1>4. CASE Stop
  <2>1. lock \in Runs /\ lock # Nobody /\ UNCHANGED <<lock, got, todo, store, villa, displaced>>
    BY <1>4 DEF Stop, InTx, RunType, host, disk, run, Concludes, Abandon
  <2>2. tx'.ref = tx.ref
    BY <1>4, ExportedIs DEF Stop, run, Exported, TxType, Tuples
  <2>3. DOMAIN snaps \subseteq DOMAIN snaps'
    BY <1>4 DEF Stop, disk
  <2>4. (Among(Captured)' => Among(Captured)) /\ (Among(Mid)' => Among(Mid))
    BY <1>4, <2>1 DEF Stop, run, Go, InTx, Concludes, Abandon, Among, InFlight, Captured, Mid, RunType
  <2>. QED  BY <1>t, <2>1, <2>2, <2>3, <2>4, RecordedPresent DEF Recorded
<1>5. CASE Snapshot
  <2>1. lock \in Runs /\ lock # Nobody /\ UNCHANGED <<lock, got, todo, store, villa, displaced>>
    BY <1>5 DEF Snapshot, InTx, RunType, host, disk, run, Concludes, Abandon
  <2>2. tx'.ref = tx.ref
    BY <1>5, ExportedIs DEF Snapshot, run, Exported, TxType, Tuples
  <2>3. DOMAIN snaps \subseteq DOMAIN snaps'
    BY <1>5 DEF Snapshot, disk
  <2>4. (Among(Captured)' => Among(Captured)) /\ (Among(Mid)' => Among(Mid))
    BY <1>5, <2>1
    DEF Snapshot, run, Go, InTx, Concludes, Abandon, Among, InFlight, Captured, Mid, RunType
  <2>. QED  BY <1>t, <2>1, <2>2, <2>3, <2>4, RecordedPresent DEF Recorded
<1>6. CASE Reopen
  <2>1. lock \in Runs /\ lock # Nobody /\ UNCHANGED <<lock, got, todo, store, villa, displaced>>
    BY <1>6 DEF Reopen, InTx, RunType, host, disk, run, Concludes, Abandon
  <2>2. tx'.ref = tx.ref
    BY <1>6, ExportedIs DEF Reopen, run, Exported, TxType, Tuples
  <2>3. DOMAIN snaps \subseteq DOMAIN snaps'
    BY <1>6 DEF Reopen, disk
  <2>4. (Among(Captured)' => Among(Captured)) /\ (Among(Mid)' => Among(Mid))
    BY <1>6, <2>1 DEF Reopen, run, Go, InTx, Concludes, Abandon, Among, InFlight, Captured, Mid, RunType
  <2>. QED  BY <1>t, <2>1, <2>2, <2>3, <2>4, RecordedPresent DEF Recorded
<1>7. CASE WritePins
  <2>1. lock \in Runs /\ lock # Nobody /\ UNCHANGED <<lock, got, todo, villa, displaced, tx, snaps>> /\ This \in Kinds
    BY <1>7, <1>0 DEF WritePins, InTx, RunType, host, disk, run, Concludes, Abandon, Among, InFlight
  <2>2. Target \in images /\ Target \in Image
    BY <1>7, <1>t, <2>1, TargetType DEF WritePins, InTx, Among, InFlight, Captured, Present, TxPlaced
  <2>3. store' = store \/ (store'.prev = store.prev /\ store'.pins = [store.pins EXCEPT ![This] = Target])
    BY <1>7, <2>1, <2>2, RecordIs DEF WritePins, StoreType, PinBack
  <2>4. (Among(Captured)' => Among(Captured)) /\ (Among(Mid)' => Among(Mid)) /\ Target' = Target
    BY <1>7, <2>1, SameTarget
    DEF WritePins, run, Go, InTx, Concludes, Abandon, Among, InFlight, Captured, Mid, RunType
  <2>. QED  BY <1>t, <2>1, <2>2, <2>3, <2>4 DEF Present, Mid, StoreType, Stores
<1>8. CASE Apply
  <2>1. lock \in Runs /\ lock # Nobody /\ UNCHANGED <<lock, got, todo, store, villa, displaced>>
    BY <1>8 DEF Apply, InTx, RunType, host, disk, run, Concludes, Abandon
  <2>2. tx'.ref = tx.ref
    BY <1>8, TxKeeps DEF Keeps
  <2>3. DOMAIN snaps \subseteq DOMAIN snaps'
    BY <1>8 DEF Apply, disk
  <2>4. (Among(Captured)' => Among(Captured)) /\ (Among(Mid)' => Among(Mid))
    BY <1>8, <2>1 DEF Apply, run, Go, InTx, Concludes, Abandon, Among, InFlight, Captured, Mid, RunType
  <2>. QED  BY <1>t, <2>1, <2>2, <2>3, <2>4, RecordedPresent DEF Recorded
<1>9. CASE Restart
  <2>1. lock \in Runs /\ lock # Nobody /\ UNCHANGED <<lock, got, todo, store, villa, displaced>>
    BY <1>9 DEF Restart, InTx, RunType, host, disk, run, Concludes, Abandon
  <2>2. tx'.ref = tx.ref
    BY <1>9, TxKeeps DEF Keeps
  <2>3. DOMAIN snaps \subseteq DOMAIN snaps'
    BY <1>9 DEF Restart, disk
  <2>4. (Among(Captured)' => Among(Captured)) /\ (Among(Mid)' => Among(Mid))
    BY <1>9, <2>1
    DEF Restart, run, Go, InTx, Concludes, Abandon, Among, InFlight, Captured, Mid, RunType
  <2>. QED  BY <1>t, <2>1, <2>2, <2>3, <2>4, RecordedPresent DEF Recorded
<1>10. CASE StartNew
  <2>1. lock \in Runs /\ lock # Nobody /\ UNCHANGED <<lock, got, todo, store, villa, displaced>>
    BY <1>10 DEF StartNew, InTx, RunType, host, disk, run, Concludes, Abandon
  <2>2. tx'.ref = tx.ref
    BY <1>10, ExportedIs DEF StartNew, run, Exported, TxType, Tuples
  <2>3. DOMAIN snaps \subseteq DOMAIN snaps'
    BY <1>10 DEF StartNew, disk
  <2>4. (Among(Captured)' => Among(Captured)) /\ (Among(Mid)' => Among(Mid))
    BY <1>10, <2>1
    DEF StartNew, run, Go, InTx, Concludes, Abandon, Among, InFlight, Captured, Mid, RunType
  <2>. QED  BY <1>t, <2>1, <2>2, <2>3, <2>4, RecordedPresent DEF Recorded
<1>11. CASE ProveNew
  <2>1. lock \in Runs /\ lock # Nobody /\ UNCHANGED <<lock, got, todo, store, villa, displaced>>
    BY <1>11 DEF ProveNew, InTx, RunType, host, disk, run, Concludes, Abandon
  <2>2. tx'.ref = tx.ref
    BY <1>11, ExportedIs DEF ProveNew, run, Exported, TxType, Tuples
  <2>3. DOMAIN snaps \subseteq DOMAIN snaps'
    BY <1>11 DEF ProveNew, disk
  <2>4. (Among(Captured)' => Among(Captured)) /\ (Among(Mid)' => Among(Mid))
    BY <1>11, <2>1
    DEF ProveNew, run, Go, InTx, Concludes, Abandon, Among, InFlight, Captured, Mid, RunType
  <2>. QED  BY <1>t, <2>1, <2>2, <2>3, <2>4, RecordedPresent DEF Recorded
<1>12. CASE Commit
  <2>1. lock \in Runs /\ lock # Nobody /\ UNCHANGED <<lock, got, villa, snaps, images>> /\ This \in todo /\ This \in Kinds
    BY <1>12, <1>0 DEF Commit, InTx, RunType, host, disk, Among, InFlight
  <2>2. Target \in images /\ Target \in Image /\ tx.ref \in images /\ tx.ref \in Image
        /\ tx.snap \in DOMAIN snaps \cup {NoTuple} /\ tx.snap \in Snapshots \cup {NoTuple}
        /\ (This \in Stateful => tx.snap # NoTuple)
    BY <1>12, <1>t, <2>1, TargetType
    DEF Commit, InTx, Among, InFlight, Captured, Before, Windowed, Present, TxPlaced, TxType, Tuples
  <2>3. Record(store, This, Target) \in Stores /\ Record(store, This, Target).prev = store.prev
        /\ Record(store, This, Target).pins = [store.pins EXCEPT ![This] = Target]
    BY <2>1, <2>2, RecordIs DEF StoreType
  <2>4. \/ store' = store /\ displaced' = displaced
        \/ /\ store'.prev = [store.prev EXCEPT ![This] = [ref |-> tx.ref, snap |-> tx.snap]]
           /\ store'.pins = [store.pins EXCEPT ![This] = Target]
           /\ displaced'.refs = displaced.refs \cup {tx.ref}
    BY <1>12, <2>1, <2>2, <2>3, RetainIs DEF Commit
  <2>5. todo' = todo \ {This} /\ ~Among(Captured)' /\ ~Among(Mid)'
    BY <1>12, <2>1 DEF Commit, Go, Among, Captured, InFlight, Mid, RunType
  <2>6. [ref |-> tx.ref, snap |-> tx.snap] # NoTuple
    <3>1. tx.ref \in Nat
      BY <2>2, ImageType
    <3>2. tx.snap \in (Kinds \X Nat) \cup {NoTuple}
      BY <2>2, UpdateAssumption DEF Snapshots, DiskType
    <3>3. [ref |-> tx.ref, snap |-> tx.snap] \in [ref : Nat, snap : (Kinds \X Nat) \cup {NoTuple}]
      BY <3>1, <3>2
    <3>. QED  BY <3>3, UpdateAssumption
  <2>7. \A x \in displaced'.refs : \E k \in Kinds \ todo' : store'.prev[k] # NoTuple /\ store'.prev[k].ref = x
    <3>1. CASE store' = store /\ displaced' = displaced
      BY <1>t, <2>5, <3>1 DEF Present
    <3>2. CASE store'.prev = [store.prev EXCEPT ![This] = [ref |-> tx.ref, snap |-> tx.snap]]
               /\ displaced'.refs = displaced.refs \cup {tx.ref}
      <4>1. store'.prev[This] # NoTuple /\ store'.prev[This].ref = tx.ref
        BY <2>1, <2>6, <3>2 DEF StoreType, Stores
      <4>2. \A k \in Kinds \ todo : store'.prev[k] = store.prev[k]
        BY <2>1, <3>2 DEF StoreType, Stores
      <4>. QED  BY <1>t, <2>1, <2>5, <3>2, <4>1, <4>2 DEF Present
    <3>. QED  BY <2>4, <3>1, <3>2
  <2>8. ASSUME NEW k \in Kinds
        PROVE  /\ store'.pins[k] \in images \cup {Unpinned}
               /\ store'.prev[k] # NoTuple =>
                    store'.prev[k].ref \in images /\ (k \in Stateful => store'.prev[k].snap \in DOMAIN snaps)
    <3>1. CASE k = This
      <4>1. CASE store' = store
        BY <1>t, <4>1 DEF Present
      <4>2. CASE store'.prev[k] = [ref |-> tx.ref, snap |-> tx.snap] /\ store'.pins[k] = Target
        BY <2>2, <3>1, <4>2
      <4>. QED  BY <2>1, <2>4, <3>1, <4>1, <4>2 DEF StoreType, Stores
    <3>2. CASE k # This
      <4>1. store'.prev[k] = store.prev[k] /\ store'.pins[k] = store.pins[k]
        BY <2>4, <3>2 DEF StoreType, Stores
      <4>. QED  BY <1>t, <4>1 DEF Present
    <3>. QED  BY <3>1, <3>2
  <2>. QED  BY <1>t, <2>1, <2>5, <2>7, <2>8 DEF Present, Mid
<1>13. CASE RbStop
  <2>1. lock \in Runs /\ lock # Nobody /\ UNCHANGED <<lock, got, todo, store, villa, displaced>>
    BY <1>13 DEF RbStop, InTx, RunType, host, disk, run, Concludes, Abandon
  <2>2. tx'.ref = tx.ref
    BY <1>13, ExportedIs DEF RbStop, run, Exported, TxType, Tuples
  <2>3. DOMAIN snaps \subseteq DOMAIN snaps'
    BY <1>13 DEF RbStop, disk
  <2>4. (Among(Captured)' => Among(Captured)) /\ (Among(Mid)' => Among(Mid))
    BY <1>13, <2>1
    DEF RbStop, run, Go, InTx, Concludes, Abandon, Among, InFlight, Captured, Mid, RunType
  <2>. QED  BY <1>t, <2>1, <2>2, <2>3, <2>4, RecordedPresent DEF Recorded
<1>14. CASE RbData
  <2>1. lock \in Runs /\ lock # Nobody /\ UNCHANGED <<lock, got, todo, store, villa, displaced>>
    BY <1>14 DEF RbData, InTx, RunType, host, disk, run, Concludes, Abandon
  <2>2. tx'.ref = tx.ref
    BY <1>14, ExportedIs DEF RbData, run, Exported, TxType, Tuples
  <2>3. DOMAIN snaps \subseteq DOMAIN snaps'
    BY <1>14 DEF RbData, disk
  <2>4. (Among(Captured)' => Among(Captured)) /\ (Among(Mid)' => Among(Mid))
    BY <1>14, <2>1
    DEF RbData, run, Go, InTx, Concludes, Abandon, Among, InFlight, Captured, Mid, RunType
  <2>. QED  BY <1>t, <2>1, <2>2, <2>3, <2>4, RecordedPresent DEF Recorded
<1>15. CASE RbPins
  <2>1. lock \in Runs /\ lock # Nobody /\ UNCHANGED <<lock, got, todo, villa, displaced, tx, snaps>> /\ This \in Kinds
    BY <1>15, <1>0 DEF RbPins, InTx, RunType, host, disk, run, Concludes, Abandon, Among, InFlight
  <2>2. tx.ref \in images /\ tx.ref \in Image
    BY <1>15, <1>t, <2>1, TargetType DEF RbPins, InTx, Among, InFlight, Captured, Present, TxPlaced
  <2>3. store' = store \/ (store'.prev = store.prev /\ store'.pins = [store.pins EXCEPT ![This] = tx.ref])
    BY <1>15, <2>1, <2>2, RecordIs DEF RbPins, StoreType, PinBack
  <2>4. (Among(Captured)' => Among(Captured)) /\ (Among(Mid)' => Among(Mid)) /\ Target' = Target
    BY <1>15, <2>1, SameTarget
    DEF RbPins, run, Go, InTx, Concludes, Abandon, Among, InFlight, Captured, Mid, RunType
  <2>. QED  BY <1>t, <2>1, <2>2, <2>3, <2>4 DEF Present, Mid, StoreType, Stores
<1>16. CASE RbUnits
  <2>1. lock \in Runs /\ lock # Nobody /\ UNCHANGED <<lock, got, todo, store, villa, displaced>>
    BY <1>16 DEF RbUnits, InTx, RunType, host, disk, run, Concludes, Abandon
  <2>2. tx'.ref = tx.ref
    BY <1>16, TxKeeps DEF Keeps
  <2>3. DOMAIN snaps \subseteq DOMAIN snaps'
    BY <1>16 DEF RbUnits, disk
  <2>4. (Among(Captured)' => Among(Captured)) /\ (Among(Mid)' => Among(Mid))
    BY <1>16, <2>1
    DEF RbUnits, run, Go, InTx, Concludes, Abandon, Among, InFlight, Captured, Mid, RunType
  <2>. QED  BY <1>t, <2>1, <2>2, <2>3, <2>4, RecordedPresent DEF Recorded
<1>17. CASE RbRestart
  <2>1. lock \in Runs /\ lock # Nobody /\ UNCHANGED <<lock, got, todo, store, villa, displaced>>
    BY <1>17 DEF RbRestart, InTx, RunType, host, disk, run, Concludes, Abandon
  <2>2. tx'.ref = tx.ref
    BY <1>17, TxKeeps DEF Keeps
  <2>3. DOMAIN snaps \subseteq DOMAIN snaps'
    BY <1>17 DEF RbRestart, disk
  <2>4. (Among(Captured)' => Among(Captured)) /\ (Among(Mid)' => Among(Mid))
    BY <1>17, <2>1
    DEF RbRestart, run, Go, InTx, Concludes, Abandon, Among, InFlight, Captured, Mid, RunType
  <2>. QED  BY <1>t, <2>1, <2>2, <2>3, <2>4, RecordedPresent DEF Recorded
<1>18. CASE RbStart
  <2>1. lock \in Runs /\ lock # Nobody /\ UNCHANGED <<lock, got, todo, store, villa, displaced>>
    BY <1>18 DEF RbStart, InTx, RunType, host, disk, run, Concludes, Abandon
  <2>2. tx'.ref = tx.ref
    BY <1>18, ExportedIs DEF RbStart, run, Exported, TxType, Tuples
  <2>3. DOMAIN snaps \subseteq DOMAIN snaps'
    BY <1>18 DEF RbStart, disk
  <2>4. (Among(Captured)' => Among(Captured)) /\ (Among(Mid)' => Among(Mid))
    BY <1>18, <2>1
    DEF RbStart, run, Go, InTx, Concludes, Abandon, Among, InFlight, Captured, Mid, RunType
  <2>. QED  BY <1>t, <2>1, <2>2, <2>3, <2>4, RecordedPresent DEF Recorded
<1>19. CASE RbProve
  <2>1. lock \in Runs /\ lock # Nobody /\ UNCHANGED <<lock, got, todo, store, villa, displaced>>
    BY <1>19 DEF RbProve, InTx, RunType, host, disk, run, Concludes, Abandon
  <2>2. tx'.ref = tx.ref
    BY <1>19, ExportedIs DEF RbProve, run, Exported, TxType, Tuples
  <2>3. DOMAIN snaps \subseteq DOMAIN snaps'
    BY <1>19 DEF RbProve, disk
  <2>4. (Among(Captured)' => Among(Captured)) /\ (Among(Mid)' => Among(Mid))
    BY <1>19, <2>1
    DEF RbProve, run, Go, InTx, Concludes, Abandon, Among, InFlight, Captured, Mid, RunType
  <2>. QED  BY <1>t, <2>1, <2>2, <2>3, <2>4, RecordedPresent DEF Recorded
<1>20. CASE RbAbandon
  <2>1. lock \in Runs /\ lock # Nobody /\ UNCHANGED <<lock, got, todo, store, villa, displaced>>
    BY <1>20 DEF RbAbandon, InTx, RunType, host, disk, run, Concludes, Abandon
  <2>2. tx'.ref = tx.ref
    BY <1>20, ExportedIs DEF RbAbandon, run, Exported, TxType, Tuples
  <2>3. DOMAIN snaps \subseteq DOMAIN snaps'
    BY <1>20 DEF RbAbandon, disk
  <2>4. (Among(Captured)' => Among(Captured)) /\ (Among(Mid)' => Among(Mid))
    BY <1>20, <2>1
    DEF RbAbandon, run, Go, InTx, Concludes, Abandon, Among, InFlight, Captured, Mid, RunType
  <2>. QED  BY <1>t, <2>1, <2>2, <2>3, <2>4, RecordedPresent DEF Recorded
<1>21. CASE Finish
  <2>1. lock \in Runs /\ lock # Nobody /\ UNCHANGED <<lock, got, todo, store, villa, displaced>>
    BY <1>21 DEF Finish, InTx, RunType, host, disk, run, Concludes, Abandon
  <2>2. tx'.ref = tx.ref
    BY <1>21, ExportedIs DEF Finish, run, Exported, TxType, Tuples
  <2>3. DOMAIN snaps \subseteq DOMAIN snaps'
    BY <1>21 DEF Finish, disk
  <2>4. (Among(Captured)' => Among(Captured)) /\ (Among(Mid)' => Among(Mid))
    BY <1>21, <2>1
    DEF Finish, run, Go, InTx, Concludes, Abandon, Among, InFlight, Captured, Mid, RunType
  <2>. QED  BY <1>t, <2>1, <2>2, <2>3, <2>4, RecordedPresent DEF Recorded
<1>22. CASE Prune
  <2>1. lock \in Runs /\ lock # Nobody /\ UNCHANGED <<lock, got, todo, store, villa, displaced>>
    BY <1>22 DEF Prune, InTx, RunType, host, disk, run, Concludes, Abandon
  <2>2. tx'.ref = tx.ref
    BY <1>22, ExportedIs DEF Prune, run, Exported, TxType, Tuples
  <2>3. DOMAIN snaps \subseteq DOMAIN snaps'
    BY <1>22 DEF Prune, disk
  <2>4. (Among(Captured)' => Among(Captured)) /\ (Among(Mid)' => Among(Mid))
    BY <1>22, <2>1 DEF Prune, run, Go, InTx, Concludes, Abandon, Among, InFlight, Captured, Mid, RunType
  <2>. QED  BY <1>t, <2>1, <2>2, <2>3, <2>4, RecordedPresent DEF Recorded
<1>23. CASE SnapshotCleanup
  <2>1. lock \in Runs /\ lock # Nobody /\ UNCHANGED <<lock, got, todo, store, villa, displaced>> /\ tx' = tx
    BY <1>23 DEF SnapshotCleanup, InTx, RunType, host, run
  <2>2. DOMAIN snaps \ Reclaimed \subseteq DOMAIN snaps'
    BY <1>23 DEF SnapshotCleanup
  <2>3. \A k \in Kinds : store.prev[k] # NoTuple /\ store.prev[k].snap \in DOMAIN snaps => store.prev[k].snap \notin Reclaimed
    BY NotASnapshot DEF Reclaimed, LiveTargets, DiskType
  <2>4. ~Among(Captured)' /\ ~Among(Mid)'
    BY <1>23, <2>1 DEF SnapshotCleanup, Go, Among, InFlight, Captured, Mid, RunType
  <2>. QED  BY <1>t, <2>1, <2>2, <2>3, <2>4, RecordedPresent DEF Recorded
<1>24. CASE Release
  <2>1. lock' = Nobody /\ UNCHANGED <<store, villa, snaps>> /\ displaced'.refs = {}
    BY <1>24 DEF Release, End, host, disk, NoneDisplaced
  <2>. QED  BY <1>t, <2>1 DEF Present, Among
<1>25. CASE Crash
  <2>1. lock' = Nobody /\ UNCHANGED <<store, villa, snaps>> /\ displaced'.refs = {}
    BY <1>25 DEF Crash, End, host, disk, NoneDisplaced
  <2>. QED  BY <1>t, <2>1 DEF Present, Among
<1>26. CASE Upgrade
  BY <1>26 DEF Upgrade, Replaced
<1>27. CASE Publish
  <2>1. UNCHANGED <<lock, at, got, todo, store, villa, displaced, tx, snaps>>
    BY <1>27 DEF Publish, run, disk
  <2>. QED  BY <1>t, <2>1, SameTarget DEF Present, Among, Mid
<1>28. ASSUME NEW r \in Runs, Load(r) PROVE Present'
  <2>1. r # lock /\ lock' = lock /\ UNCHANGED <<store, villa, snaps, todo, displaced, tx>> /\ This' = This
    BY <1>28, UpdateAssumption, SameThis DEF Load, Held, Free, run, host, disk
  <2>2. lock # Nobody => at'[lock] = at[lock] /\ got'[lock] = got[lock]
    BY <1>28, <2>1 DEF Load, Leave, RunType, StoreType
  <2>3. lock # Nobody => Target' = Target
    BY <2>1, <2>2 DEF Target
  <2>. QED  BY <1>t, <2>1, <2>2, <2>3 DEF Present, Among, Mid
<1>29. ASSUME NEW r \in Runs, Fetch(r) PROVE Present'
  <2>1. r # lock /\ lock' = lock /\ UNCHANGED <<store, villa, snaps, todo, displaced, tx>> /\ This' = This
    BY <1>29, UpdateAssumption, SameThis DEF Fetch, Held, Free, run, host, disk
  <2>2. lock # Nobody => at'[lock] = at[lock] /\ got'[lock] = got[lock]
    BY <1>29, <2>1 DEF Fetch, Leave, RunType, StoreType
  <2>3. lock # Nobody => Target' = Target
    BY <2>1, <2>2 DEF Target
  <2>. QED  BY <1>t, <2>1, <2>2, <2>3 DEF Present, Among, Mid
<1>30. ASSUME NEW r \in Runs, Save(r) PROVE Present'
  <2>1. r # lock /\ lock' = lock /\ UNCHANGED <<villa, snaps, todo, displaced, tx, got>> /\ This' = This /\ Target' = Target
    BY <1>30, UpdateAssumption, SameTarget DEF Save, Held, Free, run, host, disk
  <2>2. lock # Nobody => at'[lock] = at[lock]
    BY <1>30, <2>1 DEF Save, RunType
  <2>3. store'.pins = store.pins /\ store'.prev = store.prev
    <3>1. store' = store \/ (store' = Accept(seen[r], got[r]) /\ seen[r] = store)
      BY <1>30 DEF Save, Replaced
    <3>. QED  BY <3>1, AcceptIs DEF StoreType
  <2>. QED  BY <1>t, <2>1, <2>2, <2>3 DEF Present, Among, Mid
<1>31. ASSUME NEW r \in Runs, Decide(r) PROVE Present'
  <2>1. r # lock /\ lock' = lock /\ UNCHANGED <<store, villa, snaps, todo, displaced, tx>> /\ This' = This
    BY <1>31, UpdateAssumption, SameThis DEF Decide, Held, Free, run, host, disk
  <2>2. lock # Nobody => at'[lock] = at[lock] /\ got'[lock] = got[lock]
    BY <1>31, <2>1 DEF Decide, Leave, RunType, StoreType
  <2>3. lock # Nobody => Target' = Target
    BY <2>1, <2>2 DEF Target
  <2>. QED  BY <1>t, <2>1, <2>2, <2>3 DEF Present, Among, Mid
<1>32. ASSUME NEW r \in Runs, Acquire(r) PROVE Present'
  <2>1. lock = Nobody /\ lock' = r /\ at'[r] = "prove" /\ UNCHANGED <<store, villa, snaps, displaced>>
    BY <1>32 DEF Acquire, RunType, host, disk
  <2>2. displaced.refs = {}
    BY <2>1 DEF Held, NoneDisplaced
  <2>. QED  BY <1>t, <2>1, <2>2 DEF Present, Among, Captured, InFlight, Mid
<1>. QED  BY <1>1, <1>2, <1>3, <1>4, <1>5, <1>6, <1>7, <1>8, <1>9, <1>10, <1>11, <1>12, <1>13,
         <1>14, <1>15, <1>16, <1>17, <1>18, <1>19, <1>20, <1>21, <1>22, <1>23, <1>24, <1>25, <1>26,
         <1>27, <1>28, <1>29, <1>30, <1>31, <1>32 DEF Next, Forward, Rollback, Ending, Check

----------------------------------------------------------------------------
(* The subsystems the update does not have in hand.                        *)

\* A run whose subsystem failed takes no other in hand.
LEMMA UnhaltedStep ==
  ASSUME TypeOK, Held, Unhalted, Next
  PROVE  Unhalted'
<1>. USE DEF TypeOK
<1>0. Among(InFlight) => This \in todo /\ This \in Kinds
  BY ThisIsToDo DEF RunType, Held
<1>1. CASE Upgrade \/ Publish
  BY <1>1 DEF Upgrade, Publish, host, stack, disk, run, history, Unhalted, Among, InFlight
<1>2. CASE ProveCurrent
  <2>1. lock \in Runs /\ lock # Nobody /\ lock' = lock
    BY <1>2 DEF ProveCurrent, InTx, disk, RunType
  <2>2. at'[lock] \in InFlight => at[lock] \in InFlight /\ result' = result
    BY <1>2, <2>1 DEF ProveCurrent, run, Go, InTx, Concludes, Abandon, RunType, InFlight
  <2>. QED  BY <2>1, <2>2 DEF Unhalted, Among
<1>3. CASE Capture
  <2>1. lock \in Runs /\ lock # Nobody /\ lock' = lock
    BY <1>3 DEF Capture, InTx, disk, RunType
  <2>2. at'[lock] \in InFlight => at[lock] \in InFlight /\ result' = result
    BY <1>3, <2>1 DEF Capture, run, Go, InTx, Concludes, Abandon, RunType, InFlight
  <2>. QED  BY <2>1, <2>2 DEF Unhalted, Among
<1>4. CASE Pull
  <2>1. lock \in Runs /\ lock # Nobody /\ lock' = lock
    BY <1>4 DEF Pull, InTx, disk, RunType
  <2>2. at'[lock] \in InFlight => at[lock] \in InFlight /\ result' = result
    BY <1>4, <2>1 DEF Pull, run, Go, InTx, Concludes, Abandon, RunType, InFlight
  <2>. QED  BY <2>1, <2>2 DEF Unhalted, Among
<1>5. CASE Stop
  <2>1. lock \in Runs /\ lock # Nobody /\ lock' = lock
    BY <1>5 DEF Stop, InTx, disk, RunType
  <2>2. at'[lock] \in InFlight => at[lock] \in InFlight /\ result' = result
    BY <1>5, <2>1 DEF Stop, run, Go, InTx, Concludes, Abandon, RunType, InFlight
  <2>. QED  BY <2>1, <2>2 DEF Unhalted, Among
<1>6. CASE Snapshot
  <2>1. lock \in Runs /\ lock # Nobody /\ lock' = lock
    BY <1>6 DEF Snapshot, InTx, RunType
  <2>2. at'[lock] \in InFlight => at[lock] \in InFlight /\ result' = result
    BY <1>6, <2>1 DEF Snapshot, run, Go, InTx, Concludes, Abandon, RunType, InFlight
  <2>. QED  BY <2>1, <2>2 DEF Unhalted, Among
<1>7. CASE Reopen
  <2>1. lock \in Runs /\ lock # Nobody /\ lock' = lock
    BY <1>7 DEF Reopen, InTx, disk, RunType
  <2>2. at'[lock] \in InFlight => at[lock] \in InFlight /\ result' = result
    BY <1>7, <2>1 DEF Reopen, run, Go, InTx, Concludes, Abandon, RunType, InFlight
  <2>. QED  BY <2>1, <2>2 DEF Unhalted, Among
<1>8. CASE WritePins
  <2>1. lock \in Runs /\ lock # Nobody /\ lock' = lock
    BY <1>8 DEF WritePins, InTx, disk, RunType
  <2>2. at'[lock] \in InFlight => at[lock] \in InFlight /\ result' = result
    BY <1>8, <2>1 DEF WritePins, run, Go, InTx, Concludes, Abandon, RunType, InFlight
  <2>. QED  BY <2>1, <2>2 DEF Unhalted, Among
<1>9. CASE Apply
  <2>1. lock \in Runs /\ lock # Nobody /\ lock' = lock
    BY <1>9 DEF Apply, InTx, disk, RunType
  <2>2. at'[lock] \in InFlight => at[lock] \in InFlight /\ result' = result
    BY <1>9, <2>1 DEF Apply, run, Go, InTx, Concludes, Abandon, RunType, InFlight
  <2>. QED  BY <2>1, <2>2 DEF Unhalted, Among
<1>10. CASE Restart
  <2>1. lock \in Runs /\ lock # Nobody /\ lock' = lock
    BY <1>10 DEF Restart, InTx, disk, RunType
  <2>2. at'[lock] \in InFlight => at[lock] \in InFlight /\ result' = result
    BY <1>10, <2>1 DEF Restart, run, Go, InTx, Concludes, Abandon, RunType, InFlight
  <2>. QED  BY <2>1, <2>2 DEF Unhalted, Among
<1>11. CASE StartNew
  <2>1. lock \in Runs /\ lock # Nobody /\ lock' = lock
    BY <1>11 DEF StartNew, InTx, disk, RunType
  <2>2. at'[lock] \in InFlight => at[lock] \in InFlight /\ result' = result
    BY <1>11, <2>1 DEF StartNew, run, Go, InTx, Concludes, Abandon, RunType, InFlight
  <2>. QED  BY <2>1, <2>2 DEF Unhalted, Among
<1>12. CASE ProveNew
  <2>1. lock \in Runs /\ lock # Nobody /\ lock' = lock
    BY <1>12 DEF ProveNew, InTx, disk, RunType
  <2>2. at'[lock] \in InFlight => at[lock] \in InFlight /\ result' = result
    BY <1>12, <2>1 DEF ProveNew, run, Go, InTx, Concludes, Abandon, RunType, InFlight
  <2>. QED  BY <2>1, <2>2 DEF Unhalted, Among
<1>13. CASE Commit
  <2>1. lock \in Runs /\ lock # Nobody /\ lock' = lock /\ This \in Kinds
    BY <1>13, <1>0 DEF Commit, InTx, disk, RunType, Among, InFlight
  <2>2. \E w \in {"committed", "unrecorded"} : result' = [result EXCEPT ![This] = w]
    BY <1>13 DEF Commit
  <2>3. \A k \in Kinds : result[k] \in {"not_tried", "committed", "unrecorded"}
    BY <1>13 DEF Commit, InTx, Unhalted, Among, InFlight
  <2>. QED  BY <2>1, <2>2, <2>3 DEF Unhalted, RunType
<1>14. CASE RbStop
  <2>1. lock \in Runs /\ lock # Nobody /\ lock' = lock
    BY <1>14 DEF RbStop, InTx, disk, RunType
  <2>2. at'[lock] \in InFlight => at[lock] \in InFlight /\ result' = result
    BY <1>14, <2>1 DEF RbStop, run, Go, InTx, Concludes, Abandon, RunType, InFlight
  <2>. QED  BY <2>1, <2>2 DEF Unhalted, Among
<1>15. CASE RbData
  <2>1. lock \in Runs /\ lock # Nobody /\ lock' = lock
    BY <1>15 DEF RbData, InTx, disk, RunType
  <2>2. at'[lock] \in InFlight => at[lock] \in InFlight /\ result' = result
    BY <1>15, <2>1 DEF RbData, run, Go, InTx, Concludes, Abandon, RunType, InFlight
  <2>. QED  BY <2>1, <2>2 DEF Unhalted, Among
<1>16. CASE RbPins
  <2>1. lock \in Runs /\ lock # Nobody /\ lock' = lock
    BY <1>16 DEF RbPins, InTx, disk, RunType
  <2>2. at'[lock] \in InFlight => at[lock] \in InFlight /\ result' = result
    BY <1>16, <2>1 DEF RbPins, run, Go, InTx, Concludes, Abandon, RunType, InFlight
  <2>. QED  BY <2>1, <2>2 DEF Unhalted, Among
<1>17. CASE RbUnits
  <2>1. lock \in Runs /\ lock # Nobody /\ lock' = lock
    BY <1>17 DEF RbUnits, InTx, disk, RunType
  <2>2. at'[lock] \in InFlight => at[lock] \in InFlight /\ result' = result
    BY <1>17, <2>1 DEF RbUnits, run, Go, InTx, Concludes, Abandon, RunType, InFlight
  <2>. QED  BY <2>1, <2>2 DEF Unhalted, Among
<1>18. CASE RbRestart
  <2>1. lock \in Runs /\ lock # Nobody /\ lock' = lock
    BY <1>18 DEF RbRestart, InTx, disk, RunType
  <2>2. at'[lock] \in InFlight => at[lock] \in InFlight /\ result' = result
    <3>1. CASE UNCHANGED <<todo, result>>
      BY <1>18, <2>1, <3>1 DEF RbRestart, InTx, InFlight
    <3>2. CASE Concludes("incomplete")
      BY <1>18, <2>1, <3>2 DEF Concludes, Go, InFlight, RunType
    <3>. QED  BY <1>18, <3>1, <3>2 DEF RbRestart, Abandon
  <2>. QED  BY <2>1, <2>2 DEF Unhalted, Among
<1>19. CASE RbStart
  <2>1. lock \in Runs /\ lock # Nobody /\ lock' = lock
    BY <1>19 DEF RbStart, InTx, disk, RunType
  <2>2. at'[lock] \in InFlight => at[lock] \in InFlight /\ result' = result
    BY <1>19, <2>1 DEF RbStart, run, Go, InTx, Concludes, Abandon, RunType, InFlight
  <2>. QED  BY <2>1, <2>2 DEF Unhalted, Among
<1>20. CASE RbProve
  <2>1. lock \in Runs /\ lock # Nobody /\ lock' = lock
    BY <1>20 DEF RbProve, InTx, disk, RunType
  <2>2. at'[lock] \in InFlight => at[lock] \in InFlight /\ result' = result
    BY <1>20, <2>1 DEF RbProve, run, Go, InTx, Concludes, Abandon, RunType, InFlight
  <2>. QED  BY <2>1, <2>2 DEF Unhalted, Among
<1>21. CASE RbAbandon
  <2>1. lock \in Runs /\ lock # Nobody /\ lock' = lock
    BY <1>21 DEF RbAbandon, InTx, disk, RunType
  <2>2. at'[lock] \in InFlight => at[lock] \in InFlight /\ result' = result
    BY <1>21, <2>1 DEF RbAbandon, run, Go, InTx, Concludes, Abandon, RunType, InFlight
  <2>. QED  BY <2>1, <2>2 DEF Unhalted, Among
<1>22. CASE Finish
  <2>1. lock \in Runs /\ lock # Nobody /\ lock' = lock
    BY <1>22 DEF Finish, InTx, disk, RunType
  <2>2. at'[lock] \in InFlight => at[lock] \in InFlight /\ result' = result
    BY <1>22, <2>1 DEF Finish, run, Go, InTx, Concludes, Abandon, RunType, InFlight
  <2>. QED  BY <2>1, <2>2 DEF Unhalted, Among
<1>23. CASE Prune
  <2>1. lock \in Runs /\ lock # Nobody /\ lock' = lock
    BY <1>23 DEF Prune, InTx, disk, RunType
  <2>2. at'[lock] \in InFlight => at[lock] \in InFlight /\ result' = result
    BY <1>23, <2>1 DEF Prune, run, Go, InTx, Concludes, Abandon, RunType, InFlight
  <2>. QED  BY <2>1, <2>2 DEF Unhalted, Among
<1>24. CASE SnapshotCleanup
  <2>1. lock \in Runs /\ lock # Nobody /\ lock' = lock
    BY <1>24 DEF SnapshotCleanup, InTx, disk, RunType
  <2>2. at'[lock] \in InFlight => at[lock] \in InFlight /\ result' = result
    BY <1>24, <2>1 DEF SnapshotCleanup, run, Go, InTx, Concludes, Abandon, RunType, InFlight
  <2>. QED  BY <2>1, <2>2 DEF Unhalted, Among
<1>25. CASE Release
  BY <1>25 DEF Release, End, Unhalted, Among
<1>26. CASE Crash
  BY <1>26 DEF Crash, End, Unhalted, Among
<1>27. ASSUME NEW r \in Runs, Load(r) PROVE Unhalted'
  <2>1. r # lock /\ lock' = lock /\ UNCHANGED result
    BY <1>27, UpdateAssumption DEF Load, Held, Free, run
  <2>2. lock # Nobody => at'[lock] = at[lock]
    BY <1>27, <2>1 DEF Load, Leave, RunType
  <2>. QED  BY <2>1, <2>2 DEF Unhalted, Among
<1>28. ASSUME NEW r \in Runs, Fetch(r) PROVE Unhalted'
  <2>1. r # lock /\ lock' = lock /\ UNCHANGED result
    BY <1>28, UpdateAssumption DEF Fetch, Held, Free, run
  <2>2. lock # Nobody => at'[lock] = at[lock]
    BY <1>28, <2>1 DEF Fetch, Leave, RunType
  <2>. QED  BY <2>1, <2>2 DEF Unhalted, Among
<1>29. ASSUME NEW r \in Runs, Save(r) PROVE Unhalted'
  <2>1. r # lock /\ lock' = lock /\ UNCHANGED result
    BY <1>29, UpdateAssumption DEF Save, Held, Free, run
  <2>2. lock # Nobody => at'[lock] = at[lock]
    BY <1>29, <2>1 DEF Save, Leave, RunType
  <2>. QED  BY <2>1, <2>2 DEF Unhalted, Among
<1>30. ASSUME NEW r \in Runs, Decide(r) PROVE Unhalted'
  <2>1. r # lock /\ lock' = lock /\ UNCHANGED result
    BY <1>30, UpdateAssumption DEF Decide, Held, Free, run
  <2>2. lock # Nobody => at'[lock] = at[lock]
    BY <1>30, <2>1 DEF Decide, Leave, RunType
  <2>. QED  BY <2>1, <2>2 DEF Unhalted, Among
<1>31. ASSUME NEW r \in Runs, Acquire(r) PROVE Unhalted'
  BY <1>31 DEF Acquire, Held, Unhalted
<1>. QED  BY <1>1, <1>2, <1>3, <1>4, <1>5, <1>6, <1>7, <1>8, <1>9, <1>10, <1>11, <1>12, <1>13,
         <1>14, <1>15, <1>16, <1>17, <1>18, <1>19, <1>20, <1>21, <1>22, <1>23, <1>24, <1>25, <1>26,
         <1>27, <1>28, <1>29, <1>30, <1>31 DEF Next, Forward, Rollback, Ending, Check

\* What a step of an update leaves alone: everything of the other subsystems.
Elsewhere ==
  /\ lock \in Runs /\ lock # Nobody /\ UNCHANGED <<lock, got, before, villa>>
  /\ \A k \in Kinds \ {This} :
       /\ running'[k] = running[k] /\ unit'[k] = unit[k] /\ store'.pins[k] = store.pins[k]
       /\ proven'[k] = proven[k] /\ result'[k] = result[k]
  /\ \A k \in Stateful \ {This} : data'[k] = data[k]

\* The pins are one per subsystem.
LEMMA PinsAre == StoreType => store.pins \in [Kinds -> Image \cup {Unpinned}]
BY DEF StoreType, Stores

\* Starting the subsystem in hand leaves the others alone.
LEMMA StartElsewhere ==
  ASSUME StackType, This \in Kinds, NEW k \in Kinds, k = This, Start({k}) \/ UNCHANGED <<running, data>>
  PROVE  /\ \A j \in Kinds \ {This} : running'[j] = running[j]
         /\ \A j \in Stateful \ {This} : data'[j] = data[j]
BY StartDoes DEF StackType

\* While one subsystem is in hand every other agrees.
LEMMA AgreesElsewhere ==
  ASSUME Unhalted, Rested, taint = {}, Among(InFlight), NEW k \in Kinds, k # This
  PROVE  Agrees(k)
BY DEF Unhalted, Rested, InWork

\* While nothing fails, a step of an update leaves every other subsystem alone: applying
\* all units changes the one in hand only, because the others are as their pins resolve.
LEMMA ElsewhereStep ==
  ASSUME Sane, Unhalted, ProvenType, Rested, Working, taint = {}, taint' = {}, Forward \/ Rollback
  PROVE  Elsewhere
<1>. USE DEF Sane, TypeOK
<1>0. Among(InFlight) => This \in todo /\ This \in Kinds
  BY ThisIsToDo DEF RunType, Held
<1>h. TxHeld /\ TxForward /\ TxBack
  BY DEF Working
<1>t. tx.left \in SUBSET Kinds /\ tx.touched \in SUBSET Kinds
  BY DEF TxType, Tuples
<1>1. CASE ProveCurrent
  <2>1. lock \in Runs /\ lock # Nobody /\ UNCHANGED <<lock, got, before, villa>> /\ This \in Kinds /\ Among(InFlight)
    BY <1>1, <1>0 DEF ProveCurrent, InTx, RunType, host, history, Among, InFlight
  <2>. QED
    BY <1>1, <2>1
    DEF ProveCurrent, Elsewhere, Concludes, stack, history, StackType, RunType, run, ProvenType
<1>2. CASE Capture
  <2>1. lock \in Runs /\ lock # Nobody /\ UNCHANGED <<lock, got, before, villa>> /\ This \in Kinds /\ Among(InFlight)
    BY <1>2, <1>0 DEF Capture, InTx, RunType, host, history, Among, InFlight
  <2>. QED
    BY <1>2, <2>1 DEF Capture, Elsewhere, Concludes, stack, history, StackType, RunType, run, ProvenType
<1>3. CASE Pull
  <2>1. lock \in Runs /\ lock # Nobody /\ UNCHANGED <<lock, got, before, villa>> /\ This \in Kinds /\ Among(InFlight)
    BY <1>3, <1>0 DEF Pull, InTx, RunType, host, history, Among, InFlight
  <2>. QED
    BY <1>3, <2>1 DEF Pull, Elsewhere, Concludes, stack, history, StackType, RunType, run, ProvenType
<1>4. CASE Stop
  <2>1. lock \in Runs /\ lock # Nobody /\ UNCHANGED <<lock, got, before, villa>> /\ This \in Kinds /\ Among(InFlight)
    BY <1>4, <1>0 DEF Stop, InTx, RunType, host, history, Among, InFlight
  <2>. QED
    BY <1>4, <2>1 DEF Stop, Elsewhere, Concludes, stack, history, StackType, RunType, run, ProvenType
<1>5. CASE Snapshot
  <2>1. lock \in Runs /\ lock # Nobody /\ UNCHANGED <<lock, got, before, villa>> /\ This \in Kinds /\ Among(InFlight)
    BY <1>5, <1>0 DEF Snapshot, InTx, RunType, host, history, Among, InFlight
  <2>. QED
    BY <1>5, <2>1
    DEF Snapshot, Elsewhere, Concludes, stack, history, StackType, RunType, run, ProvenType
<1>6. CASE Reopen
  <2>1. lock \in Runs /\ lock # Nobody /\ UNCHANGED <<lock, got, before, villa>> /\ This \in Kinds /\ Among(InFlight)
    BY <1>6, <1>0 DEF Reopen, InTx, RunType, host, history, Among, InFlight
  <2>2. Start({This}) \/ UNCHANGED <<running, data>>
    BY <1>6 DEF Reopen, StartDown
  <2>. QED  BY <1>6, <2>1, <2>2, StartElsewhere DEF Reopen, Elsewhere, Concludes, history, RunType, run
<1>7. CASE WritePins
  <2>1. lock \in Runs /\ lock # Nobody /\ UNCHANGED <<lock, got, before, villa>> /\ This \in Kinds /\ Among(InFlight)
    BY <1>7, <1>0 DEF WritePins, InTx, RunType, host, history, Among, InFlight
  <2>2. Target \in Image
    BY <2>1, TargetType
  <2>3. \A k \in Kinds \ {This} : store'.pins[k] = store.pins[k]
    <3>1. store' = store \/ store'.pins = [store.pins EXCEPT ![This] = Target]
      BY <1>7, <2>1, <2>2, RecordIs DEF WritePins, StoreType
    <3>. QED  BY <2>1, <3>1, PinsAre
  <2>. QED  BY <1>7, <2>1, <2>3 DEF WritePins, Elsewhere, stack, history, run
<1>8. CASE Apply
  <2>1. lock \in Runs /\ lock # Nobody /\ UNCHANGED <<lock, got, before, villa>> /\ This \in Kinds /\ Among(InFlight)
    BY <1>8, <1>0 DEF Apply, InTx, RunType, host, history, Among, InFlight
  <2>2. \A k \in Kinds \ {This} : Rendered[k] = unit[k]
    BY <2>1, AgreesElsewhere DEF Rendered, Agrees
  <2>3. \A k \in Kinds \ {This} : unit'[k] = unit[k]
    BY <1>8, <2>2 DEF Apply, Rendered
  <2>. QED  BY <1>8, <2>1, <2>3 DEF Apply, Elsewhere, history
<1>9. CASE Restart
  <2>1. lock \in Runs /\ lock # Nobody /\ UNCHANGED <<lock, got, before, villa>> /\ This \in Kinds /\ Among(InFlight)
    BY <1>9, <1>0 DEF Restart, InTx, RunType, host, history, Among, InFlight
  <2>2. tx.left \subseteq {This}
    BY <1>9, <2>1, <1>h DEF Restart, InTx, TxForward, TxBack, Among
  <2>3. \/ Start({This}) \/ UNCHANGED <<running, data>>
        \/ running' = [running EXCEPT ![This] = Down] /\ data' = data
    <3>1. \/ UNCHANGED <<running, data>>
          \/ \E k \in tx.left : Start({k}) \/ (running' = [running EXCEPT ![k] = Down] /\ data' = data)
      BY <1>9 DEF Restart
    <3>. QED  BY <2>2, <3>1
  <2>4. (\A j \in Kinds \ {This} : running'[j] = running[j]) /\ (\A j \in Stateful \ {This} : data'[j] = data[j])
    BY <2>1, <2>3, StartElsewhere DEF StackType
  <2>5. \A k \in Kinds \ {This} : result'[k] = result[k]
    BY <1>9, <2>1 DEF Restart, Abandon, Concludes, RunType
  <2>. QED  BY <1>9, <2>1, <2>4, <2>5 DEF Restart, Elsewhere, history
<1>10. CASE StartNew
  <2>1. lock \in Runs /\ lock # Nobody /\ UNCHANGED <<lock, got, before, villa>> /\ This \in Kinds /\ Among(InFlight)
    BY <1>10, <1>0 DEF StartNew, InTx, RunType, host, history, Among, InFlight
  <2>2. Start({This}) \/ UNCHANGED <<running, data>>
    BY <1>10 DEF StartNew, StartDown
  <2>. QED
    BY <1>10, <2>1, <2>2, StartElsewhere DEF StartNew, Elsewhere, Concludes, history, RunType, run
<1>11. CASE ProveNew
  <2>1. lock \in Runs /\ lock # Nobody /\ UNCHANGED <<lock, got, before, villa>> /\ This \in Kinds /\ Among(InFlight)
    BY <1>11, <1>0 DEF ProveNew, InTx, RunType, host, history, Among, InFlight
  <2>. QED
    BY <1>11, <2>1
    DEF ProveNew, Elsewhere, Concludes, stack, history, StackType, RunType, run, ProvenType
<1>12. CASE Commit
  <2>1. lock \in Runs /\ lock # Nobody /\ UNCHANGED <<lock, got, before, villa>> /\ This \in Kinds /\ Among(InFlight)
    BY <1>12, <1>0 DEF Commit, InTx, RunType, host, history, Among, InFlight
  <2>2. Target \in Image
    BY <2>1, TargetType
  <2>3. tx.ref \in Image /\ tx.snap \in Snapshots \cup {NoTuple}
    BY <1>12, <2>1 DEF Commit, InTx, TupleHeld, TxPlaced, Among, InFlight, Captured, TxType, Tuples
  <2>4. \A k \in Kinds \ {This} : store'.pins[k] = store.pins[k]
    <3>1. Record(store, This, Target) \in Stores
          /\ Record(store, This, Target).pins = [store.pins EXCEPT ![This] = Target]
      BY <2>1, <2>2, RecordIs DEF StoreType
    <3>2. [ref |-> tx.ref, snap |-> tx.snap] \in [ref : Image, snap : Snapshots \cup {NoTuple}]
      BY <2>3
    <3>3. store' = store \/ store'.pins = [store.pins EXCEPT ![This] = Target]
      <4>1. \/ store' = store
            \/ store' = Retain(Record(store, This, Target), This, [ref |-> tx.ref, snap |-> tx.snap])
        BY <1>12, Zenon DEF Commit
      <4>2. Retain(Record(store, This, Target), This, [ref |-> tx.ref, snap |-> tx.snap]).pins
              = Record(store, This, Target).pins
        BY <2>1, <3>1, <3>2, RetainIs, Zenon
      <4>. QED  BY <3>1, <4>1, <4>2
    <3>. QED  BY <2>1, <3>3, PinsAre
  <2>. QED  BY <1>12, <2>1, <2>4 DEF Commit, Elsewhere, stack, history, RunType
<1>13. CASE RbStop
  <2>1. lock \in Runs /\ lock # Nobody /\ UNCHANGED <<lock, got, before, villa>> /\ This \in Kinds /\ Among(InFlight)
    BY <1>13, <1>0 DEF RbStop, InTx, RunType, host, history, Among, InFlight
  <2>. QED
    BY <1>13, <2>1 DEF RbStop, Elsewhere, Concludes, stack, history, StackType, RunType, run, ProvenType
<1>14. CASE RbData
  <2>1. lock \in Runs /\ lock # Nobody /\ UNCHANGED <<lock, got, before, villa>> /\ This \in Kinds /\ Among(InFlight)
    BY <1>14, <1>0 DEF RbData, InTx, RunType, host, history, Among, InFlight
  <2>. QED
    BY <1>14, <2>1 DEF RbData, Elsewhere, Concludes, stack, history, StackType, RunType, run, ProvenType
<1>15. CASE RbPins
  <2>1. lock \in Runs /\ lock # Nobody /\ UNCHANGED <<lock, got, before, villa>> /\ This \in Kinds /\ Among(InFlight)
    BY <1>15, <1>0 DEF RbPins, InTx, RunType, host, history, Among, InFlight
  <2>2. tx.ref \in Image
    BY <1>15, <2>1 DEF RbPins, InTx, TupleHeld, TxPlaced, Among, InFlight, Captured
  <2>3. \A k \in Kinds \ {This} : store'.pins[k] = store.pins[k]
    <3>1. store' = store \/ store'.pins = [store.pins EXCEPT ![This] = tx.ref]
      BY <1>15, <2>1, <2>2, RecordIs DEF RbPins, PinBack, StoreType
    <3>. QED  BY <2>1, <3>1, PinsAre
  <2>. QED  BY <1>15, <2>1, <2>3 DEF RbPins, Abandon, Concludes, Elsewhere, stack, history, RunType
<1>16. CASE RbUnits
  <2>1. lock \in Runs /\ lock # Nobody /\ UNCHANGED <<lock, got, before, villa>> /\ This \in Kinds /\ Among(InFlight)
    BY <1>16, <1>0 DEF RbUnits, InTx, RunType, host, history, Among, InFlight
  <2>2. \A k \in Kinds \ {This} : tx.units[k] = unit[k]
    BY <1>16, <2>1, <1>h DEF RbUnits, InTx, TxHeld, Among, InFlight, Captured
  <2>3. \A k \in Kinds \ {This} : unit'[k] = unit[k]
    BY <1>16, <2>2 DEF RbUnits
  <2>. QED  BY <1>16, <2>1, <2>3 DEF RbUnits, Abandon, Concludes, Elsewhere, history, RunType
<1>17. CASE RbRestart
  <2>1. lock \in Runs /\ lock # Nobody /\ UNCHANGED <<lock, got, before, villa>> /\ This \in Kinds /\ Among(InFlight)
    BY <1>17, <1>0 DEF RbRestart, InTx, RunType, host, history, Among, InFlight
  <2>2. tx.left \subseteq {This}
    BY <1>17, <2>1, <1>h DEF RbRestart, InTx, TxForward, TxBack, Among
  <2>3. \/ Start({This}) \/ UNCHANGED <<running, data>>
        \/ running' = [running EXCEPT ![This] = Down] /\ data' = data
    <3>1. \/ UNCHANGED <<running, data>>
          \/ \E k \in tx.left : Start({k}) \/ (running' = [running EXCEPT ![k] = Down] /\ data' = data)
      BY <1>17 DEF RbRestart
    <3>. QED  BY <2>2, <3>1
  <2>4. (\A j \in Kinds \ {This} : running'[j] = running[j]) /\ (\A j \in Stateful \ {This} : data'[j] = data[j])
    BY <2>1, <2>3, StartElsewhere DEF StackType
  <2>5. \A k \in Kinds \ {This} : result'[k] = result[k]
    BY <1>17, <2>1 DEF RbRestart, Abandon, Concludes, RunType
  <2>. QED  BY <1>17, <2>1, <2>4, <2>5 DEF RbRestart, Elsewhere, history
<1>18. CASE RbStart
  <2>1. lock \in Runs /\ lock # Nobody /\ UNCHANGED <<lock, got, before, villa>> /\ This \in Kinds /\ Among(InFlight)
    BY <1>18, <1>0 DEF RbStart, InTx, RunType, host, history, Among, InFlight
  <2>2. Start({This}) \/ UNCHANGED <<running, data>>
    BY <1>18 DEF RbStart, StartDown
  <2>. QED
    BY <1>18, <2>1, <2>2, StartElsewhere DEF RbStart, Elsewhere, Concludes, history, RunType, run
<1>19. CASE RbProve
  <2>1. lock \in Runs /\ lock # Nobody /\ UNCHANGED <<lock, got, before, villa>> /\ This \in Kinds /\ Among(InFlight)
    BY <1>19, <1>0 DEF RbProve, InTx, RunType, host, history, Among, InFlight
  <2>. QED
    BY <1>19, <2>1
    DEF RbProve, Elsewhere, Concludes, stack, history, StackType, RunType, run, ProvenType
<1>20. CASE RbAbandon
  <2>1. lock \in Runs /\ lock # Nobody /\ UNCHANGED <<lock, got, before, villa>> /\ This \in Kinds /\ Among(InFlight)
    BY <1>20, <1>0 DEF RbAbandon, InTx, RunType, host, history, Among, InFlight
  <2>2. Start({This}) \/ UNCHANGED <<running, data>>
    BY <1>20 DEF RbAbandon, StartDown
  <2>. QED
    BY <1>20, <2>1, <2>2, StartElsewhere DEF RbAbandon, Elsewhere, Concludes, history, RunType, run
<1>. QED  BY <1>1, <1>2, <1>3, <1>4, <1>5, <1>6, <1>7, <1>8, <1>9, <1>10, <1>11, <1>12, <1>13,
         <1>14, <1>15, <1>16, <1>17, <1>18, <1>19, <1>20 DEF Forward, Rollback

\* Each step keeps what is proven among the images.
LEMMA ProvenStep ==
  ASSUME TypeOK, Held, ProvenType, Next
  PROVE  ProvenType'
<1>. USE DEF TypeOK
<1>1. CASE Capture \/ Pull \/ Stop \/ Snapshot \/ Reopen \/ WritePins \/ Apply \/ Restart \/ StartNew \/ Commit \/
            RbStop \/ RbData \/ RbPins \/ RbUnits \/ RbRestart \/ RbStart \/ RbProve \/ RbAbandon \/ Finish \/ Prune \/
            SnapshotCleanup \/ Release \/ Crash \/ Upgrade \/ Publish
  BY <1>1 DEF Capture, Pull, Stop, Snapshot, Reopen, WritePins, Apply, Restart, StartNew, Commit,
         RbStop, RbData, RbPins, RbUnits, RbRestart, RbStart, RbProve, RbAbandon, Finish, Prune,
         SnapshotCleanup, Release, Crash, Upgrade, Publish, host, stack, disk, run, history, End,
         ProvenType, history
<1>2. CASE ProveCurrent
  <2>1. running[This] \in Image \/ proven' = proven
    BY <1>2, ThisIsToDo DEF ProveCurrent, Healthy, InTx, Among, InFlight, StackType, Held, RunType
  <2>. QED  BY <1>2, <2>1 DEF ProveCurrent, ProvenType
<1>3. CASE ProveNew
  <2>1. running[This] \in Image \/ proven' = proven
    BY <1>3, ThisIsToDo DEF ProveNew, Healthy, InTx, Among, InFlight, StackType, Held, RunType
  <2>. QED  BY <1>3, <2>1 DEF ProveNew, ProvenType
<1>4. ASSUME NEW r \in Runs, Load(r) \/ Fetch(r) \/ Save(r) \/ Decide(r) \/ Acquire(r) PROVE ProvenType'
  BY <1>4 DEF Load, Fetch, Save, Decide, Acquire, host, stack, disk, run, history, ProvenType,
         history
<1>. QED  BY <1>1, <1>2, <1>3, <1>4 DEF Next, Forward, Rollback, Ending, Check

----------------------------------------------------------------------------
(* Subsystems at rest agree.                                               *)

\* A step on the subsystem in hand keeps Rested when it leaves that one at work, or agreeing
\* as its result says.
LEMMA RestedKept ==
  ASSUME Sane, Unhalted, Rested, Elsewhere, taint = {}, Among(InFlight), NEW h \in Kinds, h = This,
         \/ Among(Work)' /\ This' = h /\ result'[h] = "not_tried"
         \/ /\ result'[h] # "incomplete" => Agrees(h)'
            /\ result'[h] \in {"not_tried", "refused", "rolled_back"} => unit'[h] = before.unit[h]
            /\ result'[h] \in {"committed", "unrecorded"} => unit'[h] = Table[got[lock]][h]
  PROVE  Rested'
<1>1. ASSUME NEW k \in Kinds, k # h PROVE Agrees(k)'
  BY <1>1, AgreesElsewhere, UpdateAssumption DEF Elsewhere, Agrees, Resolve
<1>2. \A k \in Kinds : ~InWork(k)' /\ result'[k] # "incomplete" => Agrees(k)'
  BY <1>1 DEF InWork
<1>3. ASSUME NEW k \in Kinds, k # h
      PROVE  /\ result'[k] \in {"not_tried", "refused", "rolled_back"} => unit'[k] = before.unit[k]
             /\ result'[k] \in {"committed", "unrecorded"} => unit'[k] = Table[got[lock]][k]
  BY <1>3 DEF Elsewhere, Rested, InWork
<1>4. ASSUME NEW k \in Kinds
      PROVE  /\ result'[k] \in {"not_tried", "refused", "rolled_back"} /\ ~InWork(k)' => unit'[k] = before.unit[k]
             /\ result'[k] \in {"committed", "unrecorded"} => unit'[k] = Table[got[lock]][k]
  BY <1>3 DEF InWork
<1>5. before' = before /\ got' = got /\ lock' = lock
  BY DEF Elsewhere
<1>6. /\ before.unit \in [Kinds -> Image]
      /\ \A k \in Kinds : before.running[k] = before.unit[k]
      /\ \A k \in Stateful : before.data[k] = before.unit[k]
  BY DEF Rested
<1>. HIDE DEF Agrees, InWork
<1>. QED  BY <1>2, <1>4, <1>5, <1>6 DEF Rested

\* Each step keeps Rested: a subsystem is let go of only when it agrees again.
LEMMA RestedStep ==
  ASSUME Sane, Unhalted, ProvenType, Rested, Working, Next
  PROVE  Rested'
<1>. USE DEF Sane, TypeOK
<1>0. Among(InFlight) => This \in todo /\ This \in Kinds /\ result[This] = "not_tried"
  BY ThisIsToDo DEF RunType, Held
<1>. SUFFICES ASSUME taint' = {} PROVE Rested'
  BY DEF Rested
<1>t. taint = {} /\ TxHeld /\ TxForward /\ TxBack
  BY TaintGrows DEF Working
<1>1. CASE ProveCurrent
  <2>1. Elsewhere /\ lock \in Runs /\ lock # Nobody /\ lock' = lock /\ This \in Kinds /\ Among(InFlight) /\ result[This] = "not_tried"
    BY <1>1, <1>0, <1>t, ElsewhereStep
    DEF ProveCurrent, InTx, Among, InFlight, Forward, Rollback, Elsewhere
  <2>2. Agrees(This) /\ unit[This] = before.unit[This]
    BY <1>1, <1>t, <2>1 DEF ProveCurrent, InTx, Rested, InWork, Among, Work
  <2>3. result'[This] \in {"not_tried", "refused"} /\ running' = running /\ unit' = unit /\ data' = data /\ store' = store
        /\ villa' = villa /\ proven[This] \subseteq proven'[This]
    BY <1>1, <2>1 DEF ProveCurrent, Concludes, stack, host, history, RunType, ProvenType
  <2>4. ASSUME NEW h \in Kinds, h = This PROVE Agrees(h)' /\ unit'[h] = before.unit[h]
    BY <2>2, <2>3, <2>4 DEF Agrees, Resolve
  <2>. QED  BY <1>t, <2>1, <2>3, <2>4, RestedKept
<1>2. CASE Capture
  <2>1. Elsewhere /\ lock \in Runs /\ lock # Nobody /\ lock' = lock /\ This \in Kinds /\ Among(InFlight) /\ result[This] = "not_tried"
    BY <1>2, <1>0, <1>t, ElsewhereStep DEF Capture, InTx, Among, InFlight, Forward, Rollback, Elsewhere
  <2>2. Agrees(This) /\ unit[This] = before.unit[This]
    BY <1>2, <1>t, <2>1 DEF Capture, InTx, Rested, InWork, Among, Work
  <2>3. result'[This] \in {"not_tried", "refused"} /\ running' = running /\ unit' = unit /\ data' = data /\ store' = store
        /\ villa' = villa /\ proven[This] \subseteq proven'[This]
    BY <1>2, <2>1 DEF Capture, Concludes, stack, host, history, RunType, ProvenType
  <2>4. ASSUME NEW h \in Kinds, h = This PROVE Agrees(h)' /\ unit'[h] = before.unit[h]
    BY <2>2, <2>3, <2>4 DEF Agrees, Resolve
  <2>. QED  BY <1>t, <2>1, <2>3, <2>4, RestedKept
<1>3. CASE Pull
  <2>1. Elsewhere /\ lock \in Runs /\ lock # Nobody /\ lock' = lock /\ This \in Kinds /\ Among(InFlight) /\ result[This] = "not_tried"
    BY <1>3, <1>0, <1>t, ElsewhereStep DEF Pull, InTx, Among, InFlight, Forward, Rollback, Elsewhere
  <2>2. Agrees(This) /\ unit[This] = before.unit[This]
    BY <1>3, <1>t, <2>1 DEF Pull, InTx, Rested, InWork, Among, Work
  <2>3. result'[This] \in {"not_tried", "refused"} /\ running' = running /\ unit' = unit /\ data' = data /\ store' = store
        /\ villa' = villa /\ proven[This] \subseteq proven'[This]
    BY <1>3, <2>1 DEF Pull, Concludes, stack, host, history, RunType, ProvenType
  <2>4. ASSUME NEW h \in Kinds, h = This PROVE Agrees(h)' /\ unit'[h] = before.unit[h]
    BY <2>2, <2>3, <2>4 DEF Agrees, Resolve
  <2>. QED  BY <1>t, <2>1, <2>3, <2>4, RestedKept
<1>4. CASE Stop
  <2>1. Elsewhere /\ lock \in Runs /\ lock # Nobody /\ lock' = lock /\ This \in Kinds /\ Among(InFlight) /\ result[This] = "not_tried"
    BY <1>4, <1>0, <1>t, ElsewhereStep DEF Stop, InTx, Among, InFlight, Forward, Rollback, Elsewhere
  <2>2. \/ at'[lock] \in Work /\ todo' = todo /\ result' = result
        \/ result' = [result EXCEPT ![This] = "incomplete"]
    BY <1>4, <2>1 DEF Stop, InTx, Go, Concludes, Abandon, run, Work, RunType
  <2>3. todo' = todo => This' = This
    BY SameThis
  <2>4. \/ Among(Work)' /\ This' = This /\ result'[This] = "not_tried"
        \/ result'[This] = "incomplete"
    BY <2>1, <2>2, <2>3 DEF Among, RunType
  <2>. QED  BY <1>t, <2>1, <2>4, RestedKept
<1>5. CASE Snapshot
  <2>1. Elsewhere /\ lock \in Runs /\ lock # Nobody /\ lock' = lock /\ This \in Kinds /\ Among(InFlight) /\ result[This] = "not_tried"
    BY <1>5, <1>0, <1>t, ElsewhereStep DEF Snapshot, InTx, Among, InFlight, Forward, Rollback, Elsewhere
  <2>2. \/ at'[lock] \in Work /\ todo' = todo /\ result' = result
        \/ result' = [result EXCEPT ![This] = "incomplete"]
    BY <1>5, <2>1 DEF Snapshot, InTx, Go, Concludes, Abandon, run, Work, RunType
  <2>3. todo' = todo => This' = This
    BY SameThis
  <2>4. \/ Among(Work)' /\ This' = This /\ result'[This] = "not_tried"
        \/ result'[This] = "incomplete"
    BY <2>1, <2>2, <2>3 DEF Among, RunType
  <2>. QED  BY <1>t, <2>1, <2>4, RestedKept
<1>6. CASE Reopen
  <2>1. Elsewhere /\ lock \in Runs /\ lock # Nobody /\ lock' = lock /\ This \in Kinds /\ Among(InFlight) /\ result[This] = "not_tried"
    BY <1>6, <1>0, <1>t, ElsewhereStep DEF Reopen, InTx, Among, InFlight, Forward, Rollback, Elsewhere
  <2>2. CASE result' = [result EXCEPT ![This] = "incomplete"]
    BY <1>t, <2>1, <2>2, RestedKept DEF RunType
  <2>3. CASE /\ result' = [result EXCEPT ![This] = "refused"]
             /\ IF running[This] = Down THEN Start({This}) ELSE UNCHANGED <<running, data, images>>
    <3>1. unit[This] = Old /\ AtOld /\ DataIn({Old}) /\ Resolve(store, villa, This) = Old
          /\ store.pins[This] \in proven[This] \cup {Unpinned} /\ Old \in Image
      BY <1>6, <1>t, <2>1 DEF Reopen, InTx, TxForward, Among, Old, Rested
    <3>2. running'[This] = Old /\ (This \in Stateful => data'[This] = Old)
      <4>1. CASE running[This] = Down
        <5>1. Start({This})
          BY <2>3, <4>1
        <5>2. Max({Old, Old}) = Old /\ Old # Lost
          BY <3>1, MaxOfTwo, ImageType, NotAnImage
        <5>. QED  BY <2>1, <3>1, <5>1, <5>2, StartDoes DEF DataIn, StackType
      <4>2. CASE running[This] # Down
        BY <2>3, <3>1, <4>2 DEF AtOld, DataIn
      <4>. QED  BY <4>1, <4>2
    <3>3. unit' = unit /\ store' = store /\ villa' = villa /\ proven' = proven /\ result'[This] = "refused"
      BY <1>6, <2>1, <2>3 DEF Reopen, host, history, RunType
    <3>4. ASSUME NEW h \in Kinds, h = This PROVE Agrees(h)' /\ unit'[h] = before.unit[h]
      BY <3>1, <3>2, <3>3, <3>4 DEF Agrees, Resolve, Old
    <3>. QED  BY <1>t, <2>1, <3>3, <3>4, RestedKept
  <2>. QED  BY <1>6, <2>2, <2>3 DEF Reopen, Concludes
<1>7. CASE WritePins
  <2>1. Elsewhere /\ lock \in Runs /\ lock # Nobody /\ lock' = lock /\ This \in Kinds /\ Among(InFlight) /\ result[This] = "not_tried"
    BY <1>7, <1>0, <1>t, ElsewhereStep
    DEF WritePins, InTx, Among, InFlight, Forward, Rollback, Elsewhere
  <2>2. \/ at'[lock] \in Work /\ todo' = todo /\ result' = result
        \/ result' = [result EXCEPT ![This] = "incomplete"]
    BY <1>7, <2>1 DEF WritePins, InTx, Go, Concludes, Abandon, run, Work, RunType
  <2>3. todo' = todo => This' = This
    BY SameThis
  <2>4. \/ Among(Work)' /\ This' = This /\ result'[This] = "not_tried"
        \/ result'[This] = "incomplete"
    BY <2>1, <2>2, <2>3 DEF Among, RunType
  <2>. QED  BY <1>t, <2>1, <2>4, RestedKept
<1>8. CASE Apply
  <2>1. Elsewhere /\ lock \in Runs /\ lock # Nobody /\ lock' = lock /\ This \in Kinds /\ Among(InFlight) /\ result[This] = "not_tried"
    BY <1>8, <1>0, <1>t, ElsewhereStep DEF Apply, InTx, Among, InFlight, Forward, Rollback, Elsewhere
  <2>2. \/ at'[lock] \in Work /\ todo' = todo /\ result' = result
        \/ result' = [result EXCEPT ![This] = "incomplete"]
    BY <1>8, <2>1 DEF Apply, InTx, Go, Concludes, Abandon, run, Work, RunType
  <2>3. todo' = todo => This' = This
    BY SameThis
  <2>4. \/ Among(Work)' /\ This' = This /\ result'[This] = "not_tried"
        \/ result'[This] = "incomplete"
    BY <2>1, <2>2, <2>3 DEF Among, RunType
  <2>. QED  BY <1>t, <2>1, <2>4, RestedKept
<1>9. CASE Restart
  <2>1. Elsewhere /\ lock \in Runs /\ lock # Nobody /\ lock' = lock /\ This \in Kinds /\ Among(InFlight) /\ result[This] = "not_tried"
    BY <1>9, <1>0, <1>t, ElsewhereStep DEF Restart, InTx, Among, InFlight, Forward, Rollback, Elsewhere
  <2>2. \/ at'[lock] \in Work /\ todo' = todo /\ result' = result
        \/ result' = [result EXCEPT ![This] = "incomplete"]
    BY <1>9, <2>1 DEF Restart, InTx, Go, Concludes, Abandon, run, Work, RunType
  <2>3. todo' = todo => This' = This
    BY SameThis
  <2>4. \/ Among(Work)' /\ This' = This /\ result'[This] = "not_tried"
        \/ result'[This] = "incomplete"
    BY <2>1, <2>2, <2>3 DEF Among, RunType
  <2>. QED  BY <1>t, <2>1, <2>4, RestedKept
<1>10. CASE StartNew
  <2>1. Elsewhere /\ lock \in Runs /\ lock # Nobody /\ lock' = lock /\ This \in Kinds /\ Among(InFlight) /\ result[This] = "not_tried"
    BY <1>10, <1>0, <1>t, ElsewhereStep
    DEF StartNew, InTx, Among, InFlight, Forward, Rollback, Elsewhere
  <2>2. \/ at'[lock] \in Work /\ todo' = todo /\ result' = result
        \/ result' = [result EXCEPT ![This] = "incomplete"]
    BY <1>10, <2>1 DEF StartNew, InTx, Go, Concludes, Abandon, run, Work, RunType
  <2>3. todo' = todo => This' = This
    BY SameThis
  <2>4. \/ Among(Work)' /\ This' = This /\ result'[This] = "not_tried"
        \/ result'[This] = "incomplete"
    BY <2>1, <2>2, <2>3 DEF Among, RunType
  <2>. QED  BY <1>t, <2>1, <2>4, RestedKept
<1>11. CASE ProveNew
  <2>1. Elsewhere /\ lock \in Runs /\ lock # Nobody /\ lock' = lock /\ This \in Kinds /\ Among(InFlight) /\ result[This] = "not_tried"
    BY <1>11, <1>0, <1>t, ElsewhereStep
    DEF ProveNew, InTx, Among, InFlight, Forward, Rollback, Elsewhere
  <2>2. \/ at'[lock] \in Work /\ todo' = todo /\ result' = result
        \/ result' = [result EXCEPT ![This] = "incomplete"]
    BY <1>11, <2>1 DEF ProveNew, InTx, Go, Concludes, Abandon, run, Work, RunType
  <2>3. todo' = todo => This' = This
    BY SameThis
  <2>4. \/ Among(Work)' /\ This' = This /\ result'[This] = "not_tried"
        \/ result'[This] = "incomplete"
    BY <2>1, <2>2, <2>3 DEF Among, RunType
  <2>. QED  BY <1>t, <2>1, <2>4, RestedKept
<1>12. CASE Commit
  <2>1. Elsewhere /\ lock \in Runs /\ lock # Nobody /\ lock' = lock /\ This \in Kinds /\ Among(InFlight) /\ result[This] = "not_tried"
    BY <1>12, <1>0, <1>t, ElsewhereStep DEF Commit, InTx, Among, InFlight, Forward, Rollback, Elsewhere
  <2>2. Target \in Image /\ Target # Unpinned
    BY <2>1, TargetType, NotAnImage
  <2>3. unit[This] = Target /\ running[This] = Target /\ DataIn({Target}) /\ store.pins[This] = Target
        /\ Target \in proven[This]
    BY <1>12, <1>t, <2>1 DEF Commit, InTx, TxForward, Among
  <2>4. UNCHANGED <<running, data, unit, villa, proven>> /\ result'[This] \in {"committed", "unrecorded"}
    BY <1>12, <2>1 DEF Commit, host, stack, history, RunType
  <2>5. store'.pins[This] = Target
    <3>1. Record(store, This, Target) \in Stores
          /\ Record(store, This, Target).pins = [store.pins EXCEPT ![This] = Target]
      BY <2>1, <2>2, RecordIs DEF StoreType
    <3>2. [ref |-> tx.ref, snap |-> tx.snap] \in [ref : Image, snap : Snapshots \cup {NoTuple}]
      BY <1>12, <2>1 DEF Commit, InTx, TupleHeld, TxPlaced, Among, InFlight, Captured, TxType, Tuples
    <3>3. \/ store' = store
          \/ store' = Retain(Record(store, This, Target), This, [ref |-> tx.ref, snap |-> tx.snap])
      BY <1>12, Zenon DEF Commit
    <3>4. Retain(Record(store, This, Target), This, [ref |-> tx.ref, snap |-> tx.snap]).pins
            = Record(store, This, Target).pins
      BY <2>1, <3>1, <3>2, RetainIs, Zenon
    <3>5. store' = store \/ store'.pins = [store.pins EXCEPT ![This] = Target]
      BY <3>1, <3>3, <3>4
    <3>. QED  BY <2>1, <2>3, <3>5, PinsAre
  <2>6. ASSUME NEW h \in Kinds, h = This PROVE Agrees(h)' /\ unit'[h] = Table[got[lock]][h]
    BY <2>2, <2>3, <2>4, <2>5, <2>6 DEF Agrees, Resolve, DataIn, Target
  <2>. QED  BY <1>t, <2>1, <2>4, <2>6, RestedKept
<1>13. CASE RbStop
  <2>1. Elsewhere /\ lock \in Runs /\ lock # Nobody /\ lock' = lock /\ This \in Kinds /\ Among(InFlight) /\ result[This] = "not_tried"
    BY <1>13, <1>0, <1>t, ElsewhereStep DEF RbStop, InTx, Among, InFlight, Forward, Rollback, Elsewhere
  <2>2. \/ at'[lock] \in Work /\ todo' = todo /\ result' = result
        \/ result' = [result EXCEPT ![This] = "incomplete"]
    BY <1>13, <2>1 DEF RbStop, InTx, Go, Concludes, Abandon, run, Work, RunType
  <2>3. todo' = todo => This' = This
    BY SameThis
  <2>4. \/ Among(Work)' /\ This' = This /\ result'[This] = "not_tried"
        \/ result'[This] = "incomplete"
    BY <2>1, <2>2, <2>3 DEF Among, RunType
  <2>. QED  BY <1>t, <2>1, <2>4, RestedKept
<1>14. CASE RbData
  <2>1. Elsewhere /\ lock \in Runs /\ lock # Nobody /\ lock' = lock /\ This \in Kinds /\ Among(InFlight) /\ result[This] = "not_tried"
    BY <1>14, <1>0, <1>t, ElsewhereStep DEF RbData, InTx, Among, InFlight, Forward, Rollback, Elsewhere
  <2>2. \/ at'[lock] \in Work /\ todo' = todo /\ result' = result
        \/ result' = [result EXCEPT ![This] = "incomplete"]
    BY <1>14, <2>1 DEF RbData, InTx, Go, Concludes, Abandon, run, Work, RunType
  <2>3. todo' = todo => This' = This
    BY SameThis
  <2>4. \/ Among(Work)' /\ This' = This /\ result'[This] = "not_tried"
        \/ result'[This] = "incomplete"
    BY <2>1, <2>2, <2>3 DEF Among, RunType
  <2>. QED  BY <1>t, <2>1, <2>4, RestedKept
<1>15. CASE RbPins
  <2>1. Elsewhere /\ lock \in Runs /\ lock # Nobody /\ lock' = lock /\ This \in Kinds /\ Among(InFlight) /\ result[This] = "not_tried"
    BY <1>15, <1>0, <1>t, ElsewhereStep DEF RbPins, InTx, Among, InFlight, Forward, Rollback, Elsewhere
  <2>2. \/ at'[lock] \in Work /\ todo' = todo /\ result' = result
        \/ result' = [result EXCEPT ![This] = "incomplete"]
    BY <1>15, <2>1 DEF RbPins, InTx, Go, Concludes, Abandon, run, Work, RunType
  <2>3. todo' = todo => This' = This
    BY SameThis
  <2>4. \/ Among(Work)' /\ This' = This /\ result'[This] = "not_tried"
        \/ result'[This] = "incomplete"
    BY <2>1, <2>2, <2>3 DEF Among, RunType
  <2>. QED  BY <1>t, <2>1, <2>4, RestedKept
<1>16. CASE RbUnits
  <2>1. Elsewhere /\ lock \in Runs /\ lock # Nobody /\ lock' = lock /\ This \in Kinds /\ Among(InFlight) /\ result[This] = "not_tried"
    BY <1>16, <1>0, <1>t, ElsewhereStep DEF RbUnits, InTx, Among, InFlight, Forward, Rollback, Elsewhere
  <2>2. \/ at'[lock] \in Work /\ todo' = todo /\ result' = result
        \/ result' = [result EXCEPT ![This] = "incomplete"]
    BY <1>16, <2>1 DEF RbUnits, InTx, Go, Concludes, Abandon, run, Work, RunType
  <2>3. todo' = todo => This' = This
    BY SameThis
  <2>4. \/ Among(Work)' /\ This' = This /\ result'[This] = "not_tried"
        \/ result'[This] = "incomplete"
    BY <2>1, <2>2, <2>3 DEF Among, RunType
  <2>. QED  BY <1>t, <2>1, <2>4, RestedKept
<1>17. CASE RbRestart
  <2>1. Elsewhere /\ lock \in Runs /\ lock # Nobody /\ lock' = lock /\ This \in Kinds /\ Among(InFlight) /\ result[This] = "not_tried"
    BY <1>17, <1>0, <1>t, ElsewhereStep
    DEF RbRestart, InTx, Among, InFlight, Forward, Rollback, Elsewhere
  <2>2. \/ at'[lock] \in Work /\ todo' = todo /\ result' = result
        \/ result' = [result EXCEPT ![This] = "incomplete"]
    <3>1. CASE UNCHANGED <<todo, result>>
      BY <1>17, <2>1, <3>1 DEF RbRestart, InTx, Go, Abandon, Work, Concludes, RunType
    <3>2. CASE Concludes("incomplete")
      BY <3>2 DEF Concludes
    <3>. QED  BY <1>17, <3>1, <3>2 DEF RbRestart, Abandon
  <2>3. todo' = todo => This' = This
    BY SameThis
  <2>4. \/ Among(Work)' /\ This' = This /\ result'[This] = "not_tried"
        \/ result'[This] = "incomplete"
    BY <2>1, <2>2, <2>3 DEF Among, RunType
  <2>. QED  BY <1>t, <2>1, <2>4, RestedKept
<1>18. CASE RbStart
  <2>1. Elsewhere /\ lock \in Runs /\ lock # Nobody /\ lock' = lock /\ This \in Kinds /\ Among(InFlight) /\ result[This] = "not_tried"
    BY <1>18, <1>0, <1>t, ElsewhereStep DEF RbStart, InTx, Among, InFlight, Forward, Rollback, Elsewhere
  <2>2. \/ at'[lock] \in Work /\ todo' = todo /\ result' = result
        \/ result' = [result EXCEPT ![This] = "incomplete"]
    BY <1>18, <2>1 DEF RbStart, InTx, Go, Concludes, Abandon, run, Work, RunType
  <2>3. todo' = todo => This' = This
    BY SameThis
  <2>4. \/ Among(Work)' /\ This' = This /\ result'[This] = "not_tried"
        \/ result'[This] = "incomplete"
    BY <2>1, <2>2, <2>3 DEF Among, RunType
  <2>. QED  BY <1>t, <2>1, <2>4, RestedKept
<1>19. CASE RbProve
  <2>1. Elsewhere /\ lock \in Runs /\ lock # Nobody /\ lock' = lock /\ This \in Kinds /\ Among(InFlight) /\ result[This] = "not_tried"
    BY <1>19, <1>0, <1>t, ElsewhereStep DEF RbProve, InTx, Among, InFlight, Forward, Rollback, Elsewhere
  <2>2. CASE result' = [result EXCEPT ![This] = "incomplete"]
    BY <1>t, <2>1, <2>2, RestedKept DEF RunType
  <2>3. CASE result' = [result EXCEPT ![This] = "rolled_back"]
    <3>1. unit[This] = Old /\ running[This] = Old /\ DataIn({Old}) /\ store.pins[This] = Old /\ Old \in proven[This]
          /\ Old \in Image
      BY <1>19, <1>t, <2>1 DEF RbProve, InTx, TxBack, TxHeld, Among, InFlight, Old, Rested
    <3>2. UNCHANGED <<running, data, unit, store, villa, proven>> /\ result'[This] = "rolled_back"
      BY <1>19, <2>1, <2>3 DEF RbProve, host, stack, history, RunType
    <3>3. Old # Unpinned
      BY <3>1, NotAnImage
    <3>4. ASSUME NEW h \in Kinds, h = This PROVE Agrees(h)' /\ unit'[h] = before.unit[h]
      BY <3>1, <3>2, <3>3, <3>4 DEF Agrees, Resolve, Old, DataIn
    <3>. QED  BY <1>t, <2>1, <3>2, <3>4, RestedKept
  <2>. QED  BY <1>19, <2>2, <2>3 DEF RbProve, Concludes
<1>20. CASE RbAbandon
  <2>1. Elsewhere /\ lock \in Runs /\ lock # Nobody /\ lock' = lock /\ This \in Kinds /\ Among(InFlight) /\ result[This] = "not_tried"
    BY <1>20, <1>0, <1>t, ElsewhereStep
    DEF RbAbandon, InTx, Among, InFlight, Forward, Rollback, Elsewhere
  <2>2. \/ at'[lock] \in Work /\ todo' = todo /\ result' = result
        \/ result' = [result EXCEPT ![This] = "incomplete"]
    BY <1>20, <2>1 DEF RbAbandon, InTx, Go, Concludes, Abandon, run, Work, RunType
  <2>3. todo' = todo => This' = This
    BY SameThis
  <2>4. \/ Among(Work)' /\ This' = This /\ result'[This] = "not_tried"
        \/ result'[This] = "incomplete"
    BY <2>1, <2>2, <2>3 DEF Among, RunType
  <2>. QED  BY <1>t, <2>1, <2>4, RestedKept
<1>21. CASE Finish
  <2>1. lock \in Runs /\ lock # Nobody /\ UNCHANGED <<lock, got, result, villa, store, unit, running, data, before, proven>>
    BY <1>21 DEF Finish, InTx, run, host, stack, history, RunType
  <2>2. ~Among(Work) /\ ~Among(Work)'
    BY <1>21, <2>1 DEF Finish, InTx, Go, Among, Work, RunType
  <2>. QED  BY <1>t, <2>1, <2>2 DEF Rested, InWork, Agrees, Resolve
<1>22. CASE Prune
  <2>1. lock \in Runs /\ lock # Nobody /\ UNCHANGED <<lock, got, result, villa, store, unit, running, data, before, proven>>
    BY <1>22 DEF Prune, InTx, run, host, stack, history, RunType
  <2>2. ~Among(Work) /\ ~Among(Work)'
    BY <1>22, <2>1 DEF Prune, InTx, Go, Among, Work, RunType
  <2>. QED  BY <1>t, <2>1, <2>2 DEF Rested, InWork, Agrees, Resolve
<1>23. CASE SnapshotCleanup
  <2>1. lock \in Runs /\ lock # Nobody /\ UNCHANGED <<lock, got, result, villa, store, unit, running, data, before, proven>>
    BY <1>23 DEF SnapshotCleanup, InTx, run, host, stack, history, RunType
  <2>2. ~Among(Work) /\ ~Among(Work)'
    BY <1>23, <2>1 DEF SnapshotCleanup, InTx, Go, Among, Work, RunType
  <2>. QED  BY <1>t, <2>1, <2>2 DEF Rested, InWork, Agrees, Resolve
<1>24. CASE Release
  <2>1. \A k \in Kinds : result[k] # "incomplete"
    BY <1>24 DEF Release, End
  <2>2. lock' = Nobody /\ ~Among(Work) /\ UNCHANGED <<villa, store, unit, running, data, proven>>
    BY <1>24 DEF Release, End, InTx, Among, Work, host
  <2>3. \A k \in Kinds : Agrees(k)
    BY <1>t, <2>1, <2>2 DEF Rested, InWork
  <2>4. before' = [unit |-> unit, running |-> running, data |-> data]
    BY <1>24, <2>2 DEF Release, End
  <2>. QED  BY <2>2, <2>3, <2>4, UpdateAssumption DEF Rested, Agrees, Resolve, StackType
<1>25. CASE Crash
  BY <1>25 DEF Crash, End
<1>26. CASE Upgrade
  BY <1>26 DEF Upgrade
<1>27. CASE Publish
  <2>1. UNCHANGED <<lock, at, todo, got, result, villa, store, unit, running, data, before, proven>> /\ This' = This
    BY <1>27, SameThis DEF Publish, run, stack, history
  <2>. QED  BY <1>t, <2>1 DEF Rested, InWork, Agrees, Resolve, Among
<1>28. ASSUME NEW r \in Runs, Load(r) PROVE Rested'
  <2>1. r # lock /\ UNCHANGED <<lock, todo, result, villa, store, unit, running, data, before, proven>> /\ This' = This
    BY <1>28, SameThis, UpdateAssumption DEF Load, Held, Free, run, host, stack, history
  <2>2. lock # Nobody => at'[lock] = at[lock] /\ got'[lock] = got[lock]
    BY <1>28, <2>1 DEF Load, Leave, RunType, StoreType
  <2>. QED  BY <1>t, <2>1, <2>2 DEF Rested, InWork, Agrees, Resolve, Among
<1>29. ASSUME NEW r \in Runs, Fetch(r) PROVE Rested'
  <2>1. r # lock /\ UNCHANGED <<lock, todo, result, villa, store, unit, running, data, before, proven>> /\ This' = This
    BY <1>29, SameThis, UpdateAssumption DEF Fetch, Held, Free, run, host, stack, history
  <2>2. lock # Nobody => at'[lock] = at[lock] /\ got'[lock] = got[lock]
    BY <1>29, <2>1 DEF Fetch, Leave, RunType, StoreType
  <2>. QED  BY <1>t, <2>1, <2>2 DEF Rested, InWork, Agrees, Resolve, Among
<1>30. ASSUME NEW r \in Runs, Save(r) PROVE Rested'
  <2>1. r # lock /\ UNCHANGED <<lock, todo, got, result, villa, unit, running, data, before, proven>> /\ This' = This
    BY <1>30, SameThis, UpdateAssumption DEF Save, Held, Free, run, host, stack, history
  <2>2. lock # Nobody => at'[lock] = at[lock]
    BY <1>30, <2>1 DEF Save, RunType
  <2>3. store'.pins = store.pins
    <3>1. store' = store \/ (store' = Accept(seen[r], got[r]) /\ seen[r] = store)
      BY <1>30 DEF Save
    <3>2. Accept(seen[r], got[r]).pins = seen[r].pins
      BY AcceptIs DEF StoreType
    <3>. QED  BY <3>1, <3>2
  <2>. QED  BY <1>t, <2>1, <2>2, <2>3 DEF Rested, InWork, Agrees, Resolve, Among
<1>31. ASSUME NEW r \in Runs, Decide(r) PROVE Rested'
  <2>1. r # lock /\ UNCHANGED <<lock, todo, result, villa, store, unit, running, data, before, proven>> /\ This' = This
    BY <1>31, SameThis, UpdateAssumption DEF Decide, Held, Free, run, host, stack, history
  <2>2. lock # Nobody => at'[lock] = at[lock] /\ got'[lock] = got[lock]
    BY <1>31, <2>1 DEF Decide, Leave, RunType, StoreType
  <2>. QED  BY <1>t, <2>1, <2>2 DEF Rested, InWork, Agrees, Resolve, Among
<1>32. ASSUME NEW r \in Runs, Acquire(r) PROVE Rested'
  <2>1. lock = Nobody /\ lock' = r /\ r # Nobody /\ UNCHANGED <<got, result, villa, store, unit, running, data, proven>>
        /\ before' = [unit |-> unit, running |-> running, data |-> data]
    BY <1>32, UpdateAssumption DEF Acquire, host, stack
  <2>2. \A k \in Kinds : result[k] = "not_tried"
    BY <2>1 DEF Held
  <2>3. \A k \in Kinds : Agrees(k)
    BY <1>t, <2>1, <2>2 DEF Rested, InWork, Among
  <2>. QED  BY <2>1, <2>2, <2>3, UpdateAssumption DEF Rested, Agrees, Resolve, StackType
<1>. QED  BY <1>1, <1>2, <1>3, <1>4, <1>5, <1>6, <1>7, <1>8, <1>9, <1>10, <1>11, <1>12, <1>13,
         <1>14, <1>15, <1>16, <1>17, <1>18, <1>19, <1>20, <1>21, <1>22, <1>23, <1>24, <1>25, <1>26,
         <1>27, <1>28, <1>29, <1>30, <1>31, <1>32 DEF Next, Forward, Rollback, Ending, Check

----------------------------------------------------------------------------
(* The subsystem in hand, place by place.                                  *)

\* Where the pieces of the invariant say nothing.
Settled == lock = Nobody \/ at[lock] \in Free \cup {"prove", "finish", "prune", "cleanup", "release"}

\* Where no subsystem is in hand there is nothing to hold.
LEMMA SettledIsWorking ==
  ASSUME Settled'
  PROVE  TxHeld' /\ TxForward' /\ TxBack'
BY DEF Settled, Free, TxHeld, TxForward, TxBack, Among, InFlight, Captured, Windowed, Before

\* A step that keeps the tuple captured keeps what is held of it.
Holding ==
  /\ Elsewhere /\ This' = This /\ Old' = Old /\ Target' = Target /\ Grown' = Grown
  /\ proven[This] \subseteq proven'[This]

\* A step that keeps the record and leaves the other subsystems alone keeps what is held.
LEMMA HeldKept ==
  ASSUME Holding, This \in Kinds, TxHeld, Keeps, Among(Captured), Among(Windowed)' => Among(Windowed),
         snaps' = snaps, tx'.touched \subseteq {This}
  PROVE  TxHeld'
<1>1. Old' \in proven'[This']
  BY DEF Holding, TxHeld, Among, InFlight, Captured
<1>2. Among(Captured)' => tx'.ref = Old' /\ tx'.units[This'] = Old' /\ \A k \in Kinds \ {This'} : tx'.units[k] = unit'[k]
  BY DEF Holding, TxHeld, Keeps, Elsewhere
<1>3. Among(Windowed)' /\ This' \in Stateful => snaps'[tx'.snap] = Old'
  BY DEF Holding, TxHeld, Keeps
<1>. HIDE DEF Holding
<1>4. This' = This
  BY DEF Holding
<1>. QED  BY <1>1, <1>2, <1>3, <1>4 DEF TxHeld

\* What is at the subsystem in hand agrees until its update begins to work on it.
LEMMA AtFirst ==
  ASSUME Sane, Rested, taint = {}, Among({"prove", "capture", "pull", "stop"}), This \in Kinds, result[This] = "not_tried"
  PROVE  /\ Agrees(This) /\ unit[This] = Old /\ running[This] = Old /\ DataIn({Old}) /\ Old \in Image
         /\ Resolve(store, villa, This) = Old /\ store.pins[This] \in proven[This] \cup {Unpinned}
<1>1. ~InWork(This) /\ lock # Nobody
  BY DEF InWork, Among, Work
<1>2. Agrees(This) /\ unit[This] = before.unit[This] /\ before.unit[This] \in Image
  BY <1>1 DEF Rested
<1>. QED  BY <1>2 DEF Agrees, Old, DataIn

\* A step of a run without the lock disturbs nothing of the update in hand.
LEMMA StillWorking ==
  ASSUME TxHeld /\ TxForward /\ TxBack,
         UNCHANGED <<lock, todo, tx, villa, unit, running, data, before, proven, snaps>>, store'.pins = store.pins,
         lock # Nobody => at'[lock] = at[lock] /\ got'[lock] = got[lock]
  PROVE  TxHeld' /\ TxForward' /\ TxBack'
<1>1. CASE lock = Nobody
  BY <1>1 DEF TxHeld, TxForward, TxBack, Among
<1>2. CASE lock # Nobody
  <2>1. This' = This /\ lock' = lock
    BY SameThis
  <2>2. Old' = Old /\ Target' = Target
    BY <1>2, <2>1 DEF Old, Target
  <2>3. Grown' = Grown /\ (AtOld' <=> AtOld)
    BY <2>1, <2>2 DEF Grown, AtOld
  <2>4. \A S : Among(S)' <=> Among(S)
    BY <1>2, <2>1 DEF Among
  <2>5. \A S : (This' \in Stateful => data'[This'] \in S) <=> (This \in Stateful => data[This] \in S)
    BY <2>1
  <2>6. TxHeld'
    BY <1>2, <2>1, <2>2 DEF TxHeld, Among
  <2>7. TxForward'
    BY <1>2, <2>1, <2>2, <2>3 DEF TxForward, DataIn, Among, Resolve
  <2>8. TxBack'
    BY <1>2, <2>1, <2>2, <2>3 DEF TxBack, DataIn, Among
  <2>. QED  BY <2>6, <2>7, <2>8
<1>. QED  BY <1>1, <1>2

\* Each step of the update and of its rollback leads from its place to the next.
LEMMA WorkingStep ==
  ASSUME Sane, Unhalted, ProvenType, Rested, Working, Next
  PROVE  Working'
<1>. USE DEF Sane, TypeOK
<1>0. Among(InFlight) => This \in todo /\ This \in Kinds /\ result[This] = "not_tried"
  BY ThisIsToDo DEF RunType, Held
<1>. SUFFICES ASSUME taint' = {} PROVE TxHeld' /\ TxForward' /\ TxBack'
  BY DEF Working
<1>t. taint = {} /\ TxHeld /\ TxForward /\ TxBack
  BY TaintGrows DEF Working
<1>n. before.unit \in [Kinds -> Image]
  BY <1>t DEF Rested
<1>1. CASE ProveCurrent
  <2>1. Elsewhere /\ This \in Kinds /\ Among(InFlight) /\ result[This] = "not_tried"
    BY <1>1, <1>0, <1>t, ElsewhereStep DEF ProveCurrent, InTx, Among, InFlight, Forward, Rollback
  <2>g. proven[This] \subseteq proven'[This]
    BY <1>1, <2>1 DEF ProveCurrent, history, ProvenType
  <2>2. at'[lock] # "finish" => Holding
    <3>1. todo' = todo \/ at'[lock] = "finish"
      BY <1>1, <2>1 DEF ProveCurrent, run, Go, Concludes, Abandon, Elsewhere, RunType
    <3>2. todo' = todo => This' = This /\ Target' = Target
      BY <2>1, SameTarget DEF Elsewhere
    <3>3. This' = This /\ Target' = Target => Old' = Old /\ Grown' = Grown
      BY <2>1 DEF Elsewhere, Old, Grown
    <3>. QED  BY <2>1, <2>g, <3>1, <3>2, <3>3 DEF Holding
  <2>3. at'[lock] = "finish" => TxHeld' /\ TxForward' /\ TxBack'
    BY <2>1, SettledIsWorking DEF Settled, Elsewhere
  <2>4. lock \in Runs /\ lock # Nobody /\ lock' = lock /\ DOMAIN at = Runs /\ at' \in [Runs -> Places] /\ Old \in Image
    BY <1>1, <2>1, <1>n, RunStep DEF Elsewhere, RunType, Old
  <2>5. at'[lock] \in {"capture", "finish"} /\ (at'[lock] = "capture" => Old \in proven'[This])
    <3>1. running[This] = Old
      BY <1>1, <1>t, <2>1, AtFirst DEF ProveCurrent, InTx, Among
    <3>. QED  BY <1>1, <2>1, <2>4, <3>1 DEF ProveCurrent, Go, Concludes, ProvenType, RunType
  <2>. SUFFICES ASSUME at'[lock] # "finish", Holding PROVE TxHeld' /\ TxForward' /\ TxBack'
    BY <2>2, <2>3
  <2>6. TxHeld'
    BY <2>4, <2>5 DEF Holding, TxHeld, Among, InFlight, Captured, Windowed, Before
  <2>7. TxForward'
    BY <2>1, <2>4, <2>5 DEF Holding, TxForward, Among, AtOld, DataIn
  <2>8. TxBack'
    BY <2>1, <2>4, <2>5 DEF Holding, TxBack, Among, AtOld, DataIn
  <2>. QED  BY <2>6, <2>7, <2>8
<1>2. CASE Capture
  <2>1. Elsewhere /\ This \in Kinds /\ Among(InFlight) /\ result[This] = "not_tried"
    BY <1>2, <1>0, <1>t, ElsewhereStep DEF Capture, InTx, Among, InFlight, Forward, Rollback
  <2>g. proven[This] \subseteq proven'[This]
    BY <1>2, <2>1 DEF Capture, history, ProvenType
  <2>2. at'[lock] # "finish" => Holding
    <3>1. todo' = todo \/ at'[lock] = "finish"
      BY <1>2, <2>1 DEF Capture, run, Go, Concludes, Abandon, Elsewhere, RunType
    <3>2. todo' = todo => This' = This /\ Target' = Target
      BY <2>1, SameTarget DEF Elsewhere
    <3>3. This' = This /\ Target' = Target => Old' = Old /\ Grown' = Grown
      BY <2>1 DEF Elsewhere, Old, Grown
    <3>. QED  BY <2>1, <2>g, <3>1, <3>2, <3>3 DEF Holding
  <2>3. at'[lock] = "finish" => TxHeld' /\ TxForward' /\ TxBack'
    BY <2>1, SettledIsWorking DEF Settled, Elsewhere
  <2>4. lock \in Runs /\ lock # Nobody /\ lock' = lock /\ DOMAIN at = Runs /\ at' \in [Runs -> Places] /\ Old \in Image
    BY <1>2, <2>1, <1>n, RunStep DEF Elsewhere, RunType, Old
  <2>5. \/ at'[lock] = "finish"
        \/ at'[lock] = "pull" /\ tx'.ref = Old /\ tx'.units = unit /\ tx'.touched = {}
    <3>1. Resolve(store, villa, This) = Old
      BY <1>2, <1>t, <2>1, AtFirst DEF Capture, InTx, Among
    <3>2. CASE tx' = CaptureOf(store) /\ at' = [at EXCEPT ![lock] = "pull"]
      BY <2>1, <2>4, <3>1, <3>2, CaptureOfIs DEF StoreType
    <3>. QED  BY <1>2, <2>4, <3>2 DEF Capture, Go, Concludes, RunType
  <2>. SUFFICES ASSUME at'[lock] # "finish", Holding PROVE TxHeld' /\ TxForward' /\ TxBack'
    BY <2>2, <2>3
  <2>6. TxHeld'
    <3>1. unit[This] = Old /\ Old \in proven[This]
      BY <1>2, <1>t, <2>1, AtFirst DEF Capture, InTx, Among, TxHeld, InFlight
    <3>2. unit' = unit
      BY <1>2 DEF Capture, stack
    <3>. QED  BY <2>4, <2>5, <3>1, <3>2 DEF Holding, TxHeld, Among, InFlight, Captured, Windowed, Before
  <2>7. TxForward'
    BY <2>1, <2>4, <2>5 DEF Holding, TxForward, Among, AtOld, DataIn
  <2>8. TxBack'
    BY <2>1, <2>4, <2>5 DEF Holding, TxBack, Among, AtOld, DataIn
  <2>. QED  BY <2>6, <2>7, <2>8
<1>3. CASE Pull
  <2>1. Elsewhere /\ This \in Kinds /\ Among(InFlight) /\ result[This] = "not_tried"
    BY <1>3, <1>0, <1>t, ElsewhereStep DEF Pull, InTx, Among, InFlight, Forward, Rollback
  <2>g. proven[This] \subseteq proven'[This]
    BY <1>3, <2>1 DEF Pull, history, ProvenType
  <2>2. at'[lock] # "finish" => Holding
    <3>1. todo' = todo \/ at'[lock] = "finish"
      BY <1>3, <2>1 DEF Pull, run, Go, Concludes, Abandon, Elsewhere, RunType
    <3>2. todo' = todo => This' = This /\ Target' = Target
      BY <2>1, SameTarget DEF Elsewhere
    <3>3. This' = This /\ Target' = Target => Old' = Old /\ Grown' = Grown
      BY <2>1 DEF Elsewhere, Old, Grown
    <3>. QED  BY <2>1, <2>g, <3>1, <3>2, <3>3 DEF Holding
  <2>3. at'[lock] = "finish" => TxHeld' /\ TxForward' /\ TxBack'
    BY <2>1, SettledIsWorking DEF Settled, Elsewhere
  <2>4. lock \in Runs /\ lock # Nobody /\ lock' = lock /\ DOMAIN at = Runs /\ at' \in [Runs -> Places] /\ Old \in Image
    BY <1>3, <2>1, <1>n, RunStep DEF Elsewhere, RunType, Old
  <2>5. /\ at'[lock] \in {"finish", "stop", "mutate"} /\ (at'[lock] = "mutate" => This \notin Stateful)
        /\ tx' = tx /\ tx.touched = {} /\ UNCHANGED <<unit, running, data, store, villa, proven>>
        /\ unit[This] = Old /\ running[This] = Old /\ Resolve(store, villa, This) = Old
        /\ store.pins[This] \in proven[This] \cup {Unpinned}
    <3>1. unit[This] = Old /\ running[This] = Old /\ Resolve(store, villa, This) = Old
          /\ store.pins[This] \in proven[This] \cup {Unpinned}
      BY <1>3, <1>t, <2>1, AtFirst DEF Pull, InTx, Among
    <3>2. tx.touched = {}
      BY <1>3, <1>t DEF Pull, InTx, TxForward, Among
    <3>3. tx' = tx /\ UNCHANGED <<unit, running, data, store, villa, proven>>
      BY <1>3 DEF Pull, stack, host, history
    <3>4. at'[lock] \in {"finish", "stop", "mutate"} /\ (at'[lock] = "mutate" => This \notin Stateful)
      BY <1>3, <2>4 DEF Pull, Go, Concludes, OwnsPersistentState, RunType
    <3>. QED  BY <3>1, <3>2, <3>3, <3>4
  <2>. SUFFICES ASSUME at'[lock] # "finish", Holding PROVE TxHeld' /\ TxForward' /\ TxBack'
    BY <2>2, <2>3
  <2>6. TxHeld'
    <3>1. Among(Captured) /\ ~Among({"capture"})
      BY <1>3 DEF Pull, InTx, Among, InFlight, Captured
    <3>2. Keeps /\ tx'.touched \subseteq {This} /\ snaps' = snaps
      BY <1>3, <2>5 DEF Pull, Keeps
    <3>3. Among(Windowed)' => This' \notin Stateful
      BY <2>4, <2>5 DEF Among, Windowed, InFlight, Before, Holding
    <3>4. \A k \in Kinds \ {This} : tx'.units[k] = unit'[k]
      BY <1>t, <2>5, <3>1 DEF TxHeld
    <3>5. tx'.ref = Old /\ tx'.units[This] = Old /\ Old \in proven'[This]
      BY <1>t, <2>1, <2>5, <3>1 DEF TxHeld, Among, InFlight, Captured
    <3>. QED  BY <2>4, <2>5, <3>2, <3>3, <3>4, <3>5 DEF Holding, TxHeld
  <2>7. TxForward'
    <3>1. UNCHANGED <<villa, store, tx, unit, running, proven>>
      BY <2>5
    <3>. QED  BY <2>1, <2>4, <2>5, <3>1 DEF Holding, TxForward, Among, AtOld, DataIn
  <2>8. TxBack'
    BY <2>1, <2>4, <2>5 DEF Holding, TxBack, Among, AtOld, DataIn
  <2>. QED  BY <2>6, <2>7, <2>8
<1>4. CASE Stop
  <2>1. Elsewhere /\ This \in Kinds /\ Among(InFlight) /\ result[This] = "not_tried"
    BY <1>4, <1>0, <1>t, ElsewhereStep DEF Stop, InTx, Among, InFlight, Forward, Rollback
  <2>g. proven[This] \subseteq proven'[This]
    BY <1>4, <2>1 DEF Stop, history, ProvenType
  <2>2. at'[lock] # "finish" => Holding
    <3>1. todo' = todo \/ at'[lock] = "finish"
      BY <1>4, <2>1 DEF Stop, run, Go, Concludes, Abandon, Elsewhere, RunType
    <3>2. todo' = todo => This' = This /\ Target' = Target
      BY <2>1, SameTarget DEF Elsewhere
    <3>3. This' = This /\ Target' = Target => Old' = Old /\ Grown' = Grown
      BY <2>1 DEF Elsewhere, Old, Grown
    <3>. QED  BY <2>1, <2>g, <3>1, <3>2, <3>3 DEF Holding
  <2>3. at'[lock] = "finish" => TxHeld' /\ TxForward' /\ TxBack'
    BY <2>1, SettledIsWorking DEF Settled, Elsewhere
  <2>4. lock \in Runs /\ lock # Nobody /\ lock' = lock /\ DOMAIN at = Runs /\ at' \in [Runs -> Places] /\ Old \in Image
    BY <1>4, <2>1, <1>n, RunStep DEF Elsewhere, RunType, Old
  <2>5. /\ at'[lock] \in {"snapshot", "reopen"} /\ (at'[lock] = "snapshot" => running'[This] = Down)
        /\ tx' = tx /\ tx.touched = {} /\ UNCHANGED <<unit, data, store, villa, proven>>
        /\ unit[This] = Old /\ running'[This] \in {Old, Down} /\ data[This] = Old /\ Resolve(store, villa, This) = Old
        /\ store.pins[This] \in proven[This] \cup {Unpinned} /\ This \in Stateful
    <3>0. This \in Stateful
      BY <1>4 DEF Stop, InTx, Among, TupleHeld, TxPlaced
    <3>1. unit[This] = Old /\ running[This] = Old /\ Resolve(store, villa, This) = Old /\ data[This] = Old
          /\ store.pins[This] \in proven[This] \cup {Unpinned}
      BY <1>4, <1>t, <2>1, <3>0, AtFirst DEF Stop, InTx, Among, DataIn
    <3>2. tx.touched = {}
      BY <1>4, <1>t DEF Stop, InTx, TxForward, Among
    <3>3. tx' = tx /\ UNCHANGED <<unit, data, store, villa, proven>>
      BY <1>4 DEF Stop, run, host, history
    <3>4. running'[This] \in {running[This], Down}
      BY <1>4, <2>1 DEF Stop, StackType
    <3>5. at'[lock] \in {"snapshot", "reopen"} /\ (at'[lock] = "snapshot" => running'[This] = Down)
      BY <1>4, <2>1, <2>4 DEF Stop, Go, RunType, StackType
    <3>. QED  BY <3>0, <3>1, <3>2, <3>3, <3>4, <3>5
  <2>. SUFFICES ASSUME at'[lock] # "finish", Holding PROVE TxHeld' /\ TxForward' /\ TxBack'
    BY <2>2, <2>3
  <2>r. Resolve(store, villa, This)' = Resolve(store, villa, This)
    BY <2>5 DEF Holding, Resolve
  <2>6. TxHeld'
    <3>1. Among(Captured) /\ (Among(Windowed)' => Among(Windowed))
      BY <1>4, <2>4, <2>5 DEF Stop, InTx, Among, InFlight, Captured, Windowed, Before
    <3>2. Keeps /\ tx'.touched \subseteq {This} /\ snaps' = snaps
      BY <1>4, <1>t, <2>1, <2>5, <3>1, TxKeeps DEF Stop, Keeps, run, disk, TxHeld
    <3>. QED  BY <1>t, <2>1, <3>1, <3>2, HeldKept
  <2>7. TxForward'
    BY <2>1, <2>4, <2>5, <2>r DEF Holding, TxForward, Among, AtOld, DataIn
  <2>8. TxBack'
    BY <2>1, <2>4, <2>5 DEF Holding, TxBack, Among, AtOld, DataIn
  <2>. QED  BY <2>6, <2>7, <2>8
<1>5. CASE Snapshot
  <2>1. Elsewhere /\ This \in Kinds /\ Among(InFlight) /\ result[This] = "not_tried"
    BY <1>5, <1>0, <1>t, ElsewhereStep DEF Snapshot, InTx, Among, InFlight, Forward, Rollback
  <2>g. proven[This] \subseteq proven'[This]
    BY <1>5, <2>1 DEF Snapshot, history, ProvenType
  <2>2. at'[lock] # "finish" => Holding
    <3>1. todo' = todo \/ at'[lock] = "finish"
      BY <1>5, <2>1 DEF Snapshot, run, Go, Concludes, Abandon, Elsewhere, RunType
    <3>2. todo' = todo => This' = This /\ Target' = Target
      BY <2>1, SameTarget DEF Elsewhere
    <3>3. This' = This /\ Target' = Target => Old' = Old /\ Grown' = Grown
      BY <2>1 DEF Elsewhere, Old, Grown
    <3>. QED  BY <2>1, <2>g, <3>1, <3>2, <3>3 DEF Holding
  <2>3. at'[lock] = "finish" => TxHeld' /\ TxForward' /\ TxBack'
    BY <2>1, SettledIsWorking DEF Settled, Elsewhere
  <2>4. lock \in Runs /\ lock # Nobody /\ lock' = lock /\ DOMAIN at = Runs /\ at' \in [Runs -> Places] /\ Old \in Image
    BY <1>5, <2>1, <1>n, RunStep DEF Elsewhere, RunType, Old
  <2>5. /\ UNCHANGED <<unit, running, data, store, villa, proven>> /\ tx'.touched = {} /\ tx'.ref = tx.ref
        /\ tx'.units = tx.units
        /\ \/ at'[lock] = "mutate" /\ snaps'[tx'.snap] = Old
           \/ at'[lock] = "reopen" /\ tx' = tx
        /\ unit[This] = Old /\ AtOld /\ data[This] = Old /\ Resolve(store, villa, This) = Old
        /\ store.pins[This] \in proven[This] \cup {Unpinned} /\ This \in Stateful
    <3>0. This \in Stateful
      BY <1>5 DEF Snapshot, InTx, Among, TupleHeld, TxPlaced
    <3>1. unit[This] = Old /\ AtOld /\ Resolve(store, villa, This) = Old /\ data[This] = Old
          /\ store.pins[This] \in proven[This] \cup {Unpinned} /\ tx.touched = {}
      BY <1>5, <1>t, <2>1, <3>0 DEF Snapshot, InTx, Among, DataIn, TxForward
    <3>2. UNCHANGED <<unit, running, data, store, villa, proven>>
      BY <1>5 DEF Snapshot, stack, host, history
    <3>3. \/ tx' = tx /\ at'[lock] = "reopen"
          \/ /\ at'[lock] = "mutate" /\ tx' = Exported(SnapshotPath(This))
             /\ snaps' = [s \in DOMAIN snaps \cup {SnapshotPath(This)} |->
                            IF s = SnapshotPath(This) THEN data[This] ELSE snaps[s]]
      BY <1>5, <2>4 DEF Snapshot, Go, RunType
    <3>4. LET e == Exported(SnapshotPath(This)) IN
            e.touched = tx.touched /\ e.ref = tx.ref /\ e.units = tx.units /\ e.snap = SnapshotPath(This)
      BY DEF Exported, TxType, Tuples
    <3>. HIDE DEF SnapshotPath
    <3>5. at'[lock] = "mutate" => tx'.snap = SnapshotPath(This) /\ snaps'[SnapshotPath(This)] = data[This]
      BY <3>3, <3>4
    <3>. QED  BY <3>0, <3>1, <3>2, <3>3, <3>4, <3>5
  <2>. SUFFICES ASSUME at'[lock] # "finish", Holding PROVE TxHeld' /\ TxForward' /\ TxBack'
    BY <2>2, <2>3
  <2>6. TxHeld'
    <3>1. Among(Captured)
      BY <1>5 DEF Snapshot, InTx, Among, InFlight, Captured
    <3>2. tx'.ref = Old /\ tx'.units[This] = Old /\ Old \in proven'[This]
          /\ \A k \in Kinds \ {This} : tx'.units[k] = unit'[k]
      BY <1>t, <2>1, <2>5, <3>1 DEF TxHeld, Among, InFlight, Captured
    <3>3. Among(Windowed)' => snaps'[tx'.snap] = Old
      BY <2>4, <2>5 DEF Among, Windowed, InFlight, Before
    <3>. QED  BY <2>4, <2>5, <3>2, <3>3 DEF Holding, TxHeld
  <2>7. TxForward'
    BY <2>1, <2>4, <2>5 DEF Holding, TxForward, Among, AtOld, DataIn
  <2>8. TxBack'
    BY <2>1, <2>4, <2>5 DEF Holding, TxBack, Among, AtOld, DataIn
  <2>. QED  BY <2>6, <2>7, <2>8
<1>6. CASE Reopen
  <2>1. Elsewhere /\ This \in Kinds /\ Among(InFlight) /\ result[This] = "not_tried"
    BY <1>6, <1>0, <1>t, ElsewhereStep DEF Reopen, InTx, Among, InFlight, Forward, Rollback
  <2>2. Settled'
    BY <1>6, <2>1 DEF Reopen, Concludes, Go, Settled, Elsewhere, RunType
  <2>. QED  BY <2>2, SettledIsWorking
<1>7. CASE WritePins
  <2>1. Elsewhere /\ This \in Kinds /\ Among(InFlight) /\ result[This] = "not_tried"
    BY <1>7, <1>0, <1>t, ElsewhereStep DEF WritePins, InTx, Among, InFlight, Forward, Rollback
  <2>g. proven[This] \subseteq proven'[This]
    BY <1>7, <2>1 DEF WritePins, history, ProvenType
  <2>2. at'[lock] # "finish" => Holding
    <3>1. todo' = todo \/ at'[lock] = "finish"
      BY <1>7, <2>1 DEF WritePins, run, Go, Concludes, Abandon, Elsewhere, RunType
    <3>2. todo' = todo => This' = This /\ Target' = Target
      BY <2>1, SameTarget DEF Elsewhere
    <3>3. This' = This /\ Target' = Target => Old' = Old /\ Grown' = Grown
      BY <2>1 DEF Elsewhere, Old, Grown
    <3>. QED  BY <2>1, <2>g, <3>1, <3>2, <3>3 DEF Holding
  <2>3. at'[lock] = "finish" => TxHeld' /\ TxForward' /\ TxBack'
    BY <2>1, SettledIsWorking DEF Settled, Elsewhere
  <2>4. lock \in Runs /\ lock # Nobody /\ lock' = lock /\ DOMAIN at = Runs /\ at' \in [Runs -> Places] /\ Old \in Image
    BY <1>7, <2>1, <1>n, RunStep DEF Elsewhere, RunType, Old
  <2>5. /\ UNCHANGED <<unit, running, data, villa, proven, tx>> /\ tx.touched = {}
        /\ unit[This] = Old /\ AtOld /\ DataIn({Old})
        /\ \/ at'[lock] = "apply" /\ store'.pins[This] = Target
           \/ at'[lock] = "rollback"
    <3>1. unit[This] = Old /\ AtOld /\ DataIn({Old}) /\ tx.touched = {}
      BY <1>7, <1>t, <2>1 DEF WritePins, InTx, Among, TxForward
    <3>2. UNCHANGED <<unit, running, data, villa, proven, tx>>
      BY <1>7 DEF WritePins, stack, host, history, run
    <3>3. \/ at'[lock] = "apply" /\ store' = Record(store, This, Target)
          \/ at'[lock] = "rollback"
      BY <1>7, <2>4 DEF WritePins, Go, RunType
    <3>4. Record(store, This, Target).pins = [store.pins EXCEPT ![This] = Target]
      BY <2>1, <2>4, RecordIs, TargetType DEF StoreType
    <3>5. [store.pins EXCEPT ![This] = Target][This] = Target
      BY <2>1, PinsAre
    <3>. QED  BY <3>1, <3>2, <3>3, <3>4, <3>5
  <2>. SUFFICES ASSUME at'[lock] # "finish", Holding PROVE TxHeld' /\ TxForward' /\ TxBack'
    BY <2>2, <2>3
  <2>6. TxHeld'
    <3>1. Among(Captured) /\ (Among(Windowed)' => Among(Windowed))
      BY <1>7, <2>4, <2>5 DEF WritePins, InTx, Among, InFlight, Captured, Windowed, Before
    <3>2. Keeps /\ tx'.touched \subseteq {This} /\ snaps' = snaps
      BY <1>7, <1>t, <2>1, <2>5, <3>1, TxKeeps DEF WritePins, Keeps, run, disk, TxHeld
    <3>. QED  BY <1>t, <2>1, <3>1, <3>2, HeldKept
  <2>7. TxForward'
    BY <2>1, <2>4, <2>5 DEF Holding, TxForward, Among, AtOld, DataIn
  <2>8. TxBack'
    BY <2>1, <2>4, <2>5 DEF Holding, TxBack, Among, AtOld, DataIn
  <2>. QED  BY <2>6, <2>7, <2>8
<1>8. CASE Apply
  <2>1. Elsewhere /\ This \in Kinds /\ Among(InFlight) /\ result[This] = "not_tried"
    BY <1>8, <1>0, <1>t, ElsewhereStep DEF Apply, InTx, Among, InFlight, Forward, Rollback
  <2>g. proven[This] \subseteq proven'[This]
    BY <1>8, <2>1 DEF Apply, history, ProvenType
  <2>2. at'[lock] # "finish" => Holding
    <3>1. todo' = todo \/ at'[lock] = "finish"
      BY <1>8, <2>1 DEF Apply, run, Go, Concludes, Abandon, Elsewhere, RunType
    <3>2. todo' = todo => This' = This /\ Target' = Target
      BY <2>1, SameTarget DEF Elsewhere
    <3>3. This' = This /\ Target' = Target => Old' = Old /\ Grown' = Grown
      BY <2>1 DEF Elsewhere, Old, Grown
    <3>. QED  BY <2>1, <2>g, <3>1, <3>2, <3>3 DEF Holding
  <2>3. at'[lock] = "finish" => TxHeld' /\ TxForward' /\ TxBack'
    BY <2>1, SettledIsWorking DEF Settled, Elsewhere
  <2>4. lock \in Runs /\ lock # Nobody /\ lock' = lock /\ DOMAIN at = Runs /\ at' \in [Runs -> Places] /\ Old \in Image
    BY <1>8, <2>1, <1>n, RunStep DEF Elsewhere, RunType, Old
  <2>5. /\ UNCHANGED <<running, data, villa, proven, store>> /\ tx.touched = {} /\ tx'.touched = {}
        /\ unit'[This] \in {Old, Target} /\ AtOld /\ DataIn({Old}) /\ store.pins[This] = Target
        /\ \/ at'[lock] = "restart" /\ unit'[This] = Target /\ tx'.left = {This}
           \/ at'[lock] = "rollback"
    <3>1. unit[This] = Old /\ AtOld /\ DataIn({Old}) /\ tx.touched = {} /\ store.pins[This] = Target
      BY <1>8, <1>t, <2>1 DEF Apply, InTx, Among, TxForward
    <3>2. UNCHANGED <<running, data, villa, proven, store>>
      BY <1>8 DEF Apply, host, history
    <3>3. Rendered[This] = Target
      BY <2>1, <2>4, <3>1, TargetType, NotAnImage DEF Rendered, Resolve
    <3>4. Changed \subseteq {This}
      BY <1>t, <2>1, AgreesElsewhere DEF Changed, Rendered, Agrees
    <3>5. {This} \cup {k \in Changed : running[k] # Down} = {This}
      BY <3>4
    <3>6. Leaving({This}).left = {This} /\ Leaving({This}).touched = tx.touched
      BY <2>1, LeavingIs DEF TxType
    <3>7. \/ at'[lock] = "restart" /\ unit' = Rendered /\ tx' = Leaving({This})
          \/ at'[lock] = "rollback" /\ tx' = tx /\ unit'[This] \in {unit[This], Rendered[This]}
      BY <1>8, <2>1, <2>4, <3>5 DEF Apply, Go, RunType, Rendered
    <3>. QED  BY <3>1, <3>2, <3>3, <3>6, <3>7
  <2>. SUFFICES ASSUME at'[lock] # "finish", Holding PROVE TxHeld' /\ TxForward' /\ TxBack'
    BY <2>2, <2>3
  <2>6. TxHeld'
    <3>1. Among(Captured) /\ (Among(Windowed)' => Among(Windowed))
      BY <1>8, <2>4, <2>5 DEF Apply, InTx, Among, InFlight, Captured, Windowed, Before
    <3>2. Keeps /\ tx'.touched \subseteq {This} /\ snaps' = snaps
      BY <1>8, <1>t, <2>1, <2>5, <3>1, TxKeeps DEF Apply, Keeps, run, disk, TxHeld
    <3>. QED  BY <1>t, <2>1, <3>1, <3>2, HeldKept
  <2>7. TxForward'
    BY <2>1, <2>4, <2>5 DEF Holding, TxForward, Among, AtOld, DataIn
  <2>8. TxBack'
    BY <2>1, <2>4, <2>5 DEF Holding, TxBack, Among, AtOld, DataIn
  <2>. QED  BY <2>6, <2>7, <2>8
<1>9. CASE Restart
  <2>1. Elsewhere /\ This \in Kinds /\ Among(InFlight) /\ result[This] = "not_tried"
    BY <1>9, <1>0, <1>t, ElsewhereStep DEF Restart, InTx, Among, InFlight, Forward, Rollback
  <2>g. proven[This] \subseteq proven'[This]
    BY <1>9, <2>1 DEF Restart, history, ProvenType
  <2>2. at'[lock] # "finish" => Holding
    <3>1. todo' = todo \/ at'[lock] = "finish"
      BY <1>9, <2>1 DEF Restart, run, Go, Concludes, Abandon, Elsewhere, RunType
    <3>2. todo' = todo => This' = This /\ Target' = Target
      BY <2>1, SameTarget DEF Elsewhere
    <3>3. This' = This /\ Target' = Target => Old' = Old /\ Grown' = Grown
      BY <2>1 DEF Elsewhere, Old, Grown
    <3>. QED  BY <2>1, <2>g, <3>1, <3>2, <3>3 DEF Holding
  <2>3. at'[lock] = "finish" => TxHeld' /\ TxForward' /\ TxBack'
    BY <2>1, SettledIsWorking DEF Settled, Elsewhere
  <2>4. lock \in Runs /\ lock # Nobody /\ lock' = lock /\ DOMAIN at = Runs /\ at' \in [Runs -> Places] /\ Old \in Image
    BY <1>9, <2>1, <1>n, RunStep DEF Elsewhere, RunType, Old
  <2>5. /\ UNCHANGED <<unit, villa, proven, store>> /\ unit[This] = Target /\ store.pins[This] = Target
        /\ tx'.left \subseteq {This} /\ tx'.touched \subseteq {This}
        /\ \/ at'[lock] \in {"restart", "start", "prove_new"} /\ running'[This] = Target /\ This \in tx'.touched /\ tx'.left = {}
              /\ (This \in Stateful => data'[This] = Grown)
           \/ at'[lock] = "rollback" /\ This \in tx'.touched /\ (This \in Stateful => data'[This] = Old)
    <3>1. /\ unit[This] = Target /\ store.pins[This] = Target /\ tx.left \subseteq {This} /\ tx.touched \subseteq {This}
          /\ This \in tx.left => AtOld /\ DataIn({Old})
          /\ This \notin tx.left => running[This] = Target /\ DataIn({Grown}) /\ This \in tx.touched
      BY <1>9, <1>t, <2>1 DEF Restart, InTx, Among, TxForward, TxHeld, Captured, InFlight
    <3>2. UNCHANGED <<unit, villa, proven, store>>
      BY <1>9 DEF Restart, host, history
    <3>3. CASE tx.left = {} /\ at'[lock] \in {"start", "prove_new"} /\ UNCHANGED <<running, data, tx>>
      <4>1. running' = running /\ data' = data /\ tx' = tx
        BY <3>3
      <4>. QED  BY <3>1, <3>2, <3>3, <4>1 DEF DataIn
    <3>4. CASE This \in tx.left /\ tx' = Trying(This) /\ Start({This}) /\ at'[lock] = "restart"
      <4>1. tx'.left = {} /\ tx'.touched = {This}
        BY <2>1, <3>1, <3>4, TryingIs DEF TxType
      <4>2. running'[This] = Target
        BY <2>1, <3>1, <3>4, StartDoes DEF StackType
      <4>3. This \in Stateful => data'[This] = Grown
        BY <2>1, <2>4, <3>1, <3>4, StartDoes, NotAnImage DEF DataIn, Grown
      <4>. QED  BY <3>1, <3>2, <3>4, <4>1, <4>2, <4>3
    <3>5. CASE This \in tx.left /\ tx' = Trying(This) /\ at'[lock] = "rollback" /\ data' = data
      <4>1. tx'.left = {} /\ tx'.touched = {This}
        BY <2>1, <3>1, <3>5, TryingIs DEF TxType
      <4>. QED  BY <3>1, <3>2, <3>5, <4>1 DEF DataIn
    <3>6. \/ tx.left = {} /\ at'[lock] \in {"start", "prove_new"} /\ UNCHANGED <<running, data, tx>>
          \/ \E k \in tx.left : /\ tx' = Trying(k)
                                /\ \/ Start({k}) /\ at' = at
                                   \/ at'[lock] = "rollback" /\ data' = data
      BY <1>9, <2>4 DEF Restart, Go, RunType
    <3>7. at[lock] = "restart"
      BY <1>9 DEF Restart, InTx
    <3>. QED  BY <3>1, <3>3, <3>4, <3>5, <3>6, <3>7
  <2>. SUFFICES ASSUME at'[lock] # "finish", Holding PROVE TxHeld' /\ TxForward' /\ TxBack'
    BY <2>2, <2>3
  <2>6. TxHeld'
    <3>1. Among(Captured) /\ (Among(Windowed)' => Among(Windowed))
      BY <1>9, <2>4, <2>5 DEF Restart, InTx, Among, InFlight, Captured, Windowed, Before
    <3>2. Keeps /\ tx'.touched \subseteq {This} /\ snaps' = snaps
      BY <1>9, <1>t, <2>1, <2>5, <3>1, TxKeeps DEF Restart, Keeps, run, disk, TxHeld
    <3>. QED  BY <1>t, <2>1, <3>1, <3>2, HeldKept
  <2>7. TxForward'
    BY <2>1, <2>4, <2>5 DEF Holding, TxForward, Among, AtOld, DataIn
  <2>8. TxBack'
    BY <2>1, <2>4, <2>5 DEF Holding, TxBack, Among, AtOld, DataIn
  <2>. QED  BY <2>6, <2>7, <2>8
<1>10. CASE StartNew
  <2>1. Elsewhere /\ This \in Kinds /\ Among(InFlight) /\ result[This] = "not_tried"
    BY <1>10, <1>0, <1>t, ElsewhereStep DEF StartNew, InTx, Among, InFlight, Forward, Rollback
  <2>g. proven[This] \subseteq proven'[This]
    BY <1>10, <2>1 DEF StartNew, history, ProvenType
  <2>2. at'[lock] # "finish" => Holding
    <3>1. todo' = todo \/ at'[lock] = "finish"
      BY <1>10, <2>1 DEF StartNew, run, Go, Concludes, Abandon, Elsewhere, RunType
    <3>2. todo' = todo => This' = This /\ Target' = Target
      BY <2>1, SameTarget DEF Elsewhere
    <3>3. This' = This /\ Target' = Target => Old' = Old /\ Grown' = Grown
      BY <2>1 DEF Elsewhere, Old, Grown
    <3>. QED  BY <2>1, <2>g, <3>1, <3>2, <3>3 DEF Holding
  <2>3. at'[lock] = "finish" => TxHeld' /\ TxForward' /\ TxBack'
    BY <2>1, SettledIsWorking DEF Settled, Elsewhere
  <2>4. lock \in Runs /\ lock # Nobody /\ lock' = lock /\ DOMAIN at = Runs /\ at' \in [Runs -> Places] /\ Old \in Image
    BY <1>10, <2>1, <1>n, RunStep DEF Elsewhere, RunType, Old
  <2>5. /\ UNCHANGED <<unit, running, villa, proven, store, tx>> /\ data' = data /\ at'[lock] \in {"prove_new", "rollback"}
        /\ unit[This] = Target /\ store.pins[This] = Target /\ running[This] = Target /\ This \in tx.touched
        /\ (This \in Stateful => data[This] = Grown) /\ tx.touched \subseteq {This}
    <3>1. unit[This] = Target /\ store.pins[This] = Target /\ running[This] = Target /\ DataIn({Grown}) /\ This \in tx.touched
          /\ tx.touched \subseteq {This}
      BY <1>10, <1>t, <2>1 DEF StartNew, InTx, Among, TxForward, TxHeld, Captured, InFlight
    <3>2. running[This] # Down
      BY <2>1, <3>1, TargetType, NotAnImage, <2>4
    <3>3. UNCHANGED <<unit, running, data, villa, proven, store, tx>> /\ at'[lock] \in {"prove_new", "rollback"}
      BY <1>10, <2>4, <3>2 DEF StartNew, StartDown, host, history, run, Go, RunType
    <3>. QED  BY <3>1, <3>3 DEF DataIn
  <2>. SUFFICES ASSUME at'[lock] # "finish", Holding PROVE TxHeld' /\ TxForward' /\ TxBack'
    BY <2>2, <2>3
  <2>6. TxHeld'
    <3>1. Among(Captured) /\ (Among(Windowed)' => Among(Windowed))
      BY <1>10, <2>4, <2>5 DEF StartNew, InTx, Among, InFlight, Captured, Windowed, Before
    <3>2. Keeps /\ tx'.touched \subseteq {This} /\ snaps' = snaps
      BY <1>10, <1>t, <2>1, <2>5, <3>1, TxKeeps DEF StartNew, Keeps, run, disk, TxHeld
    <3>. QED  BY <1>t, <2>1, <3>1, <3>2, HeldKept
  <2>7. TxForward'
    BY <2>1, <2>4, <2>5 DEF Holding, TxForward, Among, AtOld, DataIn
  <2>8. TxBack'
    BY <2>1, <2>4, <2>5 DEF Holding, TxBack, Among, AtOld, DataIn
  <2>. QED  BY <2>6, <2>7, <2>8
<1>11. CASE ProveNew
  <2>1. Elsewhere /\ This \in Kinds /\ Among(InFlight) /\ result[This] = "not_tried"
    BY <1>11, <1>0, <1>t, ElsewhereStep DEF ProveNew, InTx, Among, InFlight, Forward, Rollback
  <2>g. proven[This] \subseteq proven'[This]
    BY <1>11, <2>1 DEF ProveNew, history, ProvenType
  <2>2. at'[lock] # "finish" => Holding
    <3>1. todo' = todo \/ at'[lock] = "finish"
      BY <1>11, <2>1 DEF ProveNew, run, Go, Concludes, Abandon, Elsewhere, RunType
    <3>2. todo' = todo => This' = This /\ Target' = Target
      BY <2>1, SameTarget DEF Elsewhere
    <3>3. This' = This /\ Target' = Target => Old' = Old /\ Grown' = Grown
      BY <2>1 DEF Elsewhere, Old, Grown
    <3>. QED  BY <2>1, <2>g, <3>1, <3>2, <3>3 DEF Holding
  <2>3. at'[lock] = "finish" => TxHeld' /\ TxForward' /\ TxBack'
    BY <2>1, SettledIsWorking DEF Settled, Elsewhere
  <2>4. lock \in Runs /\ lock # Nobody /\ lock' = lock /\ DOMAIN at = Runs /\ at' \in [Runs -> Places] /\ Old \in Image
    BY <1>11, <2>1, <1>n, RunStep DEF Elsewhere, RunType, Old
  <2>5. /\ UNCHANGED <<unit, running, villa, store, tx>> /\ data' = data
        /\ \/ at'[lock] = "commit" /\ Target \in proven'[This] /\ (This \in Stateful => data[This] = Target)
           \/ at'[lock] = "rollback"
        /\ unit[This] = Target /\ store.pins[This] = Target /\ running[This] = Target /\ This \in tx.touched
        /\ (This \in Stateful => data[This] = Grown) /\ tx.touched \subseteq {This}
    <3>1. unit[This] = Target /\ store.pins[This] = Target /\ running[This] = Target /\ DataIn({Grown}) /\ This \in tx.touched
          /\ tx.touched \subseteq {This}
      BY <1>11, <1>t, <2>1 DEF ProveNew, InTx, Among, TxForward, TxHeld, Captured, InFlight
    <3>2. UNCHANGED <<unit, running, data, villa, store, tx>>
      BY <1>11 DEF ProveNew, stack, run, host
    <3>3. \/ at'[lock] = "commit" /\ Healthy(This) /\ proven' = [proven EXCEPT ![This] = @ \cup {running[This]}]
          \/ at'[lock] = "rollback"
      BY <1>11, <2>4 DEF ProveNew, Go, RunType
    <3>4. Healthy(This) /\ This \in Stateful => Grown = Target
      <4>1. Target \in Nat /\ Old \in Nat
        BY <2>1, <2>4, TargetType, ImageType
      <4>2. Grown \in {Old, Target} /\ Grown >= Target
        BY <4>1, MaxOfTwo DEF Grown
      <4>3. Healthy(This) /\ This \in Stateful => Grown <= Target
        BY <3>1 DEF Healthy, ReadsItsData, DataIn
      <4>. QED  BY <4>1, <4>2, <4>3
    <3>5. proven' = [proven EXCEPT ![This] = @ \cup {running[This]}] => Target \in proven'[This]
      BY <2>1, <3>1 DEF ProvenType
    <3>. QED  BY <3>1, <3>2, <3>3, <3>4, <3>5 DEF DataIn
  <2>. SUFFICES ASSUME at'[lock] # "finish", Holding PROVE TxHeld' /\ TxForward' /\ TxBack'
    BY <2>2, <2>3
  <2>6. TxHeld'
    <3>1. Among(Captured) /\ (Among(Windowed)' => Among(Windowed))
      BY <1>11, <2>4, <2>5 DEF ProveNew, InTx, Among, InFlight, Captured, Windowed, Before
    <3>2. Keeps /\ tx'.touched \subseteq {This} /\ snaps' = snaps
      BY <1>11, <1>t, <2>1, <2>5, <3>1, TxKeeps DEF ProveNew, Keeps, run, disk, TxHeld
    <3>. QED  BY <1>t, <2>1, <3>1, <3>2, HeldKept
  <2>7. TxForward'
    BY <2>1, <2>4, <2>5 DEF Holding, TxForward, Among, AtOld, DataIn
  <2>8. TxBack'
    BY <2>1, <2>4, <2>5 DEF Holding, TxBack, Among, AtOld, DataIn
  <2>. QED  BY <2>6, <2>7, <2>8
<1>12. CASE Commit
  <2>1. Elsewhere /\ This \in Kinds /\ Among(InFlight) /\ result[This] = "not_tried"
    BY <1>12, <1>0, <1>t, ElsewhereStep DEF Commit, InTx, Among, InFlight, Forward, Rollback
  <2>2. Settled'
    BY <1>12, <2>1 DEF Commit, Go, Settled, Elsewhere, RunType
  <2>. QED  BY <2>2, SettledIsWorking
<1>13. CASE RbStop
  <2>1. Elsewhere /\ This \in Kinds /\ Among(InFlight) /\ result[This] = "not_tried"
    BY <1>13, <1>0, <1>t, ElsewhereStep DEF RbStop, InTx, Among, InFlight, Forward, Rollback
  <2>g. proven[This] \subseteq proven'[This]
    BY <1>13, <2>1 DEF RbStop, history, ProvenType
  <2>2. at'[lock] # "finish" => Holding
    <3>1. todo' = todo \/ at'[lock] = "finish"
      BY <1>13, <2>1 DEF RbStop, run, Go, Concludes, Abandon, Elsewhere, RunType
    <3>2. todo' = todo => This' = This /\ Target' = Target
      BY <2>1, SameTarget DEF Elsewhere
    <3>3. This' = This /\ Target' = Target => Old' = Old /\ Grown' = Grown
      BY <2>1 DEF Elsewhere, Old, Grown
    <3>. QED  BY <2>1, <2>g, <3>1, <3>2, <3>3 DEF Holding
  <2>3. at'[lock] = "finish" => TxHeld' /\ TxForward' /\ TxBack'
    BY <2>1, SettledIsWorking DEF Settled, Elsewhere
  <2>4. lock \in Runs /\ lock # Nobody /\ lock' = lock /\ DOMAIN at = Runs /\ at' \in [Runs -> Places] /\ Old \in Image
    BY <1>13, <2>1, <1>n, RunStep DEF Elsewhere, RunType, Old
  <2>5. /\ UNCHANGED <<unit, data, villa, proven, store, tx>> /\ unit[This] \in {Old, Target} /\ DataIn({Old, Grown})
        /\ tx.touched \subseteq {This}
        /\ \/ at'[lock] = "rb_pins" /\ This \notin Stateful /\ running' = running /\ (This \in tx.touched \/ AtOld)
           \/ at'[lock] = "rb_data" /\ running'[This] = Down
           \/ at'[lock] = "finish"
    <3>1. unit[This] \in {Old, Target} /\ DataIn({Old, Grown}) /\ (This \in tx.touched \/ AtOld) /\ tx.touched \subseteq {This}
      BY <1>13, <1>t, <2>1 DEF RbStop, InTx, Among, TxBack, TxHeld, Captured, InFlight
    <3>2. UNCHANGED <<unit, data, villa, proven, store, tx>>
      BY <1>13 DEF RbStop, host, history
    <3>3. tx.snap = NoTuple => This \notin Stateful
      BY <1>13 DEF RbStop, InTx, Among, TupleHeld, TxPlaced, Windowed, InFlight, Before
    <3>4. \/ at'[lock] = "rb_pins" /\ tx.snap = NoTuple /\ running' = running
          \/ at'[lock] = "rb_data" /\ running' = [running EXCEPT ![This] = Down]
          \/ at'[lock] = "finish"
      BY <1>13, <2>4 DEF RbStop, Go, Concludes, RunType
    <3>. QED  BY <2>1, <3>1, <3>2, <3>3, <3>4 DEF StackType
  <2>. SUFFICES ASSUME at'[lock] # "finish", Holding PROVE TxHeld' /\ TxForward' /\ TxBack'
    BY <2>2, <2>3
  <2>6. TxHeld'
    <3>1. Among(Captured) /\ (Among(Windowed)' => Among(Windowed))
      BY <1>13, <2>4, <2>5 DEF RbStop, InTx, Among, InFlight, Captured, Windowed, Before
    <3>2. Keeps /\ tx'.touched \subseteq {This} /\ snaps' = snaps
      BY <1>13, <1>t, <2>1, <2>5, <3>1, TxKeeps DEF RbStop, Keeps, run, disk, TxHeld
    <3>. QED  BY <1>t, <2>1, <3>1, <3>2, HeldKept
  <2>7. TxForward'
    BY <2>1, <2>4, <2>5 DEF Holding, TxForward, Among, AtOld, DataIn
  <2>8. TxBack'
    BY <2>1, <2>4, <2>5 DEF Holding, TxBack, Among, AtOld, DataIn
  <2>. QED  BY <2>6, <2>7, <2>8
<1>14. CASE RbData
  <2>1. Elsewhere /\ This \in Kinds /\ Among(InFlight) /\ result[This] = "not_tried"
    BY <1>14, <1>0, <1>t, ElsewhereStep DEF RbData, InTx, Among, InFlight, Forward, Rollback
  <2>g. proven[This] \subseteq proven'[This]
    BY <1>14, <2>1 DEF RbData, history, ProvenType
  <2>2. at'[lock] # "finish" => Holding
    <3>1. todo' = todo \/ at'[lock] = "finish"
      BY <1>14, <2>1 DEF RbData, run, Go, Concludes, Abandon, Elsewhere, RunType
    <3>2. todo' = todo => This' = This /\ Target' = Target
      BY <2>1, SameTarget DEF Elsewhere
    <3>3. This' = This /\ Target' = Target => Old' = Old /\ Grown' = Grown
      BY <2>1 DEF Elsewhere, Old, Grown
    <3>. QED  BY <2>1, <2>g, <3>1, <3>2, <3>3 DEF Holding
  <2>3. at'[lock] = "finish" => TxHeld' /\ TxForward' /\ TxBack'
    BY <2>1, SettledIsWorking DEF Settled, Elsewhere
  <2>4. lock \in Runs /\ lock # Nobody /\ lock' = lock /\ DOMAIN at = Runs /\ at' \in [Runs -> Places] /\ Old \in Image
    BY <1>14, <2>1, <1>n, RunStep DEF Elsewhere, RunType, Old
  <2>5. /\ UNCHANGED <<unit, running, villa, proven, store, tx>> /\ unit[This] \in {Old, Target} /\ This \in Stateful
        /\ running[This] = Down /\ tx.touched \subseteq {This}
        /\ \/ at'[lock] = "rb_pins" /\ data'[This] = Old
           \/ at'[lock] = "abandon" /\ data'[This] \in {Lost, Old, Grown}
    <3>0. This \in Stateful
      BY <1>14 DEF RbData, InTx, Among, TupleHeld, TxPlaced
    <3>1. unit[This] \in {Old, Target} /\ data[This] \in {Old, Grown} /\ running[This] = Down /\ snaps[tx.snap] = Old
          /\ tx.touched \subseteq {This}
      BY <1>14, <1>t, <2>1, <3>0
      DEF RbData, InTx, Among, TxBack, TxHeld, Windowed, InFlight, Before, DataIn, Captured
    <3>2. UNCHANGED <<unit, running, villa, proven, store, tx>>
      BY <1>14 DEF RbData, host, history, run
    <3>3. \/ at'[lock] = "rb_pins" /\ data'[This] = snaps[tx.snap]
          \/ at'[lock] = "abandon" /\ data'[This] \in {data[This], Lost}
      BY <1>14, <2>4, <3>0 DEF RbData, Go, RunType, StackType
    <3>. QED  BY <3>0, <3>1, <3>2, <3>3
  <2>. SUFFICES ASSUME at'[lock] # "finish", Holding PROVE TxHeld' /\ TxForward' /\ TxBack'
    BY <2>2, <2>3
  <2>6. TxHeld'
    <3>1. Among(Captured) /\ (Among(Windowed)' => Among(Windowed))
      BY <1>14, <2>4, <2>5 DEF RbData, InTx, Among, InFlight, Captured, Windowed, Before
    <3>2. Keeps /\ tx'.touched \subseteq {This} /\ snaps' = snaps
      BY <1>14, <1>t, <2>1, <2>5, <3>1, TxKeeps DEF RbData, Keeps, run, disk, TxHeld
    <3>. QED  BY <1>t, <2>1, <3>1, <3>2, HeldKept
  <2>7. TxForward'
    BY <2>1, <2>4, <2>5 DEF Holding, TxForward, Among, AtOld, DataIn
  <2>8. TxBack'
    BY <2>1, <2>4, <2>5 DEF Holding, TxBack, Among, AtOld, DataIn
  <2>. QED  BY <2>6, <2>7, <2>8
<1>15. CASE RbPins
  <2>1. Elsewhere /\ This \in Kinds /\ Among(InFlight) /\ result[This] = "not_tried"
    BY <1>15, <1>0, <1>t, ElsewhereStep DEF RbPins, InTx, Among, InFlight, Forward, Rollback
  <2>g. proven[This] \subseteq proven'[This]
    BY <1>15, <2>1 DEF RbPins, history, ProvenType
  <2>2. at'[lock] # "finish" => Holding
    <3>1. todo' = todo \/ at'[lock] = "finish"
      BY <1>15, <2>1 DEF RbPins, run, Go, Concludes, Abandon, Elsewhere, RunType
    <3>2. todo' = todo => This' = This /\ Target' = Target
      BY <2>1, SameTarget DEF Elsewhere
    <3>3. This' = This /\ Target' = Target => Old' = Old /\ Grown' = Grown
      BY <2>1 DEF Elsewhere, Old, Grown
    <3>. QED  BY <2>1, <2>g, <3>1, <3>2, <3>3 DEF Holding
  <2>3. at'[lock] = "finish" => TxHeld' /\ TxForward' /\ TxBack'
    BY <2>1, SettledIsWorking DEF Settled, Elsewhere
  <2>4. lock \in Runs /\ lock # Nobody /\ lock' = lock /\ DOMAIN at = Runs /\ at' \in [Runs -> Places] /\ Old \in Image
    BY <1>15, <2>1, <1>n, RunStep DEF Elsewhere, RunType, Old
  <2>5. /\ UNCHANGED <<unit, running, data, villa, proven, tx>> /\ unit[This] \in {Old, Target} /\ DataIn({Old})
        /\ tx.touched \subseteq {This} /\ (This \in tx.touched \/ AtOld)
        /\ \/ at'[lock] = "rb_units" /\ store'.pins[This] = Old
           \/ at'[lock] \in {"finish", "abandon"}
    <3>1. unit[This] \in {Old, Target} /\ DataIn({Old}) /\ (This \in tx.touched \/ AtOld) /\ tx.ref = Old
          /\ tx.touched \subseteq {This}
      BY <1>15, <1>t, <2>1 DEF RbPins, InTx, Among, TxBack, TxHeld, InFlight, Captured
    <3>2. UNCHANGED <<unit, running, data, villa, proven, tx>>
      BY <1>15 DEF RbPins, host, history, stack
    <3>3. \/ at'[lock] = "rb_units" /\ store' = Record(store, This, tx.ref)
          \/ at'[lock] \in {"finish", "abandon"}
      BY <1>15, <2>4 DEF RbPins, PinBack, Go, Abandon, Concludes, RunType
    <3>4. Record(store, This, tx.ref).pins = [store.pins EXCEPT ![This] = tx.ref]
      BY <2>1, <2>4, <3>1, RecordIs DEF StoreType
    <3>5. [store.pins EXCEPT ![This] = tx.ref][This] = Old
      BY <2>1, <3>1, PinsAre
    <3>. QED  BY <3>1, <3>2, <3>3, <3>4, <3>5
  <2>. SUFFICES ASSUME at'[lock] # "finish", Holding PROVE TxHeld' /\ TxForward' /\ TxBack'
    BY <2>2, <2>3
  <2>6. TxHeld'
    <3>1. Among(Captured) /\ (Among(Windowed)' => Among(Windowed))
      BY <1>15, <2>4, <2>5 DEF RbPins, InTx, Among, InFlight, Captured, Windowed, Before
    <3>2. Keeps /\ tx'.touched \subseteq {This} /\ snaps' = snaps
      BY <1>15, <1>t, <2>1, <2>5, <3>1, TxKeeps DEF RbPins, Keeps, run, disk, TxHeld
    <3>. QED  BY <1>t, <2>1, <3>1, <3>2, HeldKept
  <2>7. TxForward'
    BY <2>1, <2>4, <2>5 DEF Holding, TxForward, Among, AtOld, DataIn
  <2>8. TxBack'
    BY <2>1, <2>4, <2>5 DEF Holding, TxBack, Among, AtOld, DataIn
  <2>. QED  BY <2>6, <2>7, <2>8
<1>16. CASE RbUnits
  <2>1. Elsewhere /\ This \in Kinds /\ Among(InFlight) /\ result[This] = "not_tried"
    BY <1>16, <1>0, <1>t, ElsewhereStep DEF RbUnits, InTx, Among, InFlight, Forward, Rollback
  <2>g. proven[This] \subseteq proven'[This]
    BY <1>16, <2>1 DEF RbUnits, history, ProvenType
  <2>2. at'[lock] # "finish" => Holding
    <3>1. todo' = todo \/ at'[lock] = "finish"
      BY <1>16, <2>1 DEF RbUnits, run, Go, Concludes, Abandon, Elsewhere, RunType
    <3>2. todo' = todo => This' = This /\ Target' = Target
      BY <2>1, SameTarget DEF Elsewhere
    <3>3. This' = This /\ Target' = Target => Old' = Old /\ Grown' = Grown
      BY <2>1 DEF Elsewhere, Old, Grown
    <3>. QED  BY <2>1, <2>g, <3>1, <3>2, <3>3 DEF Holding
  <2>3. at'[lock] = "finish" => TxHeld' /\ TxForward' /\ TxBack'
    BY <2>1, SettledIsWorking DEF Settled, Elsewhere
  <2>4. lock \in Runs /\ lock # Nobody /\ lock' = lock /\ DOMAIN at = Runs /\ at' \in [Runs -> Places] /\ Old \in Image
    BY <1>16, <2>1, <1>n, RunStep DEF Elsewhere, RunType, Old
  <2>5. /\ UNCHANGED <<running, data, villa, proven, store>> /\ DataIn({Old}) /\ store.pins[This] = Old
        /\ unit'[This] \in {Old, Target} /\ tx.touched \subseteq {This} /\ tx'.touched \subseteq {This} /\ (This \in tx.touched \/ AtOld)
        /\ \/ at'[lock] = "rb_restart" /\ unit'[This] = Old /\ tx'.left = tx.touched
           \/ at'[lock] \in {"finish", "abandon"}
    <3>1. unit[This] \in {Old, Target} /\ DataIn({Old}) /\ (This \in tx.touched \/ AtOld) /\ tx.units[This] = Old
          /\ tx.touched \subseteq {This} /\ store.pins[This] = Old
      BY <1>16, <1>t, <2>1 DEF RbUnits, InTx, Among, TxBack, TxHeld, InFlight, Captured
    <3>2. UNCHANGED <<running, data, villa, proven, store>>
      BY <1>16 DEF RbUnits, host, history
    <3>3. \/ at'[lock] = "rb_restart" /\ unit' = tx.units /\ tx' = Leaving(tx.touched)
          \/ at'[lock] \in {"finish", "abandon"} /\ tx' = tx /\ unit'[This] \in {tx.units[This], unit[This]}
      BY <1>16, <2>1, <2>4 DEF RbUnits, Go, Abandon, Concludes, RunType
    <3>4. Leaving(tx.touched).left = tx.touched /\ Leaving(tx.touched).touched = tx.touched
      BY <2>1, <3>1, LeavingIs DEF TxType
    <3>. QED  BY <3>1, <3>2, <3>3, <3>4
  <2>. SUFFICES ASSUME at'[lock] # "finish", Holding PROVE TxHeld' /\ TxForward' /\ TxBack'
    BY <2>2, <2>3
  <2>6. TxHeld'
    <3>1. Among(Captured) /\ (Among(Windowed)' => Among(Windowed))
      BY <1>16, <2>4, <2>5 DEF RbUnits, InTx, Among, InFlight, Captured, Windowed, Before
    <3>2. Keeps /\ tx'.touched \subseteq {This} /\ snaps' = snaps
      BY <1>16, <1>t, <2>1, <2>5, <3>1, TxKeeps DEF RbUnits, Keeps, run, disk, TxHeld
    <3>. QED  BY <1>t, <2>1, <3>1, <3>2, HeldKept
  <2>7. TxForward'
    BY <2>1, <2>4, <2>5 DEF Holding, TxForward, Among, AtOld, DataIn
  <2>8. TxBack'
    <3>1. CASE at'[lock] = "rb_restart"
      <4>1. unit'[This] = Old /\ tx'.left \subseteq {This} /\ (This \in tx'.left \/ AtOld) /\ UNCHANGED <<running, data, store>>
        BY <2>5, <3>1
      <4>. QED  BY <2>1, <2>4, <2>5, <3>1, <4>1 DEF Holding, TxBack, Among, AtOld, DataIn
    <3>2. CASE at'[lock] = "abandon"
      <4>1. UNCHANGED data
        BY <2>5
      <4>. QED  BY <2>4, <2>5, <3>2, <4>1 DEF Holding, TxBack, Among, DataIn
    <3>. QED  BY <2>5, <3>1, <3>2
  <2>. QED  BY <2>6, <2>7, <2>8
<1>17. CASE RbRestart
  <2>1. Elsewhere /\ This \in Kinds /\ Among(InFlight) /\ result[This] = "not_tried"
    BY <1>17, <1>0, <1>t, ElsewhereStep DEF RbRestart, InTx, Among, InFlight, Forward, Rollback
  <2>g. proven[This] \subseteq proven'[This]
    BY <1>17, <2>1 DEF RbRestart, history, ProvenType
  <2>2. at'[lock] # "finish" => Holding
    <3>1. todo' = todo \/ at'[lock] = "finish"
      BY <1>17, <2>1 DEF RbRestart, run, Go, Concludes, Abandon, Elsewhere, RunType
    <3>2. todo' = todo => This' = This /\ Target' = Target
      BY <2>1, SameTarget DEF Elsewhere
    <3>3. This' = This /\ Target' = Target => Old' = Old /\ Grown' = Grown
      BY <2>1 DEF Elsewhere, Old, Grown
    <3>. QED  BY <2>1, <2>g, <3>1, <3>2, <3>3 DEF Holding
  <2>3. at'[lock] = "finish" => TxHeld' /\ TxForward' /\ TxBack'
    BY <2>1, SettledIsWorking DEF Settled, Elsewhere
  <2>4. lock \in Runs /\ lock # Nobody /\ lock' = lock /\ DOMAIN at = Runs /\ at' \in [Runs -> Places] /\ Old \in Image
    BY <1>17, <2>1, <1>n, RunStep DEF Elsewhere, RunType, Old
  <2>5. /\ UNCHANGED <<unit, villa, proven, store>> /\ unit[This] = Old /\ store.pins[This] = Old
        /\ (This \in Stateful => data'[This] = Old) /\ tx'.touched \subseteq {This}
        /\ \/ at'[lock] = "rb_restart" /\ running'[This] = Old /\ tx'.left = {}
           \/ at'[lock] = "rb_start" /\ running' = running /\ AtOld
           \/ at'[lock] \in {"finish", "abandon"}
    <3>1. unit[This] = Old /\ DataIn({Old}) /\ tx.left \subseteq {This} /\ (This \in tx.left \/ AtOld) /\ store.pins[This] = Old
          /\ tx.touched \subseteq {This}
      BY <1>17, <1>t, <2>1 DEF RbRestart, InTx, Among, TxBack, TxHeld, InFlight, Captured
    <3>2. UNCHANGED <<unit, villa, proven, store>>
      BY <1>17 DEF RbRestart, host, history
    <3>3. CASE tx.left = {} /\ at'[lock] = "rb_start" /\ UNCHANGED <<running, data, tx>>
      <4>1. running' = running /\ data' = data /\ tx' = tx
        BY <3>3
      <4>. QED  BY <3>1, <3>2, <3>3, <4>1 DEF DataIn
    <3>4. CASE This \in tx.left /\ tx' = Leaving(tx.left \ {This}) /\ Start({This}) /\ at'[lock] = "rb_restart"
      <4>0. tx.left \ {This} = {}
        BY <3>1
      <4>1. tx'.left = {} /\ tx'.touched = tx.touched
        BY <2>1, <3>4, <4>0, LeavingIs DEF TxType
      <4>2. running'[This] = Old
        BY <2>1, <3>1, <3>4, StartDoes DEF StackType
      <4>3. This \in Stateful => data'[This] = Old
        <5>1. Max({Old, Old}) = Old
          BY <2>4, MaxOfTwo, ImageType
        <5>. QED  BY <2>1, <2>4, <3>1, <3>4, <5>1, StartDoes, NotAnImage DEF DataIn
      <4>. QED  BY <3>1, <3>2, <3>4, <4>1, <4>2, <4>3
    <3>5. CASE This \in tx.left /\ tx' = Leaving(tx.left \ {This}) /\ at'[lock] \in {"finish", "abandon"} /\ data' = data
      <4>0. tx.left \ {This} = {}
        BY <3>1
      <4>1. tx'.touched = tx.touched
        BY <2>1, <3>5, <4>0, LeavingIs DEF TxType
      <4>. QED  BY <3>1, <3>2, <3>5, <4>1 DEF DataIn
    <3>6. \/ tx.left = {} /\ at'[lock] = "rb_start" /\ UNCHANGED <<running, data, tx>>
          \/ \E k \in tx.left : /\ tx' = Leaving(tx.left \ {k})
                                /\ \/ Start({k}) /\ at' = at
                                   \/ at'[lock] \in {"finish", "abandon"} /\ data' = data
      BY <1>17, <2>4 DEF RbRestart, Go, Abandon, Concludes, RunType
    <3>7. at[lock] = "rb_restart"
      BY <1>17 DEF RbRestart, InTx
    <3>. QED  BY <3>1, <3>3, <3>4, <3>5, <3>6, <3>7
  <2>. SUFFICES ASSUME at'[lock] # "finish", Holding PROVE TxHeld' /\ TxForward' /\ TxBack'
    BY <2>2, <2>3
  <2>6. TxHeld'
    <3>1. Among(Captured) /\ (Among(Windowed)' => Among(Windowed))
      BY <1>17, <2>4, <2>5 DEF RbRestart, InTx, Among, InFlight, Captured, Windowed, Before
    <3>2. Keeps /\ tx'.touched \subseteq {This} /\ snaps' = snaps
      BY <1>17, <1>t, <2>1, <2>5, <3>1, TxKeeps DEF RbRestart, Keeps, run, disk, TxHeld
    <3>. QED  BY <1>t, <2>1, <3>1, <3>2, HeldKept
  <2>7. TxForward'
    BY <2>1, <2>4, <2>5 DEF Holding, TxForward, Among, AtOld, DataIn
  <2>8. TxBack'
    BY <2>1, <2>4, <2>5 DEF Holding, TxBack, Among, AtOld, DataIn
  <2>. QED  BY <2>6, <2>7, <2>8
<1>18. CASE RbStart
  <2>1. Elsewhere /\ This \in Kinds /\ Among(InFlight) /\ result[This] = "not_tried"
    BY <1>18, <1>0, <1>t, ElsewhereStep DEF RbStart, InTx, Among, InFlight, Forward, Rollback
  <2>g. proven[This] \subseteq proven'[This]
    BY <1>18, <2>1 DEF RbStart, history, ProvenType
  <2>2. at'[lock] # "finish" => Holding
    <3>1. todo' = todo \/ at'[lock] = "finish"
      BY <1>18, <2>1 DEF RbStart, run, Go, Concludes, Abandon, Elsewhere, RunType
    <3>2. todo' = todo => This' = This /\ Target' = Target
      BY <2>1, SameTarget DEF Elsewhere
    <3>3. This' = This /\ Target' = Target => Old' = Old /\ Grown' = Grown
      BY <2>1 DEF Elsewhere, Old, Grown
    <3>. QED  BY <2>1, <2>g, <3>1, <3>2, <3>3 DEF Holding
  <2>3. at'[lock] = "finish" => TxHeld' /\ TxForward' /\ TxBack'
    BY <2>1, SettledIsWorking DEF Settled, Elsewhere
  <2>4. lock \in Runs /\ lock # Nobody /\ lock' = lock /\ DOMAIN at = Runs /\ at' \in [Runs -> Places] /\ Old \in Image
    BY <1>18, <2>1, <1>n, RunStep DEF Elsewhere, RunType, Old
  <2>5. /\ UNCHANGED <<unit, villa, proven, store, tx>> /\ unit[This] = Old /\ store.pins[This] = Old
        /\ tx.touched \subseteq {This}
        /\ \/ at'[lock] = "rb_prove" /\ running'[This] = Old /\ (This \in Stateful => data'[This] = Old)
           \/ at'[lock] = "finish"
    <3>1. unit[This] = Old /\ DataIn({Old}) /\ AtOld /\ store.pins[This] = Old /\ tx.touched \subseteq {This}
          /\ (This \in Stateful <=> tx.snap # NoTuple)
      BY <1>18, <1>t, <2>1
      DEF RbStart, InTx, Among, TxBack, TupleHeld, TxPlaced, InFlight, Captured, Windowed, Before,
          TxHeld
    <3>2. UNCHANGED <<unit, villa, proven, store, tx>>
      BY <1>18 DEF RbStart, host, history
    <3>3. \/ at'[lock] = "rb_prove" /\ (IF tx.snap = NoTuple THEN UNCHANGED <<running, data, images>> ELSE StartDown(This))
          \/ at'[lock] = "finish"
      BY <1>18, <2>4 DEF RbStart, Go, Concludes, RunType
    <3>4. CASE at'[lock] = "rb_prove" /\ UNCHANGED <<running, data>> /\ running[This] = Old
      BY <3>1, <3>2, <3>4 DEF DataIn
    <3>5. CASE at'[lock] = "rb_prove" /\ Start({This})
      <4>1. running'[This] = Old
        BY <2>1, <3>1, <3>5, StartDoes DEF StackType
      <4>2. This \in Stateful => data'[This] = Old
        <5>1. Max({Old, Old}) = Old
          BY <2>4, MaxOfTwo, ImageType
        <5>. QED  BY <2>1, <2>4, <3>1, <3>5, <5>1, StartDoes, NotAnImage DEF DataIn
      <4>. QED  BY <3>1, <3>2, <3>5, <4>1, <4>2
    <3>. QED  BY <3>1, <3>2, <3>3, <3>4, <3>5 DEF StartDown, AtOld
  <2>. SUFFICES ASSUME at'[lock] # "finish", Holding PROVE TxHeld' /\ TxForward' /\ TxBack'
    BY <2>2, <2>3
  <2>6. TxHeld'
    <3>1. Among(Captured) /\ (Among(Windowed)' => Among(Windowed))
      BY <1>18, <2>4, <2>5 DEF RbStart, InTx, Among, InFlight, Captured, Windowed, Before
    <3>2. Keeps /\ tx'.touched \subseteq {This} /\ snaps' = snaps
      BY <1>18, <1>t, <2>1, <2>5, <3>1, TxKeeps DEF RbStart, Keeps, run, disk, TxHeld
    <3>. QED  BY <1>t, <2>1, <3>1, <3>2, HeldKept
  <2>7. TxForward'
    BY <2>1, <2>4, <2>5 DEF Holding, TxForward, Among, AtOld, DataIn
  <2>8. TxBack'
    BY <2>1, <2>4, <2>5 DEF Holding, TxBack, Among, AtOld, DataIn
  <2>. QED  BY <2>6, <2>7, <2>8
<1>19. CASE RbProve
  <2>1. Elsewhere /\ This \in Kinds /\ Among(InFlight) /\ result[This] = "not_tried"
    BY <1>19, <1>0, <1>t, ElsewhereStep DEF RbProve, InTx, Among, InFlight, Forward, Rollback
  <2>2. Settled'
    BY <1>19, <2>1 DEF RbProve, Concludes, Go, Settled, Elsewhere, RunType
  <2>. QED  BY <2>2, SettledIsWorking
<1>20. CASE RbAbandon
  <2>1. Elsewhere /\ This \in Kinds /\ Among(InFlight) /\ result[This] = "not_tried"
    BY <1>20, <1>0, <1>t, ElsewhereStep DEF RbAbandon, InTx, Among, InFlight, Forward, Rollback
  <2>2. Settled'
    BY <1>20, <2>1 DEF RbAbandon, Concludes, Go, Settled, Elsewhere, RunType
  <2>. QED  BY <2>2, SettledIsWorking
<1>21. CASE Finish
  <2>1. lock \in Runs /\ lock' = lock
    BY <1>21 DEF Finish, InTx, RunType
  <2>2. Settled'
    BY <1>21, <2>1 DEF Finish, Go, Settled, RunType
  <2>. QED  BY <2>2, SettledIsWorking
<1>22. CASE Prune
  <2>1. lock \in Runs /\ lock' = lock
    BY <1>22 DEF Prune, InTx, RunType
  <2>2. Settled'
    BY <1>22, <2>1 DEF Prune, Go, Settled, RunType
  <2>. QED  BY <2>2, SettledIsWorking
<1>23. CASE SnapshotCleanup
  <2>1. lock \in Runs /\ lock' = lock
    BY <1>23 DEF SnapshotCleanup, InTx, RunType
  <2>2. Settled'
    BY <1>23, <2>1 DEF SnapshotCleanup, Go, Settled, RunType
  <2>. QED  BY <2>2, SettledIsWorking
<1>24. CASE Release
  <2>1. Settled'
    BY <1>24 DEF Release, End, Settled
  <2>. QED  BY <2>1, SettledIsWorking
<1>25. CASE Crash
  <2>1. Settled'
    BY <1>25 DEF Crash, End, Settled
  <2>. QED  BY <2>1, SettledIsWorking
<1>26. CASE Upgrade
  BY <1>26 DEF Upgrade
<1>27. CASE Publish
  <2>1. UNCHANGED <<lock, at, todo, got, tx, villa, store, unit, running, data, before, proven, snaps>>
    BY <1>27 DEF Publish, run, stack, history, disk
  <2>. QED  BY <1>t, <2>1, StillWorking
<1>28. ASSUME NEW r \in Runs, Load(r) PROVE TxHeld' /\ TxForward' /\ TxBack'
  <2>1. r # lock /\ UNCHANGED <<lock, todo, tx, villa, store, unit, running, data, before, proven, snaps>>
    BY <1>28, UpdateAssumption DEF Load, Held, Free, run, host, stack, history, disk
  <2>2. lock # Nobody => at'[lock] = at[lock] /\ got'[lock] = got[lock]
    BY <1>28, <2>1 DEF Load, Leave, RunType, StoreType
  <2>. QED  BY <1>t, <2>1, <2>2, StillWorking
<1>29. ASSUME NEW r \in Runs, Fetch(r) PROVE TxHeld' /\ TxForward' /\ TxBack'
  <2>1. r # lock /\ UNCHANGED <<lock, todo, tx, villa, store, unit, running, data, before, proven, snaps>>
    BY <1>29, UpdateAssumption DEF Fetch, Held, Free, run, host, stack, history, disk
  <2>2. lock # Nobody => at'[lock] = at[lock] /\ got'[lock] = got[lock]
    BY <1>29, <2>1 DEF Fetch, Leave, RunType, StoreType
  <2>. QED  BY <1>t, <2>1, <2>2, StillWorking
<1>30. ASSUME NEW r \in Runs, Save(r) PROVE TxHeld' /\ TxForward' /\ TxBack'
  <2>1. r # lock /\ UNCHANGED <<lock, todo, tx, got, villa, unit, running, data, before, proven, snaps>>
    BY <1>30, UpdateAssumption DEF Save, Held, Free, run, host, stack, history, disk
  <2>2. lock # Nobody => at'[lock] = at[lock]
    BY <1>30, <2>1 DEF Save, RunType
  <2>3. store'.pins = store.pins
    <3>1. store' = store \/ (store' = Accept(seen[r], got[r]) /\ seen[r] = store)
      BY <1>30 DEF Save
    <3>2. Accept(seen[r], got[r]).pins = seen[r].pins
      BY AcceptIs DEF StoreType
    <3>. QED  BY <3>1, <3>2
  <2>. QED  BY <1>t, <2>1, <2>2, <2>3, StillWorking
<1>31. ASSUME NEW r \in Runs, Decide(r) PROVE TxHeld' /\ TxForward' /\ TxBack'
  <2>1. r # lock /\ UNCHANGED <<lock, todo, tx, villa, store, unit, running, data, before, proven, snaps>>
    BY <1>31, UpdateAssumption DEF Decide, Held, Free, run, host, stack, history, disk
  <2>2. lock # Nobody => at'[lock] = at[lock] /\ got'[lock] = got[lock]
    BY <1>31, <2>1 DEF Decide, Leave, RunType, StoreType
  <2>. QED  BY <1>t, <2>1, <2>2, StillWorking
<1>32. ASSUME NEW r \in Runs, Acquire(r) PROVE TxHeld' /\ TxForward' /\ TxBack'
  <2>1. Settled'
    BY <1>32 DEF Acquire, Settled, RunType
  <2>. QED  BY <2>1, SettledIsWorking
<1>. QED  BY <1>1, <1>2, <1>3, <1>4, <1>5, <1>6, <1>7, <1>8, <1>9, <1>10, <1>11, <1>12, <1>13,
         <1>14, <1>15, <1>16, <1>17, <1>18, <1>19, <1>20, <1>21, <1>22, <1>23, <1>24, <1>25, <1>26,
         <1>27, <1>28, <1>29, <1>30, <1>31, <1>32 DEF Next, Forward, Rollback, Ending, Check

----------------------------------------------------------------------------
(* Faults and deaths.                                                      *)

\* A step counts at most one fault, and a death is one.
LEMMA FaultStep ==
  ASSUME RunType, Next
  PROVE  /\ faults' \in {faults, faults + 1}
         /\ "crashed" \in taint' /\ "crashed" \notin taint => faults' = faults + 1
<1>. USE DEF Fault, NoFault, RunType
<1>1. CASE ProveCurrent \/ Capture \/ Pull \/ Stop \/ Snapshot \/ Reopen \/ WritePins \/ Apply \/ Restart \/
            StartNew \/ ProveNew \/ Commit \/ RbData \/ RbStart \/ RbProve \/ RbAbandon \/ Finish \/ Prune \/
            SnapshotCleanup \/ Release \/ Crash \/ Upgrade \/ Publish
  BY <1>1 DEF ProveCurrent, Capture, Pull, Stop, Snapshot, Reopen, WritePins, Apply, Restart,
         StartNew, ProveNew, Commit, RbData, RbStart, RbProve, RbAbandon, Finish, Prune,
         SnapshotCleanup, Release, Crash, Upgrade, Publish, host, run, stack, disk, history, End
<1>2. CASE RbStop \/ RbPins \/ RbUnits \/ RbRestart
  BY <1>2 DEF RbStop, RbPins, RbUnits, RbRestart
<1>3. ASSUME NEW r \in Runs, Check(r)
      PROVE  /\ faults' \in {faults, faults + 1}
             /\ "crashed" \in taint' /\ "crashed" \notin taint => faults' = faults + 1
  BY <1>3 DEF Check, Load, Fetch, Save, Decide, Acquire, run, history
<1>. QED  BY <1>1, <1>2, <1>3 DEF Next, Forward, Rollback, Ending

\* Each step keeps the count.
LEMMA CountedStep ==
  ASSUME RunType, Counted, Next
  PROVE  Counted'
BY FaultStep DEF Counted, RunType

\* A calm step comes from a calm state, and fails nothing unless it is the run dying.
LEMMA CalmStep ==
  ASSUME RunType, Counted, Next, Calm'
  PROVE  /\ Calm
         /\ \/ faults' = faults /\ taint' = taint
            \/ faults' = faults + 1 /\ taint = {} /\ taint' = {"crashed"}
<1>1. taint \subseteq taint'
  BY TaintGrows
<1>2. faults \in Nat
  BY UpdateAssumption DEF RunType
<1>. QED  BY <1>1, <1>2, FaultStep DEF Calm, Counted

\* A fault that leaves the state calm is the death of the run.
LEMMA CalmFault ==
  ASSUME RunType, Counted, Next, Calm', faults' # faults
  PROVE  Crash
<1>1. faults' = faults + 1 /\ taint = {} /\ taint' = {"crashed"}
  BY CalmStep
<1>2. CASE ProveCurrent \/ Pull \/ Stop \/ Snapshot \/ Reopen \/ WritePins \/ Apply \/ Restart \/ StartNew \/
            ProveNew \/ Commit \/ RbStop \/ RbData \/ RbPins \/ RbUnits \/ RbRestart \/ RbStart \/ RbProve \/
            RbAbandon \/ Finish \/ Prune \/ SnapshotCleanup \/ Publish
  BY <1>1, <1>2 DEF ProveCurrent, Pull, Stop, Snapshot, Reopen, WritePins, Apply, Restart,
         StartNew, ProveNew, Commit, RbStop, RbData, RbPins, RbUnits, RbRestart, RbStart, RbProve,
         RbAbandon, Finish, Prune, SnapshotCleanup, Publish, host, run, stack, disk, history
<1>3. CASE Upgrade \/ Capture \/ Release
  BY <1>1, <1>3 DEF Upgrade, Capture, Release, End
<1>4. ASSUME NEW r \in Runs, Check(r) PROVE FALSE
  BY <1>1, <1>4 DEF Check, Load, Fetch, Save, Decide, Acquire, run, history
<1>. QED  BY <1>2, <1>3, <1>4 DEF Next, Forward, Rollback, Ending

\* What a calm step of an update leaves alone of the other subsystems that own data.
CalmElsewhere ==
  /\ lock \in Runs /\ lock # Nobody /\ UNCHANGED <<lock, got, villa>>
  /\ \A k \in Stateful \ {This} :
       /\ running'[k] = running[k] /\ store'.pins[k] = store.pins[k]
       /\ running[k] # Down => unit'[k] = unit[k]

\* A calm step of an update leaves the other subsystems that own data alone.
LEMMA CalmElsewhereStep ==
  ASSUME Sane, Calm, Calmed, faults' = faults, Forward \/ Rollback
  PROVE  CalmElsewhere
<1>. USE DEF Sane, TypeOK
<1>0. Among(InFlight) => This \in todo /\ This \in Kinds /\ result[This] = "not_tried"
  BY ThisIsToDo DEF RunType, Held
<1>f. ~Fault
  BY UpdateAssumption DEF RunType, Fault
<1>c. (\A k \in Stateful : Standing(k)) /\ CalmTuple /\ CalmPlaces
  BY DEF Calmed
<1>s. Stateful \subseteq Kinds
  BY UpdateAssumption
<1>t. tx.left \in SUBSET Kinds /\ tx.touched \in SUBSET Kinds
  BY DEF TxType, Tuples
<1>1. CASE ProveCurrent
  <2>1. lock \in Runs /\ lock # Nobody /\ UNCHANGED <<lock, got, villa>> /\ This \in Kinds /\ Among(InFlight)
    BY <1>1, <1>0 DEF ProveCurrent, InTx, RunType, host, Among, InFlight
  <2>. QED  BY <1>1, <1>s, <2>1 DEF ProveCurrent, CalmElsewhere, stack, StackType
<1>2. CASE Capture
  <2>1. lock \in Runs /\ lock # Nobody /\ UNCHANGED <<lock, got, villa>> /\ This \in Kinds /\ Among(InFlight)
    BY <1>2, <1>0 DEF Capture, InTx, RunType, host, Among, InFlight
  <2>. QED  BY <1>2, <1>s, <2>1 DEF Capture, CalmElsewhere, stack, StackType
<1>3. CASE Pull
  <2>1. lock \in Runs /\ lock # Nobody /\ UNCHANGED <<lock, got, villa>> /\ This \in Kinds /\ Among(InFlight)
    BY <1>3, <1>0 DEF Pull, InTx, RunType, host, Among, InFlight
  <2>. QED  BY <1>3, <1>s, <2>1 DEF Pull, CalmElsewhere, stack, StackType
<1>4. CASE Stop
  <2>1. lock \in Runs /\ lock # Nobody /\ UNCHANGED <<lock, got, villa>> /\ This \in Kinds /\ Among(InFlight)
    BY <1>4, <1>0 DEF Stop, InTx, RunType, host, Among, InFlight
  <2>. QED  BY <1>4, <1>s, <2>1 DEF Stop, CalmElsewhere, stack, StackType
<1>5. CASE Snapshot
  <2>1. lock \in Runs /\ lock # Nobody /\ UNCHANGED <<lock, got, villa>> /\ This \in Kinds /\ Among(InFlight)
    BY <1>5, <1>0 DEF Snapshot, InTx, RunType, host, Among, InFlight
  <2>. QED  BY <1>5, <1>s, <2>1 DEF Snapshot, CalmElsewhere, stack, StackType
<1>6. CASE Reopen
  <2>1. lock \in Runs /\ lock # Nobody /\ UNCHANGED <<lock, got, villa>> /\ This \in Kinds /\ Among(InFlight)
    BY <1>6, <1>0 DEF Reopen, InTx, RunType, host, Among, InFlight
  <2>2. Start({This}) \/ UNCHANGED <<running, data>>
    BY <1>6 DEF Reopen, StartDown
  <2>. QED  BY <1>6, <1>s, <2>1, <2>2, StartElsewhere DEF Reopen, CalmElsewhere
<1>7. CASE WritePins
  <2>1. lock \in Runs /\ lock # Nobody /\ UNCHANGED <<lock, got, villa>> /\ This \in Kinds /\ Among(InFlight)
    BY <1>7, <1>0 DEF WritePins, InTx, RunType, host, Among, InFlight
  <2>2. store' = store \/ store'.pins = [store.pins EXCEPT ![This] = Target]
    BY <1>7, <2>1, RecordIs, TargetType DEF WritePins, StoreType
  <2>3. \A k \in Kinds \ {This} : store'.pins[k] = store.pins[k]
    BY <2>1, <2>2, PinsAre
  <2>. QED  BY <1>7, <1>s, <2>1, <2>3 DEF WritePins, CalmElsewhere, stack
<1>8. CASE Apply
  <2>1. lock \in Runs /\ lock # Nobody /\ UNCHANGED <<lock, got, villa>> /\ This \in Kinds /\ Among(InFlight)
    BY <1>8, <1>0 DEF Apply, InTx, RunType, host, Among, InFlight
  <2>2. \A k \in Stateful \ {This} : running[k] # Down => Rendered[k] = unit[k]
    BY <1>c, <1>s DEF Rendered, Standing
  <2>3. unit' = Rendered
    BY <1>8, <1>f DEF Apply
  <2>. QED  BY <1>8, <1>s, <2>1, <2>2, <2>3 DEF Apply, CalmElsewhere
<1>9. CASE Restart
  <2>1. lock \in Runs /\ lock # Nobody /\ UNCHANGED <<lock, got, villa>> /\ This \in Kinds /\ Among(InFlight)
    BY <1>9, <1>0 DEF Restart, InTx, RunType, host, Among, InFlight
  <2>2. tx.left \cap Stateful \subseteq {This}
    BY <1>9, <2>1, <1>c DEF Restart, InTx, CalmPlaces, Among
  <2>3. UNCHANGED <<running, data>> \/ \E k \in tx.left : Start({k})
    BY <1>9, <1>f, Zenon DEF Restart
  <2>4. \A k \in Stateful \ {This} : running'[k] = running[k]
    <3>1. ASSUME NEW j \in tx.left, Start({j}) PROVE \A k \in Stateful \ {This} : running'[k] = running[k]
      <4>1. running' = [running EXCEPT ![j] = unit[j]]
        BY <1>t, <3>1, StartDoes
      <4>. QED  BY <1>s, <1>t, <2>2, <4>1 DEF StackType
    <3>. QED  BY <2>3, <3>1
  <2>. QED  BY <1>9, <1>s, <2>1, <2>4 DEF Restart, CalmElsewhere
<1>10. CASE StartNew
  <2>1. lock \in Runs /\ lock # Nobody /\ UNCHANGED <<lock, got, villa>> /\ This \in Kinds /\ Among(InFlight)
    BY <1>10, <1>0 DEF StartNew, InTx, RunType, host, Among, InFlight
  <2>2. Start({This}) \/ UNCHANGED <<running, data>>
    BY <1>10 DEF StartNew, StartDown
  <2>. QED  BY <1>10, <1>s, <2>1, <2>2, StartElsewhere DEF StartNew, CalmElsewhere
<1>11. CASE ProveNew
  <2>1. lock \in Runs /\ lock # Nobody /\ UNCHANGED <<lock, got, villa>> /\ This \in Kinds /\ Among(InFlight)
    BY <1>11, <1>0 DEF ProveNew, InTx, RunType, host, Among, InFlight
  <2>. QED  BY <1>11, <1>s, <2>1 DEF ProveNew, CalmElsewhere, stack, StackType
<1>12. CASE Commit
  <2>1. lock \in Runs /\ lock # Nobody /\ UNCHANGED <<lock, got, villa>> /\ This \in Kinds /\ Among(InFlight)
    BY <1>12, <1>0 DEF Commit, InTx, RunType, host, Among, InFlight
  <2>2. Target \in Image
    BY <2>1, TargetType
  <2>3. tx.ref \in Image /\ tx.snap \in Snapshots \cup {NoTuple}
    BY <1>12, <2>1 DEF Commit, InTx, TupleHeld, TxPlaced, Among, InFlight, Captured, TxType, Tuples
  <2>4. \A k \in Kinds \ {This} : store'.pins[k] = store.pins[k]
    <3>1. Record(store, This, Target) \in Stores
          /\ Record(store, This, Target).pins = [store.pins EXCEPT ![This] = Target]
      BY <2>1, <2>2, RecordIs DEF StoreType
    <3>2. [ref |-> tx.ref, snap |-> tx.snap] \in [ref : Image, snap : Snapshots \cup {NoTuple}]
      BY <2>3
    <3>3. store' = store \/ store'.pins = [store.pins EXCEPT ![This] = Target]
      <4>1. \/ store' = store
            \/ store' = Retain(Record(store, This, Target), This, [ref |-> tx.ref, snap |-> tx.snap])
        BY <1>12, Zenon DEF Commit
      <4>2. Retain(Record(store, This, Target), This, [ref |-> tx.ref, snap |-> tx.snap]).pins
              = Record(store, This, Target).pins
        BY <2>1, <3>1, <3>2, RetainIs, Zenon
      <4>. QED  BY <3>1, <4>1, <4>2
    <3>. QED  BY <2>1, <3>3, PinsAre
  <2>. QED  BY <1>12, <1>s, <2>1, <2>4 DEF Commit, CalmElsewhere, stack
<1>13. CASE RbStop
  <2>1. lock \in Runs /\ lock # Nobody /\ UNCHANGED <<lock, got, villa>> /\ This \in Kinds /\ Among(InFlight)
    BY <1>13, <1>0 DEF RbStop, InTx, RunType, host, Among, InFlight
  <2>. QED  BY <1>13, <1>s, <2>1 DEF RbStop, CalmElsewhere, stack, StackType
<1>14. CASE RbData
  <2>1. lock \in Runs /\ lock # Nobody /\ UNCHANGED <<lock, got, villa>> /\ This \in Kinds /\ Among(InFlight)
    BY <1>14, <1>0 DEF RbData, InTx, RunType, host, Among, InFlight
  <2>. QED  BY <1>14, <1>s, <2>1 DEF RbData, CalmElsewhere, stack, StackType
<1>15. CASE RbPins
  <2>1. lock \in Runs /\ lock # Nobody /\ UNCHANGED <<lock, got, villa>> /\ This \in Kinds /\ Among(InFlight)
    BY <1>15, <1>0 DEF RbPins, InTx, RunType, host, Among, InFlight
  <2>2. tx.ref \in Image
    BY <1>15, <2>1 DEF RbPins, InTx, TupleHeld, TxPlaced, Among, InFlight, Captured
  <2>3. \A k \in Kinds \ {This} : store'.pins[k] = store.pins[k]
    <3>1. store' = store \/ store'.pins = [store.pins EXCEPT ![This] = tx.ref]
      BY <1>15, <2>1, <2>2, RecordIs DEF RbPins, PinBack, StoreType
    <3>. QED  BY <2>1, <3>1, PinsAre
  <2>. QED  BY <1>15, <1>s, <2>1, <2>3 DEF RbPins, CalmElsewhere, stack
<1>16. CASE RbUnits
  <2>1. lock \in Runs /\ lock # Nobody /\ UNCHANGED <<lock, got, villa>> /\ This \in Kinds /\ Among(InFlight)
    BY <1>16, <1>0 DEF RbUnits, InTx, RunType, host, Among, InFlight
  <2>2. \A k \in Stateful \ {This} : running[k] # Down => tx.units[k] = unit[k]
    BY <1>16, <1>c, <2>1 DEF RbUnits, InTx, CalmTuple, Among, InFlight, Captured
  <2>3. unit' = tx.units
    BY <1>16, <1>f DEF RbUnits
  <2>. QED  BY <1>16, <1>s, <2>1, <2>2, <2>3 DEF RbUnits, CalmElsewhere
<1>17. CASE RbRestart
  <2>1. lock \in Runs /\ lock # Nobody /\ UNCHANGED <<lock, got, villa>> /\ This \in Kinds /\ Among(InFlight)
    BY <1>17, <1>0 DEF RbRestart, InTx, RunType, host, Among, InFlight
  <2>2. tx.left \cap Stateful \subseteq {This}
    BY <1>17, <2>1, <1>c DEF RbRestart, InTx, CalmPlaces, Among
  <2>3. UNCHANGED <<running, data>> \/ \E k \in tx.left : Start({k})
    BY <1>17, <1>f, Zenon DEF RbRestart
  <2>4. \A k \in Stateful \ {This} : running'[k] = running[k]
    <3>1. ASSUME NEW j \in tx.left, Start({j}) PROVE \A k \in Stateful \ {This} : running'[k] = running[k]
      <4>1. running' = [running EXCEPT ![j] = unit[j]]
        BY <1>t, <3>1, StartDoes
      <4>. QED  BY <1>s, <1>t, <2>2, <4>1 DEF StackType
    <3>. QED  BY <2>3, <3>1
  <2>. QED  BY <1>17, <1>s, <2>1, <2>4 DEF RbRestart, CalmElsewhere
<1>18. CASE RbStart
  <2>1. lock \in Runs /\ lock # Nobody /\ UNCHANGED <<lock, got, villa>> /\ This \in Kinds /\ Among(InFlight)
    BY <1>18, <1>0 DEF RbStart, InTx, RunType, host, Among, InFlight
  <2>2. Start({This}) \/ UNCHANGED <<running, data>>
    BY <1>18 DEF RbStart, StartDown
  <2>. QED  BY <1>18, <1>s, <2>1, <2>2, StartElsewhere DEF RbStart, CalmElsewhere
<1>19. CASE RbProve
  <2>1. lock \in Runs /\ lock # Nobody /\ UNCHANGED <<lock, got, villa>> /\ This \in Kinds /\ Among(InFlight)
    BY <1>19, <1>0 DEF RbProve, InTx, RunType, host, Among, InFlight
  <2>. QED  BY <1>19, <1>s, <2>1 DEF RbProve, CalmElsewhere, stack, StackType
<1>20. CASE RbAbandon
  <2>1. lock \in Runs /\ lock # Nobody /\ UNCHANGED <<lock, got, villa>> /\ This \in Kinds /\ Among(InFlight)
    BY <1>20, <1>0 DEF RbAbandon, InTx, RunType, host, Among, InFlight
  <2>2. Start({This}) \/ UNCHANGED <<running, data>>
    BY <1>20 DEF RbAbandon, StartDown
  <2>. QED  BY <1>20, <1>s, <2>1, <2>2, StartElsewhere DEF RbAbandon, CalmElsewhere
<1>. QED  BY <1>1, <1>2, <1>3, <1>4, <1>5, <1>6, <1>7, <1>8, <1>9, <1>10, <1>11, <1>12, <1>13,
         <1>14, <1>15, <1>16, <1>17, <1>18, <1>19, <1>20 DEF Forward, Rollback

----------------------------------------------------------------------------
(* The state through one death.                                            *)

\* A calm step keeps every subsystem standing when it keeps the one in hand so.
LEMMA StandsKept ==
  ASSUME CalmElsewhere, \A k \in Stateful : Standing(k), NEW h \in Kinds, h = This,
         h \in Stateful => running'[h] = Down \/ (running'[h] = unit'[h] /\ unit'[h] = Resolve(store', villa', h))
  PROVE  \A k \in Stateful : Standing(k)'
<1>1. Stateful \subseteq Kinds
  BY UpdateAssumption
<1>2. ASSUME NEW k \in Stateful, k # h PROVE Standing(k)'
  BY <1>1, <1>2 DEF CalmElsewhere, Standing, Resolve
<1>. QED  BY <1>1, <1>2 DEF Standing

\* A step that keeps the record keeps what a calm one knows.
LEMMA CalmTupleKept ==
  ASSUME CalmElsewhere, CalmTuple, This' = This, Keeps, Among(Captured), tx'.touched \cap Stateful \subseteq {This},
         Among(Windowed)' /\ This \in Stateful => Among(Windowed), snaps' = snaps
  PROVE  CalmTuple'
<1>1. Stateful \subseteq Kinds
  BY UpdateAssumption
<1>2. \A k \in Stateful : k = This \/ running'[k] = Down \/ tx'.units[k] = unit'[k]
  BY DEF CalmElsewhere, CalmTuple, Keeps
<1>3. This \in Stateful => tx'.units[This] = tx'.ref
  BY DEF CalmTuple, Keeps
<1>4. Among(Windowed)' /\ This \in Stateful => snaps'[tx'.snap] <= tx'.ref
  BY DEF CalmTuple, Keeps
<1>. QED  BY <1>2, <1>3, <1>4 DEF CalmTuple

\* A step of a run without the lock keeps the calm.
LEMMA StillCalm ==
  ASSUME (\A k \in Stateful : Standing(k)) /\ CalmTuple /\ CalmPlaces,
         UNCHANGED <<lock, todo, tx, villa, unit, running, data, snaps>>, store'.pins = store.pins,
         lock # Nobody => at'[lock] = at[lock] /\ got'[lock] = got[lock]
  PROVE  (\A k \in Stateful : Standing(k)') /\ CalmTuple' /\ CalmPlaces'
<1>1. \A k \in Stateful : Standing(k)'
  BY DEF Standing, Resolve
<1>2. CASE lock = Nobody
  BY <1>1, <1>2 DEF CalmTuple, CalmPlaces, Among
<1>3. CASE lock # Nobody
  <2>1. This' = This /\ lock' = lock
    BY SameThis
  <2>2. Target' = Target
    BY <1>3, <2>1 DEF Target
  <2>3. CalmTuple'
    BY <1>3, <2>1 DEF CalmTuple, Among
  <2>4. CalmPlaces'
    BY <1>3, <2>1, <2>2 DEF CalmPlaces, Among
  <2>. QED  BY <1>1, <2>3, <2>4
<1>. QED  BY <1>2, <1>3

\* Each calm step keeps the calm, also over a death and what later runs find.
LEMMA CalmedStep ==
  ASSUME Sane, Counted, Calmed, Next
  PROVE  Calmed'
<1>. USE DEF Sane, TypeOK
<1>0. Among(InFlight) => This \in todo /\ This \in Kinds /\ result[This] = "not_tried"
  BY ThisIsToDo DEF RunType, Held
<1>. SUFFICES ASSUME Calm' PROVE (\A k \in Stateful : Standing(k)') /\ CalmTuple' /\ CalmPlaces'
  BY DEF Calmed
<1>d. Calm /\ (Crash \/ (faults' = faults /\ taint' = taint))
  <2>1. Calm /\ (faults' = faults => taint' = taint \/ faults + 1 = faults)
    BY CalmStep
  <2>2. faults' = faults => taint' = taint
    BY <2>1, UpdateAssumption DEF RunType
  <2>. QED  BY <2>1, <2>2, CalmFault
<1>f. ~Crash => ~Fault
  BY <1>d, UpdateAssumption, SMT DEF RunType, Fault
<1>c. (\A k \in Stateful : Standing(k)) /\ CalmTuple /\ CalmPlaces
  BY <1>d DEF Calmed
<1>s. Stateful \subseteq Kinds
  BY UpdateAssumption
<1>t. tx.left \in SUBSET Kinds /\ tx.touched \in SUBSET Kinds
  BY DEF TxType, Tuples
<1>r. RunType'
  BY RunStep
<1>x. Crash => lock' = Nobody
  BY DEF Crash, End
<1>1. CASE ProveCurrent
  <2>1. lock \in Runs /\ lock # Nobody /\ lock' = lock /\ This \in Kinds /\ Among(InFlight) /\ ~Fault
    BY <1>1, <1>0, <1>x, <1>f DEF ProveCurrent, InTx, RunType, Among, InFlight, disk
  <2>2. CalmElsewhere
    BY <1>1, <1>d, <1>x, <2>1, CalmElsewhereStep DEF Forward, Rollback
  <2>3. This' = This /\ Target' = Target
    BY <1>1, <2>1, <2>2, SameTarget DEF ProveCurrent, run, Concludes, Abandon, CalmElsewhere
  <2>4. at' \in [Runs -> Places] /\ DOMAIN at = Runs
    BY <1>r DEF RunType
  <2>5. /\ at'[lock] \in {"capture", "finish"} /\ UNCHANGED <<running, unit, store, data, villa>>
        /\ (at'[lock] = "capture" /\ This \in Stateful => running[This] # Down /\ data[This] <= running[This])
    <3>1. (at' = [at EXCEPT ![lock] = "capture"] /\ Healthy(This)) \/ at' = [at EXCEPT ![lock] = "finish"]
      BY <1>1 DEF ProveCurrent, Go, Concludes
    <3>2. UNCHANGED <<running, unit, store, data, villa>>
      BY <1>1 DEF ProveCurrent, stack, host
    <3>. QED  BY <2>1, <2>4, <3>1, <3>2 DEF Healthy, ReadsItsData
  <2>6. \A k \in Stateful : Standing(k)'
    BY <1>c, <1>s, <2>1, <2>2, <2>5, StandsKept DEF Standing
  <2>7. CalmTuple'
    BY <2>1, <2>4, <2>5 DEF CalmTuple, Among, Captured, Windowed, InFlight, Before
  <2>8. CalmPlaces'
    BY <1>c, <2>1, <2>3, <2>4, <2>5 DEF CalmPlaces, Among
  <2>. QED  BY <2>6, <2>7, <2>8
<1>2. CASE Capture
  <2>1. lock \in Runs /\ lock # Nobody /\ lock' = lock /\ This \in Kinds /\ Among(InFlight) /\ ~Fault
    BY <1>2, <1>0, <1>x, <1>f DEF Capture, InTx, RunType, Among, InFlight, disk
  <2>2. CalmElsewhere
    BY <1>2, <1>d, <1>x, <2>1, CalmElsewhereStep DEF Forward, Rollback
  <2>3. This' = This /\ Target' = Target
    BY <1>2, <2>1, <2>2, SameTarget DEF Capture, run, Concludes, Abandon, CalmElsewhere
  <2>4. at' \in [Runs -> Places] /\ DOMAIN at = Runs
    BY <1>r DEF RunType
  <2>5. /\ at'[lock] = "pull" /\ UNCHANGED <<running, unit, store, data, villa>> /\ tx'.units = unit /\ tx'.touched = {}
        /\ tx'.ref = Resolve(store, villa, This)
        /\ (This \in Stateful => running[This] # Down /\ data[This] <= running[This] /\ running[This] = tx'.ref
                                 /\ unit[This] = tx'.ref)
    <3>1. tx' = CaptureOf(store) /\ at' = [at EXCEPT ![lock] = "pull"]
      BY <1>2, <2>1 DEF Capture, Go
    <3>2. tx'.units = unit /\ tx'.touched = {} /\ tx'.ref = Resolve(store, villa, This)
      BY <2>1, <3>1, CaptureOfIs DEF StoreType
    <3>3. This \in Stateful => running[This] # Down /\ data[This] <= running[This]
      BY <1>2, <1>c, <2>1 DEF Capture, InTx, CalmPlaces, Among
    <3>4. UNCHANGED <<running, unit, store, data, villa>>
      BY <1>2 DEF Capture, stack, host
    <3>. QED  BY <1>c, <2>1, <2>4, <3>1, <3>2, <3>3, <3>4 DEF Standing
  <2>6. \A k \in Stateful : Standing(k)'
    BY <1>c, <1>s, <2>1, <2>2, <2>5, StandsKept DEF Standing
  <2>7. CalmTuple'
    <3>1. ~Among(Windowed)'
      BY <2>1, <2>5 DEF Among, Windowed, InFlight, Before
    <3>2. tx'.units = unit' /\ tx'.touched = {} /\ (This \in Stateful => tx'.units[This] = tx'.ref)
      BY <2>5
    <3>. QED  BY <2>3, <3>1, <3>2 DEF CalmTuple
  <2>8. CalmPlaces'
    BY <1>c, <2>1, <2>3, <2>4, <2>5 DEF CalmPlaces, Among
  <2>. QED  BY <2>6, <2>7, <2>8
<1>3. CASE Pull
  <2>1. lock \in Runs /\ lock # Nobody /\ lock' = lock /\ This \in Kinds /\ Among(InFlight) /\ ~Fault
    BY <1>3, <1>0, <1>x, <1>f DEF Pull, InTx, RunType, Among, InFlight, disk
  <2>2. CalmElsewhere
    BY <1>3, <1>d, <1>x, <2>1, CalmElsewhereStep DEF Forward, Rollback
  <2>3. This' = This /\ Target' = Target
    BY <1>3, <2>1, <2>2, SameTarget DEF Pull, run, Concludes, Abandon, CalmElsewhere
  <2>4. at' \in [Runs -> Places] /\ DOMAIN at = Runs
    BY <1>r DEF RunType
  <2>5. /\ \/ at'[lock] = "stop" /\ This \in Stateful /\ running[This] # Down /\ data[This] <= running[This]
              /\ running[This] = tx.ref
           \/ at'[lock] = "mutate" /\ This \notin Stateful
        /\ tx' = tx /\ UNCHANGED <<running, unit, store, data, villa>>
    <3>1. at' = [at EXCEPT ![lock] = IF OwnsPersistentState(This) THEN "stop" ELSE "mutate"]
      BY <1>3, <2>1 DEF Pull, Go
    <3>2. tx' = tx /\ UNCHANGED <<running, unit, store, data, villa>>
      BY <1>3 DEF Pull, stack, host
    <3>3. This \in Stateful => running[This] # Down /\ data[This] <= running[This] /\ running[This] = tx.ref
      BY <1>3, <1>c, <2>1 DEF Pull, InTx, CalmPlaces, Among
    <3>. QED  BY <2>1, <2>4, <3>1, <3>2, <3>3 DEF OwnsPersistentState
  <2>6. \A k \in Stateful : Standing(k)'
    BY <1>c, <1>s, <2>1, <2>2, <2>5, StandsKept DEF Standing
  <2>7. CalmTuple'
    <3>1. Among(Captured) /\ (Among(Windowed)' /\ This \in Stateful => Among(Windowed))
      BY <1>3, <2>1, <2>4, <2>5 DEF Pull, InTx, Among, InFlight, Captured, Windowed, Before
    <3>2. Keeps /\ tx'.touched \cap Stateful \subseteq {This} /\ snaps' = snaps
      BY <1>3, <1>c, <2>1, <2>5, <3>1, TxKeeps DEF Pull, Keeps, disk, CalmTuple
    <3>. QED  BY <1>c, <2>2, <2>3, <3>1, <3>2, CalmTupleKept
  <2>8. CalmPlaces'
    BY <1>c, <2>1, <2>3, <2>4, <2>5 DEF CalmPlaces, Among
  <2>. QED  BY <2>6, <2>7, <2>8
<1>4. CASE Stop
  <2>1. lock \in Runs /\ lock # Nobody /\ lock' = lock /\ This \in Kinds /\ Among(InFlight) /\ ~Fault
    BY <1>4, <1>0, <1>x, <1>f DEF Stop, InTx, RunType, Among, InFlight, disk
  <2>2. CalmElsewhere
    BY <1>4, <1>d, <1>x, <2>1, CalmElsewhereStep DEF Forward, Rollback
  <2>3. This' = This /\ Target' = Target
    BY <1>4, <2>1, <2>2, SameTarget DEF Stop, run, Concludes, Abandon, CalmElsewhere
  <2>4. at' \in [Runs -> Places] /\ DOMAIN at = Runs
    BY <1>r DEF RunType
  <2>5. /\ at'[lock] = "snapshot" /\ tx' = tx /\ UNCHANGED <<unit, store, data, villa>> /\ running'[This] = Down
        /\ data[This] <= tx.ref
    <3>0. This \in Stateful
      BY <1>4 DEF Stop, InTx, Among, TupleHeld, TxPlaced
    <3>1. running' = [running EXCEPT ![This] = Down] /\ at' = [at EXCEPT ![lock] = "snapshot"]
      BY <1>4, <2>1 DEF Stop, Go
    <3>2. tx' = tx /\ UNCHANGED <<unit, store, data, villa>>
      BY <1>4 DEF Stop, run, host
    <3>3. data[This] <= running[This] /\ running[This] = tx.ref
      BY <1>4, <1>c, <2>1, <3>0 DEF Stop, InTx, CalmPlaces, Among
    <3>. QED  BY <2>1, <2>4, <3>1, <3>2, <3>3 DEF StackType
  <2>6. \A k \in Stateful : Standing(k)'
    BY <1>c, <1>s, <2>1, <2>2, <2>5, StandsKept DEF Standing
  <2>7. CalmTuple'
    <3>1. Among(Captured) /\ (Among(Windowed)' /\ This \in Stateful => Among(Windowed))
      BY <1>4, <2>1, <2>4, <2>5 DEF Stop, InTx, Among, InFlight, Captured, Windowed, Before
    <3>2. Keeps /\ tx'.touched \cap Stateful \subseteq {This} /\ snaps' = snaps
      BY <1>4, <1>c, <2>1, <2>5, <3>1, TxKeeps DEF Stop, Keeps, run, disk, CalmTuple
    <3>. QED  BY <1>c, <2>2, <2>3, <3>1, <3>2, CalmTupleKept
  <2>8. CalmPlaces'
    BY <1>c, <2>1, <2>3, <2>4, <2>5 DEF CalmPlaces, Among
  <2>. QED  BY <2>6, <2>7, <2>8
<1>5. CASE Snapshot
  <2>1. lock \in Runs /\ lock # Nobody /\ lock' = lock /\ This \in Kinds /\ Among(InFlight) /\ ~Fault
    BY <1>5, <1>0, <1>x, <1>f DEF Snapshot, InTx, RunType, Among, InFlight
  <2>2. CalmElsewhere
    BY <1>5, <1>d, <1>x, <2>1, CalmElsewhereStep DEF Forward, Rollback
  <2>3. This' = This /\ Target' = Target
    BY <1>5, <2>1, <2>2, SameTarget DEF Snapshot, run, Concludes, Abandon, CalmElsewhere
  <2>4. at' \in [Runs -> Places] /\ DOMAIN at = Runs
    BY <1>r DEF RunType
  <2>5. /\ at'[lock] = "mutate" /\ UNCHANGED <<running, unit, store, data, villa>> /\ running[This] = Down
        /\ tx'.ref = tx.ref /\ tx'.units = tx.units /\ tx'.touched = tx.touched /\ snaps'[tx'.snap] <= tx'.ref
    <3>0. This \in Stateful
      BY <1>5 DEF Snapshot, InTx, Among, TupleHeld, TxPlaced
    <3>1. running[This] = Down /\ data[This] <= tx.ref
      BY <1>5, <1>c, <2>1, <3>0 DEF Snapshot, InTx, CalmPlaces, Among
    <3>2. UNCHANGED <<running, unit, store, data, villa>>
      BY <1>5 DEF Snapshot, stack, host
    <3>3. /\ at' = [at EXCEPT ![lock] = "mutate"] /\ tx' = Exported(SnapshotPath(This))
          /\ snaps' = [s \in DOMAIN snaps \cup {SnapshotPath(This)} |->
                         IF s = SnapshotPath(This) THEN data[This] ELSE snaps[s]]
      BY <1>5, <2>1 DEF Snapshot, Go
    <3>4. LET e == Exported(SnapshotPath(This)) IN
            e.touched = tx.touched /\ e.ref = tx.ref /\ e.units = tx.units /\ e.snap = SnapshotPath(This)
      BY DEF Exported, TxType, Tuples
    <3>5. snaps'[SnapshotPath(This)] = data[This]
      BY <3>3
    <3>. HIDE DEF SnapshotPath
    <3>. QED  BY <2>1, <2>4, <3>1, <3>2, <3>3, <3>4, <3>5
  <2>6. \A k \in Stateful : Standing(k)'
    BY <1>c, <1>s, <2>1, <2>2, <2>5, StandsKept DEF Standing
  <2>7. CalmTuple'
    <3>1. Among(Captured)
      BY <1>5 DEF Snapshot, InTx, Among, InFlight, Captured
    <3>2. /\ \A k \in Stateful : k = This \/ running'[k] = Down \/ tx'.units[k] = unit'[k]
          /\ tx'.touched \cap Stateful \subseteq {This}
          /\ This \in Stateful => tx'.units[This] = tx'.ref
      BY <1>c, <2>5, <3>1 DEF CalmTuple
    <3>. QED  BY <2>3, <2>5, <3>2 DEF CalmTuple
  <2>8. CalmPlaces'
    BY <1>c, <2>1, <2>3, <2>4, <2>5 DEF CalmPlaces, Among
  <2>. QED  BY <2>6, <2>7, <2>8
<1>6. CASE Reopen
  BY <1>6, <1>c DEF Reopen, InTx, CalmPlaces, Among
<1>7. CASE WritePins
  <2>1. lock \in Runs /\ lock # Nobody /\ lock' = lock /\ This \in Kinds /\ Among(InFlight) /\ ~Fault
    BY <1>7, <1>0, <1>x, <1>f DEF WritePins, InTx, RunType, Among, InFlight, disk
  <2>2. CalmElsewhere
    BY <1>7, <1>d, <1>x, <2>1, CalmElsewhereStep DEF Forward, Rollback
  <2>3. This' = This /\ Target' = Target
    BY <1>7, <2>1, <2>2, SameTarget DEF WritePins, run, Concludes, Abandon, CalmElsewhere
  <2>4. at' \in [Runs -> Places] /\ DOMAIN at = Runs
    BY <1>r DEF RunType
  <2>5. /\ at'[lock] = "apply" /\ tx' = tx /\ UNCHANGED <<running, unit, data, villa>> /\ store'.pins[This] = Target
        /\ (This \in Stateful => running[This] = Down)
    <3>1. at' = [at EXCEPT ![lock] = "apply"] /\ store' = Record(store, This, Target)
      BY <1>7, <2>1 DEF WritePins, Go
    <3>2. tx' = tx /\ UNCHANGED <<running, unit, data, villa>>
      BY <1>7 DEF WritePins, run, host, stack
    <3>3. This \in Stateful => running[This] = Down
      BY <1>7, <1>c, <2>1 DEF WritePins, InTx, CalmPlaces, Among
    <3>4. Record(store, This, Target).pins = [store.pins EXCEPT ![This] = Target]
      BY <2>1, RecordIs, TargetType DEF StoreType
    <3>5. [store.pins EXCEPT ![This] = Target][This] = Target
      BY <2>1, PinsAre
    <3>. QED  BY <2>1, <2>4, <3>1, <3>2, <3>3, <3>4, <3>5
  <2>6. \A k \in Stateful : Standing(k)'
    BY <1>c, <1>s, <2>1, <2>2, <2>5, StandsKept DEF Standing
  <2>7. CalmTuple'
    <3>1. Among(Captured) /\ (Among(Windowed)' /\ This \in Stateful => Among(Windowed))
      BY <1>7, <2>1, <2>4, <2>5 DEF WritePins, InTx, Among, InFlight, Captured, Windowed, Before
    <3>2. Keeps /\ tx'.touched \cap Stateful \subseteq {This} /\ snaps' = snaps
      BY <1>7, <1>c, <2>1, <2>5, <3>1, TxKeeps DEF WritePins, Keeps, run, disk, CalmTuple
    <3>. QED  BY <1>c, <2>2, <2>3, <3>1, <3>2, CalmTupleKept
  <2>8. CalmPlaces'
    BY <1>c, <2>1, <2>3, <2>4, <2>5 DEF CalmPlaces, Among
  <2>. QED  BY <2>6, <2>7, <2>8
<1>8. CASE Apply
  <2>1. lock \in Runs /\ lock # Nobody /\ lock' = lock /\ This \in Kinds /\ Among(InFlight) /\ ~Fault
    BY <1>8, <1>0, <1>x, <1>f DEF Apply, InTx, RunType, Among, InFlight, disk
  <2>2. CalmElsewhere
    BY <1>8, <1>d, <1>x, <2>1, CalmElsewhereStep DEF Forward, Rollback
  <2>3. This' = This /\ Target' = Target
    BY <1>8, <2>1, <2>2, SameTarget DEF Apply, run, Concludes, Abandon, CalmElsewhere
  <2>4. at' \in [Runs -> Places] /\ DOMAIN at = Runs
    BY <1>r DEF RunType
  <2>5. /\ at'[lock] = "restart" /\ UNCHANGED <<running, store, data, villa>> /\ store.pins[This] = Target
        /\ unit'[This] = Target /\ tx'.left \cap Stateful \subseteq {This} /\ tx'.touched = tx.touched
        /\ (This \in Stateful => running[This] = Down)
    <3>1. at' = [at EXCEPT ![lock] = "restart"] /\ unit' = Rendered
          /\ tx' = Leaving({This} \cup {k \in Changed : running[k] # Down})
      BY <1>8, <2>1 DEF Apply, Go
    <3>2. UNCHANGED <<running, store, data, villa>>
      BY <1>8 DEF Apply, host
    <3>3. store.pins[This] = Target /\ (This \in Stateful => running[This] = Down)
      BY <1>8, <1>c, <2>1 DEF Apply, InTx, CalmPlaces, Among
    <3>4. Rendered[This] = Target
      BY <2>1, <3>3, TargetType, NotAnImage DEF Rendered, Resolve
    <3>5. Changed \subseteq Kinds /\ \A k \in Changed : k \in Stateful => running[k] = Down
      BY <1>c DEF Changed, Rendered, Standing
    <3>6. {This} \cup {k \in Changed : running[k] # Down} \in SUBSET Kinds
      BY <2>1, <3>5
    <3>7. tx'.left = {This} \cup {k \in Changed : running[k] # Down} /\ tx'.touched = tx.touched
      BY <3>1, <3>6, LeavingIs DEF TxType
    <3>. QED  BY <2>1, <2>4, <3>1, <3>2, <3>3, <3>4, <3>5, <3>7
  <2>6. \A k \in Stateful : Standing(k)'
    BY <1>c, <1>s, <2>1, <2>2, <2>5, StandsKept DEF Standing
  <2>7. CalmTuple'
    <3>1. Among(Captured) /\ (Among(Windowed)' /\ This \in Stateful => Among(Windowed))
      BY <1>8, <2>1, <2>4, <2>5 DEF Apply, InTx, Among, InFlight, Captured, Windowed, Before
    <3>2. Keeps /\ tx'.touched \cap Stateful \subseteq {This} /\ snaps' = snaps
      BY <1>8, <1>c, <2>1, <2>5, <3>1, TxKeeps DEF Apply, Keeps, run, disk, CalmTuple
    <3>. QED  BY <1>c, <2>2, <2>3, <3>1, <3>2, CalmTupleKept
  <2>8. CalmPlaces'
    BY <1>c, <2>1, <2>3, <2>4, <2>5 DEF CalmPlaces, Among
  <2>. QED  BY <2>6, <2>7, <2>8
<1>9. CASE Restart
  <2>1. lock \in Runs /\ lock # Nobody /\ lock' = lock /\ This \in Kinds /\ Among(InFlight) /\ ~Fault
    BY <1>9, <1>0, <1>x, <1>f DEF Restart, InTx, RunType, Among, InFlight, disk
  <2>2. CalmElsewhere
    BY <1>9, <1>d, <1>x, <2>1, CalmElsewhereStep DEF Forward, Rollback
  <2>3. This' = This /\ Target' = Target
    BY <1>9, <2>1, <2>2, SameTarget DEF Restart, run, Concludes, Abandon, CalmElsewhere
  <2>4. at' \in [Runs -> Places] /\ DOMAIN at = Runs
    BY <1>r DEF RunType
  <2>5. /\ at'[lock] \in {"restart", "start", "prove_new"} /\ UNCHANGED <<unit, store, villa>> /\ store.pins[This] = Target
        /\ unit[This] = Target /\ tx'.left \cap Stateful \subseteq {This} /\ tx'.touched \cap Stateful \subseteq {This}
        /\ (This \in Stateful => running'[This] \in {running[This], Target})
    <3>1. store.pins[This] = Target /\ unit[This] = Target /\ tx.left \cap Stateful \subseteq {This}
          /\ tx.touched \cap Stateful \subseteq {This}
      BY <1>9, <1>c, <2>1 DEF Restart, InTx, CalmPlaces, CalmTuple, Among, InFlight, Captured
    <3>2. UNCHANGED <<unit, store, villa>> /\ at[lock] = "restart"
      BY <1>9 DEF Restart, host, InTx
    <3>3. \/ tx' = tx /\ running' = running /\ at' \in {[at EXCEPT ![lock] = "start"], [at EXCEPT ![lock] = "prove_new"]}
          \/ at' = at /\ \E k \in tx.left : tx' = Trying(k) /\ Start({k})
      BY <1>9, <2>1 DEF Restart, Go
    <3>4. ASSUME NEW k \in tx.left, tx' = Trying(k), Start({k})
          PROVE  /\ tx'.left \cap Stateful \subseteq {This} /\ tx'.touched \cap Stateful \subseteq {This}
                 /\ This \in Stateful => running'[This] \in {running[This], Target}
      <4>1. tx'.left = tx.left \ {k} /\ tx'.touched = tx.touched \cup {k}
        BY <1>t, <3>4, TryingIs DEF TxType
      <4>2. running' = [running EXCEPT ![k] = unit[k]]
        BY <1>t, <3>4, StartDoes
      <4>. QED  BY <1>t, <2>1, <3>1, <4>1, <4>2 DEF StackType
    <3>5. /\ tx'.left \cap Stateful \subseteq {This} /\ tx'.touched \cap Stateful \subseteq {This}
          /\ This \in Stateful => running'[This] \in {running[This], Target}
      BY <3>1, <3>3, <3>4
    <3>. QED  BY <2>1, <2>4, <3>1, <3>2, <3>3, <3>5
  <2>6. \A k \in Stateful : Standing(k)'
    <3>1. Resolve(store, villa, This) = Target
      BY <2>1, <2>5, TargetType, NotAnImage DEF Resolve
    <3>2. This \in Stateful => running'[This] = Down \/ (running'[This] = unit'[This] /\ unit'[This] = Resolve(store', villa', This))
      BY <1>c, <2>5, <3>1 DEF Standing
    <3>. QED  BY <1>c, <2>1, <2>2, <3>2, StandsKept
  <2>7. CalmTuple'
    <3>1. Among(Captured) /\ (Among(Windowed)' /\ This \in Stateful => Among(Windowed))
      BY <1>9, <2>1, <2>4, <2>5 DEF Restart, InTx, Among, InFlight, Captured, Windowed, Before
    <3>2. Keeps /\ tx'.touched \cap Stateful \subseteq {This} /\ snaps' = snaps
      BY <1>9, <1>c, <2>1, <2>5, <3>1, TxKeeps DEF Restart, Keeps, run, disk, CalmTuple
    <3>. QED  BY <1>c, <2>2, <2>3, <3>1, <3>2, CalmTupleKept
  <2>8. CalmPlaces'
    BY <1>c, <2>1, <2>3, <2>4, <2>5 DEF CalmPlaces, Among
  <2>. QED  BY <2>6, <2>7, <2>8
<1>10. CASE StartNew
  <2>1. lock \in Runs /\ lock # Nobody /\ lock' = lock /\ This \in Kinds /\ Among(InFlight) /\ ~Fault
    BY <1>10, <1>0, <1>x, <1>f DEF StartNew, InTx, RunType, Among, InFlight, disk
  <2>2. CalmElsewhere
    BY <1>10, <1>d, <1>x, <2>1, CalmElsewhereStep DEF Forward, Rollback
  <2>3. This' = This /\ Target' = Target
    BY <1>10, <2>1, <2>2, SameTarget DEF StartNew, run, Concludes, Abandon, CalmElsewhere
  <2>4. at' \in [Runs -> Places] /\ DOMAIN at = Runs
    BY <1>r DEF RunType
  <2>5. /\ at'[lock] = "prove_new" /\ UNCHANGED <<unit, store, villa, tx>> /\ store.pins[This] = Target
        /\ unit[This] = Target /\ running'[This] \in {running[This], Target}
    <3>1. store.pins[This] = Target /\ unit[This] = Target
      BY <1>10, <1>c, <2>1 DEF StartNew, InTx, CalmPlaces, Among
    <3>2. UNCHANGED <<unit, store, villa, tx>>
      BY <1>10 DEF StartNew, host, run
    <3>3. at' = [at EXCEPT ![lock] = "prove_new"] /\ (running' = running \/ Start({This}))
      BY <1>10, <2>1 DEF StartNew, StartDown, Go
    <3>4. Start({This}) => running'[This] = Target
      BY <2>1, <3>1, StartDoes DEF StackType
    <3>. QED  BY <2>1, <2>4, <3>1, <3>2, <3>3, <3>4
  <2>6. \A k \in Stateful : Standing(k)'
    <3>1. Resolve(store, villa, This) = Target
      BY <2>1, <2>5, TargetType, NotAnImage DEF Resolve
    <3>2. This \in Stateful => running'[This] = Down \/ (running'[This] = unit'[This] /\ unit'[This] = Resolve(store', villa', This))
      BY <1>c, <2>5, <3>1 DEF Standing
    <3>. QED  BY <1>c, <2>1, <2>2, <3>2, StandsKept
  <2>7. CalmTuple'
    <3>1. Among(Captured) /\ (Among(Windowed)' /\ This \in Stateful => Among(Windowed))
      BY <1>10, <2>1, <2>4, <2>5 DEF StartNew, InTx, Among, InFlight, Captured, Windowed, Before
    <3>2. Keeps /\ tx'.touched \cap Stateful \subseteq {This} /\ snaps' = snaps
      BY <1>10, <1>c, <2>1, <2>5, <3>1, TxKeeps DEF StartNew, Keeps, run, disk, CalmTuple
    <3>. QED  BY <1>c, <2>2, <2>3, <3>1, <3>2, CalmTupleKept
  <2>8. CalmPlaces'
    BY <1>c, <2>1, <2>3, <2>4, <2>5 DEF CalmPlaces, Among
  <2>. QED  BY <2>6, <2>7, <2>8
<1>11. CASE ProveNew
  <2>1. lock \in Runs /\ lock # Nobody /\ lock' = lock /\ This \in Kinds /\ Among(InFlight) /\ ~Fault
    BY <1>11, <1>0, <1>x, <1>f DEF ProveNew, InTx, RunType, Among, InFlight, disk
  <2>2. CalmElsewhere
    BY <1>11, <1>d, <1>x, <2>1, CalmElsewhereStep DEF Forward, Rollback
  <2>3. This' = This /\ Target' = Target
    BY <1>11, <2>1, <2>2, SameTarget DEF ProveNew, run, Concludes, Abandon, CalmElsewhere
  <2>4. at' \in [Runs -> Places] /\ DOMAIN at = Runs
    BY <1>r DEF RunType
  <2>5. /\ at'[lock] \in {"commit", "rollback"} /\ UNCHANGED <<running, unit, store, data, villa, tx>>
        /\ store.pins[This] = Target /\ unit[This] = Target
    <3>1. store.pins[This] = Target /\ unit[This] = Target
      BY <1>11, <1>c, <2>1 DEF ProveNew, InTx, CalmPlaces, Among
    <3>2. UNCHANGED <<running, unit, store, data, villa, tx>>
      BY <1>11 DEF ProveNew, host, run, stack
    <3>3. at' = [at EXCEPT ![lock] = "commit"] \/ at' = [at EXCEPT ![lock] = "rollback"]
      BY <1>11 DEF ProveNew, Go
    <3>. QED  BY <2>1, <2>4, <3>1, <3>2, <3>3
  <2>6. \A k \in Stateful : Standing(k)'
    BY <1>c, <1>s, <2>1, <2>2, <2>5, StandsKept DEF Standing
  <2>7. CalmTuple'
    <3>1. Among(Captured) /\ (Among(Windowed)' /\ This \in Stateful => Among(Windowed))
      BY <1>11, <2>1, <2>4, <2>5 DEF ProveNew, InTx, Among, InFlight, Captured, Windowed, Before
    <3>2. Keeps /\ tx'.touched \cap Stateful \subseteq {This} /\ snaps' = snaps
      BY <1>11, <1>c, <2>1, <2>5, <3>1, TxKeeps DEF ProveNew, Keeps, run, disk, CalmTuple
    <3>. QED  BY <1>c, <2>2, <2>3, <3>1, <3>2, CalmTupleKept
  <2>8. CalmPlaces'
    BY <1>c, <2>1, <2>3, <2>4, <2>5 DEF CalmPlaces, Among
  <2>. QED  BY <2>6, <2>7, <2>8
<1>12. CASE Commit
  <2>1. lock \in Runs /\ lock # Nobody /\ lock' = lock /\ This \in Kinds /\ ~Fault
    BY <1>12, <1>0, <1>x, <1>f DEF Commit, InTx, RunType, Among, InFlight, disk
  <2>2. CalmElsewhere
    BY <1>12, <1>d, <1>x, <2>1, CalmElsewhereStep DEF Forward, Rollback
  <2>3. at'[lock] \in {"finish", "prove"} /\ UNCHANGED <<running, unit, villa>>
    BY <1>12, <2>1 DEF Commit, Go, RunType, stack, host
  <2>4. store.pins[This] = Target /\ Target \in Image
    BY <1>12, <1>c, <2>1, TargetType DEF Commit, InTx, CalmPlaces, Among
  <2>5. store'.pins[This] = Target
    <3>1. Record(store, This, Target) \in Stores
          /\ Record(store, This, Target).pins = [store.pins EXCEPT ![This] = Target]
      BY <2>1, <2>4, RecordIs DEF StoreType
    <3>2. [ref |-> tx.ref, snap |-> tx.snap] \in [ref : Image, snap : Snapshots \cup {NoTuple}]
      BY <1>12, <2>1 DEF Commit, InTx, TupleHeld, TxPlaced, Among, InFlight, Captured, TxType, Tuples
    <3>3. store' = Retain(Record(store, This, Target), This, [ref |-> tx.ref, snap |-> tx.snap])
      BY <1>12, <2>1, Zenon DEF Commit
    <3>4. Retain(Record(store, This, Target), This, [ref |-> tx.ref, snap |-> tx.snap]).pins
            = Record(store, This, Target).pins
      BY <2>1, <3>1, <3>2, RetainIs, Zenon
    <3>. QED  BY <2>1, <3>1, <3>3, <3>4, PinsAre
  <2>6. \A k \in Stateful : Standing(k)'
    BY <1>c, <2>1, <2>2, <2>3, <2>4, <2>5, StandsKept DEF Standing, Resolve
  <2>7. CalmTuple' /\ CalmPlaces'
    BY <2>1, <2>3 DEF CalmTuple, CalmPlaces, Among, Captured, Windowed, InFlight, Before
  <2>. QED  BY <2>6, <2>7
<1>13. CASE RbStop
  <2>1. lock \in Runs /\ lock # Nobody /\ lock' = lock /\ This \in Kinds /\ Among(InFlight) /\ ~Fault
    BY <1>13, <1>0, <1>x, <1>f DEF RbStop, InTx, RunType, Among, InFlight, disk
  <2>2. CalmElsewhere
    BY <1>13, <1>d, <1>x, <2>1, CalmElsewhereStep DEF Forward, Rollback
  <2>3. This' = This /\ Target' = Target
    BY <1>13, <2>1, <2>2, SameTarget DEF RbStop, run, Concludes, Abandon, CalmElsewhere
  <2>4. at' \in [Runs -> Places] /\ DOMAIN at = Runs
    BY <1>r DEF RunType
  <2>5. /\ at'[lock] \in {"rb_pins", "rb_data"} /\ UNCHANGED <<unit, store, data, villa, tx>>
        /\ (This \in Stateful => running'[This] = Down)
    <3>1. tx.snap = NoTuple => This \notin Stateful
      BY <1>13 DEF RbStop, InTx, Among, TupleHeld, TxPlaced, Windowed, InFlight, Before
    <3>2. UNCHANGED <<unit, store, data, villa, tx>>
      BY <1>13 DEF RbStop, host
    <3>3. \/ tx.snap = NoTuple /\ at' = [at EXCEPT ![lock] = "rb_pins"]
          \/ at' = [at EXCEPT ![lock] = "rb_data"] /\ running' = [running EXCEPT ![This] = Down]
      BY <1>13, <2>1 DEF RbStop, Go
    <3>. QED  BY <2>1, <2>4, <3>1, <3>2, <3>3 DEF StackType
  <2>6. \A k \in Stateful : Standing(k)'
    BY <1>c, <1>s, <2>1, <2>2, <2>5, StandsKept DEF Standing
  <2>7. CalmTuple'
    <3>1. Among(Captured) /\ (Among(Windowed)' /\ This \in Stateful => Among(Windowed))
      BY <1>13, <2>1, <2>4, <2>5 DEF RbStop, InTx, Among, InFlight, Captured, Windowed, Before
    <3>2. Keeps /\ tx'.touched \cap Stateful \subseteq {This} /\ snaps' = snaps
      BY <1>13, <1>c, <2>1, <2>5, <3>1, TxKeeps DEF RbStop, Keeps, run, disk, CalmTuple
    <3>. QED  BY <1>c, <2>2, <2>3, <3>1, <3>2, CalmTupleKept
  <2>8. CalmPlaces'
    BY <1>c, <2>1, <2>3, <2>4, <2>5 DEF CalmPlaces, Among
  <2>. QED  BY <2>6, <2>7, <2>8
<1>14. CASE RbData
  <2>1. lock \in Runs /\ lock # Nobody /\ lock' = lock /\ This \in Kinds /\ Among(InFlight) /\ ~Fault
    BY <1>14, <1>0, <1>x, <1>f DEF RbData, InTx, RunType, Among, InFlight, disk
  <2>2. CalmElsewhere
    BY <1>14, <1>d, <1>x, <2>1, CalmElsewhereStep DEF Forward, Rollback
  <2>3. This' = This /\ Target' = Target
    BY <1>14, <2>1, <2>2, SameTarget DEF RbData, run, Concludes, Abandon, CalmElsewhere
  <2>4. at' \in [Runs -> Places] /\ DOMAIN at = Runs
    BY <1>r DEF RunType
  <2>5. /\ at'[lock] = "rb_pins" /\ UNCHANGED <<running, unit, store, villa, tx>>
        /\ (This \in Stateful => running[This] = Down)
    <3>1. This \in Stateful => running[This] = Down
      BY <1>14, <1>c, <2>1 DEF RbData, InTx, CalmPlaces, Among
    <3>2. UNCHANGED <<running, unit, store, villa, tx>>
      BY <1>14 DEF RbData, host, run
    <3>3. at' = [at EXCEPT ![lock] = "rb_pins"]
      BY <1>14, <2>1 DEF RbData, Go
    <3>. QED  BY <2>1, <2>4, <3>1, <3>2, <3>3
  <2>6. \A k \in Stateful : Standing(k)'
    BY <1>c, <1>s, <2>1, <2>2, <2>5, StandsKept DEF Standing
  <2>7. CalmTuple'
    <3>1. Among(Captured) /\ (Among(Windowed)' /\ This \in Stateful => Among(Windowed))
      BY <1>14, <2>1, <2>4, <2>5 DEF RbData, InTx, Among, InFlight, Captured, Windowed, Before
    <3>2. Keeps /\ tx'.touched \cap Stateful \subseteq {This} /\ snaps' = snaps
      BY <1>14, <1>c, <2>1, <2>5, <3>1, TxKeeps DEF RbData, Keeps, run, disk, CalmTuple
    <3>. QED  BY <1>c, <2>2, <2>3, <3>1, <3>2, CalmTupleKept
  <2>8. CalmPlaces'
    BY <1>c, <2>1, <2>3, <2>4, <2>5 DEF CalmPlaces, Among
  <2>. QED  BY <2>6, <2>7, <2>8
<1>15. CASE RbPins
  <2>1. lock \in Runs /\ lock # Nobody /\ lock' = lock /\ This \in Kinds /\ Among(InFlight) /\ ~Fault
    BY <1>15, <1>0, <1>x, <1>f DEF RbPins, InTx, RunType, Among, InFlight, disk
  <2>2. CalmElsewhere
    BY <1>15, <1>d, <1>x, <2>1, CalmElsewhereStep DEF Forward, Rollback
  <2>3. This' = This /\ Target' = Target
    BY <1>15, <2>1, <2>2, SameTarget DEF RbPins, run, Concludes, Abandon, CalmElsewhere
  <2>4. at' \in [Runs -> Places] /\ DOMAIN at = Runs
    BY <1>r DEF RunType
  <2>5. /\ at'[lock] = "rb_units" /\ UNCHANGED <<running, unit, data, villa, tx>> /\ store'.pins[This] = tx.ref
        /\ (This \in Stateful => running[This] = Down)
    <3>1. This \in Stateful => running[This] = Down
      BY <1>15, <1>c, <2>1 DEF RbPins, InTx, CalmPlaces, Among
    <3>2. UNCHANGED <<running, unit, data, villa, tx>>
      BY <1>15 DEF RbPins, host, stack
    <3>3. at' = [at EXCEPT ![lock] = "rb_units"] /\ store' = Record(store, This, tx.ref)
      BY <1>15, <2>1 DEF RbPins, Go, PinBack
    <3>4. tx.ref \in Image
      BY <1>15, <2>1 DEF RbPins, InTx, TupleHeld, TxPlaced, Among, InFlight, Captured
    <3>5. Record(store, This, tx.ref).pins = [store.pins EXCEPT ![This] = tx.ref]
      BY <2>1, <3>4, RecordIs DEF StoreType
    <3>6. [store.pins EXCEPT ![This] = tx.ref][This] = tx.ref
      BY <2>1, PinsAre
    <3>. QED  BY <2>1, <2>4, <3>1, <3>2, <3>3, <3>5, <3>6
  <2>6. \A k \in Stateful : Standing(k)'
    BY <1>c, <1>s, <2>1, <2>2, <2>5, StandsKept DEF Standing
  <2>7. CalmTuple'
    <3>1. Among(Captured) /\ (Among(Windowed)' /\ This \in Stateful => Among(Windowed))
      BY <1>15, <2>1, <2>4, <2>5 DEF RbPins, InTx, Among, InFlight, Captured, Windowed, Before
    <3>2. Keeps /\ tx'.touched \cap Stateful \subseteq {This} /\ snaps' = snaps
      BY <1>15, <1>c, <2>1, <2>5, <3>1, TxKeeps DEF RbPins, Keeps, run, disk, CalmTuple
    <3>. QED  BY <1>c, <2>2, <2>3, <3>1, <3>2, CalmTupleKept
  <2>8. CalmPlaces'
    BY <1>c, <2>1, <2>3, <2>4, <2>5 DEF CalmPlaces, Among
  <2>. QED  BY <2>6, <2>7, <2>8
<1>16. CASE RbUnits
  <2>1. lock \in Runs /\ lock # Nobody /\ lock' = lock /\ This \in Kinds /\ Among(InFlight) /\ ~Fault
    BY <1>16, <1>0, <1>x, <1>f DEF RbUnits, InTx, RunType, Among, InFlight, disk
  <2>2. CalmElsewhere
    BY <1>16, <1>d, <1>x, <2>1, CalmElsewhereStep DEF Forward, Rollback
  <2>3. This' = This /\ Target' = Target
    BY <1>16, <2>1, <2>2, SameTarget DEF RbUnits, run, Concludes, Abandon, CalmElsewhere
  <2>4. at' \in [Runs -> Places] /\ DOMAIN at = Runs
    BY <1>r DEF RunType
  <2>5. /\ at'[lock] = "rb_restart" /\ UNCHANGED <<running, data, villa, store>> /\ unit'[This] = tx.units[This]
        /\ store.pins[This] = tx.ref /\ tx'.ref = tx.ref /\ tx'.units = tx.units
        /\ (This \in Stateful => running[This] = Down)
        /\ tx'.left \cap Stateful \subseteq {This} /\ tx'.touched = tx.touched
    <3>1. /\ This \in Stateful => running[This] = Down
          /\ store.pins[This] = tx.ref /\ tx.touched \cap Stateful \subseteq {This}
      BY <1>16, <1>c, <2>1 DEF RbUnits, InTx, CalmPlaces, CalmTuple, Among, Captured, InFlight
    <3>2. UNCHANGED <<running, data, villa, store>>
      BY <1>16 DEF RbUnits, host
    <3>3. at' = [at EXCEPT ![lock] = "rb_restart"] /\ unit' = tx.units /\ tx' = Leaving(tx.touched)
      BY <1>16, <2>1 DEF RbUnits, Go
    <3>4. tx'.left = tx.touched /\ tx'.touched = tx.touched /\ tx'.ref = tx.ref /\ tx'.units = tx.units
      BY <1>t, <3>3, LeavingIs DEF TxType
    <3>. QED  BY <2>1, <2>4, <3>1, <3>2, <3>3, <3>4
  <2>6. \A k \in Stateful : Standing(k)'
    BY <1>c, <1>s, <2>1, <2>2, <2>5, StandsKept DEF Standing
  <2>7. CalmTuple'
    <3>1. Among(Captured) /\ (Among(Windowed)' /\ This \in Stateful => Among(Windowed))
      BY <1>16, <2>1, <2>4, <2>5 DEF RbUnits, InTx, Among, InFlight, Captured, Windowed, Before
    <3>2. Keeps /\ tx'.touched \cap Stateful \subseteq {This} /\ snaps' = snaps
      BY <1>16, <1>c, <2>1, <2>5, <3>1, TxKeeps DEF RbUnits, Keeps, run, disk, CalmTuple
    <3>. QED  BY <1>c, <2>2, <2>3, <3>1, <3>2, CalmTupleKept
  <2>8. CalmPlaces'
    BY <1>c, <2>1, <2>3, <2>4, <2>5 DEF CalmPlaces, Among
  <2>. QED  BY <2>6, <2>7, <2>8
<1>17. CASE RbRestart
  <2>1. lock \in Runs /\ lock # Nobody /\ lock' = lock /\ This \in Kinds /\ Among(InFlight) /\ ~Fault
    BY <1>17, <1>0, <1>x, <1>f DEF RbRestart, InTx, RunType, Among, InFlight, disk
  <2>2. CalmElsewhere
    BY <1>17, <1>d, <1>x, <2>1, CalmElsewhereStep DEF Forward, Rollback
  <2>3. This' = This /\ Target' = Target
    BY <1>17, <2>1, <2>2, SameTarget DEF RbRestart, run, Concludes, Abandon, CalmElsewhere
  <2>4. at' \in [Runs -> Places] /\ DOMAIN at = Runs
    BY <1>r DEF RunType
  <2>5. /\ at'[lock] \in {"rb_restart", "rb_start"} /\ UNCHANGED <<unit, store, villa>> /\ store.pins[This] = tx.ref
        /\ tx'.ref = tx.ref /\ tx'.units = tx.units /\ unit[This] = tx.units[This]
        /\ tx'.left \cap Stateful \subseteq {This} /\ tx'.touched = tx.touched
        /\ (This \in Stateful => running'[This] \in {running[This], unit[This]})
    <3>1. store.pins[This] = tx.ref /\ unit[This] = tx.units[This] /\ tx.left \cap Stateful \subseteq {This}
      BY <1>17, <1>c, <2>1 DEF RbRestart, InTx, CalmPlaces, Among
    <3>2. UNCHANGED <<unit, store, villa>> /\ at[lock] = "rb_restart"
      BY <1>17 DEF RbRestart, host, InTx
    <3>3. \/ tx' = tx /\ running' = running /\ at' = [at EXCEPT ![lock] = "rb_start"]
          \/ at' = at /\ \E k \in tx.left : tx' = Leaving(tx.left \ {k}) /\ Start({k})
      BY <1>17, <2>1 DEF RbRestart, Go
    <3>4. ASSUME NEW k \in tx.left, tx' = Leaving(tx.left \ {k}), Start({k})
          PROVE  /\ tx'.left \cap Stateful \subseteq {This} /\ tx'.touched = tx.touched
                 /\ tx'.ref = tx.ref /\ tx'.units = tx.units
                 /\ This \in Stateful => running'[This] \in {running[This], unit[This]}
      <4>0. tx.left \ {k} \in SUBSET Kinds
        BY <1>t
      <4>1. tx'.left = tx.left \ {k} /\ tx'.touched = tx.touched /\ tx'.ref = tx.ref /\ tx'.units = tx.units
        BY <3>4, <4>0, LeavingIs DEF TxType
      <4>2. running' = [running EXCEPT ![k] = unit[k]]
        BY <1>t, <3>4, StartDoes
      <4>. QED  BY <1>t, <2>1, <3>1, <4>1, <4>2 DEF StackType
    <3>5. /\ tx'.left \cap Stateful \subseteq {This} /\ tx'.touched = tx.touched
          /\ tx'.ref = tx.ref /\ tx'.units = tx.units
          /\ This \in Stateful => running'[This] \in {running[This], unit[This]}
      BY <3>1, <3>3, <3>4
    <3>. QED  BY <2>1, <2>4, <3>1, <3>2, <3>3, <3>5
  <2>6. \A k \in Stateful : Standing(k)'
    <3>1. tx.ref \in Image /\ (This \in Stateful => tx.units[This] = tx.ref)
      BY <1>17, <1>c, <2>1
      DEF RbRestart, InTx, TupleHeld, TxPlaced, CalmTuple, Among, InFlight, Captured
    <3>2. Resolve(store, villa, This) = tx.ref
      BY <2>5, <3>1, NotAnImage DEF Resolve
    <3>3. This \in Stateful => running'[This] = Down \/ (running'[This] = unit'[This] /\ unit'[This] = Resolve(store', villa', This))
      BY <1>c, <2>5, <3>1, <3>2 DEF Standing
    <3>. QED  BY <1>c, <2>1, <2>2, <3>3, StandsKept
  <2>7. CalmTuple'
    <3>1. Among(Captured) /\ (Among(Windowed)' /\ This \in Stateful => Among(Windowed))
      BY <1>17, <2>1, <2>4, <2>5 DEF RbRestart, InTx, Among, InFlight, Captured, Windowed, Before
    <3>2. Keeps /\ tx'.touched \cap Stateful \subseteq {This} /\ snaps' = snaps
      BY <1>17, <1>c, <2>1, <2>5, <3>1, TxKeeps DEF RbRestart, Keeps, run, disk, CalmTuple
    <3>. QED  BY <1>c, <2>2, <2>3, <3>1, <3>2, CalmTupleKept
  <2>8. CalmPlaces'
    BY <1>c, <2>1, <2>3, <2>4, <2>5 DEF CalmPlaces, Among
  <2>. QED  BY <2>6, <2>7, <2>8
<1>18. CASE RbStart
  <2>1. lock \in Runs /\ lock # Nobody /\ lock' = lock /\ This \in Kinds /\ Among(InFlight) /\ ~Fault
    BY <1>18, <1>0, <1>x, <1>f DEF RbStart, InTx, RunType, Among, InFlight, disk
  <2>2. CalmElsewhere
    BY <1>18, <1>d, <1>x, <2>1, CalmElsewhereStep DEF Forward, Rollback
  <2>3. This' = This /\ Target' = Target
    BY <1>18, <2>1, <2>2, SameTarget DEF RbStart, run, Concludes, Abandon, CalmElsewhere
  <2>4. at' \in [Runs -> Places] /\ DOMAIN at = Runs
    BY <1>r DEF RunType
  <2>5. /\ at'[lock] = "rb_prove" /\ UNCHANGED <<unit, store, villa, tx>> /\ store.pins[This] = tx.ref
        /\ unit[This] = tx.units[This] /\ running'[This] \in {running[This], unit[This]}
    <3>1. store.pins[This] = tx.ref /\ unit[This] = tx.units[This]
      BY <1>18, <1>c, <2>1 DEF RbStart, InTx, CalmPlaces, Among
    <3>2. UNCHANGED <<unit, store, villa, tx>>
      BY <1>18 DEF RbStart, host
    <3>3. at' = [at EXCEPT ![lock] = "rb_prove"] /\ (running' = running \/ Start({This}))
      BY <1>18, <2>1 DEF RbStart, StartDown, Go
    <3>4. Start({This}) => running'[This] = unit[This]
      BY <2>1, <3>1, StartDoes DEF StackType
    <3>. QED  BY <2>1, <2>4, <3>1, <3>2, <3>3, <3>4
  <2>6. \A k \in Stateful : Standing(k)'
    <3>1. tx.ref \in Image /\ (This \in Stateful => tx.units[This] = tx.ref)
      BY <1>18, <1>c, <2>1 DEF RbStart, InTx, TupleHeld, TxPlaced, CalmTuple, Among, InFlight, Captured
    <3>2. Resolve(store, villa, This) = tx.ref
      BY <2>5, <3>1, NotAnImage DEF Resolve
    <3>3. This \in Stateful => running'[This] = Down \/ (running'[This] = unit'[This] /\ unit'[This] = Resolve(store', villa', This))
      BY <1>c, <2>5, <3>1, <3>2 DEF Standing
    <3>. QED  BY <1>c, <2>1, <2>2, <3>3, StandsKept
  <2>7. CalmTuple'
    <3>1. Among(Captured) /\ (Among(Windowed)' /\ This \in Stateful => Among(Windowed))
      BY <1>18, <2>1, <2>4, <2>5 DEF RbStart, InTx, Among, InFlight, Captured, Windowed, Before
    <3>2. Keeps /\ tx'.touched \cap Stateful \subseteq {This} /\ snaps' = snaps
      BY <1>18, <1>c, <2>1, <2>5, <3>1, TxKeeps DEF RbStart, Keeps, run, disk, CalmTuple
    <3>. QED  BY <1>c, <2>2, <2>3, <3>1, <3>2, CalmTupleKept
  <2>8. CalmPlaces'
    BY <1>c, <2>1, <2>3, <2>4, <2>5 DEF CalmPlaces, Among
  <2>. QED  BY <2>6, <2>7, <2>8
<1>19. CASE RbProve
  <2>1. lock \in Runs /\ lock # Nobody /\ lock' = lock /\ This \in Kinds /\ Among(InFlight) /\ ~Fault
    BY <1>19, <1>0, <1>x, <1>f DEF RbProve, InTx, RunType, Among, InFlight, disk
  <2>2. CalmElsewhere
    BY <1>19, <1>d, <1>x, <2>1, CalmElsewhereStep DEF Forward, Rollback
  <2>3. This' = This /\ Target' = Target
    BY <1>19, <2>1, <2>2, SameTarget DEF RbProve, run, Concludes, Abandon, CalmElsewhere
  <2>4. at' \in [Runs -> Places] /\ DOMAIN at = Runs
    BY <1>r DEF RunType
  <2>5. at'[lock] = "finish" /\ UNCHANGED <<running, unit, store, villa>>
    <3>1. at' = [at EXCEPT ![lock] = "finish"]
      BY <1>19 DEF RbProve, Concludes, Go
    <3>2. UNCHANGED <<running, unit, store, villa>>
      BY <1>19 DEF RbProve, stack, host
    <3>. QED  BY <2>1, <2>4, <3>1, <3>2
  <2>6. \A k \in Stateful : Standing(k)'
    BY <1>c, <1>s, <2>1, <2>2, <2>5, StandsKept DEF Standing
  <2>7. CalmTuple'
    BY <2>1, <2>4, <2>5 DEF CalmTuple, Among, Captured, Windowed, InFlight, Before
  <2>8. CalmPlaces'
    BY <1>c, <2>1, <2>3, <2>4, <2>5 DEF CalmPlaces, Among
  <2>. QED  BY <2>6, <2>7, <2>8
<1>20. CASE RbAbandon
  BY <1>20, <1>c DEF RbAbandon, InTx, CalmPlaces, Among
<1>21. CASE Finish
  <2>1. lock \in Runs /\ lock # Nobody /\ UNCHANGED <<lock, villa, store, unit, running>>
    BY <1>21 DEF Finish, InTx, host, stack, RunType
  <2>2. at'[lock] \in {"prune", "release", "cleanup"}
    BY <1>21, <2>1 DEF Finish, Go, RunType
  <2>. QED
    BY <1>c, <2>1, <2>2 DEF Standing, CalmTuple, CalmPlaces, Among, Captured, Windowed, InFlight, Before
<1>22. CASE Prune
  <2>1. lock \in Runs /\ lock # Nobody /\ UNCHANGED <<lock, villa, store, unit, running>>
    BY <1>22 DEF Prune, InTx, host, stack, RunType
  <2>2. at'[lock] \in {"prune", "release", "cleanup"}
    BY <1>22, <2>1 DEF Prune, Go, RunType
  <2>. QED
    BY <1>c, <2>1, <2>2 DEF Standing, CalmTuple, CalmPlaces, Among, Captured, Windowed, InFlight, Before
<1>23. CASE SnapshotCleanup
  <2>1. lock \in Runs /\ lock # Nobody /\ UNCHANGED <<lock, villa, store, unit, running>>
    BY <1>23 DEF SnapshotCleanup, InTx, host, stack, RunType
  <2>2. at'[lock] \in {"prune", "release", "cleanup"}
    BY <1>23, <2>1 DEF SnapshotCleanup, Go, RunType
  <2>. QED
    BY <1>c, <2>1, <2>2 DEF Standing, CalmTuple, CalmPlaces, Among, Captured, Windowed, InFlight, Before
<1>24. CASE Release
  <2>1. lock' = Nobody /\ UNCHANGED <<villa, store, unit, running>>
    BY <1>24 DEF Release, End, host
  <2>. QED  BY <1>c, <2>1 DEF Standing, CalmTuple, CalmPlaces, Among
<1>25. CASE Crash
  <2>1. lock' = Nobody /\ UNCHANGED <<villa, store, unit, running>>
    BY <1>25 DEF Crash, End, host
  <2>. QED  BY <1>c, <2>1 DEF Standing, CalmTuple, CalmPlaces, Among
<1>26. CASE Upgrade
  BY <1>26 DEF Upgrade, Calm
<1>27. CASE Publish
  <2>1. UNCHANGED <<lock, at, todo, got, tx, villa, store, unit, running, data, snaps>>
    BY <1>27 DEF Publish, run, stack, history, disk
  <2>. QED  BY <1>c, <2>1, StillCalm
<1>28. ASSUME NEW r \in Runs, Load(r) PROVE (\A k \in Stateful : Standing(k)') /\ CalmTuple' /\ CalmPlaces'
  <2>1. r # lock /\ UNCHANGED <<lock, todo, tx, villa, store, unit, running, data, snaps>>
    BY <1>28, UpdateAssumption DEF Load, Held, Free, run, host, stack, history, disk
  <2>2. lock # Nobody => at'[lock] = at[lock] /\ got'[lock] = got[lock]
    BY <1>28, <2>1 DEF Load, Leave, RunType, StoreType
  <2>. QED  BY <1>c, <2>1, <2>2, StillCalm
<1>29. ASSUME NEW r \in Runs, Fetch(r) PROVE (\A k \in Stateful : Standing(k)') /\ CalmTuple' /\ CalmPlaces'
  <2>1. r # lock /\ UNCHANGED <<lock, todo, tx, villa, store, unit, running, data, snaps>>
    BY <1>29, UpdateAssumption DEF Fetch, Held, Free, run, host, stack, history, disk
  <2>2. lock # Nobody => at'[lock] = at[lock] /\ got'[lock] = got[lock]
    BY <1>29, <2>1 DEF Fetch, Leave, RunType, StoreType
  <2>. QED  BY <1>c, <2>1, <2>2, StillCalm
<1>30. ASSUME NEW r \in Runs, Save(r) PROVE (\A k \in Stateful : Standing(k)') /\ CalmTuple' /\ CalmPlaces'
  <2>1. r # lock /\ UNCHANGED <<lock, todo, tx, got, villa, unit, running, data, snaps>>
    BY <1>30, UpdateAssumption DEF Save, Held, Free, run, host, stack, history, disk
  <2>2. lock # Nobody => at'[lock] = at[lock]
    BY <1>30, <2>1 DEF Save, RunType
  <2>3. store'.pins = store.pins
    <3>1. store' = store \/ (store' = Accept(seen[r], got[r]) /\ seen[r] = store)
      BY <1>30 DEF Save, Calm
    <3>2. Accept(seen[r], got[r]).pins = seen[r].pins
      BY AcceptIs DEF StoreType
    <3>. QED  BY <3>1, <3>2
  <2>. QED  BY <1>c, <2>1, <2>2, <2>3, StillCalm
<1>31. ASSUME NEW r \in Runs, Decide(r) PROVE (\A k \in Stateful : Standing(k)') /\ CalmTuple' /\ CalmPlaces'
  <2>1. r # lock /\ UNCHANGED <<lock, todo, tx, villa, store, unit, running, data, snaps>>
    BY <1>31, UpdateAssumption DEF Decide, Held, Free, run, host, stack, history, disk
  <2>2. lock # Nobody => at'[lock] = at[lock] /\ got'[lock] = got[lock]
    BY <1>31, <2>1 DEF Decide, Leave, RunType, StoreType
  <2>. QED  BY <1>c, <2>1, <2>2, StillCalm
<1>32. ASSUME NEW r \in Runs, Acquire(r) PROVE (\A k \in Stateful : Standing(k)') /\ CalmTuple' /\ CalmPlaces'
  <2>1. lock' = r /\ at'[r] = "prove" /\ UNCHANGED <<villa, store, unit, running>>
    BY <1>32 DEF Acquire, host, stack, RunType
  <2>. QED
    BY <1>c, <2>1 DEF Standing, CalmTuple, CalmPlaces, Among, Captured, Windowed, InFlight, Before
<1>. QED  BY <1>1, <1>2, <1>3, <1>4, <1>5, <1>6, <1>7, <1>8, <1>9, <1>10, <1>11, <1>12, <1>13,
         <1>14, <1>15, <1>16, <1>17, <1>18, <1>19, <1>20, <1>21, <1>22, <1>23, <1>24, <1>25, <1>26,
         <1>27, <1>28, <1>29, <1>30, <1>31, <1>32 DEF Next, Forward, Rollback, Ending, Check

----------------------------------------------------------------------------
(* The theorems.                                                           *)

\* A commit retains the snapshot it took before the new image wrote anything, so the way
\* back stays readable.
LEMMA BoundStep ==
  ASSUME Sane, Counted, Present, Working, Calmed, Bound, Next
  PROVE  Bound'
<1>. USE DEF Sane, TypeOK
<1>. SUFFICES ASSUME taint' = {} \/ Calm'
              PROVE  \A k \in Stateful : store'.prev[k] # NoTuple => snaps'[store'.prev[k].snap] <= store'.prev[k].ref
  BY DEF Bound
<1>c. (taint = {} \/ Calm) /\ ~Replaced /\ (taint' = {} \/ taint' = {"crashed"})
  BY TaintGrows, CalmStep DEF Calm, Replaced
<1>b. \A k \in Stateful : store.prev[k] # NoTuple =>
        snaps[store.prev[k].snap] <= store.prev[k].ref /\ store.prev[k].snap \in DOMAIN snaps
  BY <1>c, UpdateAssumption DEF Bound, Present
<1>1. CASE ProveCurrent \/ Capture \/ Pull \/ Stop \/ Reopen \/ Apply \/ Restart \/ StartNew \/ ProveNew \/ RbStop \/
            RbData \/ RbUnits \/ RbRestart \/ RbStart \/ RbProve \/ RbAbandon \/ Finish \/ Prune \/ Release \/ Crash \/
            Upgrade \/ Publish
  BY <1>1, <1>b DEF ProveCurrent, Capture, Pull, Stop, Reopen, Apply, Restart, StartNew, ProveNew,
         RbStop, RbData, RbUnits, RbRestart, RbStart, RbProve, RbAbandon, Finish, Prune, Release,
         Crash, Upgrade, Publish, host, stack, disk, run, history, End
<1>2. CASE Snapshot
  <2>1. This \in Stateful /\ store' = store
    BY <1>2 DEF Snapshot, InTx, Among, TupleHeld, TxPlaced
  <2>2. DOMAIN snaps \subseteq Stateful \X (1 .. exports) /\ exports \in Nat
    BY DEF DiskType, Snapshots
  <2>3. SnapshotPath(This) \notin DOMAIN snaps
    BY <2>2, SMT DEF SnapshotPath
  <2>. HIDE DEF SnapshotPath
  <2>4. \A s \in DOMAIN snaps : snaps'[s] = snaps[s]
    BY <1>2, <2>3 DEF Snapshot
  <2>. QED  BY <1>b, <2>1, <2>4
<1>3. CASE WritePins
  <2>1. This \in Kinds /\ Target \in Image /\ snaps' = snaps
    BY <1>3, ThisIsToDo, TargetType
    DEF WritePins, InTx, RunType, Held, Among, InFlight, Captured, TupleHeld, TxPlaced, disk
  <2>2. store'.prev = store.prev
    <3>1. store' = store \/ store' = Record(store, This, Target)
      BY <1>3 DEF WritePins, PinBack
    <3>2. Record(store, This, Target).prev = store.prev
      BY <2>1, RecordIs DEF StoreType
    <3>. QED  BY <3>1, <3>2
  <2>. QED  BY <1>b, <2>1, <2>2
<1>4. CASE Commit
  <2>1. lock # Nobody /\ This \in Kinds /\ snaps' = snaps /\ Among(Captured) /\ Among(Windowed)
    BY <1>4, ThisIsToDo
    DEF Commit, InTx, RunType, Held, Among, InFlight, Captured, Windowed, Before, disk
  <2>2. Target \in Image /\ tx.ref \in Image /\ tx.ref \in Nat /\ tx.snap \in Snapshots \cup {NoTuple}
    BY <2>1, TargetType, ImageType DEF TupleHeld, TxPlaced, TxType, Tuples
  <2>3. This \in Stateful => snaps[tx.snap] <= tx.ref
    <3>1. CASE taint = {}
      BY <2>1, <2>2, <3>1 DEF Working, TxHeld
    <3>2. CASE Calm
      BY <2>1, <3>2 DEF Calmed, CalmTuple
    <3>. QED  BY <1>c, <3>1, <3>2
  <2>4. Record(store, This, Target) \in Stores /\ Record(store, This, Target).prev = store.prev
    BY <2>1, <2>2, RecordIs DEF StoreType
  <2>5. [ref |-> tx.ref, snap |-> tx.snap] \in [ref : Image, snap : Snapshots \cup {NoTuple}]
    BY <2>2
  <2>6. \/ store' = store
        \/ store' = Retain(Record(store, This, Target), This, [ref |-> tx.ref, snap |-> tx.snap])
    BY <1>4, Zenon DEF Commit
  <2>7. Retain(Record(store, This, Target), This, [ref |-> tx.ref, snap |-> tx.snap]).prev
          = [Record(store, This, Target).prev EXCEPT ![This] = [ref |-> tx.ref, snap |-> tx.snap]]
    BY <2>1, <2>4, <2>5, RetainIs, Zenon
  <2>8. \/ store' = store
        \/ store'.prev = [store.prev EXCEPT ![This] = [ref |-> tx.ref, snap |-> tx.snap]]
    BY <2>4, <2>6, <2>7
  <2>9. DOMAIN store.prev = Kinds /\ Stateful \subseteq Kinds
    BY UpdateAssumption DEF StoreType, Stores
  <2>10. \A k \in Stateful : store'.prev[k] = store.prev[k] \/ (k = This /\ store'.prev[k] = [ref |-> tx.ref, snap |-> tx.snap])
    BY <2>8, <2>9
  <2>. QED  BY <1>b, <2>1, <2>3, <2>10
<1>5. CASE RbPins
  <2>1. This \in Kinds /\ tx.ref \in Image /\ snaps' = snaps
    BY <1>5, ThisIsToDo, TargetType
    DEF RbPins, InTx, RunType, Held, Among, InFlight, Captured, TupleHeld, TxPlaced, disk
  <2>2. store'.prev = store.prev
    <3>1. store' = store \/ store' = Record(store, This, tx.ref)
      BY <1>5 DEF RbPins, PinBack
    <3>2. Record(store, This, tx.ref).prev = store.prev
      BY <2>1, RecordIs DEF StoreType
    <3>. QED  BY <3>1, <3>2
  <2>. QED  BY <1>b, <2>1, <2>2
<1>6. CASE SnapshotCleanup
  <2>1. store' = store
    BY <1>6 DEF SnapshotCleanup
  <2>2. \A k \in Stateful : store.prev[k] # NoTuple => store.prev[k].snap \notin Reclaimed
    <3>. SUFFICES ASSUME NEW k \in Stateful, store.prev[k] # NoTuple, store.prev[k].snap \in Reclaimed PROVE FALSE
      OBVIOUS
    <3>1. k \in Kinds /\ store.prev[k].snap # NoTuple
      BY <1>b, NotASnapshot, UpdateAssumption DEF DiskType
    <3>. QED  BY <3>1 DEF Reclaimed, LiveTargets
  <2>. HIDE DEF Reclaimed
  <2>3. \A s \in DOMAIN snaps \ Reclaimed : snaps'[s] = snaps[s]
    BY <1>6 DEF SnapshotCleanup
  <2>. QED  BY <1>b, <2>1, <2>2, <2>3
<1>7. ASSUME NEW r \in Runs, Load(r) \/ Fetch(r) \/ Decide(r) \/ Acquire(r) PROVE \A k \in Stateful : store'.prev[k] # NoTuple => snaps'[store'.prev[k].snap] <= store'.prev[k].ref
  BY <1>7, <1>b DEF Load, Fetch, Decide, Acquire, host, stack, disk, run, history
<1>8. ASSUME NEW r \in Runs, Save(r) PROVE \A k \in Stateful : store'.prev[k] # NoTuple => snaps'[store'.prev[k].snap] <= store'.prev[k].ref
  <2>1. store' = store \/ (store' = Accept(seen[r], got[r]) /\ seen[r] = store)
    BY <1>8, <1>c DEF Save
  <2>2. Accept(seen[r], got[r]).prev = seen[r].prev
    BY AcceptIs DEF StoreType
  <2>3. store'.prev = store.prev /\ snaps' = snaps
    BY <1>8, <2>1, <2>2 DEF Save, disk
  <2>. QED  BY <1>b, <2>3
<1>. QED  BY <1>1, <1>2, <1>3, <1>4, <1>5, <1>6, <1>7, <1>8 DEF Next, Forward, Rollback, Ending, Check

\* The pins and the proofs describe the stack, the way back is there, and the record
\* of a run under way is what its rollback needs.
Safe == Sane /\ Present /\ Unhalted /\ ProvenType /\ Rested /\ Working /\ Counted /\ Calmed /\ Bound

\* A fresh install is safe.
LEMMA SafeInit == Init => Safe
<1>. SUFFICES ASSUME Init PROVE Safe
  OBVIOUS
<1>1. Sane
  BY SaneInit
<1>2. lock = Nobody /\ taint = {} /\ faults = 0 /\ villa = 1 /\ displaced.refs = {}
  BY DEF Init, NoneDisplaced
<1>3. \A k \in Kinds : running[k] = unit[k] /\ unit[k] = Table[1][k] /\ store.pins[k] = Unpinned
                       /\ store.prev[k] = NoTuple /\ Table[1][k] \in images
  BY PinAssumption DEF Init, Fresh
<1>4. proven = [k \in Kinds |-> {Table[1][k]}]
  BY DEF Init
<1>5. \A k \in Kinds : Resolve(store, villa, k) = Table[1][k]
  BY <1>2, <1>3 DEF Resolve
<1>6. \A k \in Stateful : data[k] = unit[k]
  BY <1>3, UpdateAssumption DEF Init
<1>7. Unhalted /\ Working /\ Counted
  BY <1>2 DEF Unhalted, Working, TxHeld, TxForward, TxBack, Counted, Among
<1>8. ProvenType
  BY <1>4, TableType, PinAssumption DEF ProvenType
<1>9. Calmed
  BY <1>2, <1>3, <1>5, UpdateAssumption DEF Calmed, Standing, CalmTuple, CalmPlaces, Among
<1>10. Bound /\ Present
  BY <1>2, <1>3, UpdateAssumption DEF Bound, Present, Among
<1>11. Rested
  <2>1. \A k \in Kinds : Agrees(k)
    BY <1>3, <1>5, <1>6 DEF Agrees
  <2>2. before = [unit |-> unit, running |-> running, data |-> data] /\ unit \in [Kinds -> Image]
    BY <1>1 DEF Init, Sane, TypeOK, StackType
  <2>. QED  BY <1>2, <1>3, <1>6, <2>1, <2>2 DEF Rested
<1>. QED  BY <1>1, <1>7, <1>8, <1>9, <1>10, <1>11 DEF Safe

\* Every step keeps the whole invariant.
LEMMA SafeStep == Safe /\ [Next]_vars => Safe'
<1>. SUFFICES ASSUME Safe, [Next]_vars PROVE Safe'
  OBVIOUS
<1>. USE DEF Safe
<1>1. CASE Next
  <2>1. Sane' /\ Present'
    BY <1>1, SaneStep, PresentStep
  <2>2. Unhalted' /\ ProvenType'
    BY <1>1, UnhaltedStep, ProvenStep DEF Sane
  <2>3. Rested' /\ Working'
    BY <1>1, RestedStep, WorkingStep
  <2>4. Counted' /\ Calmed' /\ Bound'
    BY <1>1, CountedStep, CalmedStep, BoundStep DEF Sane, TypeOK
  <2>. QED  BY <2>1, <2>2, <2>3, <2>4
<1>2. CASE UNCHANGED vars
  <2>1. Sane'
    BY <1>2, SaneStep
  <2>2. UNCHANGED <<villa, published, store, unit, running, data, images, snaps, exports, lock, at, seen, got,
                    todo, tx, result, displaced, faults, before, proven, taint>>
    BY <1>2 DEF vars, host, stack, disk, run, history
  <2>3. This' = This
    BY <2>2, SameThis
  <2>4. Target' = Target
    BY <2>2, <2>3, SameTarget
  <2>5. Old' = Old
    BY <2>2, <2>3 DEF Old
  <2>6. Unhalted' /\ ProvenType' /\ Counted'
    BY <2>2 DEF Unhalted, ProvenType, Counted, Among
  <2>7. Rested'
    BY <2>2, <2>3 DEF Rested, InWork, Agrees, Resolve, Among
  <2>8. Working'
    BY <2>2, <2>3, StillWorking DEF Working
  <2>9. Present'
    BY <2>2, <2>3, <2>4 DEF Present, Replaced, Among
  <2>10. Calmed'
    BY <2>2, StillCalm DEF Calmed, Calm
  <2>11. Bound'
    BY <2>2 DEF Bound, Calm
  <2>. QED  BY <2>1, <2>6, <2>7, <2>8, <2>9, <2>10, <2>11
<1>. QED  BY <1>1, <1>2

\* The invariant everything below rests on holds in every behaviour of the update.
THEOREM UpdateIsSafe == Spec => []Safe
BY SafeInit, SafeStep, PTL DEF Spec

\* Every variable of the update keeps its type, the record's fields included.
THEOREM UpdateTypes == Spec => []TypeOK
<1>1. Safe => TypeOK
  BY DEF Safe, Sane
<1>. QED  BY <1>1, UpdateIsSafe, PTL

\* The image and the snapshot a retained tuple names are there for a rollback, unless a stale
\* save or an upgrade replaced what it refers to; and that snapshot is not newer than its
\* image, also after one death (pinstore.go retains, update_prune.go removes).
THEOREM WayBackIsThere == Spec => []RollbackTargetRestorable
<1>1. Safe => RollbackTargetRestorable
  <2>. SUFFICES ASSUME Safe, taint \cap {"clobbered", "upgraded"} = {}, NEW k \in Kinds, store.prev[k] # NoTuple
                PROVE  /\ store.prev[k].ref \in images
                       /\ k \in Stateful => store.prev[k].snap \in DOMAIN snaps
                       /\ k \in Stateful /\ (taint = {} \/ (taint = {"crashed"} /\ faults = 1)) =>
                            snaps[store.prev[k].snap] <= store.prev[k].ref
    BY DEF RollbackTargetRestorable
  <2>1. store.prev[k].ref \in images /\ (k \in Stateful => store.prev[k].snap \in DOMAIN snaps)
    BY DEF Safe, Present, Replaced
  <2>2. k \in Stateful /\ (taint = {} \/ (taint = {"crashed"} /\ faults = 1)) =>
          snaps[store.prev[k].snap] <= store.prev[k].ref
    BY DEF Safe, Bound, Calm
  <2>. QED  BY <2>1, <2>2
<1>. QED  BY <1>1, UpdateIsSafe, PTL

\* What `villa update` records runs, the pins are of proven images, the way back is there,
\* and the outcome printed is what the stack shows (update_apply.go: the per-subsystem
\* transaction and its report).
THEOREM UpdateReportsTrue == Spec => []ReportsAreTrue
<1>1. Safe => WhatIsRecordedRuns /\ PinsAreProven
  <2>. SUFFICES ASSUME Safe, lock = Nobody, taint = {}, NEW k \in Kinds
                PROVE  Agrees(k)
    BY DEF WhatIsRecordedRuns, PinsAreProven, Agrees
  <2>. QED  BY DEF Safe, Sane, Held, Rested, InWork, Among
<1>2. Safe => OutcomeIsHonest
  <2>. SUFFICES ASSUME Safe, InTx("finish"), taint = {}, NEW k \in Kinds
                PROVE  /\ result[k] \in {"not_tried", "refused", "rolled_back"} => AsBefore(k)
                       /\ result[k] \in {"committed", "unrecorded"} => running[k] = Table[got[lock]][k] /\ unit[k] = running[k]
    BY DEF OutcomeIsHonest
  <2>1. lock # Nobody /\ ~InWork(k)
    BY DEF InTx, InWork, Among, Work
  <2>2. result[k] # "incomplete" => Agrees(k)
    BY <2>1 DEF Safe, Rested
  <2>3. /\ result[k] \in {"not_tried", "refused", "rolled_back"} => unit[k] = before.unit[k]
        /\ result[k] \in {"committed", "unrecorded"} => unit[k] = Table[got[lock]][k]
        /\ before.running[k] = before.unit[k] /\ (k \in Stateful => before.data[k] = before.unit[k])
    BY <2>1 DEF Safe, Rested
  <2>. QED  BY <2>2, <2>3 DEF Agrees, AsBefore
<1>. QED  BY <1>1, <1>2, UpdateIsSafe, WayBackIsThere, PTL DEF ReportsAreTrue

----------------------------------------------------------------------------
(* Data.                                                                   *)

\* Data is migrated only by a step of the update that took its snapshot, of that very data.
LEMMA MigrationStep ==
  ASSUME Safe, Next
  PROVE  MigratesWithSnapshot
<1>. USE DEF Safe, Sane, TypeOK
<1>0. Among(InFlight) => This \in todo /\ This \in Kinds
  BY ThisIsToDo DEF RunType, Held
<1>. SUFFICES ASSUME taint = {}, NEW j \in Stateful, Migrates(j) PROVE Snapshotted(j)
  BY DEF MigratesWithSnapshot
<1>h. TxHeld /\ TxForward /\ TxBack
  BY DEF Working
<1>n. before.unit \in [Kinds -> Image] /\ j \in Kinds
  BY UpdateAssumption DEF Rested
<1>m. data[j] # Lost /\ data'[j] # Lost /\ data'[j] > data[j] /\ data[j] \in Nat /\ data'[j] \in Nat
  <2>1. StackType'
    BY StackStep
  <2>. QED  BY <2>1, ImageType DEF Migrates, StackType
<1>1. CASE ProveCurrent \/ Capture \/ Pull \/ Stop \/ Snapshot \/ WritePins \/ Apply \/ ProveNew \/ Commit \/ RbStop \/
            RbPins \/ RbUnits \/ RbProve \/ Finish \/ Prune \/ SnapshotCleanup \/ Release \/ Upgrade \/ Publish
  BY <1>1, <1>m DEF ProveCurrent, Capture, Pull, Stop, Snapshot, WritePins, Apply, ProveNew,
         Commit, RbStop, RbPins, RbUnits, RbProve, Finish, Prune, SnapshotCleanup, Release, Upgrade,
         Publish, host, stack, disk, run, history, End
<1>2. CASE Reopen
  <2>0. taint' = {}
    BY <1>2 DEF Reopen
  <2>1. Elsewhere /\ This \in Kinds /\ Among(InFlight) /\ lock # Nobody /\ todo # {}
    BY <1>2, <1>0, <2>0, ElsewhereStep DEF Reopen, InTx, Among, InFlight, Forward, Rollback
  <2>2. This = j
    BY <1>m, <2>1 DEF Elsewhere
  <2>3. Old \in Image /\ Old \in Nat /\ Target \in Nat /\ Max({Old, Old}) = Old /\ Grown \in {Old, Target} /\ Grown >= Old /\ Grown >= Target
    BY <1>n, <2>1, TargetType, ImageType, MaxOfTwo DEF Old, Grown
  <2>4. data[j] = Old /\ unit[j] = Old
    BY <1>2, <1>h, <2>1, <2>2 DEF Reopen, InTx, TxForward, Among, DataIn
  <2>5. Start({This}) \/ data' = data
    BY <1>2 DEF Reopen
  <2>. QED  BY <1>m, <2>1, <2>2, <2>3, <2>4, <2>5, StartDoes DEF StackType
<1>3. CASE Restart
  <2>0. taint' = {}
    BY <1>3 DEF Restart
  <2>1. Elsewhere /\ This \in Kinds /\ Among(InFlight) /\ lock # Nobody /\ todo # {}
    BY <1>3, <1>0, <2>0, ElsewhereStep DEF Restart, InTx, Among, InFlight, Forward, Rollback
  <2>2. This = j
    BY <1>m, <2>1 DEF Elsewhere
  <2>3. Old \in Image /\ Old \in Nat /\ Target \in Nat /\ Max({Old, Old}) = Old /\ Grown \in {Old, Target} /\ Grown >= Old /\ Grown >= Target
    BY <1>n, <2>1, TargetType, ImageType, MaxOfTwo DEF Old, Grown
  <2>4. tx.left \subseteq {This} /\ (This \in tx.left => data[j] = Old) /\ tx.snap # NoTuple /\ snaps[tx.snap] = Old
    BY <1>3, <1>h, <2>1, <2>2
    DEF Restart, InTx, TxForward, TxHeld, TupleHeld, TxPlaced, Among, InFlight, Windowed, Before, DataIn
  <2>5. This \in tx.left
    <3>1. data' = data \/ \E k \in tx.left : Start({k})
      BY <1>3, Zenon DEF Restart
    <3>2. data' # data
      BY <1>m
    <3>3. tx.left # {}
      BY <3>1, <3>2, Zenon
    <3>. QED  BY <2>4, <3>3
  <2>. QED  BY <2>1, <2>2, <2>4, <2>5 DEF Snapshotted
<1>4. CASE StartNew
  <2>0. taint' = {}
    BY <1>4 DEF StartNew
  <2>1. Elsewhere /\ This \in Kinds /\ Among(InFlight) /\ lock # Nobody /\ todo # {}
    BY <1>4, <1>0, <2>0, ElsewhereStep DEF StartNew, InTx, Among, InFlight, Forward, Rollback
  <2>2. This = j
    BY <1>m, <2>1 DEF Elsewhere
  <2>3. Old \in Image /\ Old \in Nat /\ Target \in Nat /\ Max({Old, Old}) = Old /\ Grown \in {Old, Target} /\ Grown >= Old /\ Grown >= Target
    BY <1>n, <2>1, TargetType, ImageType, MaxOfTwo DEF Old, Grown
  <2>4. running[This] = Target /\ Target \in Image
    BY <1>4, <1>h, <2>1, TargetType DEF StartNew, InTx, TxForward, Among
  <2>5. data' = data
    BY <1>4, <2>4, NotAnImage DEF StartNew, StartDown
  <2>. QED  BY <1>m, <2>5
<1>5. CASE RbData
  <2>0. taint' = {}
    BY <1>5 DEF RbData
  <2>1. Elsewhere /\ This \in Kinds /\ Among(InFlight) /\ lock # Nobody /\ todo # {}
    BY <1>5, <1>0, <2>0, ElsewhereStep DEF RbData, InTx, Among, InFlight, Forward, Rollback
  <2>2. This = j
    BY <1>m, <2>1 DEF Elsewhere
  <2>3. Old \in Image /\ Old \in Nat /\ Target \in Nat /\ Max({Old, Old}) = Old /\ Grown \in {Old, Target} /\ Grown >= Old /\ Grown >= Target
    BY <1>n, <2>1, TargetType, ImageType, MaxOfTwo DEF Old, Grown
  <2>4. data[j] \in {Old, Grown} /\ snaps[tx.snap] = Old
    BY <1>5, <1>h, <2>1, <2>2
    DEF RbData, InTx, TxBack, TxHeld, Among, InFlight, Windowed, Before, DataIn
  <2>5. data'[j] \in {data[j], Lost, snaps[tx.snap]}
    BY <1>5, <2>1, <2>2 DEF RbData, StackType
  <2>. QED  BY <1>m, <2>3, <2>4, <2>5
<1>6. CASE RbRestart
  <2>0. taint' = {}
    BY <1>6 DEF RbRestart
  <2>1. Elsewhere /\ This \in Kinds /\ Among(InFlight) /\ lock # Nobody /\ todo # {}
    BY <1>6, <1>0, <2>0, ElsewhereStep DEF RbRestart, InTx, Among, InFlight, Forward, Rollback
  <2>2. This = j
    BY <1>m, <2>1 DEF Elsewhere
  <2>3. Old \in Image /\ Old \in Nat /\ Target \in Nat /\ Max({Old, Old}) = Old /\ Grown \in {Old, Target} /\ Grown >= Old /\ Grown >= Target
    BY <1>n, <2>1, TargetType, ImageType, MaxOfTwo DEF Old, Grown
  <2>4. data[j] = Old /\ unit[j] = Old /\ tx.left \subseteq {This}
    BY <1>6, <1>h, <2>1, <2>2 DEF RbRestart, InTx, TxBack, Among, DataIn
  <2>5. Start({This}) \/ data' = data
    <3>1. data' = data \/ \E k \in tx.left : Start({k})
      BY <1>6, Zenon DEF RbRestart
    <3>. QED  BY <2>4, <3>1
  <2>. QED  BY <1>m, <2>1, <2>2, <2>3, <2>4, <2>5, StartDoes DEF StackType
<1>7. CASE RbStart
  <2>0. taint' = {}
    BY <1>7 DEF RbStart
  <2>1. Elsewhere /\ This \in Kinds /\ Among(InFlight) /\ lock # Nobody /\ todo # {}
    BY <1>7, <1>0, <2>0, ElsewhereStep DEF RbStart, InTx, Among, InFlight, Forward, Rollback
  <2>2. This = j
    BY <1>m, <2>1 DEF Elsewhere
  <2>3. Old \in Image /\ Old \in Nat /\ Target \in Nat /\ Max({Old, Old}) = Old /\ Grown \in {Old, Target} /\ Grown >= Old /\ Grown >= Target
    BY <1>n, <2>1, TargetType, ImageType, MaxOfTwo DEF Old, Grown
  <2>4. data[j] = Old /\ unit[j] = Old
    BY <1>7, <1>h, <2>1, <2>2 DEF RbStart, InTx, TxBack, Among, DataIn
  <2>5. Start({This}) \/ data' = data
    BY <1>7 DEF RbStart, StartDown
  <2>. QED  BY <1>m, <2>1, <2>2, <2>3, <2>4, <2>5, StartDoes DEF StackType
<1>8. CASE RbAbandon
  <2>0. taint' = {}
    BY <1>8 DEF RbAbandon
  <2>1. Elsewhere /\ This \in Kinds /\ Among(InFlight) /\ lock # Nobody /\ todo # {}
    BY <1>8, <1>0, <2>0, ElsewhereStep DEF RbAbandon, InTx, Among, InFlight, Forward, Rollback
  <2>2. This = j
    BY <1>m, <2>1 DEF Elsewhere
  <2>3. Old \in Image /\ Old \in Nat /\ Target \in Nat /\ Max({Old, Old}) = Old /\ Grown \in {Old, Target} /\ Grown >= Old /\ Grown >= Target
    BY <1>n, <2>1, TargetType, ImageType, MaxOfTwo DEF Old, Grown
  <2>4. data[j] \in {Lost, Old, Grown} /\ unit[j] \in {Old, Target} /\ tx.snap # NoTuple /\ snaps[tx.snap] = Old
    BY <1>8, <1>h, <2>1, <2>2
    DEF RbAbandon, InTx, TxBack, TxHeld, TupleHeld, TxPlaced, Among, InFlight, Windowed, Before, DataIn
  <2>5. Start({This})
    BY <1>8, <1>m DEF RbAbandon, StartDown
  <2>6. data'[j] = Max({data[j], unit[j]})
    BY <1>m, <2>1, <2>2, <2>5, StartDoes DEF StackType
  <2>7. data[j] = Old
    <3>. SUFFICES ASSUME data[j] = Grown PROVE data'[j] = data[j]
      BY <1>m, <2>4
    <3>1. Max({Grown, unit[j]}) \in {Grown, unit[j]} /\ Max({Grown, unit[j]}) >= Grown /\ unit[j] <= Grown
      BY <2>3, <2>4, MaxOfTwo
    <3>. QED  BY <1>m, <2>3, <2>4, <2>6, <3>1
  <2>. QED  BY <2>1, <2>2, <2>4, <2>7 DEF Snapshotted
<1>9. CASE Crash
  <2>1. data'[j] \in {data[j], Lost}
    BY <1>9, <1>n DEF Crash, StackType
  <2>. QED  BY <1>m, <2>1
<1>10. ASSUME NEW r \in Runs, Load(r) \/ Fetch(r) \/ Save(r) \/ Decide(r) \/ Acquire(r) PROVE Snapshotted(j)
  BY <1>10, <1>m DEF Load, Fetch, Save, Decide, Acquire, host, stack, disk, run, history
<1>. QED
  BY <1>1, <1>2, <1>3, <1>4, <1>5, <1>6, <1>7, <1>8, <1>9, <1>10
  DEF Next, Forward, Rollback, Ending, Check

\* In a safe state every stateful subsystem reads its data, or a copy of it is left.
LEMMA SafeDataIsThere == Safe => DataIsThere
<1>. SUFFICES ASSUME Safe PROVE DataReadable /\ LostDataHasACopy
  BY DEF DataIsThere
<1>1. LostDataHasACopy
  BY DEF Safe, Sane, Saved
<1>2. ASSUME lock = Nobody, taint = {}, NEW k \in Stateful PROVE ReadsItsData(k)
  <2>1. k \in Kinds /\ Agrees(k)
    BY <1>2, UpdateAssumption DEF Safe, Sane, Held, Rested, InWork, Among
  <2>2. unit[k] \in Nat /\ unit[k] # Lost
    BY <2>1, ImageType, NotAnImage DEF Safe, Sane, TypeOK, StackType
  <2>. QED  BY <1>2, <2>1, <2>2 DEF Agrees, ReadsItsData
<1>. QED  BY <1>1, <1>2 DEF DataReadable

\* No update costs the operator data, and none migrates data it has not snapshotted
\* (update_snapshot.go, update_apply.go).
THEOREM UpdateKeepsData == Spec => DataSurvives
<1>1. Safe => DataIsThere
  BY SafeDataIsThere
<1>2. ASSUME Safe, [Next]_vars PROVE [DataIsThere' /\ MigratesWithSnapshot]_vars
  <2>1. Safe'
    BY <1>2, SafeStep
  <2>2. DataIsThere'
    BY <2>1, SafeDataIsThere, PTL
  <2>3. CASE Next
    BY <1>2, <2>2, <2>3, MigrationStep
  <2>4. CASE UNCHANGED vars
    BY <2>4
  <2>. QED  BY <1>2, <2>3, <2>4
<1>. QED  BY <1>1, <1>2, UpdateIsSafe, PTL DEF Spec, DataSurvives

=============================================================================

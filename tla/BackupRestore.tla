---------------------------- MODULE BackupRestore ----------------------------
(***************************************************************************)
(* villa backup and villa restore (internal/backup), over the host and the *)
(* Apply of StackApply.  A backup stops each service, exports its volume,  *)
(* reads the files, starts the services and publishes the archive.  A      *)
(* restore, all of it but its first look at the host under the stack lock, *)
(*                                                                         *)
(*   verify, skew, capture, quiesce, save, files, volumes, restart, prove  *)
(*                                                                         *)
(* where a volume is removed, its units re-applied, created and imported;  *)
(* any failure from the quiesce on re-applies the captured set the same    *)
(* way.  Running services write to their volumes meanwhile.                *)
(*                                                                         *)
(* A volume is named by the service that mounts it.  Its content is where  *)
(* it came from and how many writes it has had since.                      *)
(***************************************************************************)
EXTENDS StackApply, SequencesExt

CONSTANTS
  Backups, Restores,
  Service, Chat, Qdrant,    \* inference, which is proven, and the two with a volume
  MemoryOn,                 \* the configs with memory on
  Rows,                     \* the plain files of the registry
  BackupGate, RestoreGate,  \* of each row: the configs that put it in play
  Archives,                 \* what the operator may have to restore
  MaxWrites                 \* bound on the writes since a volume was made

Volumes == {Chat, Qdrant}
Absent == [of |-> "nowhere", n |-> 0]
Origin == {"host", "archive", "empty", "torn", "mixed"}
Stored == [of : Origin, n : 0 .. MaxWrites]
Empty  == [of |-> "empty", n |-> 0]
Torn   == [of |-> "torn", n |-> 0]
Mixed  == [of |-> "mixed", n |-> 0]
FileText == {"mine", "theirs", "torn"}
Archive == [cfg : Config, vols : [Volumes -> Stored \cup {Absent}],
            files : [Rows -> FileText \cup {None}],
            trust : {"corrupt", "blocked", "skewed", "matching"}]

ASSUME ArchiveAssumption ==
  /\ Backups \cup Restores = Procs /\ Backups \cap Restores = {}
  /\ {Service, Chat, Qdrant} \subseteq Services \cap Registry
  /\ Chat # Qdrant /\ Service \notin Volumes
  /\ \A c \in Configs : None \notin {Rendered[c][Service], Rendered[c][Chat]}
  /\ MemoryOn \subseteq Configs
  /\ BackupGate \in [Rows -> SUBSET Configs] /\ RestoreGate \in [Rows -> SUBSET Configs]
  /\ Archives \subseteq Archive
  /\ \A a \in Archives : a.vols[Chat] # Absent /\ \A v \in Volumes : a.vols[v].of # "mixed"
  /\ MaxWrites \in Nat

VARIABLES
  servedKey,  \* the key inference was started with
  vol,        \* the podman volumes
  file,       \* the registry's plain files
  archive,    \* the archive at the path both verbs use
  facts,      \* what each restore saw of the host before it waited for the lock
  tmp,        \* the rollback tars in its temp directory
  tx,         \* the restore that holds the lock
  bk,         \* the backup that holds the lock
  was         \* history: the host when the lock was taken, and each volume when its
              \* service was stopped

mine == <<servedKey, vol, file, archive, facts, tmp, tx, bk, was>>
kept == <<prior, next, captured, base, todo, restarted>>
vars == <<lock, host, pc, kept, out, faults, mine>>

AnyConfig == CHOOSE c \in Config : TRUE
NoFacts == [exists |-> "no", dests |-> {}]
NoTars  == [v \in Volumes |-> Absent]
NoTx == [arch |-> None, way |-> "forward", v |-> Chat, ok |-> TRUE, files |-> None]
NoBk == [want |-> {}, v |-> Chat, stopped |-> <<>>, took |-> NoTars, files |-> None, failed |-> FALSE, warned |-> FALSE]

\* A host some config was applied to, with the volumes its services have made.
Init ==
  /\ lock = Free
  /\ cfg \in Config /\ env = cfg.key /\ servedKey = cfg.key
  /\ \E c \in Configs \ Unrenderable : disk = Rendered[c]
  /\ loaded = disk
  /\ run \in [Services -> Texts \cup {Down}] /\ \A s \in Services : run[s] \in {Down, disk[s]} \ {None}
  /\ vol \in [Volumes -> {Absent, [of |-> "host", n |-> 0]}]
  /\ \A v \in Volumes : run[v] # Down => vol[v] # Absent
  /\ file \in [Rows -> {"mine", None}]
  /\ archive \in Archives
  /\ pc = [p \in Procs |-> "idle"]
  /\ prior = [p \in Procs |-> AnyConfig] /\ next = prior
  /\ captured = [p \in Procs |-> [u \in Units |-> None]]
  /\ base = [p \in Procs |-> [s \in Services |-> Down]]
  /\ todo = [p \in Procs |-> [u \in Units |-> "keep"]]
  /\ restarted = [p \in Procs |-> {}]
  /\ out = [p \in Procs |-> "none"]
  /\ facts = [r \in Restores |-> NoFacts] /\ tmp = [r \in Restores |-> NoTars]
  /\ tx = NoTx /\ bk = NoBk
  /\ faults = 0
  /\ was = [cfg |-> cfg, disk |-> disk, loaded |-> loaded, file |-> file, vol |-> vol]

Holds(p, place) == lock = p /\ pc[p] = place

----------------------------------------------------------------------------
(* The host calls                                                          *)

\* A running service writes to its volume, at any time.
Write(v) ==
  /\ run[v] # Down /\ vol[v] # Absent /\ vol[v].n < MaxWrites
  /\ vol' = [vol EXCEPT ![v].n = @ + 1]
  /\ UNCHANGED <<lock, host, pc, kept, out, faults, servedKey, file, archive, facts, tmp, tx, bk, was>>

\* podman volume export of a volume in use may be torn.
Exported(v) == {vol[v]} \cup IF run[v] = Down THEN {} ELSE {Torn}

\* podman volume import merges into what is there.
Merge(old, new) == IF old \in {Absent, Empty} THEN new ELSE Mixed

StopOk(s)    == run' = [run EXCEPT ![s] = Down] /\ NoFault
StopFails(s) == run' \in {run, [run EXCEPT ![s] = Down]} /\ Fault

\* systemctl start: a service that is up is left alone, one with no unit cannot
\* start, and the volume of one that starts is created.
StartOk(s) ==
  /\ loaded[s] # None
  /\ run' = [run EXCEPT ![s] = IF @ = Down THEN loaded[s] ELSE @]
  /\ vol' = [vol EXCEPT ![s] = IF @ = Absent THEN Empty ELSE @]
  /\ NoFault
StartFails(s) ==
  /\ \/ loaded[s] = None /\ NoFault
     \/ Fault
  /\ UNCHANGED <<run, vol>>

----------------------------------------------------------------------------
(* Entering and leaving                                                    *)

\* The locals of a process that has returned.
Clear(p) ==
  /\ pc' = [pc EXCEPT ![p] = "done"]
  /\ lock' = IF lock = p THEN Free ELSE lock
  /\ prior' = [prior EXCEPT ![p] = AnyConfig] /\ next' = [next EXCEPT ![p] = AnyConfig]
  /\ todo' = [todo EXCEPT ![p] = [u \in Units |-> "keep"]]
  /\ restarted' = [restarted EXCEPT ![p] = {}]
  /\ facts' = IF p \in Restores THEN [facts EXCEPT ![p] = NoFacts] ELSE facts
  /\ tx' = IF lock = p THEN NoTx ELSE tx
  /\ bk' = IF lock = p THEN NoBk ELSE bk

\* acquireStackLock, which waits.
Acquire(p) ==
  /\ pc[p] = IF p \in Restores THEN "waiting" ELSE "idle"
  /\ \/ /\ lock = Free /\ lock' = p
        /\ Goto(p, IF p \in Restores THEN "verify" ELSE "input")
        /\ was' = [cfg |-> cfg, disk |-> disk, loaded |-> loaded, file |-> file, vol |-> vol]
        /\ NoFault
        /\ UNCHANGED out
     \/ /\ Fault
        /\ out' = [out EXCEPT ![p] = "failed"] /\ Goto(p, "done")
        /\ UNCHANGED <<lock, was>>
  /\ UNCHANGED <<host, kept, servedKey, vol, file, archive, facts, tmp, tx, bk>>

\* A process dies (a fault, to the bound); its temp directory stays.
Crash(p) ==
  /\ lock = p /\ Fault
  /\ out' = [out EXCEPT ![p] = "crashed"]
  /\ Clear(p)
  /\ UNCHANGED <<host, captured, base, servedKey, vol, file, archive, tmp, was>>

\* The report of the outcome, the release of the lock, and the removal of the temp
\* directory unless the rollback was incomplete.
CleansAlways(outcome) == TRUE       \* mutant: the temp directory is always removed
Cleans(outcome) == outcome # "incomplete"
Report(p) ==
  /\ Holds(p, "report")
  /\ Clear(p)
  /\ tmp' = IF p \in Restores /\ Cleans(out[p]) THEN [tmp EXCEPT ![p] = NoTars] ELSE tmp
  /\ UNCHANGED <<host, captured, base, out, faults, servedKey, vol, file, archive, was>>

----------------------------------------------------------------------------
(* villa backup                                                            *)

ToBackup(p, place) == Goto(p, place) /\ UNCHANGED out
BackupFails(p, place) == bk' = [bk EXCEPT !.failed = TRUE] /\ Goto(p, place) /\ UNCHANGED out

\* buildBackupInput and the scratch files: the memory volume is wanted when memory is
\* on and the volume is there; a check that fails leaves it out.
WantedWithWeights == {Chat, Service}       \* mutant: the model weights are exported too
Wanted == {Chat} \cup IF cfg.id \in MemoryOn /\ vol[Qdrant] # Absent THEN {Qdrant} ELSE {}
BackupInput(p) ==
  /\ Holds(p, "input")
  /\ \/ bk' = [bk EXCEPT !.want = Wanted] /\ ToBackup(p, "bkstop") /\ NoFault
     \/ cfg.id \in MemoryOn /\ bk' = [bk EXCEPT !.want = {Chat}] /\ ToBackup(p, "bkstop") /\ Fault
     \/ BackupFails(p, "publish") /\ Fault
  /\ UNCHANGED <<lock, host, kept, servedKey, vol, file, archive, facts, tmp, tx, was>>

\* exportVolume stops the service and remembers it once it is stopped.
BackupStopNothing(p) ==      \* mutant: the volume is exported under its service
  /\ Holds(p, "bkstop")
  /\ bk' = [bk EXCEPT !.stopped = Append(@, bk.v)] /\ ToBackup(p, "export") /\ NoFault
  /\ was' = [was EXCEPT !.vol[bk.v] = vol[bk.v]]
  /\ UNCHANGED <<lock, host, kept, servedKey, vol, file, archive, facts, tmp, tx>>
BackupStop(p) ==
  /\ Holds(p, "bkstop")
  /\ \/ /\ StopOk(bk.v)
        /\ bk' = [bk EXCEPT !.stopped = Append(@, bk.v)] /\ ToBackup(p, "export")
     \/ StopFails(bk.v) /\ BackupFails(p, "bkstart")
  /\ was' = [was EXCEPT !.vol[bk.v] = vol[bk.v]]
  /\ UNCHANGED <<lock, cfg, env, disk, loaded, kept, servedKey, vol, file, archive, facts, tmp, tx>>

\* podman volume export, then the second volume when it is wanted.
BackupExport(p) ==
  /\ Holds(p, "export")
  /\ \/ /\ vol[bk.v] # Absent
        /\ \E t \in Exported(bk.v) :
             bk' = [bk EXCEPT !.took[bk.v] = t, !.v = Qdrant]
        /\ ToBackup(p, IF bk.v = Chat /\ Qdrant \in bk.want THEN "bkstop" ELSE "read")
        /\ NoFault
     \/ vol[bk.v] = Absent /\ BackupFails(p, "bkstart") /\ NoFault
     \/ BackupFails(p, "bkstart") /\ Fault
  /\ UNCHANGED <<lock, host, kept, servedKey, vol, file, archive, facts, tmp, tx, was>>

\* readSources and assembleArchive: the config, and the files in play that are there.
BackupRead(p) ==
  /\ Holds(p, "read")
  /\ \/ /\ bk' = [bk EXCEPT !.files = [r \in Rows |-> IF cfg.id \in BackupGate[r] THEN file[r] ELSE None]]
        /\ ToBackup(p, "bkstart") /\ NoFault
     \/ BackupFails(p, "bkstart") /\ Fault
  /\ UNCHANGED <<lock, host, kept, servedKey, vol, file, archive, facts, tmp, tx, was>>

\* The deferred restart, last stopped first; a failure is a warning.
BackupStart(p) ==
  /\ Holds(p, "bkstart")
  /\ IF bk.stopped = <<>>
     THEN Goto(p, "publish") /\ NoFault /\ UNCHANGED <<run, vol, bk>>
     ELSE \/ /\ StartOk(Last(bk.stopped))
             /\ bk' = [bk EXCEPT !.stopped = Front(@)]
             /\ UNCHANGED pc
          \/ /\ StartFails(Last(bk.stopped))
             /\ bk' = [bk EXCEPT !.stopped = Front(@), !.warned = TRUE]
             /\ UNCHANGED pc
  /\ UNCHANGED <<lock, cfg, env, disk, loaded, out, kept, servedKey, file, archive, facts, tmp, tx, was>>

\* RunBackup renames the finished archive over the old one; a failure leaves that.
Finished == [cfg |-> cfg, vols |-> bk.took, files |-> bk.files, trust |-> "matching"]
Publish(p) ==
  /\ Holds(p, "publish")
  /\ \/ /\ ~bk.failed /\ archive' = Finished /\ NoFault
        /\ out' = [out EXCEPT ![p] = IF bk.warned THEN "warned" ELSE "written"]
     \/ /\ \/ bk.failed /\ NoFault
           \/ ~bk.failed /\ Fault
        /\ out' = [out EXCEPT ![p] = "failed"] /\ UNCHANGED archive
  /\ Goto(p, "report")
  /\ UNCHANGED <<lock, host, kept, servedKey, vol, file, facts, tmp, tx, bk, was>>

----------------------------------------------------------------------------
(* villa restore: before anything is changed                               *)

\* buildRestoreInput, without the lock: which files have a destination under the
\* current config, and whether the memory volume exists.
Prepare(r) ==
  /\ pc[r] = "idle"
  /\ \/ /\ \E seen \in {IF vol[Qdrant] = Absent THEN "no" ELSE "yes", "unknown"} :
             /\ facts' = [facts EXCEPT ![r] =
                  [exists |-> seen, dests |-> {row \in Rows : cfg.id \in RestoreGate[row]}]]
             /\ IF seen = "unknown" THEN Fault ELSE NoFault
        /\ Goto(r, "waiting") /\ UNCHANGED out
     \/ /\ Fault
        /\ out' = [out EXCEPT ![r] = "failed"] /\ Goto(r, "done") /\ UNCHANGED facts
  /\ UNCHANGED <<lock, host, kept, servedKey, vol, file, archive, tmp, tx, bk, was>>

Carries(v) == tx.arch.vols[v] # Absent
\* qdrantLive: the archive has the memory volume and the host had one.
Live(r) == Carries(Qdrant) /\ facts[r].exists = "yes"
\* willWrite.
Written(r) == {row \in facts[r].dests : tx.arch.files[row] # None}

Refuse(r) == out' = [out EXCEPT ![r] = "refused"] /\ Goto(r, "report")

\* readAndVerify: the whole archive is read and checked against its manifest.
Verify(r) ==
  /\ Holds(r, "verify")
  /\ \/ /\ archive.trust # "corrupt"
        /\ tx' = [tx EXCEPT !.arch = archive]
        /\ Goto(r, "skew") /\ NoFault /\ UNCHANGED out
     \/ archive.trust = "corrupt" /\ Refuse(r) /\ NoFault /\ UNCHANGED tx
     \/ Refuse(r) /\ Fault /\ UNCHANGED tx
  /\ UNCHANGED <<lock, host, kept, servedKey, vol, file, archive, facts, tmp, bk, was>>

\* skewGate: a block refuses; a warning is the operator's choice; the question is
\* asked with the lock held.
Skew(r) ==
  /\ Holds(r, "skew")
  /\ NoFault
  /\ \/ tx.arch.trust # "blocked" /\ Goto(r, "capconfig") /\ UNCHANGED out
     \/ tx.arch.trust \in {"blocked", "skewed"} /\ Refuse(r)
  /\ UNCHANGED <<lock, host, kept, mine>>

\* checkQdrantKnown, then captureConfig.
KnowsAlways(r) == TRUE      \* mutant: an unknown volume is taken for an absent one
Knows(r) == ~(Carries(Qdrant) /\ facts[r].exists = "unknown")
CaptureConfig(r) ==
  /\ Holds(r, "capconfig")
  /\ \/ Knows(r) /\ prior' = [prior EXCEPT ![r] = cfg] /\ Goto(r, "capvol") /\ NoFault /\ UNCHANGED out
     \/ ~Knows(r) /\ Refuse(r) /\ NoFault /\ UNCHANGED prior
     \/ Refuse(r) /\ Fault /\ UNCHANGED prior
  /\ UNCHANGED <<lock, host, next, captured, base, todo, restarted, mine>>

\* captureOwui and captureQdrant: the volumes are exported under their services.
CaptureVolume(r) ==
  /\ Holds(r, "capvol")
  /\ \/ /\ vol[tx.v] # Absent
        /\ \E t \in Exported(tx.v) : tmp' = [tmp EXCEPT ![r][tx.v] = t]
        /\ IF tx.v = Chat /\ Live(r)
           THEN tx' = [tx EXCEPT !.v = Qdrant] /\ UNCHANGED pc
           ELSE tx' = [tx EXCEPT !.v = Chat] /\ Goto(r, "capfiles")
        /\ NoFault /\ UNCHANGED out
     \/ vol[tx.v] = Absent /\ Refuse(r) /\ NoFault /\ UNCHANGED <<tmp, tx>>
     \/ Refuse(r) /\ Fault /\ UNCHANGED <<tmp, tx>>
  /\ UNCHANGED <<lock, host, kept, servedKey, vol, file, archive, facts, bk, was>>

\* captureFiles and parseRestored.  A file that cannot be read is passed over when the
\* restore would not replace it.
CaptureFiles(r) ==
  /\ Holds(r, "capfiles")
  /\ \/ /\ tx' = [tx EXCEPT !.files = [row \in Rows |-> IF row \in facts[r].dests THEN file[row] ELSE None]]
        /\ Goto(r, "quiesce") /\ NoFault /\ UNCHANGED out
     \/ /\ \E bad \in facts[r].dests \ Written(r) :
             tx' = [tx EXCEPT !.files = [row \in Rows |-> IF row \in facts[r].dests \ {bad} THEN file[row] ELSE None]]
        /\ Goto(r, "quiesce") /\ Fault /\ UNCHANGED out
     \/ Refuse(r) /\ Fault /\ UNCHANGED tx
  /\ UNCHANGED <<lock, host, kept, servedKey, vol, file, archive, facts, tmp, bk, was>>

----------------------------------------------------------------------------
(* Forward                                                                 *)

\* rollback starts over with the first service and nothing failed.
RollBack(r) ==
  /\ tx' = [tx EXCEPT !.way = "back", !.v = Chat]
  /\ Goto(r, "rbstop")

\* From one service or volume to the memory one when it has a part, else to place.
OrQdrant(r, more, place) ==
  IF tx.v = Chat /\ more
  THEN tx' = [tx EXCEPT !.v = Qdrant] /\ UNCHANGED pc
  ELSE tx' = [tx EXCEPT !.v = Chat] /\ Goto(r, place)

Quiesce(r) ==
  /\ Holds(r, "quiesce")
  /\ \/ StopOk(tx.v) /\ OrQdrant(r, Live(r), "save")
     \/ StopFails(tx.v) /\ RollBack(r)
  /\ was' = [was EXCEPT !.vol[tx.v] = vol[tx.v]]
  /\ UNCHANGED <<lock, cfg, env, disk, loaded, kept, out, servedKey, vol, file, archive, facts, tmp, bk>>

SaveRestored(r) ==
  /\ Holds(r, "save")
  /\ \/ cfg' = tx.arch.cfg /\ Goto(r, "files") /\ NoFault /\ UNCHANGED tx
     \/ RollBack(r) /\ Fault /\ UNCHANGED cfg
  /\ UNCHANGED <<lock, env, disk, loaded, run, kept, out, servedKey, vol, file, archive, facts, tmp, bk, was>>

\* One after the other; a file outside the data root is written in place, so the one
\* that fails may be torn.
WriteFiles(r) ==
  /\ Holds(r, "files")
  /\ \/ /\ file' = [row \in Rows |-> IF row \in Written(r) THEN tx.arch.files[row] ELSE file[row]]
        /\ Goto(r, "remove") /\ NoFault /\ UNCHANGED tx
     \/ /\ \E bad \in Written(r), done \in SUBSET Written(r), left \in {"untouched", "torn"} :
             /\ bad \notin done
             /\ file' = [row \in Rows |-> IF row \in done THEN tx.arch.files[row]
                                          ELSE IF row = bad /\ left = "torn" THEN "torn" ELSE file[row]]
        /\ RollBack(r) /\ Fault
  /\ UNCHANGED <<lock, host, kept, out, servedKey, vol, archive, facts, tmp, bk, was>>

\* A step of the volume swap fails: forward, that is the rollback; in the rollback it
\* is noted, and the next of its steps follows.
NotesNothing == tx.ok       \* mutant: a step that fails is forgotten
Notes == FALSE
AfterVolume == IF tx.v = Qdrant THEN "rbstartq" ELSE "rbqdrant"
SwapFails(r) ==
  \/ tx.way = "forward" /\ RollBack(r)
  \/ tx.way = "back" /\ tx' = [tx EXCEPT !.ok = Notes] /\ Goto(r, AfterVolume)

\* cleanRecreateThenImport: podman volume rm, which refuses a volume in use, ...
Recreated(r) == IF tx.way = "forward" THEN tx.arch.cfg ELSE prior[r]
InUse(v) == run[v] # Down
RemoveVolume(r) ==
  /\ Holds(r, "remove")
  /\ \/ /\ ~InUse(tx.v)
        /\ vol' = [vol EXCEPT ![tx.v] = IF run[tx.v] = Down THEN Absent ELSE @]
        /\ next' = [next EXCEPT ![r] = Recreated(r)]
        /\ Goto(r, "heal") /\ NoFault /\ UNCHANGED tx
     \/ InUse(tx.v) /\ SwapFails(r) /\ NoFault /\ UNCHANGED <<vol, next>>
     \/ SwapFails(r) /\ Fault /\ UNCHANGED <<vol, next>>
  /\ UNCHANGED <<lock, host, prior, captured, base, todo, restarted, out, servedKey, file, archive, facts, tmp, bk, was>>

\* ... then ReconcileAndWrite, which is Apply, ...
Reapply(r) == lock = r /\ Apply(r) /\ UNCHANGED mine
ApplyFailed(r) ==
  /\ Holds(r, "failed")
  /\ NoFault /\ SwapFails(r)
  /\ UNCHANGED <<lock, host, kept, out, servedKey, vol, file, archive, facts, tmp, bk, was>>

\* ... then podman volume create and import.
Import(r) ==
  LET tar == IF tx.way = "forward" THEN tx.arch.vols[tx.v] ELSE tmp[r][tx.v] IN
  /\ Holds(r, "applied")
  /\ \/ /\ vol' = [vol EXCEPT ![tx.v] = Merge(@, tar)]
        /\ NoFault
        /\ \/ tx.way = "forward" /\ tx.v = Chat /\ Carries(Qdrant)
              /\ tx' = [tx EXCEPT !.v = Qdrant] /\ Goto(r, "remove")
           \/ tx.way = "forward" /\ ~(tx.v = Chat /\ Carries(Qdrant))
              /\ tx' = [tx EXCEPT !.v = Chat] /\ Goto(r, "restart")
           \/ tx.way = "back" /\ Goto(r, AfterVolume) /\ UNCHANGED tx
     \/ /\ \E left \in {Absent, Empty, Torn} : vol' = [vol EXCEPT ![tx.v] = Merge(@, left)]
        /\ SwapFails(r) /\ Fault
  /\ UNCHANGED <<lock, host, kept, out, servedKey, file, archive, facts, tmp, bk, was>>

Restart(r) ==
  /\ Holds(r, "restart")
  /\ \/ StartOk(tx.v) /\ OrQdrant(r, Live(r), "prove")
     \/ StartFails(tx.v) /\ RollBack(r)
  /\ UNCHANGED <<lock, cfg, env, disk, loaded, kept, out, servedKey, file, archive, facts, tmp, bk, was>>

\* liveRestoreProve drives inference, which the restore has not touched, with the key
\* of the restored config; it may find it wanting for any other reason.
Answers == run[Service] # Down /\ servedKey = cfg.key
Prove(r) ==
  /\ Holds(r, "prove")
  /\ \/ Answers /\ out' = [out EXCEPT ![r] = "restored"] /\ Goto(r, "report") /\ NoFault /\ UNCHANGED tx
     \/ ~Answers /\ RollBack(r) /\ NoFault /\ UNCHANGED out
     \/ RollBack(r) /\ Fault /\ UNCHANGED out
  /\ UNCHANGED <<lock, host, kept, servedKey, vol, file, archive, facts, tmp, bk, was>>

----------------------------------------------------------------------------
(* Rollback: every step is tried, a failure is only noted                  *)

RbStop(r) ==
  /\ Holds(r, "rbstop")
  /\ \E ok \in BOOLEAN :
       /\ IF ok THEN StopOk(tx.v) ELSE StopFails(tx.v)
       /\ \/ /\ tx.v = Chat /\ Live(r)
             /\ tx' = [tx EXCEPT !.v = Qdrant, !.ok = @ /\ (ok \/ Notes)] /\ UNCHANGED pc
          \/ /\ ~(tx.v = Chat /\ Live(r))
             /\ tx' = [tx EXCEPT !.v = Chat, !.ok = @ /\ (ok \/ Notes)] /\ Goto(r, "rbsave")
  /\ UNCHANGED <<lock, cfg, env, disk, loaded, kept, out, servedKey, vol, file, archive, facts, tmp, bk, was>>

RbSave(r) ==
  /\ Holds(r, "rbsave")
  /\ \/ cfg' = prior[r] /\ NoFault /\ UNCHANGED tx
     \/ Fault /\ tx' = [tx EXCEPT !.ok = Notes] /\ UNCHANGED cfg
  /\ Goto(r, "rbfiles")
  /\ UNCHANGED <<lock, env, disk, loaded, run, kept, out, servedKey, vol, file, archive, facts, tmp, bk, was>>

\* rollbackFiles: what was captured is written back, and what the restore created is
\* removed.
NotRemoved(r) == {row \in Rows : tx.files[row] # None}      \* mutant: what was absent is left
PutBack(r) == {row \in Rows : tx.files[row] # None} \cup Written(r)
RbFiles(r) ==
  /\ Holds(r, "rbfiles")
  /\ \/ /\ file' = [row \in Rows |-> IF row \in PutBack(r) THEN tx.files[row] ELSE file[row]]
        /\ NoFault /\ UNCHANGED tx
     \/ \E bad \in PutBack(r), left \in {"untouched", "torn"} :
          /\ file' = [row \in Rows |-> IF row \in PutBack(r) \ {bad} THEN tx.files[row]
                                       ELSE IF row = bad /\ left = "torn" THEN "torn" ELSE file[row]]
          /\ tx' = [tx EXCEPT !.ok = Notes] /\ Fault
  /\ Goto(r, "remove")
  /\ UNCHANGED <<lock, host, kept, out, servedKey, vol, archive, facts, tmp, bk, was>>

\* rollbackQdrant: nothing, the volume the restore created removed, or the volume
\* there was put back and its service started.
RbQdrant(r) ==
  /\ Holds(r, "rbqdrant")
  /\ \/ ~Carries(Qdrant) /\ Goto(r, "rbstart") /\ NoFault /\ UNCHANGED <<vol, tx>>
     \/ Live(r) /\ tx' = [tx EXCEPT !.v = Qdrant] /\ Goto(r, "remove") /\ NoFault /\ UNCHANGED vol
     \/ /\ Carries(Qdrant) /\ ~Live(r)
        /\ Goto(r, "rbstart")
        /\ \/ ~InUse(Qdrant) /\ vol' = [vol EXCEPT ![Qdrant] = Absent] /\ NoFault /\ UNCHANGED tx
           \/ InUse(Qdrant) /\ tx' = [tx EXCEPT !.ok = Notes] /\ NoFault /\ UNCHANGED vol
           \/ Fault /\ tx' = [tx EXCEPT !.ok = Notes] /\ UNCHANGED vol
  /\ UNCHANGED <<lock, host, kept, out, servedKey, file, archive, facts, tmp, bk, was>>

RbStart(r) ==
  \E s \in Volumes, ok \in BOOLEAN :
    /\ Holds(r, IF s = Qdrant THEN "rbstartq" ELSE "rbstart")
    /\ IF ok THEN StartOk(s) ELSE StartFails(s)
    /\ tx' = [tx EXCEPT !.ok = @ /\ (ok \/ Notes)]
    /\ Goto(r, IF s = Qdrant THEN "rbstart" ELSE "report")
    /\ out' = IF s = Qdrant THEN out ELSE [out EXCEPT ![r] = IF tx'.ok THEN "rolledback" ELSE "incomplete"]
    /\ UNCHANGED <<lock, cfg, env, disk, loaded, kept, servedKey, file, archive, facts, tmp, bk, was>>

----------------------------------------------------------------------------
BackupStep(p) ==
  \/ BackupInput(p) \/ BackupStop(p) \/ BackupExport(p) \/ BackupRead(p)
  \/ BackupStart(p) \/ Publish(p)
RestoreStep(r) ==
  \/ Prepare(r) \/ Verify(r) \/ Skew(r) \/ CaptureConfig(r) \/ CaptureVolume(r) \/ CaptureFiles(r)
  \/ Quiesce(r) \/ SaveRestored(r) \/ WriteFiles(r) \/ RemoveVolume(r) \/ Reapply(r)
  \/ ApplyFailed(r) \/ Import(r) \/ Restart(r) \/ Prove(r)
  \/ RbStop(r) \/ RbSave(r) \/ RbFiles(r) \/ RbQdrant(r) \/ RbStart(r)
Next ==
  \/ \E p \in Backups : BackupStep(p)
  \/ \E r \in Restores : RestoreStep(r)
  \/ \E p \in Procs : Acquire(p) \/ Report(p) \/ Crash(p)
  \/ \E v \in Volumes : Write(v)

Spec == Init /\ [][Next]_vars

----------------------------------------------------------------------------
(* What they promise                                                       *)

TypeOK ==
  /\ lock \in Procs \cup {Free} /\ cfg \in Config /\ env \in Keys \cup {NoKey} /\ servedKey \in Keys \cup {NoKey}
  /\ disk \in Content /\ loaded \in Content /\ run \in RunOf
  /\ vol \in [Volumes -> Stored \cup {Absent}] /\ tmp \in [Restores -> [Volumes -> Stored \cup {Absent}]]
  /\ file \in [Rows -> FileText \cup {None}] /\ archive \in Archive
  /\ \A r \in Restores : facts[r].exists \in {"yes", "no", "unknown"} /\ facts[r].dests \subseteq Rows
  /\ tx.way \in {"forward", "back"} /\ tx.v \in Volumes /\ tx.ok \in BOOLEAN
  /\ bk.want \subseteq Volumes /\ Len(bk.stopped) <= 2
  /\ \A p \in Procs : out[p] \in {"none", "failed", "crashed", "written", "warned",
                                  "refused", "restored", "rolledback", "incomplete"}
  /\ faults \in 0 .. MaxFaults

\* b is a with the writes it has had since.
Continues(a, b) == a.of = b.of /\ a.n <= b.n

(* A restore removes a volume only when it has its content in a tar, or when
   the content is what it imported itself (restore.go checkQdrantKnown: an
   unknown volume is never removed uncaptured). *)
RemovedIsCaptured ==
  [][\A v \in Volumes : vol[v] # Absent /\ vol'[v] = Absent =>
       lock \in Restores /\ (tmp[lock][v] # Absent \/ Continues(tx.arch.vols[v], vol[v])
                              \/ vol[v].of \in {"empty", "torn"})]_vars

(* A rollback tar is removed only once the volume has its content again, or
   the restore succeeded or changed nothing (cmd/villa/restore.go
   reportPreserved). *)
TarsOutliveTheNeed ==
  [][\A r \in Restores, v \in Volumes : tmp[r][v] # Absent /\ tmp'[r][v] = Absent =>
       out[r] \in {"restored", "refused"} \/ Continues(tmp[r][v], vol[v])]_vars

(* Whatever fails or dies, no volume and no copy is removed while it is the only one. *)
NoOnlyCopyIsRemoved == RemovedIsCaptured /\ TarsOutliveTheNeed

(* podman volume import merges: no import is ever made over data. *)
NothingIsMerged ==
  \A v \in Volumes : vol[v].of # "mixed" /\ archive.vols[v].of # "mixed"

(* A rollback that says it is complete left the config, the files, the units
   and the volumes it captured, and started what it had stopped.  An apply that
   finds the units as they should be does not reload: what an earlier restore
   wrote before it died stays unknown to systemd, hence was.loaded. *)
RollbackIsComplete ==
  \A r \in Restores : Holds(r, "report") /\ out[r] = "rolledback" =>
    /\ cfg.id = was.cfg.id /\ env = cfg.key
    /\ was.cfg.key \in {NoKey, cfg.key}
    /\ file = was.file
    /\ \A u \in Units : Rendered[cfg.id][u] \in {None, disk[u]}
    /\ was.loaded = was.disk /\ disk = was.disk => loaded = disk
    /\ run[Chat] # Down /\ run[Chat] = loaded[Chat] /\ (Live(r) => run[Qdrant] # Down)
    /\ \A v \in Volumes : tmp[r][v] # Absent => Continues(tmp[r][v], vol[v])
    /\ facts[r].exists = "no" /\ Carries(Qdrant) => vol[Qdrant] = Absent

(* A restore that says it restored has the archive's config, files and volumes
   in place, its units written and, if systemd knew the old ones, loaded, and
   Open WebUI running on them. *)
RestoredIsApplied ==
  \A r \in Restores : Holds(r, "report") /\ out[r] = "restored" =>
    /\ cfg.id = tx.arch.cfg.id /\ tx.arch.cfg.key \in {NoKey, cfg.key} /\ env = cfg.key
    /\ \A row \in Written(r) : file[row] = tx.arch.files[row]
    /\ \A u \in Units : Rendered[cfg.id][u] \in {None, disk[u]}
    /\ was.loaded = was.disk => loaded = disk
    /\ run[Chat] = loaded[Chat]
    /\ \A v \in Volumes : Carries(v) => Continues(tx.arch.vols[v], vol[v])

(* An archive that is published holds each volume as it was when its service
   was stopped (backup.go exportVolume), and the config of the same moment. *)
ArchiveIsQuiescent ==
  \A p \in Backups : Holds(p, "report") /\ out[p] \in {"written", "warned"} =>
    /\ archive.cfg = cfg
    /\ \A v \in bk.want : archive.vols[v] = was.vol[v]
    /\ \A v \in Volumes \ bk.want : archive.vols[v] = Absent

(* A backup that says nothing of a restart has left its services running. *)
BackupLeavesRunning ==
  \A p \in Backups : Holds(p, "report") /\ out[p] = "written" => \A v \in bk.want : run[v] # Down

(* The good outcomes mean what they say, whatever failed on the way. *)
ReportsAreHonest ==
  NothingIsMerged /\ RollbackIsComplete /\ RestoredIsApplied /\ BackupLeavesRunning /\ ArchiveIsQuiescent

(* "Any mutate error or a non-pass proof rolls back verbatim — a failed restore
   leaves the running stack intact" (cmd/villa/restore.go): after a complete
   rollback a volume still has everything it had when its service was stopped. *)
RollbackLosesNothing ==
  \A r \in Restores : Holds(r, "report") /\ out[r] = "rolledback" =>
    \A v \in Volumes : tmp[r][v] # Absent => Continues(was.vol[v], vol[v])
=============================================================================

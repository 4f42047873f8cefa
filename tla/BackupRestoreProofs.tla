------------------------- MODULE BackupRestoreProofs -------------------------
(***************************************************************************)
(* Theorems about BackupRestore, for any archives, hosts, files, backups   *)
(* and restores, and every bound on faults and writes.  RestoreInv is the  *)
(* inductive invariant: it follows the process that has the lock place by  *)
(* place, a backup (BackingUp) and a restore with its rollback             *)
(* (Restoring), while the running services write to their volumes.         *)
(* AloneInv adds what is true of a restore that no other one overlaps.     *)
(***************************************************************************)
EXTENDS BackupRestore, SequenceTheorems, TLAPS

----------------------------------------------------------------------------
(* The invariant                                                           *)

RestorePlaces ==
  {"verify", "skew", "capconfig", "capvol", "capfiles", "quiesce", "save", "files", "remove",
   "applied", "failed", "restart", "prove", "rbstop", "rbsave", "rbfiles", "rbqdrant",
   "rbstartq", "rbstart", "report"} \cup InApply
BackupPlaces == {"input", "bkstop", "export", "read", "bkstart", "publish", "report"}

\* Who is past the lock holds it, at a place of its kind, and has the locals.
Placed ==
  /\ lock \in Procs \cup {Free}
  /\ \A p \in Procs : pc[p] \in {"idle", "waiting", "done"} <=> lock # p
  /\ lock \in Restores => pc[lock] \in RestorePlaces
  /\ lock \in Backups => pc[lock] \in BackupPlaces
  /\ lock \notin Restores => tx = NoTx
  /\ lock \notin Backups => bk = NoBk

Files == [Rows -> FileText \cup {None}]
Tars  == [Volumes -> Stored \cup {Absent}]
Outcomes == {"none", "failed", "crashed", "written", "warned",
             "refused", "restored", "rolledback", "incomplete"}
Typed ==
  /\ cfg \in Config /\ env \in Keys \cup {NoKey} /\ servedKey \in Keys \cup {NoKey}
  /\ disk \in Content /\ loaded \in Content /\ run \in RunOf
  /\ vol \in Tars /\ file \in Files /\ archive \in Archive
  /\ DOMAIN pc = Procs /\ prior \in [Procs -> Config] /\ next \in [Procs -> Config]
  /\ todo \in [Procs -> [Units -> Todo]] /\ restarted \in [Procs -> SUBSET Services]
  /\ out \in [Procs -> Outcomes]
  /\ facts \in [Restores -> [exists : {"yes", "no", "unknown"}, dests : SUBSET Rows]]
  /\ tmp \in [Restores -> Tars]
  /\ tx \in [arch : Archive \cup {None}, way : {"forward", "back"}, v : Volumes, ok : BOOLEAN,
             files : Files \cup {None}]
  /\ bk \in [want : SUBSET Volumes, v : Volumes, stopped : {<<>>, <<Chat>>, <<Chat, Qdrant>>},
             took : Tars, files : Files \cup {None}, failed : BOOLEAN, warned : BOOLEAN]
  /\ was \in [cfg : Config, disk : Content, loaded : Content, file : Files, vol : Tars]
  /\ faults \in 0 .. MaxFaults

\* No copy is a mix, every archive has the chats, and where an import is next nothing is
\* in its way.
Pure(t) == \A v \in Volumes : t[v].of # "mixed"
Sound(a) == a.vols[Chat] # Absent /\ Pure(a.vols)
Importing == InApply \cup {"applied"}
Unmixed ==
  /\ Pure(vol) /\ Pure(bk.took) /\ \A r \in Restores : Pure(tmp[r])
  /\ Sound(archive)
  /\ lock \in Restores /\ pc[lock] \notin {"verify", "report"} => Sound(tx.arch)
  /\ lock \in Restores /\ pc[lock] \in Importing => vol[tx.v] = Absent

----------------------------------------------------------------------------
(* A backup                                                                *)

Taken(v) == bk.took[v] = was.vol[v] /\ bk.took[v] # Absent
Halted(v) == run[v] = Down /\ vol[v] = was.vol[v]
TookAll == \A v \in Volumes : IF v \in bk.want THEN Taken(v) ELSE bk.took[v] = Absent
Stopped == {bk.stopped[i] : i \in DOMAIN bk.stopped}

\* What it has stopped and exported, place by place.
BackingUp(b) ==
  /\ pc[b] \in {"bkstop", "export", "read"} => ~bk.failed
  /\ pc[b] # "bkstart" /\ pc[b] # "publish" /\ pc[b] # "report" => ~bk.warned
  /\ pc[b] = "input" => bk = NoBk
  /\ pc[b] # "input" /\ ~bk.failed => Chat \in bk.want
  /\ pc[b] \in {"bkstop", "export"} => (bk.v = Qdrant => Qdrant \in bk.want)
  /\ pc[b] = "bkstop" =>
       /\ bk.stopped = IF bk.v = Chat THEN <<>> ELSE <<Chat>>
       /\ bk.v = Chat => bk.took = NoTars
  /\ pc[b] = "export" =>
       /\ bk.stopped = IF bk.v = Chat THEN <<Chat>> ELSE <<Chat, Qdrant>>
       /\ bk.v = Chat => bk.took = NoTars
       /\ Halted(bk.v)
  /\ pc[b] \in {"bkstop", "export"} /\ bk.v = Qdrant => Taken(Chat) /\ bk.took[Qdrant] = Absent
  /\ pc[b] = "read" => bk.stopped = IF Qdrant \in bk.want THEN <<Chat, Qdrant>> ELSE <<Chat>>
  /\ pc[b] \in {"read", "bkstart", "publish"} /\ ~bk.failed => TookAll
  /\ pc[b] \in {"bkstart", "publish"} /\ ~bk.failed => bk.files \in Files
  /\ pc[b] = "bkstart" /\ ~bk.failed /\ ~bk.warned =>
       \A v \in bk.want : run[v] # Down \/ v \in Stopped
  /\ pc[b] = "publish" /\ ~bk.failed /\ ~bk.warned => \A v \in bk.want : run[v] # Down
  /\ pc[b] = "report" /\ out[b] \in {"written", "warned"} =>
       /\ archive.cfg = cfg /\ archive.vols = bk.took /\ TookAll
       /\ out[b] = "written" => \A v \in bk.want : run[v] # Down

----------------------------------------------------------------------------
(* A restore                                                               *)

Gates    == {"verify", "skew", "capconfig"}
Captures == {"capvol", "capfiles"}
Rollback == {"rbstop", "rbsave", "rbfiles", "rbqdrant", "rbstartq", "rbstart"}
Either   == {"remove", "failed"} \cup Importing
Mutates  == RestorePlaces \ (Gates \cup Captures \cup {"report"})

\* Which way it goes, and for which service or volume.
Heading(r) ==
  /\ pc[r] \in Gates \cup Captures \cup {"quiesce", "save", "files", "restart", "prove"} => tx.way = "forward"
  /\ pc[r] \in Rollback => tx.way = "back"
  /\ tx.way = "forward" => tx.ok
  /\ pc[r] \in Gates \cup {"capfiles", "save", "files", "prove", "rbsave", "rbfiles", "rbqdrant", "rbstart"}
       => tx.v = Chat \/ (pc[r] = "rbstart" /\ Live(r))
  /\ pc[r] \in {"capvol", "quiesce", "restart", "rbstop", "rbstartq"} => (tx.v = Qdrant => Live(r))
  /\ pc[r] = "rbstartq" => tx.v = Qdrant
  /\ pc[r] \in Either => (tx.v = Qdrant => IF tx.way = "forward" THEN Carries(Qdrant) ELSE Live(r))

\* What it has read and captured.
Captured(r) ==
  /\ pc[r] \in Gates => tmp[r] = NoTars
  /\ pc[r] \in RestorePlaces \ {"verify", "report"} => tx.arch \in Archive
  /\ pc[r] \in Captures \cup Mutates => prior[r] = was.cfg /\ Knows(r)
  /\ pc[r] = "capvol" =>
       tmp[r][Qdrant] = Absent /\ (tmp[r][Chat] = Absent <=> tx.v = Chat)
  /\ pc[r] \in {"capfiles"} \cup Mutates =>
       tmp[r][Chat] # Absent /\ (tmp[r][Qdrant] # Absent <=> Live(r))
  /\ pc[r] \in Mutates =>
       /\ tx.files \in Files
       /\ \A row \in Rows : tx.files[row] \in {None, was.file[row]}
       /\ \A row \in Written(r) : tx.files[row] = was.file[row]

\* The config it goes to, with the key an apply may have made; the env file; the plan.
Has(c) == cfg.id = c.id /\ c.key \in {NoKey, cfg.key}
AsRendered(c, u) ==
  /\ Rendered[c][u] \in {None, disk[u]}
  /\ u \in Registry /\ Rendered[c][u] = None => disk[u] = None
InPlace == \A u \in Units : AsRendered(cfg.id, u)
Aimed(r) ==
  /\ pc[r] \in Gates \cup Captures \cup {"quiesce", "save"} => cfg = was.cfg
  /\ pc[r] \in {"files", "restart", "prove"} => Has(tx.arch.cfg)
  /\ tx.ok /\ pc[r] \in {"remove"} \cup Importing => Has(Recreated(r))
  /\ tx.ok /\ pc[r] \in {"rbfiles", "rbqdrant", "rbstartq", "rbstart"} => Has(was.cfg)
  /\ pc[r] = "heal" => next[r] = Recreated(r)
  /\ tx.ok /\ pc[r] \in Importing \ {"heal"} => next[r] = cfg
  /\ tx.ok /\ pc[r] \in {"plan", "write", "applied", "restart", "prove", "rbqdrant", "rbstartq", "rbstart"} => env = cfg.key
  /\ tx.ok /\ pc[r] = "write" => \A u \in Units :
       /\ todo[r][u] \in {"keep", "written"} => AsRendered(cfg.id, u)
       /\ todo[r][u] = "write" => Rendered[cfg.id][u] # None
       /\ todo[r][u] \in {"stop", "remove"} => Rendered[cfg.id][u] = None
  /\ tx.ok /\ pc[r] \in {"applied", "restart", "prove", "rbqdrant", "rbstartq", "rbstart"} => InPlace
  /\ tx.ok /\ pc[r] \in {"remove"} \cup Importing /\ tx.v = Qdrant => InPlace /\ pc[r] # "write"

\* The files: as they were but for those it writes, and those are the archive's.
Filed(r) ==
  /\ pc[r] \in Gates \cup Captures \cup {"quiesce", "save", "files"} => file = was.file
  /\ tx.ok /\ pc[r] \in Mutates => \A row \in Rows \ Written(r) : file[row] = was.file[row]
  /\ tx.way = "forward" /\ pc[r] \in Either \cup {"restart", "prove"} =>
       \A row \in Written(r) : file[row] = tx.arch.files[row]
  /\ tx.way = "back" /\ tx.ok /\ pc[r] \in Either \cup {"rbqdrant", "rbstartq", "rbstart"} => file = was.file

\* What systemd has loaded: before the first reload what it had, then what is on disk; in
\* the rollback what is on disk, unless the disk is still another.
Loads   == was.loaded = was.disk => loaded = disk
Settled == was.loaded = was.disk /\ disk = was.disk => loaded = disk
Loaded(r) ==
  /\ pc[r] \in Gates \cup Captures \cup {"quiesce", "save", "files"} => loaded = was.loaded /\ disk = was.disk
  /\ tx.way = "forward" /\ tx.v = Chat /\ pc[r] \in {"remove"} \cup InApply =>
       loaded = was.loaded /\ (pc[r] # "write" => disk = was.disk)
  /\ tx.way = "forward" /\ pc[r] \in {"applied", "restart", "prove"} => Loads
  /\ tx.way = "forward" /\ tx.v = Qdrant /\ pc[r] \in {"remove"} \cup InApply => Loads
  /\ tx.ok /\ pc[r] \in Mutates /\ (tx.way = "back" => pc[r] \notin {"write", "failed"}) => Settled

\* Open WebUI, down from the quiesce to its start.
Halts(r) ==
  /\ pc[r] = "quiesce" /\ tx.v = Qdrant => run[Chat] = Down
  /\ tx.way = "forward" /\ pc[r] \in {"save", "files", "remove"} \cup Importing => run[Chat] = Down
  /\ pc[r] = "restart" => run[Chat] = IF tx.v = Chat THEN Down ELSE loaded[Chat]
  /\ pc[r] = "prove" => run[Chat] = loaded[Chat]
  /\ tx.ok /\ pc[r] = "rbstop" /\ tx.v = Qdrant => run[Chat] = Down
  /\ tx.ok /\ tx.way = "back" /\ pc[r] \in {"remove", "rbsave", "rbfiles", "rbqdrant", "rbstartq", "rbstart"} \cup Importing
       => run[Chat] = Down
  /\ tx.ok /\ pc[r] = "rbstart" /\ Live(r) => run[Qdrant] # Down

\* The volumes that have been swapped.
FromArchive(v) == Carries(v) => Continues(tx.arch.vols[v], vol[v])
FromTar(r, v) == tmp[r][v] # Absent => Continues(tmp[r][v], vol[v])
Unmade(r) == facts[r].exists = "no" /\ Carries(Qdrant) => vol[Qdrant] = Absent
Swapped(r) ==
  /\ tx.way = "forward" /\ tx.v = Qdrant /\ pc[r] \in {"remove"} \cup Importing => FromArchive(Chat)
  /\ pc[r] \in {"restart", "prove"} => \A v \in Volumes : FromArchive(v)
  /\ tx.ok /\ tx.way = "back" /\ tx.v = Qdrant /\ pc[r] \in {"remove"} \cup Importing => FromTar(r, Chat)
  /\ tx.ok /\ pc[r] \in {"rbqdrant", "rbstartq", "rbstart"} => FromTar(r, Chat)
  /\ tx.ok /\ pc[r] \in {"rbstartq", "rbstart"} => FromTar(r, Qdrant)
  /\ tx.ok /\ pc[r] \in {"rbstart"} => Unmade(r)

\* What it says at the end.
Restored(r) ==
  /\ tx.arch \in Archive /\ Has(tx.arch.cfg) /\ env = cfg.key /\ InPlace /\ Loads
  /\ \A row \in Written(r) : file[row] = tx.arch.files[row]
  /\ run[Chat] = loaded[Chat]
  /\ \A v \in Volumes : FromArchive(v)
RolledBack(r) ==
  /\ tx.arch \in Archive /\ Has(was.cfg) /\ env = cfg.key /\ InPlace /\ Settled
  /\ file = was.file
  /\ run[Chat] # Down /\ run[Chat] = loaded[Chat] /\ (Live(r) => run[Qdrant] # Down)
  /\ \A v \in Volumes : FromTar(r, v)
  /\ Unmade(r)
Told(r) ==
  pc[r] = "report" =>
    /\ out[r] \in {"refused", "restored", "rolledback", "incomplete"}
    /\ out[r] = "restored" => Restored(r)
    /\ out[r] = "rolledback" => RolledBack(r)

Restoring(r) ==
  Heading(r) /\ Captured(r) /\ Aimed(r) /\ Filed(r) /\ Loaded(r) /\ Halts(r) /\ Swapped(r) /\ Told(r)

\* Who is not inside has no tars, or is done.
Outside(r) == pc[r] \in {"idle", "waiting"} => tmp[r] = NoTars

RestoreInv ==
  /\ Typed /\ Placed /\ Unmixed
  /\ \A b \in Backups : lock = b => BackingUp(b)
  /\ \A r \in Restores : (lock = r => Restoring(r)) /\ Outside(r)

----------------------------------------------------------------------------
\* Alone: the memory volume that was absent stays so until this restore makes it.
Seen(r) == pc[r] \notin {"idle", "done"} /\ facts[r].exists = "no"
Made(r) ==
  /\ lock = r /\ pc[r] # "verify" /\ tx.arch \in Archive
  /\ Continues(tx.arch.vols[Qdrant], vol[Qdrant]) \/ vol[Qdrant].of \in {"empty", "torn"}
AloneInv ==
  /\ \A r \in Restores : Seen(r) => vol[Qdrant] = Absent \/ Made(r)
  /\ lock \in Backups => Stopped \subseteq bk.want /\ (Qdrant \in bk.want => vol[Qdrant] # Absent)

----------------------------------------------------------------------------
(* The holder's locals, and what is common to many of its steps            *)

Txs == [arch : Archive \cup {None}, way : {"forward", "back"}, v : Volumes, ok : BOOLEAN,
        files : Files \cup {None}]

\* What the invariant says of the restore that has the lock.
LEMMA RestoreParts ==
  ASSUME NEW r \in Restores, RestoreInv, lock = r
  PROVE  /\ Heading(r) /\ Captured(r) /\ Aimed(r) /\ Filed(r)
         /\ Loaded(r) /\ Halts(r) /\ Swapped(r) /\ Told(r)
         /\ Typed /\ Unmixed /\ r \in Procs /\ r \notin Backups /\ r # Free
         /\ pc[r] \in RestorePlaces /\ DOMAIN pc = Procs /\ tx \in Txs
BY ArchiveAssumption, HostAssumption DEF RestoreInv, Restoring, Placed, Typed, Txs

\* What a restore keeps from its capture to its end.
SameWas ==
  was'.cfg = was.cfg /\ was'.disk = was.disk /\ was'.loaded = was.loaded /\ was'.file = was.file
Kept(r) ==
  /\ lock' = lock /\ SameWas /\ prior'[r] = prior[r] /\ tmp'[r] = tmp[r] /\ facts'[r] = facts[r]
  /\ tx'.arch = tx.arch /\ tx'.files = tx.files

\* What an archive carries depends on the archive and on the facts only.
LEMMA SameArchive ==
  ASSUME NEW r \in Restores, facts'[r] = facts[r], tx'.arch = tx.arch
  PROVE  /\ Live(r)' = Live(r) /\ Written(r)' = Written(r) /\ Knows(r)' = Knows(r)
         /\ \A v \in Volumes : Carries(v)' = Carries(v)
BY DEF Live, Written, Knows, Carries

\* A step that keeps the capture keeps what is said of it.
LEMMA KeptCaptured ==
  ASSUME NEW r \in Restores, Kept(r), Captured(r), pc[r] \in Mutates, pc'[r] \in Mutates \cup {"report"}
  PROVE  Captured(r)'
<1>1. Live(r)' = Live(r) /\ Written(r)' = Written(r) /\ Knows(r)' = Knows(r)
  BY SameArchive DEF Kept
<1>2. CASE pc'[r] = "report"
  BY <1>2 DEF Captured, Gates, Captures, Mutates
<1>3. CASE pc'[r] \in Mutates
  BY <1>1, <1>3 DEF Captured, Kept, SameWas, Gates, Captures, Mutates
<1>. QED  BY <1>2, <1>3

\* A refusal changes nothing.
LEMMA RefuseStep ==
  ASSUME NEW r \in Restores, RestoreInv, lock = r, Refuse(r),
         tx.way = "forward", tx' = tx
  PROVE  Restoring(r)'
<1>1. pc'[r] = "report" /\ out'[r] = "refused" /\ tx.ok
  BY RestoreParts DEF Refuse, Goto, Typed, Heading
<1>. QED  BY <1>1 DEF Restoring, Heading, Captured, Aimed, Filed, Loaded, Halts, Swapped, Told,
                   Gates, Captures, Mutates, Rollback, Either, Importing, InApply, RestorePlaces

\* A failure on the way forward: the rollback starts over.
LEMMA RollBackStep ==
  ASSUME NEW r \in Restores, RestoreInv, lock = r, pc[r] \in Mutates, RollBack(r),
         lock' = lock, SameWas, prior' = prior, tmp' = tmp, facts' = facts,
         \A row \in Rows \ Written(r) : file'[row] = was.file[row],
         Settled'
  PROVE  Restoring(r)'
<1>1. /\ pc'[r] = "rbstop" /\ tx'.way = "back" /\ tx'.v = Chat /\ tx'.ok = tx.ok
      /\ tx'.arch = tx.arch /\ tx'.files = tx.files
  BY RestoreParts DEF RollBack, Goto, Txs
<1>2. Captured(r)'
  BY <1>1, KeptCaptured, RestoreParts DEF Kept, Mutates, RestorePlaces, Gates, Captures
<1>3. Written(r)' = Written(r)
  BY <1>1, SameArchive
<1>4. Chat # Qdrant
  BY ArchiveAssumption
<1>5. Heading(r)'
  BY <1>1, <1>4 DEF Heading, Gates, Captures, Rollback, Either, Importing, InApply
<1>6. Aimed(r)' /\ Halts(r)' /\ Swapped(r)' /\ Told(r)'
  BY <1>1, <1>4 DEF Aimed, Halts, Swapped, Told, Gates, Captures, Importing, InApply
<1>7. Filed(r)' /\ Loaded(r)'
  BY <1>1, <1>3, <1>4 DEF SameWas, Filed, Loaded, Gates, Captures, Either, Importing, InApply
<1>. QED  BY <1>2, <1>5, <1>6, <1>7 DEF Restoring

\* The steps of a restore, one by one. The archive is read and its rows gated.
LEMMA VerifyStep ==
  ASSUME NEW r \in Restores, RestoreInv, Verify(r), lock = r
  PROVE  Restoring(r)'
<1>1. CASE Refuse(r) /\ UNCHANGED tx
  BY <1>1, RefuseStep, RestoreParts DEF Verify, Holds, Heading, Gates
<1>2. CASE tx' = [tx EXCEPT !.arch = archive] /\ Goto(r, "skew")
  <2>1. /\ pc'[r] = "skew" /\ tx'.arch = archive /\ tx'.way = tx.way /\ tx'.v = tx.v /\ tx'.ok = tx.ok
        /\ archive \in Archive /\ pc[r] = "verify"
        /\ UNCHANGED <<host, kept, vol, file, facts, tmp, was>>
    BY <1>2, RestoreParts DEF Verify, Holds, Goto, Txs, Typed
  <2>2. Heading(r)' /\ Captured(r)'
    BY <2>1, RestoreParts DEF Heading, Captured, Gates, Captures, Rollback, Either, Importing, InApply, Mutates, RestorePlaces
  <2>3. Aimed(r)' /\ Filed(r)' /\ Loaded(r)' 
    BY <2>1, RestoreParts DEF Aimed, Filed, Loaded, host, Heading, Gates, Captures, Rollback, Either, Importing, InApply, Mutates, RestorePlaces
  <2>4. Halts(r)' /\ Swapped(r)' /\ Told(r)'
    BY <2>1, RestoreParts DEF Halts, Swapped, Told, Heading, Gates, Captures, Importing, InApply
  <2>. QED  BY <2>2, <2>3, <2>4 DEF Restoring
<1>. QED  BY <1>1, <1>2 DEF Verify

\* The version skew: refused, or confirmed.
LEMMA SkewStep ==
  ASSUME NEW r \in Restores, RestoreInv, Skew(r), lock = r
  PROVE  Restoring(r)'
<1>1. CASE Refuse(r)
  BY <1>1, RefuseStep, RestoreParts DEF Skew, Holds, Heading, Gates, mine
<1>2. CASE Goto(r, "capconfig")
  <2>1. /\ pc'[r] = "capconfig" /\ pc[r] = "skew"
        /\ UNCHANGED <<host, kept, vol, file, facts, tmp, was, tx>>
    BY <1>2, RestoreParts DEF Skew, Holds, Goto, mine
  <2>2. Heading(r)' /\ Captured(r)'
    BY <2>1, RestoreParts DEF Heading, Captured, Gates, Captures, Rollback, Either, Importing, InApply, Mutates, RestorePlaces
  <2>3. Aimed(r)' /\ Filed(r)' /\ Loaded(r)'
    BY <2>1, RestoreParts DEF Aimed, Filed, Loaded, host, Heading, Gates, Captures, Rollback, Either, Importing, InApply, Mutates, RestorePlaces
  <2>4. Halts(r)' /\ Swapped(r)' /\ Told(r)'
    BY <2>1, RestoreParts DEF Halts, Swapped, Told, Heading, Gates, Captures, Importing, InApply
  <2>. QED  BY <2>2, <2>3, <2>4 DEF Restoring
<1>. QED  BY <1>1, <1>2 DEF Skew

\* The config is captured.
LEMMA CaptureConfigStep ==
  ASSUME NEW r \in Restores, RestoreInv, CaptureConfig(r), lock = r
  PROVE  Restoring(r)'
<1>1. CASE Refuse(r)
  BY <1>1, RefuseStep, RestoreParts DEF CaptureConfig, Holds, Heading, Gates, mine
<1>2. CASE Knows(r) /\ prior' = [prior EXCEPT ![r] = cfg] /\ Goto(r, "capvol")
  <2>1. /\ pc'[r] = "capvol" /\ pc[r] = "capconfig" /\ prior'[r] = cfg /\ Knows(r) /\ Knows(r)'
        /\ UNCHANGED <<host, next, todo, vol, file, facts, tmp, was, tx>>
    BY <1>2, RestoreParts, SameArchive DEF CaptureConfig, Holds, Goto, mine, Typed
  <2>2. tmp[r] = NoTars /\ tx.v = Chat /\ NoTars[Chat] = Absent /\ NoTars[Qdrant] = Absent /\ Chat # Qdrant
    BY <2>1, RestoreParts, ArchiveAssumption DEF Captured, Heading, Gates, NoTars, Volumes
  <2>3. Heading(r)' /\ Captured(r)'
    BY <2>1, <2>2, RestoreParts DEF Heading, Captured, Aimed, Gates, Captures, Rollback, Either, Importing, InApply, Mutates, RestorePlaces
  <2>4. Aimed(r)' /\ Filed(r)' /\ Loaded(r)'
    BY <2>1, RestoreParts DEF Aimed, Filed, Loaded, host, Heading, Gates, Captures, Rollback, Either, Importing, InApply, Mutates, RestorePlaces
  <2>5. Halts(r)' /\ Swapped(r)' /\ Told(r)'
    BY <2>1, RestoreParts DEF Halts, Swapped, Told, Heading, Gates, Captures, Importing, InApply
  <2>. QED  BY <2>3, <2>4, <2>5 DEF Restoring
<1>. QED  BY <1>1, <1>2 DEF CaptureConfig

\* What an export takes is a content that is there, and no mix.
LEMMA ExportedIsThere ==
  ASSUME NEW v \in Volumes, Typed, Unmixed, vol[v] # Absent, NEW t \in Exported(v)
  PROVE  t # Absent /\ t.of # "mixed" /\ t \in Stored
<1>1. vol[v] \in Stored /\ vol[v].of # "mixed"
  BY DEF Typed, Tars, Unmixed, Pure
<1>2. Torn \in Stored /\ Torn # Absent /\ Torn.of # "mixed"
  BY ArchiveAssumption DEF Torn, Stored, Absent, Origin
<1>. QED  BY <1>1, <1>2 DEF Exported

\* A volume is exported to its tar.
LEMMA CaptureVolumeStep ==
  ASSUME NEW r \in Restores, RestoreInv, CaptureVolume(r), lock = r
  PROVE  Restoring(r)'
<1>0. /\ pc[r] = "capvol" /\ tx.way = "forward" /\ tx.v \in Volumes /\ tx.ok /\ Chat # Qdrant
      /\ tmp[r][Qdrant] = Absent /\ (tmp[r][Chat] = Absent <=> tx.v = Chat) /\ (tx.v = Qdrant => Live(r))
      /\ tx.v = Chat \/ tx.v = Qdrant
  BY RestoreParts, ArchiveAssumption DEF CaptureVolume, Holds, Heading, Captured, Captures, Gates, Txs, Volumes
<1>1. CASE Refuse(r) /\ UNCHANGED tx
  BY <1>0, <1>1, RefuseStep
<1>2. CASE /\ vol[tx.v] # Absent
           /\ \E t \in Exported(tx.v) : tmp' = [tmp EXCEPT ![r][tx.v] = t]
           /\ IF tx.v = Chat /\ Live(r)
              THEN tx' = [tx EXCEPT !.v = Qdrant] /\ UNCHANGED pc
              ELSE tx' = [tx EXCEPT !.v = Chat] /\ Goto(r, "capfiles")
  <2>1. PICK t \in Exported(tx.v) : tmp' = [tmp EXCEPT ![r][tx.v] = t]
    BY <1>2
  <2>2. t # Absent
    BY <1>0, <1>2, ExportedIsThere, RestoreParts
  <2>3. tmp[r] \in Tars /\ DOMAIN tmp = Restores
    BY RestoreParts DEF Typed
  <2>4. tmp'[r][tx.v] = t /\ \A v \in Volumes \ {tx.v} : tmp'[r][v] = tmp[r][v]
    BY <1>0, <2>1, <2>3 DEF Tars
  <2>5. /\ UNCHANGED <<host, prior, next, todo, vol, file, facts, was>>
        /\ tx'.arch = tx.arch /\ tx'.way = tx.way /\ tx'.ok = tx.ok /\ tx'.files = tx.files
        /\ IF tx.v = Chat /\ Live(r) THEN tx'.v = Qdrant /\ pc'[r] = "capvol" ELSE tx'.v = Chat /\ pc'[r] = "capfiles"
    BY <1>0, <1>2, RestoreParts DEF CaptureVolume, Txs, Goto, kept
  <2>6. Live(r)' = Live(r) /\ Knows(r)' = Knows(r)
    BY <2>5, SameArchive
  <2>7. Captured(r)'
    <3>1. CASE tx.v = Chat /\ Live(r)
      BY <1>0, <2>2, <2>4, <2>5, <2>6, <3>1, RestoreParts DEF Captured, Gates, Captures, Mutates, RestorePlaces, Volumes
    <3>2. CASE ~(tx.v = Chat /\ Live(r))
      BY <1>0, <2>2, <2>4, <2>5, <2>6, <3>2, RestoreParts DEF Captured, Gates, Captures, Mutates, RestorePlaces, Volumes
    <3>. QED  BY <3>1, <3>2
  <2>8. Heading(r)'
    BY <1>0, <2>5, <2>6 DEF Heading, Gates, Captures, Rollback, Either, Importing, InApply
  <2>9. Aimed(r)' /\ Filed(r)' /\ Loaded(r)'
    BY <1>0, <2>5, RestoreParts DEF Aimed, Filed, Loaded, host, Heading, Gates, Captures, Rollback, Either, Importing, InApply, Mutates, RestorePlaces
  <2>10. Halts(r)' /\ Swapped(r)' /\ Told(r)'
    BY <1>0, <2>5, RestoreParts DEF Halts, Swapped, Told, Heading, Gates, Captures, Importing, InApply
  <2>. QED  BY <2>7, <2>8, <2>9, <2>10 DEF Restoring
<1>. QED  BY <1>1, <1>2 DEF CaptureVolume

\* The files that will be written are read.
LEMMA CaptureFilesStep ==
  ASSUME NEW r \in Restores, RestoreInv, CaptureFiles(r), lock = r
  PROVE  Restoring(r)'
<1>0. /\ pc[r] = "capfiles" /\ tx.way = "forward" /\ tx.v = Chat /\ tx.ok /\ Chat # Qdrant /\ file = was.file
      /\ file \in Files /\ Written(r) \subseteq facts[r].dests /\ facts[r].dests \subseteq Rows
  BY RestoreParts, ArchiveAssumption
  DEF CaptureFiles, Holds, Heading, Filed, Captures, Gates, Typed, Written
<1>1. CASE Refuse(r) /\ UNCHANGED tx
  BY <1>0, <1>1, RefuseStep
<1>2. ASSUME NEW rows \in SUBSET Rows, Written(r) \subseteq rows,
             tx' = [tx EXCEPT !.files = [row \in Rows |-> IF row \in rows THEN file[row] ELSE None]],
             Goto(r, "quiesce")
      PROVE  Restoring(r)'
  <2>1. /\ UNCHANGED <<host, prior, next, todo, vol, file, facts, was, tmp>>
        /\ tx'.arch = tx.arch /\ tx'.way = tx.way /\ tx'.ok = tx.ok /\ tx'.v = tx.v
        /\ tx'.files = [row \in Rows |-> IF row \in rows THEN file[row] ELSE None]
        /\ pc'[r] = "quiesce"
    BY <1>0, <1>2, RestoreParts DEF CaptureFiles, Txs, Goto, kept
  <2>2. Live(r)' = Live(r) /\ Knows(r)' = Knows(r) /\ Written(r)' = Written(r)
    BY <2>1, SameArchive
  <2>3. /\ tx'.files \in Files /\ \A row \in Rows : tx'.files[row] \in {None, was.file[row]}
        /\ \A row \in Written(r) : tx'.files[row] = was.file[row]
    BY <1>0, <1>2, <2>1 DEF Files
  <2>4. Captured(r)'
    BY <1>0, <2>1, <2>2, <2>3, RestoreParts DEF Captured, Gates, Captures, Mutates, RestorePlaces
  <2>5. Heading(r)'
    BY <1>0, <2>1 DEF Heading, Gates, Captures, Rollback, Either, Importing, InApply
  <2>6. Aimed(r)' /\ Filed(r)'
    BY <1>0, <2>1, RestoreParts DEF Aimed, Filed, host, Gates, Captures, Rollback, Either, Importing, InApply, Mutates, RestorePlaces
  <2>7. Loaded(r)'
    BY <1>0, <2>1, RestoreParts DEF Loaded, Settled, host, Gates, Captures, Rollback, Importing, InApply, Mutates, RestorePlaces
  <2>8. Halts(r)' /\ Swapped(r)' /\ Told(r)'
    BY <1>0, <2>1, RestoreParts DEF Halts, Swapped, Told, Gates, Captures, Importing, InApply
  <2>. QED  BY <2>4, <2>5, <2>6, <2>7, <2>8 DEF Restoring
<1>3. CASE /\ tx' = [tx EXCEPT !.files = [row \in Rows |-> IF row \in facts[r].dests THEN file[row] ELSE None]]
           /\ Goto(r, "quiesce")
  BY <1>0, <1>2, <1>3
<1>4. ASSUME NEW bad \in facts[r].dests \ Written(r),
             tx' = [tx EXCEPT !.files = [row \in Rows |-> IF row \in facts[r].dests \ {bad} THEN file[row] ELSE None]],
             Goto(r, "quiesce")
      PROVE  Restoring(r)'
  <2>1. facts[r].dests \ {bad} \in SUBSET Rows /\ Written(r) \subseteq facts[r].dests \ {bad}
    BY <1>0
  <2>. QED  BY <1>2, <1>4, <2>1
<1>. QED  BY <1>1, <1>3, <1>4 DEF CaptureFiles

\* Every row a restore does not write is as it was, whichever way it goes.
LEMMA OtherRows ==
  ASSUME NEW r \in Restores, RestoreInv, lock = r, pc[r] \in Mutates, tx.ok
  PROVE  \A row \in Rows \ Written(r) : file[row] = was.file[row]
BY RestoreParts DEF Filed

\* A service is stopped, Open WebUI first.
LEMMA QuiesceStep ==
  ASSUME NEW r \in Restores, RestoreInv, Quiesce(r), lock = r
  PROVE  Restoring(r)'
<1>0. /\ pc[r] = "quiesce" /\ tx.way = "forward" /\ tx.ok /\ Chat # Qdrant /\ pc[r] \in Mutates
      /\ tx.v = Chat \/ (tx.v = Qdrant /\ Live(r) /\ run[Chat] = Down)
      /\ cfg = was.cfg /\ file = was.file /\ disk = was.disk /\ loaded = was.loaded
      /\ run \in RunOf /\ Chat \in Services /\ Qdrant \in Services
  BY RestoreParts, ArchiveAssumption
  DEF Quiesce, Holds, Heading, Filed, Aimed, Loaded, Halts, Captures, Gates, Typed, Mutates, RestorePlaces, Txs, Volumes
<1>1. /\ UNCHANGED <<lock, cfg, env, disk, loaded, prior, next, todo, file, facts, tmp, out>> /\ SameWas
  BY RestoreParts DEF Quiesce, kept, SameWas, Typed
<1>2. Settled'
  BY <1>0, <1>1 DEF Settled, SameWas
<1>3. CASE StopFails(tx.v) /\ RollBack(r)
  BY <1>0, <1>1, <1>2, <1>3, RollBackStep, OtherRows
<1>4. CASE StopOk(tx.v) /\ OrQdrant(r, Live(r), "save")
  <2>1. /\ tx'.arch = tx.arch /\ tx'.way = tx.way /\ tx'.ok = tx.ok /\ tx'.files = tx.files
        /\ IF tx.v = Chat /\ Live(r) THEN tx'.v = Qdrant /\ pc'[r] = "quiesce" ELSE tx'.v = Chat /\ pc'[r] = "save"
    BY <1>0, <1>4, RestoreParts DEF OrQdrant, Txs, Goto
  <2>2. run'[Chat] = Down
    BY <1>0, <1>4 DEF StopOk, RunOf
  <2>3. Captured(r)' /\ Live(r)' = Live(r) /\ Written(r)' = Written(r)
    BY <1>0, <1>1, <2>1, RestoreParts, KeptCaptured, SameArchive DEF Kept, Mutates, RestorePlaces, Gates, Captures
  <2>4. Heading(r)'
    BY <1>0, <2>1, <2>3 DEF Heading, Gates, Captures, Rollback, Either, Importing, InApply
  <2>5. Aimed(r)' /\ Filed(r)'
    BY <1>0, <1>1, <2>1 DEF Aimed, Filed, SameWas, Gates, Captures, Rollback, Either, Importing, InApply, Mutates, RestorePlaces
  <2>6. Loaded(r)'
    BY <1>0, <1>1, <1>2, <2>1 DEF Loaded, SameWas, Gates, Captures, Rollback, Importing, InApply, Mutates, RestorePlaces
  <2>7. Halts(r)' /\ Swapped(r)' /\ Told(r)'
    BY <1>0, <2>1, <2>2 DEF Halts, Swapped, Told, Gates, Captures, Importing, InApply
  <2>. QED  BY <2>3, <2>4, <2>5, <2>6, <2>7 DEF Restoring
<1>. QED  BY <1>3, <1>4 DEF Quiesce

\* The archive's config is saved.
LEMMA SaveStep ==
  ASSUME NEW r \in Restores, RestoreInv, SaveRestored(r), lock = r
  PROVE  Restoring(r)'
<1>0. /\ pc[r] = "save" /\ tx.way = "forward" /\ tx.ok /\ Chat # Qdrant /\ tx.v = Chat /\ pc[r] \in Mutates
      /\ run[Chat] = Down /\ Settled /\ file = was.file /\ disk = was.disk /\ loaded = was.loaded
  BY RestoreParts, ArchiveAssumption
  DEF SaveRestored, Holds, Heading, Filed, Loaded, Halts, Mutates, RestorePlaces, Gates, Captures, InApply
<1>1. UNCHANGED <<lock, env, disk, loaded, run, prior, next, todo, file, facts, tmp, out, was>> /\ SameWas
  BY DEF SaveRestored, kept, SameWas
<1>2. Settled'
  BY <1>0, <1>1 DEF Settled
<1>3. CASE RollBack(r)
  BY <1>0, <1>1, <1>2, <1>3, RollBackStep, OtherRows
<1>4. CASE cfg' = tx.arch.cfg /\ Goto(r, "files") /\ UNCHANGED tx
  <2>1. pc'[r] = "files" /\ tx' = tx /\ cfg' = tx.arch.cfg
    BY <1>4, RestoreParts DEF Goto
  <2>2. Captured(r)' /\ Live(r)' = Live(r) /\ Written(r)' = Written(r)
    BY <1>0, <1>1, <2>1, RestoreParts, KeptCaptured, SameArchive DEF Kept, Mutates, RestorePlaces, Gates, Captures
  <2>3. Heading(r)' /\ Aimed(r)'
    BY <1>0, <2>1 DEF Heading, Aimed, Has, Gates, Captures, Rollback, Either, Importing, InApply
  <2>4. Filed(r)' /\ Loaded(r)'
    BY <1>0, <1>1, <1>2, <2>1 DEF Filed, Loaded, SameWas, Gates, Captures, Rollback, Either, Importing, InApply, Mutates, RestorePlaces
  <2>5. Halts(r)' /\ Swapped(r)' /\ Told(r)'
    BY <1>0, <1>1, <2>1 DEF Halts, Swapped, Told, Gates, Captures, Importing, InApply
  <2>. QED  BY <2>2, <2>3, <2>4, <2>5 DEF Restoring
<1>. QED  BY <1>3, <1>4 DEF SaveRestored

\* The archive's files are written.
LEMMA WriteFilesStep ==
  ASSUME NEW r \in Restores, RestoreInv, WriteFiles(r), lock = r
  PROVE  Restoring(r)'
<1>0. /\ pc[r] = "files" /\ tx.way = "forward" /\ tx.ok /\ Chat # Qdrant /\ tx.v = Chat /\ pc[r] \in Mutates
      /\ run[Chat] = Down /\ Settled /\ file = was.file /\ disk = was.disk /\ loaded = was.loaded
      /\ Has(tx.arch.cfg)
  BY RestoreParts, ArchiveAssumption
  DEF WriteFiles, Holds, Heading, Aimed, Filed, Loaded, Halts, Mutates, RestorePlaces, Gates, Captures, InApply
<1>1. UNCHANGED <<lock, cfg, env, disk, loaded, run, prior, next, todo, facts, tmp, out, was>> /\ SameWas
  BY DEF WriteFiles, kept, SameWas, host
<1>2. Settled'
  BY <1>0, <1>1 DEF Settled
<1>3. ASSUME \A row \in Rows \ Written(r) : file'[row] = file[row], RollBack(r)
      PROVE  Restoring(r)'
  BY <1>0, <1>1, <1>2, <1>3, RollBackStep
<1>4. ASSUME NEW bad \in Written(r), NEW done \in SUBSET Written(r), NEW left,
             file' = [row \in Rows |-> IF row \in done THEN tx.arch.files[row]
                                       ELSE IF row = bad /\ left = "torn" THEN "torn" ELSE file[row]]
      PROVE  \A row \in Rows \ Written(r) : file'[row] = file[row]
  BY <1>4
<1>5. CASE /\ file' = [row \in Rows |-> IF row \in Written(r) THEN tx.arch.files[row] ELSE file[row]]
           /\ Goto(r, "remove") /\ UNCHANGED tx
  <2>1. pc'[r] = "remove" /\ tx' = tx
    BY <1>5, RestoreParts DEF Goto
  <2>2. Captured(r)' /\ Live(r)' = Live(r) /\ Written(r)' = Written(r)
    BY <1>0, <1>1, <2>1, RestoreParts, KeptCaptured, SameArchive DEF Kept, Mutates, RestorePlaces, Gates, Captures, Either, Importing
  <2>3. Heading(r)' /\ Aimed(r)'
    BY <1>0, <1>1, <2>1 DEF Heading, Aimed, Has, Recreated, Gates, Captures, Rollback, Either, Importing, InApply
  <2>4. Written(r) \subseteq Rows
    BY RestoreParts DEF Written, Typed
  <2>5. Filed(r)'
    BY <1>0, <1>1, <1>5, <2>1, <2>2, <2>4 DEF Filed, SameWas, Gates, Captures, Rollback, Either, Importing, InApply, Mutates, RestorePlaces
  <2>6. Loaded(r)'
    BY <1>0, <1>1, <1>2, <2>1 DEF Loaded, SameWas, Gates, Captures, Rollback, Importing, InApply, Mutates, RestorePlaces
  <2>7. Halts(r)' /\ Swapped(r)' /\ Told(r)'
    BY <1>0, <1>1, <2>1 DEF Halts, Swapped, Told, Gates, Captures, Importing, InApply
  <2>. QED  BY <2>2, <2>3, <2>5, <2>6, <2>7 DEF Restoring
<1>. QED  BY <1>3, <1>4, <1>5 DEF WriteFiles

\* A step of the volume swap that fails: the rollback, or a note and the next step of it.
LEMMA SwapFailsStep ==
  ASSUME NEW r \in Restores, RestoreInv, lock = r, pc[r] \in Either, SwapFails(r),
         lock' = lock, SameWas, prior' = prior, tmp' = tmp, facts' = facts, file' = file,
         tx.way = "forward" => Settled'
  PROVE  Restoring(r)'
<1>0. pc[r] \in Mutates /\ (tx.way = "forward" => tx.ok) /\ Chat # Qdrant
  BY RestoreParts, ArchiveAssumption DEF Either, Mutates, RestorePlaces, Importing, InApply, Gates, Captures, Heading
<1>1. CASE tx.way = "forward" /\ RollBack(r)
  BY <1>0, <1>1, RollBackStep, OtherRows
<1>2. CASE tx.way = "back" /\ tx' = [tx EXCEPT !.ok = Notes] /\ Goto(r, AfterVolume)
  <2>1. /\ tx'.arch = tx.arch /\ tx'.files = tx.files /\ tx'.way = "back" /\ tx'.v = tx.v /\ ~tx'.ok
        /\ tx.v = Qdrant => Live(r)
        /\ IF tx.v = Qdrant THEN pc'[r] = "rbstartq" ELSE tx.v = Chat /\ pc'[r] = "rbqdrant"
    BY <1>2, RestoreParts DEF Goto, AfterVolume, Txs, Volumes, Heading, Notes
  <2>2. Captured(r)' /\ Live(r)' = Live(r)
    BY <1>0, <2>1, KeptCaptured, SameArchive, RestoreParts DEF Kept, Mutates, RestorePlaces, Gates, Captures
  <2>3. Heading(r)'
    BY <1>0, <2>1, <2>2 DEF Heading, Gates, Captures, Rollback, Either, Importing, InApply
  <2>4. Aimed(r)' /\ Filed(r)' /\ Loaded(r)'
    BY <2>1 DEF Aimed, Filed, Loaded, Gates, Captures, Rollback, Either, Importing, InApply
  <2>5. Halts(r)' /\ Swapped(r)' /\ Told(r)'
    BY <2>1 DEF Halts, Swapped, Told, Gates, Captures, Importing, InApply
  <2>. QED  BY <2>2, <2>3, <2>4, <2>5 DEF Restoring
<1>. QED  BY <1>1, <1>2 DEF SwapFails

\* An apply that failed: on the way back its part is given up.
LEMMA ApplyFailedStep ==
  ASSUME NEW r \in Restores, RestoreInv, ApplyFailed(r), lock = r
  PROVE  Restoring(r)'
<1>1. tx.way = "forward" => Settled
  BY RestoreParts DEF ApplyFailed, Holds, Loaded, Heading, Mutates, RestorePlaces, Gates, Captures
<1>2. UNCHANGED <<disk, loaded, was>>
  BY DEF ApplyFailed, host
<1>. QED
  BY <1>1, <1>2, SwapFailsStep DEF ApplyFailed, Holds, kept, Settled, SameWas, Either

\* A volume is removed, to be imported anew.
LEMMA RemoveVolumeStep ==
  ASSUME NEW r \in Restores, RestoreInv, RemoveVolume(r), lock = r
  PROVE  Restoring(r)'
<1>0. /\ pc[r] = "remove" /\ pc[r] \in Mutates /\ pc[r] \in Either /\ Chat # Qdrant /\ tx.v \in Volumes
      /\ tx.way = "forward" \/ tx.way = "back"
      /\ tx.way = "forward" => tx.ok
      /\ tx.ok => Settled
  BY RestoreParts, ArchiveAssumption
  DEF RemoveVolume, Holds, Heading, Loaded, Mutates, RestorePlaces, Gates, Captures, Either, Txs
<1>1. UNCHANGED <<lock, cfg, env, disk, loaded, run, prior, todo, file, facts, tmp, out, was>> /\ SameWas
  BY DEF RemoveVolume, SameWas, host
<1>2. Settled' = Settled
  BY <1>1 DEF Settled
<1>3. CASE SwapFails(r)
  BY <1>0, <1>1, <1>2, <1>3, SwapFailsStep
<1>4. CASE /\ vol' = [vol EXCEPT ![tx.v] = IF run[tx.v] = Down THEN Absent ELSE @]
           /\ next' = [next EXCEPT ![r] = Recreated(r)]
           /\ Goto(r, "heal") /\ UNCHANGED tx
  <2>1. pc'[r] = "heal" /\ tx' = tx /\ next'[r] = Recreated(r) /\ Recreated(r)' = Recreated(r)
    BY <1>1, <1>4, RestoreParts DEF Goto, Typed, Recreated
  <2>2. Captured(r)' /\ Live(r)' = Live(r) /\ Written(r)' = Written(r)
    BY <1>0, <1>1, <2>1, RestoreParts, KeptCaptured, SameArchive DEF Kept, Mutates, RestorePlaces, Gates, Captures, Importing, InApply
  <2>3. Heading(r)'
    BY <1>0, <2>1, <2>2, RestoreParts DEF Heading, Carries, Gates, Captures, Rollback, Either, Importing, InApply
  <2>4. Aimed(r)'
    BY <1>0, <1>1, <2>1, RestoreParts DEF Aimed, Has, InPlace, AsRendered, Gates, Captures, Importing, InApply
  <2>5. Filed(r)'
    BY <1>0, <1>1, <2>1, <2>2, RestoreParts DEF Filed, Gates, Captures, Rollback, Either, Importing, InApply, Mutates, RestorePlaces
  <2>6. Loaded(r)'
    BY <1>0, <1>1, <1>2, <2>1, RestoreParts DEF Loaded, Loads, Gates, Captures, Rollback, Importing, InApply, Mutates, RestorePlaces
  <2>7. Halts(r)' /\ Told(r)'
    BY <1>0, <1>1, <2>1, RestoreParts DEF Halts, Told, Gates, Captures, Importing, InApply
  <2>8. tx.v # Chat => vol'[Chat] = vol[Chat]
    BY <1>4, RestoreParts DEF Typed, Tars, Volumes
  <2>9. Swapped(r)'
    BY <1>0, <1>1, <2>1, <2>8, RestoreParts DEF Swapped, FromArchive, FromTar, Carries, Gates, Captures, Importing, InApply
  <2>. QED  BY <2>2, <2>3, <2>4, <2>5, <2>6, <2>7, <2>9 DEF Restoring
<1>. QED  BY <1>3, <1>4 DEF RemoveVolume

----------------------------------------------------------------------------
(* The apply, forward and back: what it leaves alone, then its steps        *)

\* An apply goes on, ends, or fails.
LEMMA ApplyPlaces ==
  ASSUME NEW r \in Restores, RestoreInv, lock = r, Apply(r)
  PROVE  /\ pc[r] \in InApply /\ pc'[r] \in Importing \cup {"failed"}
         /\ UNCHANGED <<lock, prior, out>>
BY RestoreParts
DEF Apply, HealKey, HealEnv, PlanApply, StopOrphan, WriteUnit, RemoveUnit, Reload, InApply, Importing, Goto, host, locals

\* No step of an apply touches files, volumes or the capture.
LEMMA ApplyFrame ==
  ASSUME NEW r \in Restores, RestoreInv, lock = r, Reapply(r)
  PROVE  /\ Heading(r)' /\ Captured(r)' /\ Filed(r)' /\ Swapped(r)' /\ Told(r)'
         /\ UNCHANGED <<lock, prior, out, mine>> /\ SameWas /\ Recreated(r)' = Recreated(r)
         /\ pc[r] \in InApply /\ pc'[r] \in Importing \cup {"failed"} /\ Apply(r)
         /\ tx.way = "forward" \/ tx.way = "back"
         /\ tx.way = "forward" => tx.ok
         /\ tx.ok \in BOOLEAN
<1>1. /\ UNCHANGED <<lock, prior, out, vol, file, facts, tmp, tx, was>> /\ SameWas /\ UNCHANGED mine
      /\ pc[r] \in InApply /\ pc'[r] \in Importing \cup {"failed"} /\ Apply(r)
  BY ApplyPlaces DEF Reapply, mine, SameWas
<1>2. Live(r)' = Live(r) /\ Written(r)' = Written(r)
  BY <1>1, SameArchive
<1>3. /\ pc[r] \in Mutates /\ pc'[r] \in Mutates /\ pc[r] \in Either /\ pc'[r] \in Either
      /\ pc'[r] \notin Gates \cup Captures \cup Rollback \cup {"quiesce", "save", "files", "restart", "prove", "report"}
      /\ pc[r] \in Importing
  BY <1>1 DEF Mutates, RestorePlaces, Gates, Captures, Either, Importing, InApply, Rollback
<1>4. Heading(r)'
  BY <1>1, <1>2, <1>3, RestoreParts DEF Heading, Carries, Gates, Captures, Rollback
<1>5. Captured(r)'
  BY <1>1, <1>3, KeptCaptured, RestoreParts DEF Kept
<1>6. Filed(r)'
  BY <1>1, <1>2, <1>3, RestoreParts DEF Filed, Gates, Captures, Rollback
<1>7. Swapped(r)' /\ Told(r)'
  BY <1>1, <1>3, RestoreParts DEF Swapped, Told, FromArchive, FromTar, Carries, Importing, Rollback
<1>. QED
  BY <1>1, <1>4, <1>5, <1>6, <1>7, RestoreParts DEF Recreated, Heading, Txs

\* A failing step leaves only what is loaded to be looked at.
LEMMA ApplyFails ==
  ASSUME NEW r \in Restores, RestoreInv, lock = r, Reapply(r), pc'[r] = "failed",
         tx.way = "forward" => Settled'
  PROVE  Restoring(r)'
<1>1. Aimed(r)' /\ Halts(r)'
  BY DEF Aimed, Halts, Gates, Captures, Importing, InApply
<1>2. Loaded(r)'
  BY ApplyFrame DEF Loaded, Gates, Captures, Importing, InApply, mine
<1>. QED  BY <1>1, <1>2, ApplyFrame DEF Restoring

\* Before the first unit is written nothing is another than it was; so the config, the env
\* file and the plan go wrong without consequence.
LEMMA EarlyApply ==
  ASSUME NEW r \in Restores, RestoreInv, lock = r, pc[r] \in {"heal", "env", "plan"}, UNCHANGED <<disk, loaded, was>>
  PROVE  /\ tx.ok => Settled /\ Settled'
         /\ tx.way = "forward" /\ tx.v = Chat => loaded' = was'.loaded /\ disk' = was'.disk
         /\ tx.way = "forward" /\ tx.v = Qdrant => Loads'
<1>1. pc[r] \in Mutates /\ pc[r] \in InApply /\ pc[r] \notin {"write", "failed"}
  BY DEF Mutates, RestorePlaces, Gates, Captures, InApply
<1>. QED  BY <1>1, RestoreParts DEF Loaded, Settled, Loads

\* The steps of the apply: a missing key is made.
LEMMA HealKeyStep ==
  ASSUME NEW r \in Restores, RestoreInv, Reapply(r), HealKey(r), lock = r
  PROVE  Restoring(r)'
<1>0. /\ pc[r] = "heal" /\ next[r] = Recreated(r) /\ (tx.ok => Has(Recreated(r)))
      /\ cfg \in Config /\ next[r] \in Config /\ DOMAIN next = Procs /\ NoKey \notin Keys
      /\ UNCHANGED <<disk, loaded, run, env>> /\ UNCHANGED <<tx, was>>
  BY RestoreParts, HostAssumption, ApplyFrame DEF HealKey, Aimed, Typed, Importing, InApply, mine
<1>1. (tx.ok => Settled /\ Settled')
      /\ (tx.way = "forward" /\ tx.v = Chat => loaded' = was'.loaded /\ disk' = was'.disk)
      /\ (tx.way = "forward" /\ tx.v = Qdrant => Loads')
  BY <1>0, EarlyApply
<1>2. CASE pc' = [pc EXCEPT ![r] = "failed"]
  BY <1>1, <1>2, ApplyFails, ApplyFrame, RestoreParts
<1>3. ASSUME pc' = [pc EXCEPT ![r] = "env"], tx.ok => Has(Recreated(r))' /\ next'[r] = cfg' /\ cfg'.id = Recreated(r).id
      PROVE  Restoring(r)'
  <2>1. pc'[r] = "env"
    BY <1>3, RestoreParts
  <2>2. tx.ok /\ tx.v = Qdrant => InPlace'
    <3>1. tx.ok /\ tx.v = Qdrant => InPlace /\ cfg'.id = cfg.id
      BY <1>0, <1>3, RestoreParts DEF Aimed, Has, Importing, InApply
    <3>. QED  BY <1>0, <3>1 DEF InPlace, AsRendered
  <2>3. Aimed(r)'
    BY <1>0, <1>3, <2>1, <2>2 DEF Aimed, Gates, Captures, Importing, InApply
  <2>4. Loaded(r)'
    BY <1>0, <1>1, <2>1, RestoreParts DEF Loaded, Heading, Gates, Captures, Importing, InApply
  <2>5. Halts(r)'
    BY <1>0, <2>1, RestoreParts DEF Halts, Importing, InApply
  <2>. QED  BY <2>3, <2>4, <2>5, ApplyFrame DEF Restoring
<1>4. CASE next[r].key # NoKey /\ Goto(r, "env") /\ UNCHANGED <<cfg, next>>
  <2>1. tx.ok => next[r] = cfg
    BY <1>0, <1>4 DEF Has, Config
  <2>2. Recreated(r)' = Recreated(r)
    BY ApplyFrame
  <2>. QED  BY <1>0, <1>3, <1>4, <2>1, <2>2 DEF Goto, Has
<1>5. CASE /\ next[r].key = NoKey /\ \E k \in Keys \ {env} : cfg' = [next[r] EXCEPT !.key = k]
           /\ next' = [next EXCEPT ![r] = cfg'] /\ Goto(r, "env")
  <2>1. cfg'.id = next[r].id /\ next'[r] = cfg'
    BY <1>0, <1>5, RestoreParts DEF Config
  <2>2. Recreated(r)' = Recreated(r)
    BY ApplyFrame
  <2>. QED  BY <1>0, <1>3, <1>5, <2>1, <2>2 DEF Goto, Has
<1>. QED  BY <1>2, <1>4, <1>5 DEF HealKey, Goto

\* The env file gets the config's key.
LEMMA HealEnvStep ==
  ASSUME NEW r \in Restores, RestoreInv, Reapply(r), HealEnv(r), lock = r
  PROVE  Restoring(r)'
<1>0. /\ pc[r] = "env" /\ (tx.ok => next[r] = cfg /\ Has(Recreated(r)))
      /\ UNCHANGED <<cfg, disk, loaded, run, next>> /\ UNCHANGED <<tx, was>>
  BY RestoreParts, ApplyFrame DEF HealEnv, Aimed, Importing, InApply, mine, locals
<1>1. (tx.ok => Settled /\ Settled')
      /\ (tx.way = "forward" /\ tx.v = Chat => loaded' = was'.loaded /\ disk' = was'.disk)
      /\ (tx.way = "forward" /\ tx.v = Qdrant => Loads')
  BY <1>0, EarlyApply
<1>2. CASE Goto(r, "failed")
  BY <1>1, <1>2, ApplyFails, ApplyFrame, RestoreParts DEF Goto
<1>3. CASE env' = next[r].key /\ Goto(r, "plan")
  <2>1. pc'[r] = "plan" /\ env' = next[r].key
    BY <1>3, RestoreParts DEF Goto
  <2>2. Recreated(r)' = Recreated(r)
    BY ApplyFrame
  <2>3. Aimed(r)'
    BY <1>0, <2>1, <2>2, RestoreParts DEF Aimed, Has, InPlace, AsRendered, Gates, Captures, Importing, InApply
  <2>4. Loaded(r)'
    BY <1>0, <1>1, <2>1, RestoreParts DEF Loaded, Heading, Gates, Captures, Importing, InApply
  <2>5. Halts(r)'
    BY <1>0, <2>1, RestoreParts DEF Halts, Importing, InApply
  <2>. QED  BY <2>3, <2>4, <2>5, ApplyFrame DEF Restoring
<1>. QED  BY <1>2, <1>3 DEF HealEnv

\* Each unit is planned against the disk.
LEMMA PlanStep ==
  ASSUME NEW r \in Restores, RestoreInv, Reapply(r), PlanApply(r), lock = r
  PROVE  Restoring(r)'
<1>0. /\ pc[r] = "plan" /\ (tx.ok => next[r] = cfg /\ Has(Recreated(r)) /\ env = cfg.key)
      /\ (tx.ok /\ tx.v = Qdrant => InPlace)
      /\ UNCHANGED <<cfg, env, disk, loaded, run, next>> /\ UNCHANGED <<tx, was>>
      /\ todo \in [Procs -> [Units -> Todo]] /\ r \in Procs
  BY RestoreParts, ApplyFrame DEF PlanApply, Aimed, Importing, InApply, mine, host, Typed
<1>1. (tx.ok => Settled /\ Settled')
      /\ (tx.way = "forward" /\ tx.v = Chat => loaded' = was'.loaded /\ disk' = was'.disk)
      /\ (tx.way = "forward" /\ tx.v = Qdrant => Loads')
  BY <1>0, EarlyApply
<1>2. CASE Goto(r, "failed")
  BY <1>1, <1>2, ApplyFails, ApplyFrame, RestoreParts DEF Goto
<1>3. CASE /\ todo' = [todo EXCEPT ![r] = [u \in Units |->
                IF u \in ToChange(next[r].id, disk) THEN "write"
                ELSE IF u \notin Orphans(next[r].id, disk) THEN "keep"
                ELSE IF u \in Services /\ Up(u) THEN "stop" ELSE "remove"]]
           /\ Goto(r, IF ToChange(next[r].id, disk) \cup Orphans(next[r].id, disk) = {} THEN "applied" ELSE "write")
  <2>1. /\ \A u \in Units : todo'[r][u] =
             IF u \in ToChange(next[r].id, disk) THEN "write"
                ELSE IF u \notin Orphans(next[r].id, disk) THEN "keep"
                ELSE IF u \in Services /\ Up(u) THEN "stop" ELSE "remove"
        /\ pc'[r] = IF ToChange(next[r].id, disk) \cup Orphans(next[r].id, disk) = {} THEN "applied" ELSE "write"
    BY <1>0, <1>3, RestoreParts DEF Goto
  <2>2. Recreated(r)' = Recreated(r)
    BY ApplyFrame
  <2>3. ASSUME tx.ok, NEW u \in Units
        PROVE  /\ AsRendered(cfg.id, u) <=> u \notin ToChange(next[r].id, disk) \cup Orphans(next[r].id, disk)
               /\ u \in ToChange(next[r].id, disk) => Rendered[cfg.id][u] # None
               /\ u \in Orphans(next[r].id, disk) => Rendered[cfg.id][u] = None
    BY <1>0, <2>3, HostAssumption DEF AsRendered, ToChange, Orphans
  <2>4. tx.ok => (InPlace <=> pc'[r] = "applied") /\ (pc'[r] = "applied" \/ pc'[r] = "write")
    <3>1. ToChange(next[r].id, disk) \subseteq Units /\ Orphans(next[r].id, disk) \subseteq Units
      BY HostAssumption DEF ToChange, Orphans
    <3>. QED  BY <2>1, <2>3, <3>1 DEF InPlace
  <2>5. InPlace' = InPlace /\ \A u \in Units : AsRendered(cfg.id, u)' = AsRendered(cfg.id, u)
    BY <1>0 DEF InPlace, AsRendered
  <2>6. tx.ok => \A u \in Units :
           /\ todo'[r][u] \in {"keep", "written"} => AsRendered(cfg.id, u)
           /\ todo'[r][u] = "write" => Rendered[cfg.id][u] # None
           /\ todo'[r][u] \in {"stop", "remove"} => Rendered[cfg.id][u] = None
    BY <2>1, <2>3
  <2>7. pc'[r] \in {"applied", "write"}
    BY <2>1
  <2>8. Aimed(r)'
    <3>1. CASE pc'[r] = "applied"
      BY <1>0, <2>2, <2>4, <2>5, <3>1 DEF Aimed, Has, Gates, Captures, Importing, InApply
    <3>2. CASE pc'[r] = "write"
      BY <1>0, <2>2, <2>4, <2>5, <2>6, <3>2 DEF Aimed, Has, Gates, Captures, Importing, InApply
    <3>. QED  BY <2>7, <3>1, <3>2
  <2>9. tx.way = "forward" /\ tx.v = Chat /\ pc'[r] = "applied" => Loads'
    BY <1>1 DEF Loads
  <2>10. tx.way = "forward" /\ tx.v = Qdrant => pc'[r] = "applied"
    BY <1>0, <2>4, ApplyFrame
  <2>11. Loaded(r)'
    BY <1>0, <1>1, <2>7, <2>9, <2>10, RestoreParts, ApplyFrame DEF Loaded, Heading, Txs, Volumes, Gates, Captures, Importing, InApply
  <2>12. Halts(r)'
    BY <1>0, <2>7, RestoreParts DEF Halts, Importing, InApply
  <2>. QED  BY <2>8, <2>11, <2>12, ApplyFrame DEF Restoring
<1>. QED  BY <1>2, <1>3 DEF PlanApply

\* What the steps of a plan have in common: it is not the second one, which is empty, and
\* going forward nothing has been reloaded yet.
LEMMA Writing ==
  ASSUME NEW r \in Restores, RestoreInv, Reapply(r), pc[r] = "write", UNCHANGED <<cfg, env, loaded, next>>
  PROVE  /\ lock = r /\ UNCHANGED <<tx, was>> /\ Recreated(r)' = Recreated(r)
         /\ todo \in [Procs -> [Units -> Todo]] /\ r \in Procs /\ run \in RunOf /\ disk \in Content
         /\ tx.ok => next[r] = cfg /\ Has(Recreated(r)) /\ env = cfg.key /\ tx.v # Qdrant
         /\ tx.ok => \A u \in Units :
              /\ todo[r][u] \in {"keep", "written"} => AsRendered(cfg.id, u)
              /\ todo[r][u] = "write" => Rendered[cfg.id][u] # None
              /\ todo[r][u] \in {"stop", "remove"} => Rendered[cfg.id][u] = None
         /\ tx.way = "forward" => tx.v = Chat /\ loaded = was.loaded
         /\ tx.way = "forward" => Settled'
         /\ tx.way = "forward" \/ tx.ok => run[Chat] = Down
<1>1. lock = r
  BY DEF Reapply
<1>2. /\ UNCHANGED <<tx, was>> /\ Recreated(r)' = Recreated(r)
      /\ tx.way = "forward" \/ tx.way = "back"
      /\ tx.way = "forward" => tx.ok
      /\ todo \in [Procs -> [Units -> Todo]] /\ r \in Procs /\ run \in RunOf /\ disk \in Content
  BY <1>1, ApplyFrame, RestoreParts DEF mine, Typed
<1>3. /\ tx.ok => next[r] = cfg /\ Has(Recreated(r)) /\ env = cfg.key /\ tx.v # Qdrant
      /\ tx.ok => \A u \in Units :
              /\ todo[r][u] \in {"keep", "written"} => AsRendered(cfg.id, u)
              /\ todo[r][u] = "write" => Rendered[cfg.id][u] # None
              /\ todo[r][u] \in {"stop", "remove"} => Rendered[cfg.id][u] = None
  BY <1>1, RestoreParts DEF Aimed, Importing, InApply
<1>4. tx.way = "forward" => tx.v = Chat /\ loaded = was.loaded
  BY <1>1, <1>2, <1>3, RestoreParts DEF Loaded, Txs, Volumes, InApply
<1>5. tx.way = "forward" => Settled'
  BY <1>2, <1>4 DEF Settled
<1>6. tx.way = "forward" \/ tx.ok => run[Chat] = Down
  BY <1>1, <1>2, RestoreParts DEF Halts, Importing, InApply
<1>. QED  BY <1>1, <1>2, <1>3, <1>4, <1>5, <1>6

\* A unit of the plan is dealt with and the next one follows.
LEMMA NextUnit ==
  ASSUME NEW r \in Restores, RestoreInv, Reapply(r), pc[r] = "write", UNCHANGED <<cfg, env, loaded, next, pc>>,
         NEW u \in Units, NEW mark \in {"keep", "written", "remove"}, Mark(r, u, mark),
         \A w \in Units \ {u} : disk'[w] = disk[w],
         tx.ok => IF mark = "remove" THEN Rendered[cfg.id][u] = None ELSE AsRendered(cfg.id, u)',
         run[Chat] = Down => run'[Chat] = Down
  PROVE  Restoring(r)'
<1>1. todo'[r][u] = mark /\ \A w \in Units \ {u} : todo'[r][w] = todo[r][w]
  BY Writing DEF Mark
<1>2. \A w \in Units \ {u} : AsRendered(cfg.id, w)' = AsRendered(cfg.id, w)
  BY DEF AsRendered
<1>3. tx.ok => \A w \in Units :
         /\ todo'[r][w] \in {"keep", "written"} => AsRendered(cfg.id, w)'
         /\ todo'[r][w] = "write" => Rendered[cfg.id][w] # None
         /\ todo'[r][w] \in {"stop", "remove"} => Rendered[cfg.id][w] = None
  BY <1>1, <1>2, Writing
<1>4. Aimed(r)'
  BY <1>3, Writing DEF Aimed, Has, Gates, Captures, Importing, InApply
<1>5. Loaded(r)'
  BY Writing, ApplyFrame DEF Loaded, Gates, Captures, Importing, InApply
<1>6. Halts(r)'
  BY Writing, ApplyFrame DEF Halts, Importing, InApply
<1>. QED  BY <1>4, <1>5, <1>6, ApplyFrame, Writing DEF Restoring

\* A service that the config has no more is stopped.
LEMMA StopOrphanStep ==
  ASSUME NEW r \in Restores, RestoreInv, Reapply(r), StopOrphan(r), lock = r
  PROVE  Restoring(r)'
<1>1. pc[r] = "write" /\ UNCHANGED <<cfg, env, loaded, next>> /\ UNCHANGED disk
  BY DEF StopOrphan
<1>2. CASE Goto(r, "failed")
  BY <1>1, <1>2, Writing, ApplyFails, RestoreParts DEF Goto
<1>3. ASSUME NEW s \in Having(r, "stop") \cap Services, run' = [run EXCEPT ![s] = Down], Mark(r, s, "remove"), UNCHANGED pc
      PROVE  Restoring(r)'
  <2>1. s \in Units /\ todo[r][s] = "stop"
    BY <1>3 DEF Having
  <2>2. run[Chat] = Down => run'[Chat] = Down
    BY <1>1, <1>3, Writing, ArchiveAssumption DEF RunOf
  <2>. QED  BY <1>1, <1>3, <2>1, <2>2, NextUnit, Writing
<1>. QED  BY <1>2, <1>3 DEF StopOrphan

\* A unit is written.
LEMMA WriteUnitStep ==
  ASSUME NEW r \in Restores, RestoreInv, Reapply(r), WriteUnit(r), lock = r
  PROVE  Restoring(r)'
<1>1. pc[r] = "write" /\ UNCHANGED <<cfg, env, loaded, next>> /\ UNCHANGED run
  BY DEF WriteUnit
<1>2. CASE Goto(r, "failed")
  BY <1>1, <1>2, Writing, ApplyFails, RestoreParts DEF Goto
<1>3. ASSUME NEW u \in Having(r, "write"), disk' = [disk EXCEPT ![u] = Rendered[next[r].id][u]],
             Mark(r, u, "written"), UNCHANGED pc
      PROVE  Restoring(r)'
  <2>1. u \in Units /\ todo[r][u] = "write"
    BY <1>3 DEF Having
  <2>2. disk'[u] = Rendered[next[r].id][u] /\ \A w \in Units \ {u} : disk'[w] = disk[w]
    BY <1>1, <1>3, <2>1, Writing DEF Content
  <2>3. tx.ok => AsRendered(cfg.id, u)'
    BY <1>1, <2>1, <2>2, Writing DEF AsRendered
  <2>. QED  BY <1>1, <1>3, <2>1, <2>2, <2>3, NextUnit
<1>. QED  BY <1>2, <1>3 DEF WriteUnit

\* A unit is removed.
LEMMA RemoveUnitStep ==
  ASSUME NEW r \in Restores, RestoreInv, Reapply(r), RemoveUnit(r), lock = r
  PROVE  Restoring(r)'
<1>1. pc[r] = "write" /\ UNCHANGED <<cfg, env, loaded, next>> /\ UNCHANGED run
  BY DEF RemoveUnit
<1>2. CASE Goto(r, "failed")
  BY <1>1, <1>2, Writing, ApplyFails, RestoreParts DEF Goto
<1>3. ASSUME NEW u \in Having(r, "remove"), disk' = [disk EXCEPT ![u] = None],
             Mark(r, u, "keep"), UNCHANGED pc
      PROVE  Restoring(r)'
  <2>1. u \in Units /\ todo[r][u] = "remove"
    BY <1>3 DEF Having
  <2>2. disk'[u] = None /\ \A w \in Units \ {u} : disk'[w] = disk[w]
    BY <1>1, <1>3, <2>1, Writing DEF Content
  <2>3. tx.ok => AsRendered(cfg.id, u)'
    BY <1>1, <2>1, <2>2, Writing DEF AsRendered
  <2>. QED  BY <1>1, <1>3, <2>1, <2>2, <2>3, NextUnit
<1>. QED  BY <1>2, <1>3 DEF RemoveUnit

\* systemd reads the units: what is on disk is loaded.
LEMMA ReloadStep ==
  ASSUME NEW r \in Restores, RestoreInv, Reapply(r), Reload(r), lock = r
  PROVE  Restoring(r)'
<1>1. pc[r] = "write" /\ UNCHANGED <<cfg, env, disk, run, next, todo>>
  BY DEF Reload, locals
<1>2. CASE UNCHANGED loaded /\ Goto(r, "failed")
  BY <1>1, <1>2, Writing, ApplyFails, RestoreParts DEF Goto
<1>3. CASE loaded' = disk /\ Goto(r, "applied")
  <2>1. /\ UNCHANGED <<tx, was>> /\ Recreated(r)' = Recreated(r)
        /\ pc'[r] = "applied" /\ todo \in [Procs -> [Units -> Todo]] /\ r \in Procs
        /\ tx.ok => next[r] = cfg /\ Has(Recreated(r)) /\ env = cfg.key /\ tx.v # Qdrant
        /\ tx.way = "forward" \/ tx.ok => run[Chat] = Down
        /\ tx.way = "forward" \/ tx.way = "back"
    BY <1>1, <1>3, ApplyFrame, RestoreParts DEF mine, Typed, Aimed, Halts, Goto, Importing, InApply
  <2>2. tx.ok => InPlace'
    <3>1. \A u \in Units : todo[r][u] \in {"keep", "written"}
      BY <1>3, <2>1 DEF Reload, Having, Todo
    <3>2. tx.ok => \A u \in Units : todo[r][u] \in {"keep", "written"} => AsRendered(cfg.id, u)
      BY <1>1, RestoreParts DEF Aimed
    <3>. QED  BY <1>1, <3>1, <3>2 DEF InPlace, AsRendered
  <2>3. Loads' /\ Settled'
    BY <1>1, <1>3 DEF Loads, Settled
  <2>4. Aimed(r)'
    BY <1>1, <2>1, <2>2 DEF Aimed, Has, Gates, Captures, Importing, InApply
  <2>5. Loaded(r)'
    BY <2>1, <2>3 DEF Loaded, Gates, Captures, Importing, InApply
  <2>6. Halts(r)'
    BY <1>1, <2>1 DEF Halts, Importing, InApply
  <2>. QED  BY <2>4, <2>5, <2>6, ApplyFrame DEF Restoring
<1>. QED  BY <1>2, <1>3 DEF Reload

\* The apply as a whole.
LEMMA ReapplyStep ==
  ASSUME NEW r \in Restores, RestoreInv, Reapply(r)
  PROVE  Restoring(r)'
<1>1. lock = r /\ Apply(r)
  BY DEF Reapply
<1>. QED
  BY <1>1, HealKeyStep, HealEnvStep, PlanStep, StopOrphanStep, WriteUnitStep, RemoveUnitStep, ReloadStep DEF Apply

----------------------------------------------------------------------------
(* The volumes and the services                                            *)

\* A content that continues a stored one is there.
LEMMA ContinuesThere ==
  ASSUME NEW a \in Stored, NEW b, Continues(a, b)
  PROVE  b # Absent
BY DEF Continues, Stored, Origin, Absent

\* Nothing is in the way of an import, so it leaves what is imported.
LEMMA MergeAbsent ==
  ASSUME NEW t \in Stored \cup {Absent}
  PROVE  Merge(Absent, t) = t /\ Continues(t, t)
BY ArchiveAssumption DEF Merge, Continues, Stored, Absent

\* What a start leaves, and what it makes if the volume is missing.
LEMMA Started ==
  ASSUME NEW s \in Volumes, Typed, StartOk(s)
  PROVE  /\ run'[s] # Down /\ (run[s] = Down => run'[s] = loaded[s])
         /\ \A t \in Services \ {s} : run'[t] = run[t]
         /\ \A v \in Volumes : vol[v] # Absent => vol'[v] = vol[v]
         /\ \A v \in Volumes \ {s} : vol'[v] = vol[v]
         /\ run' \in RunOf
<1>1. s \in Services /\ run \in RunOf /\ loaded[s] \in Texts /\ Down \notin Texts /\ vol \in Tars
  BY ArchiveAssumption, HostAssumption DEF Typed, StartOk, Volumes, Content
<1>. QED  BY <1>1 DEF StartOk, RunOf, Tars

\* A volume that has been swapped stays so when a service is started.
LEMMA StartKeeps ==
  ASSUME NEW r \in Restores, RestoreInv, lock = r, NEW s \in Volumes,
         StartOk(s) \/ UNCHANGED <<run, vol>>, NEW v \in Volumes, tx'.arch = tx.arch, tmp'[r] = tmp[r]
  PROVE  /\ FromTar(r, v) => FromTar(r, v)'
         /\ tx.arch \in Archive /\ FromArchive(v) => FromArchive(v)'
<1>1. vol[v] # Absent => vol'[v] = vol[v]
  BY Started, RestoreParts
<1>2. ASSUME FromTar(r, v) PROVE FromTar(r, v)'
  <2>1. tmp[r][v] # Absent => tmp[r][v] \in Stored
    BY RestoreParts DEF Typed, Tars
  <2>. QED  BY <1>1, <1>2, <2>1, ContinuesThere DEF FromTar
<1>3. ASSUME tx.arch \in Archive, FromArchive(v) PROVE FromArchive(v)'
  <2>1. Carries(v) => tx.arch.vols[v] \in Stored
    BY <1>3 DEF Carries, Archive
  <2>. QED  BY <1>1, <1>3, <2>1, ContinuesThere DEF FromArchive, Carries
<1>. QED  BY <1>2, <1>3

\* A volume is imported into the place that was emptied for it.
LEMMA ImportStep ==
  ASSUME NEW r \in Restores, RestoreInv, Import(r), lock = r
  PROVE  Restoring(r)'
<1> DEFINE tar == IF tx.way = "forward" THEN tx.arch.vols[tx.v] ELSE tmp[r][tx.v]
<1>0. /\ pc[r] = "applied" /\ pc[r] \in Mutates /\ pc[r] \in Either /\ Chat # Qdrant /\ tx.v \in Volumes
      /\ tx.way = "forward" \/ tx.way = "back"
      /\ tx.way = "forward" => tx.ok
      /\ tx.ok => Settled
      /\ tx.arch \in Archive
      /\ tx.v = Chat \/ tx.v = Qdrant
  BY RestoreParts, ArchiveAssumption
  DEF Import, Holds, Heading, Loaded, Captured, Mutates, RestorePlaces, Gates, Captures, Either, Importing, InApply, Txs, Volumes
<1>1. UNCHANGED <<lock, cfg, env, disk, loaded, run, prior, next, todo, file, facts, tmp, out, was>> /\ SameWas
  BY DEF Import, SameWas, host, kept
<1>2. Settled' = Settled /\ Loads' = Loads /\ InPlace' = InPlace /\ \A c \in Config : Has(c)' = Has(c)
  BY <1>1 DEF Settled, Loads, InPlace, AsRendered, Has
<1>3. CASE SwapFails(r)
  BY <1>0, <1>1, <1>2, <1>3, SwapFailsStep
<1>4. ASSUME vol' = [vol EXCEPT ![tx.v] = Merge(@, tar)]
      PROVE  vol'[tx.v] = tar /\ Continues(tar, tar) /\ \A v \in Volumes \ {tx.v} : vol'[v] = vol[v]
  <2>1. vol \in Tars /\ vol[tx.v] = Absent /\ tar \in Stored \cup {Absent}
    BY <1>0, RestoreParts DEF Typed, Tars, Unmixed, Importing, Archive
  <2>. QED  BY <1>0, <1>4, <2>1, MergeAbsent DEF Tars
<1>5. ASSUME tx'.arch = tx.arch, tx'.files = tx.files, pc'[r] \in Mutates
      PROVE  Captured(r)' /\ Live(r)' = Live(r) /\ Written(r)' = Written(r) /\ \A v \in Volumes : Carries(v)' = Carries(v)
  BY <1>0, <1>1, <1>5, RestoreParts, KeptCaptured, SameArchive DEF Kept
<1>6. ASSUME vol' = [vol EXCEPT ![tx.v] = Merge(@, tar)], tx.way = "forward", tx.v = Chat, Carries(Qdrant),
             tx' = [tx EXCEPT !.v = Qdrant], Goto(r, "remove")
      PROVE  Restoring(r)'
  <2>1. /\ tx'.arch = tx.arch /\ tx'.files = tx.files /\ tx'.way = "forward" /\ tx'.ok = tx.ok /\ tx'.v = Qdrant
        /\ pc'[r] = "remove"
    BY <1>6, RestoreParts DEF Goto, Txs
  <2>2. pc'[r] \in Mutates
    BY <2>1 DEF Mutates, RestorePlaces, Gates, Captures
  <2>3. Captured(r)' /\ Live(r)' = Live(r) /\ Written(r)' = Written(r) /\ Carries(Qdrant)'
    BY <1>5, <1>6, <2>1, <2>2 DEF Volumes
  <2>4. Heading(r)'
    BY <1>0, <1>6, <2>1, <2>3 DEF Heading, Gates, Captures, Rollback, Either, Importing, InApply
  <2>5. tx.arch.cfg \in Config /\ Has(Recreated(r))' = Has(Recreated(r)) /\ Has(Recreated(r)) /\ InPlace
    BY <1>0, <1>1, <1>6, <2>1, RestoreParts DEF Aimed, Importing, Recreated, Has, Archive
  <2>6. Aimed(r)'
    BY <1>1, <1>2, <2>1, <2>5 DEF Aimed, Gates, Captures, Importing, InApply
  <2>7. Filed(r)'
    BY <1>0, <1>1, <1>6, <2>1, <2>2, <2>3, RestoreParts DEF Filed, Gates, Captures, Either, Importing, InApply
  <2>8. Loaded(r)'
    BY <1>0, <1>1, <1>2, <1>6, <2>1, RestoreParts DEF Loaded, Gates, Captures, Either, Importing, InApply
  <2>9. Halts(r)' /\ Told(r)'
    BY <1>0, <1>1, <1>6, <2>1, RestoreParts DEF Halts, Told, Gates, Captures, Importing, InApply
  <2>10. FromArchive(Chat)'
    BY <1>4, <1>6, <2>1 DEF FromArchive, Carries
  <2>11. Swapped(r)'
    BY <2>1, <2>10 DEF Swapped, Gates, Captures, Importing, InApply
  <2>. QED  BY <2>3, <2>4, <2>6, <2>7, <2>8, <2>9, <2>11 DEF Restoring
<1>7. ASSUME vol' = [vol EXCEPT ![tx.v] = Merge(@, tar)], tx.way = "forward", ~(tx.v = Chat /\ Carries(Qdrant)),
             tx' = [tx EXCEPT !.v = Chat], Goto(r, "restart")
      PROVE  Restoring(r)'
  <2>1. /\ tx'.arch = tx.arch /\ tx'.files = tx.files /\ tx'.way = "forward" /\ tx'.ok = tx.ok /\ tx'.v = Chat
        /\ pc'[r] = "restart"
    BY <1>7, RestoreParts DEF Goto, Txs
  <2>2. pc'[r] \in Mutates
    BY <2>1 DEF Mutates, RestorePlaces, Gates, Captures, InApply
  <2>3. Captured(r)' /\ Live(r)' = Live(r) /\ Written(r)' = Written(r) /\ \A v \in Volumes : Carries(v)' = Carries(v)
    BY <1>5, <2>1, <2>2
  <2>4. Heading(r)'
    BY <1>0, <1>7, <2>1, <2>3 DEF Heading, Gates, Captures, Rollback, Either, Importing, InApply
  <2>5. Has(tx.arch.cfg) /\ tx.arch.cfg \in Config /\ env = cfg.key /\ InPlace
    BY <1>0, <1>7, RestoreParts DEF Aimed, Importing, Recreated, Archive
  <2>6. Aimed(r)'
    BY <1>1, <1>2, <2>1, <2>5 DEF Aimed, Has, Gates, Captures, Importing, InApply
  <2>7. Filed(r)'
    BY <1>0, <1>1, <1>7, <2>1, <2>2, <2>3, RestoreParts DEF Filed, Gates, Captures, Either, Importing, InApply
  <2>8. Loaded(r)'
    BY <1>0, <1>1, <1>2, <1>7, <2>1, RestoreParts DEF Loaded, Gates, Captures, Either, Importing, InApply
  <2>9. Halts(r)' /\ Told(r)'
    BY <1>0, <1>1, <1>7, <2>1, RestoreParts DEF Halts, Told, Gates, Captures, Importing, InApply
  <2>10. ASSUME NEW v \in Volumes, v = tx.v PROVE FromArchive(v)'
    BY <1>4, <1>7, <2>1, <2>10 DEF FromArchive, Carries
  <2>11. ASSUME NEW v \in Volumes \ {tx.v} PROVE FromArchive(v)'
    <3>1. CASE v = Qdrant
      BY <1>0, <1>7, <2>3, <2>11, <3>1 DEF FromArchive
    <3>2. CASE v = Chat
      <4>1. tx.v = Qdrant
        BY <1>0, <2>11, <3>2
      <4>2. FromArchive(Chat)
        BY <1>0, <1>7, <4>1, RestoreParts DEF Swapped, Importing
      <4>. QED  BY <1>4, <1>7, <2>1, <2>11, <3>2, <4>2 DEF FromArchive, Carries
    <3>. QED  BY <2>11, <3>1, <3>2 DEF Volumes
  <2>12. Swapped(r)'
    BY <2>1, <2>10, <2>11 DEF Swapped, Gates, Captures, Importing, InApply
  <2>. QED  BY <2>3, <2>4, <2>6, <2>7, <2>8, <2>9, <2>12 DEF Restoring
<1>8. ASSUME vol' = [vol EXCEPT ![tx.v] = Merge(@, tar)], tx.way = "back", Goto(r, AfterVolume), UNCHANGED tx
      PROVE  Restoring(r)'
  <2>1. /\ tx'.arch = tx.arch /\ tx'.files = tx.files /\ tx'.way = "back" /\ tx' = tx
        /\ pc'[r] = IF tx.v = Qdrant THEN "rbstartq" ELSE "rbqdrant"
    BY <1>8, RestoreParts DEF Goto, AfterVolume
  <2>2. pc'[r] \in Mutates
    BY <2>1 DEF Mutates, RestorePlaces, Gates, Captures, InApply
  <2>3. Captured(r)' /\ Live(r)' = Live(r) /\ Written(r)' = Written(r)
    BY <1>5, <2>1, <2>2
  <2>4. Heading(r)'
    BY <1>0, <1>8, <2>1, <2>3, RestoreParts DEF Heading, Gates, Captures, Rollback, Either, Importing, InApply
  <2>5. tx.ok => Has(was.cfg) /\ env = cfg.key /\ InPlace
    BY <1>0, <1>8, RestoreParts DEF Aimed, Captured, Importing, Recreated
  <2>6. Aimed(r)'
    BY <1>1, <1>2, <2>1, <2>5 DEF Aimed, Has, Gates, Captures, Importing, InApply
  <2>7. Filed(r)'
    BY <1>0, <1>1, <1>8, <2>1, <2>2, <2>3, RestoreParts DEF Filed, Gates, Captures, Either, Importing, InApply
  <2>8. Loaded(r)'
    BY <1>0, <1>1, <1>2, <1>8, <2>1, RestoreParts DEF Loaded, Gates, Captures, Either, Importing, InApply
  <2>9. Halts(r)' /\ Told(r)'
    BY <1>0, <1>1, <1>8, <2>1, RestoreParts DEF Halts, Told, Gates, Captures, Importing, InApply
  <2>10. FromTar(r, tx.v)'
    BY <1>1, <1>4, <1>8, <2>1 DEF FromTar
  <2>11. tx.ok => FromTar(r, Chat)'
    <3>1. CASE tx.v = Chat
      BY <2>1, <2>10, <3>1
    <3>2. CASE tx.v = Qdrant
      <4>1. tx.ok => FromTar(r, Chat)
        BY <1>0, <1>8, <3>2, RestoreParts DEF Swapped, Importing
      <4>. QED  BY <1>0, <1>1, <1>4, <1>8, <3>2, <4>1 DEF FromTar, Volumes
    <3>. QED  BY <1>0, <3>1, <3>2
  <2>12. Swapped(r)'
    BY <1>0, <2>1, <2>10, <2>11 DEF Swapped, Gates, Captures, Importing, InApply
  <2>. QED  BY <2>3, <2>4, <2>6, <2>7, <2>8, <2>9, <2>12 DEF Restoring
<1>. QED  BY <1>3, <1>6, <1>7, <1>8 DEF Import

\* A service is started again.
LEMMA RestartStep ==
  ASSUME NEW r \in Restores, RestoreInv, Restart(r), lock = r
  PROVE  Restoring(r)'
<1>0. /\ pc[r] = "restart" /\ pc[r] \in Mutates /\ Chat # Qdrant /\ tx.v \in Volumes /\ tx.way = "forward" /\ tx.ok
      /\ Settled /\ Loads /\ tx.arch \in Archive
      /\ Has(tx.arch.cfg) /\ env = cfg.key /\ InPlace
      /\ tx.v = Chat \/ (tx.v = Qdrant /\ Live(r))
      /\ run[Chat] = IF tx.v = Chat THEN Down ELSE loaded[Chat]
      /\ \A v \in Volumes : FromArchive(v)
  BY RestoreParts, ArchiveAssumption
  DEF Restart, Holds, Heading, Aimed, Loaded, Captured, Halts, Swapped, Mutates, RestorePlaces, Gates, Captures, Either,
      Importing, InApply, Txs, Volumes
<1>1. UNCHANGED <<lock, cfg, env, disk, loaded, prior, next, todo, file, facts, tmp, out, was>> /\ SameWas
  BY DEF Restart, SameWas, kept
<1>2. Settled' = Settled /\ Loads' = Loads /\ InPlace' = InPlace
  BY <1>1 DEF Settled, Loads, InPlace, AsRendered
<1>3. CASE RollBack(r)
  BY <1>0, <1>1, <1>2, <1>3, RollBackStep, OtherRows
<1>4. CASE StartOk(tx.v) /\ OrQdrant(r, Live(r), "prove")
  <2>1. /\ tx'.arch = tx.arch /\ tx'.way = tx.way /\ tx'.ok = tx.ok /\ tx'.files = tx.files
        /\ IF tx.v = Chat /\ Live(r) THEN tx'.v = Qdrant /\ pc'[r] = "restart" ELSE tx'.v = Chat /\ pc'[r] = "prove"
    BY <1>0, <1>4, RestoreParts DEF OrQdrant, Txs, Goto
  <2>2. run'[Chat] = loaded[Chat]
    BY <1>0, <1>4, RestoreParts, Started, ArchiveAssumption DEF Volumes
  <2>3. pc'[r] \in Mutates
    BY <2>1 DEF Mutates, RestorePlaces, Gates, Captures, InApply
  <2>4. Captured(r)' /\ Live(r)' = Live(r) /\ Written(r)' = Written(r)
    BY <1>0, <1>1, <2>1, <2>3, RestoreParts, KeptCaptured, SameArchive DEF Kept
  <2>5. Heading(r)'
    BY <1>0, <2>1, <2>4 DEF Heading, Gates, Captures, Rollback, Either, Importing, InApply
  <2>6. Aimed(r)'
    BY <1>0, <1>1, <1>2, <2>1 DEF Aimed, Has, Gates, Captures, Importing, InApply
  <2>7. Filed(r)'
    BY <1>0, <1>1, <2>1, <2>3, <2>4, RestoreParts DEF Filed, Gates, Captures, Either, Importing, InApply
  <2>8. Loaded(r)'
    BY <1>0, <1>1, <1>2, <2>1 DEF Loaded, Gates, Captures, Importing, InApply
  <2>9. Halts(r)' /\ Told(r)'
    BY <1>0, <1>1, <2>1, <2>2 DEF Halts, Told, Gates, Captures, Importing, InApply
  <2>10. \A v \in Volumes : FromArchive(v)'
    BY <1>0, <1>1, <1>4, <2>1, StartKeeps
  <2>11. Swapped(r)'
    BY <1>0, <2>1, <2>10 DEF Swapped, Gates, Captures, Importing, InApply
  <2>. QED  BY <2>4, <2>5, <2>6, <2>7, <2>8, <2>9, <2>11 DEF Restoring
<1>. QED  BY <1>3, <1>4 DEF Restart

\* The proof: restored, or back.
LEMMA ProveStep ==
  ASSUME NEW r \in Restores, RestoreInv, Prove(r), lock = r
  PROVE  Restoring(r)'
<1>0. /\ pc[r] = "prove" /\ pc[r] \in Mutates /\ tx.way = "forward" /\ tx.ok
      /\ Settled /\ Restored(r)
  BY RestoreParts
  DEF Prove, Holds, Heading, Aimed, Loaded, Captured, Filed, Halts, Swapped, Restored, Mutates, RestorePlaces,
      Gates, Captures, Either, Importing, InApply
<1>1. UNCHANGED <<lock, host, vol, prior, next, todo, file, facts, tmp, was>> /\ SameWas
  BY DEF Prove, SameWas, kept
<1>2. Settled' = Settled
  BY <1>1 DEF Settled, host
<1>3. CASE RollBack(r)
  BY <1>0, <1>1, <1>2, <1>3, RollBackStep, OtherRows
<1>4. CASE out' = [out EXCEPT ![r] = "restored"] /\ Goto(r, "report") /\ UNCHANGED tx
  <2>1. tx' = tx /\ pc'[r] = "report" /\ out'[r] = "restored"
    BY <1>4, RestoreParts DEF Typed, Goto
  <2>2. Restored(r)'
    BY <1>0, <1>1, <2>1 DEF Restored, Has, InPlace, AsRendered, Loads, FromArchive, Carries, Written, host
  <2>3. Told(r)'
    BY <2>1, <2>2 DEF Told
  <2>4. Heading(r)' /\ Captured(r)' /\ Aimed(r)' /\ Filed(r)'
    BY <1>0, <2>1 DEF Heading, Captured, Aimed, Filed, Gates, Captures, Rollback, Either, Importing, InApply, Mutates
  <2>5. Loaded(r)' /\ Halts(r)' /\ Swapped(r)'
    BY <1>0, <2>1 DEF Loaded, Halts, Swapped, Gates, Captures, Importing, InApply, Mutates
  <2>. QED  BY <2>3, <2>4, <2>5 DEF Restoring
<1>. QED  BY <1>3, <1>4 DEF Prove

----------------------------------------------------------------------------
(* The rollback                                                            *)

\* What is so all along the rollback, as long as nothing has failed.
LEMMA GoingBack ==
  ASSUME NEW r \in Restores, RestoreInv, lock = r, pc[r] \in Rollback, UNCHANGED <<disk, loaded>>, SameWas
  PROVE  /\ tx.way = "back" /\ pc[r] \in Mutates /\ Chat # Qdrant /\ prior[r] = was.cfg
         /\ tx.ok \in BOOLEAN /\ Knows(r) /\ (tx.v = Chat \/ tx.v = Qdrant)
         /\ tx.ok => Settled /\ Settled'
<1>1. /\ tx.way = "back" /\ pc[r] \in Mutates /\ Chat # Qdrant
      /\ pc[r] # "write" /\ pc[r] # "failed"
  BY RestoreParts, ArchiveAssumption DEF Heading, Rollback, Mutates, RestorePlaces, Gates, Captures
<1>2. (tx.ok => Settled) /\ prior[r] = was.cfg /\ Knows(r) /\ tx.ok \in BOOLEAN
  BY <1>1, RestoreParts DEF Loaded, Captured, Txs
<1>3. tx.v = Chat \/ tx.v = Qdrant
  BY RestoreParts DEF Txs, Volumes
<1>. QED  BY <1>1, <1>2, <1>3 DEF Settled, SameWas

\* The steps of the rollback, one by one. A service is stopped.
LEMMA RbStopStep ==
  ASSUME NEW r \in Restores, RestoreInv, RbStop(r), lock = r
  PROVE  Restoring(r)'
<1>0. /\ pc[r] = "rbstop" /\ pc[r] \in Rollback
      /\ tx.v = Qdrant => Live(r) /\ (tx.ok => run[Chat] = Down)
      /\ run \in RunOf /\ Chat \in Services /\ Qdrant \in Services
      /\ UNCHANGED <<lock, cfg, env, disk, loaded, prior, next, todo, file, vol, facts, tmp, out, was>> /\ SameWas
  BY RestoreParts, ArchiveAssumption DEF RbStop, Holds, Rollback, Heading, Halts, Typed, kept, SameWas
<1>1. /\ tx.way = "back" /\ pc[r] \in Mutates /\ Chat # Qdrant
      /\ tx.ok \in BOOLEAN /\ (tx.v = Chat \/ tx.v = Qdrant)
      /\ tx.ok => Settled /\ Settled'
  BY <1>0, GoingBack
<1>2. PICK ok \in BOOLEAN :
         /\ IF ok THEN StopOk(tx.v) ELSE StopFails(tx.v)
         /\ \/ /\ tx.v = Chat /\ Live(r)
               /\ tx' = [tx EXCEPT !.v = Qdrant, !.ok = @ /\ (ok \/ Notes)] /\ UNCHANGED pc
            \/ /\ ~(tx.v = Chat /\ Live(r))
               /\ tx' = [tx EXCEPT !.v = Chat, !.ok = @ /\ (ok \/ Notes)] /\ Goto(r, "rbsave")
  BY Zenon DEF RbStop
<1>3. /\ tx'.arch = tx.arch /\ tx'.files = tx.files /\ tx'.way = "back" /\ tx'.ok = (tx.ok /\ ok)
      /\ IF tx.v = Chat /\ Live(r) THEN tx'.v = Qdrant /\ pc'[r] = "rbstop" ELSE tx'.v = Chat /\ pc'[r] = "rbsave"
  <2>1. tx \in Txs /\ DOMAIN pc = Procs /\ r \in Procs
    BY RestoreParts
  <2>. QED  BY <1>0, <1>1, <1>2, <2>1 DEF Txs, Goto, Notes
<1>4. tx'.ok => run'[Chat] = Down
  BY <1>0, <1>1, <1>2, <1>3 DEF StopOk, RunOf
<1>5. pc'[r] \in Mutates
  BY <1>3 DEF Mutates, RestorePlaces, Gates, Captures, InApply
<1>6. Captured(r)' /\ Live(r)' = Live(r) /\ Written(r)' = Written(r)
  BY <1>0, <1>1, <1>3, <1>5, RestoreParts, KeptCaptured, SameArchive DEF Kept
<1>7. Heading(r)'
  BY <1>0, <1>1, <1>3, <1>6 DEF Heading, Gates, Captures, Rollback, Either, Importing, InApply
<1>8. Aimed(r)' /\ Swapped(r)' /\ Told(r)'
  BY <1>3 DEF Aimed, Swapped, Told, Gates, Captures, Importing, InApply
<1>9. Filed(r)'
  BY <1>0, <1>1, <1>3, <1>6, RestoreParts DEF Filed, Gates, Captures, Either, Importing, InApply
<1>10. Loaded(r)'
  BY <1>0, <1>1, <1>3 DEF Loaded, Gates, Captures, Importing, InApply
<1>11. Halts(r)'
  BY <1>1, <1>3, <1>4 DEF Halts, Gates, Captures, Importing, InApply
<1>. QED  BY <1>6, <1>7, <1>8, <1>9, <1>10, <1>11 DEF Restoring

\* The captured config is saved.
LEMMA RbSaveStep ==
  ASSUME NEW r \in Restores, RestoreInv, RbSave(r), lock = r
  PROVE  Restoring(r)'
<1>0. /\ pc[r] = "rbsave" /\ pc[r] \in Rollback /\ tx.v = Chat /\ (tx.ok => run[Chat] = Down)
      /\ prior \in [Procs -> Config]
      /\ UNCHANGED <<lock, env, disk, loaded, run, prior, next, todo, file, vol, facts, tmp, out, was>> /\ SameWas
  BY RestoreParts DEF RbSave, Holds, Rollback, Heading, Halts, Typed, kept, SameWas, Gates, Captures
<1>1. /\ tx.way = "back" /\ pc[r] \in Mutates /\ Chat # Qdrant /\ prior[r] = was.cfg
      /\ tx.ok => Settled /\ Settled'
  BY <1>0, GoingBack
<1>2. /\ tx'.arch = tx.arch /\ tx'.files = tx.files /\ tx'.way = "back" /\ tx'.v = Chat /\ pc'[r] = "rbfiles"
      /\ tx'.ok => tx.ok /\ cfg' = was.cfg
  BY <1>0, <1>1, RestoreParts DEF RbSave, Goto, Txs, Notes
<1>3. pc'[r] \in Mutates
  BY <1>2 DEF Mutates, RestorePlaces, Gates, Captures, InApply
<1>4. Captured(r)' /\ Live(r)' = Live(r) /\ Written(r)' = Written(r)
  BY <1>0, <1>1, <1>2, <1>3, RestoreParts, KeptCaptured, SameArchive DEF Kept
<1>5. Heading(r)'
  BY <1>0, <1>1, <1>2 DEF Heading, Gates, Captures, Rollback, Either, Importing, InApply
<1>6. Aimed(r)' /\ Swapped(r)' /\ Told(r)'
  BY <1>0, <1>2 DEF Aimed, Has, Swapped, Told, Gates, Captures, Importing, InApply
<1>7. Filed(r)'
  BY <1>0, <1>1, <1>2, <1>4, RestoreParts DEF Filed, Gates, Captures, Either, Importing, InApply
<1>8. Loaded(r)' /\ Halts(r)'
  BY <1>0, <1>1, <1>2 DEF Loaded, Halts, Gates, Captures, Importing, InApply
<1>. QED  BY <1>4, <1>5, <1>6, <1>7, <1>8 DEF Restoring

\* The captured files are written back.
LEMMA RbFilesStep ==
  ASSUME NEW r \in Restores, RestoreInv, RbFiles(r), lock = r
  PROVE  Restoring(r)'
<1>0. /\ pc[r] = "rbfiles" /\ pc[r] \in Rollback /\ tx.v = Chat /\ (tx.ok => run[Chat] = Down /\ Has(was.cfg))
      /\ UNCHANGED <<lock, cfg, env, disk, loaded, run, prior, next, todo, vol, facts, tmp, out, was>> /\ SameWas
  BY RestoreParts DEF RbFiles, Holds, Rollback, Heading, Halts, Aimed, kept, SameWas, Gates, Captures, host
<1>1. /\ tx.way = "back" /\ pc[r] \in Mutates /\ Chat # Qdrant /\ prior[r] = was.cfg
      /\ tx.ok => Settled /\ Settled'
  BY <1>0, GoingBack
<1>2. /\ tx'.arch = tx.arch /\ tx'.files = tx.files /\ tx'.way = "back" /\ tx'.v = Chat /\ pc'[r] = "remove"
      /\ tx'.ok => tx.ok /\ file' = [row \in Rows |-> IF row \in PutBack(r) THEN tx.files[row] ELSE file[row]]
  BY <1>0, <1>1, RestoreParts DEF RbFiles, Goto, Txs, Notes
<1>3. tx'.ok => file' = was.file
  <2>1. /\ tx.files \in Files /\ was.file \in Files
        /\ \A row \in Rows : tx.files[row] \in {None, was.file[row]}
        /\ \A row \in Written(r) : tx.files[row] = was.file[row]
    BY <1>1, RestoreParts DEF Captured, Typed
  <2>2. tx'.ok => \A row \in Rows \ Written(r) : file[row] = was.file[row]
    BY <1>1, <1>2, OtherRows
  <2>3. tx'.ok => \A row \in Rows : file'[row] = was.file[row]
    BY <1>2, <2>1, <2>2 DEF PutBack
  <2>. QED  BY <1>2, <2>1, <2>3 DEF Files
<1>4. pc'[r] \in Mutates
  BY <1>2 DEF Mutates, RestorePlaces, Gates, Captures, InApply
<1>5. Captured(r)' /\ Live(r)' = Live(r) /\ Written(r)' = Written(r) /\ Recreated(r)' = Recreated(r)
  BY <1>0, <1>1, <1>2, <1>4, RestoreParts, KeptCaptured, SameArchive DEF Kept, Recreated
<1>6. Heading(r)'
  BY <1>0, <1>1, <1>2 DEF Heading, Gates, Captures, Rollback, Either, Importing, InApply
<1>7. Aimed(r)' /\ Swapped(r)' /\ Told(r)'
  BY <1>0, <1>1, <1>2 DEF Aimed, Has, Recreated, Swapped, Told, Gates, Captures, Importing, InApply
<1>8. Filed(r)'
  BY <1>0, <1>1, <1>2, <1>3, <1>5 DEF Filed, Gates, Captures, Either, Importing, InApply
<1>9. Loaded(r)' /\ Halts(r)'
  BY <1>0, <1>1, <1>2 DEF Loaded, Halts, Gates, Captures, Importing, InApply
<1>. QED  BY <1>5, <1>6, <1>7, <1>8, <1>9 DEF Restoring

\* What the volumes and services past the first import of the rollback are.
LEMMA BackAgain ==
  ASSUME NEW r \in Restores, RestoreInv, lock = r, pc[r] \in {"rbqdrant", "rbstartq", "rbstart"}, tx.ok
  PROVE  /\ Has(was.cfg) /\ env = cfg.key /\ InPlace /\ file = was.file /\ run[Chat] = Down
         /\ FromTar(r, Chat) /\ (pc[r] # "rbqdrant" => FromTar(r, Qdrant))
         /\ pc[r] = "rbstart" => Unmade(r) /\ (Live(r) => run[Qdrant] # Down)
         /\ tmp[r][Qdrant] # Absent <=> Live(r)
<1>1. tx.way = "back" /\ pc[r] \in Mutates
  BY RestoreParts DEF Heading, Rollback, Mutates, RestorePlaces, Gates, Captures
<1>. QED  BY <1>1, RestoreParts DEF Aimed, Filed, Halts, Swapped, Captured, Importing, InApply, Gates, Captures

\* The memory volume: removed if the restore made it, or put back next.
LEMMA RbQdrantStep ==
  ASSUME NEW r \in Restores, RestoreInv, RbQdrant(r), lock = r
  PROVE  Restoring(r)'
<1>0. /\ pc[r] = "rbqdrant" /\ pc[r] \in Rollback /\ tx.v = Chat
      /\ UNCHANGED <<lock, cfg, env, disk, loaded, run, prior, next, todo, file, facts, tmp, out, was>> /\ SameWas
  BY RestoreParts DEF RbQdrant, Holds, Rollback, Heading, kept, SameWas, Gates, Captures, host
<1>1. /\ tx.way = "back" /\ pc[r] \in Mutates /\ Chat # Qdrant /\ prior[r] = was.cfg
      /\ tx.ok => Settled /\ Settled'
  BY <1>0, GoingBack
<1>2. tx.ok => /\ Has(was.cfg) /\ env = cfg.key /\ InPlace /\ file = was.file /\ run[Chat] = Down
               /\ FromTar(r, Chat) /\ (tmp[r][Qdrant] # Absent <=> Live(r))
  BY <1>0, BackAgain
<1>3. ASSUME tx'.arch = tx.arch, tx'.files = tx.files, tx'.way = "back", tx'.ok => tx.ok,
             \/ tx'.v = Qdrant /\ Live(r) /\ pc'[r] = "remove"
             \/ tx'.v = Chat /\ pc'[r] = "rbstart" /\ (tx'.ok => ~Live(r) /\ Unmade(r)'),
             vol'[Chat] = vol[Chat]
      PROVE  Restoring(r)'
  <2>1. pc'[r] \in Mutates
    BY <1>3 DEF Mutates, RestorePlaces, Gates, Captures, InApply
  <2>2. Captured(r)' /\ Live(r)' = Live(r) /\ Written(r)' = Written(r)
    BY <1>0, <1>1, <1>3, <2>1, RestoreParts, KeptCaptured, SameArchive DEF Kept
  <2>3. Heading(r)'
    BY <1>1, <1>3, <2>2 DEF Heading, Gates, Captures, Rollback, Either, Importing, InApply
  <2>4. Recreated(r)' = was.cfg
    BY <1>0, <1>1, <1>3 DEF Recreated
  <2>5. Aimed(r)'
    BY <1>0, <1>2, <1>3, <2>4 DEF Aimed, Has, InPlace, AsRendered, Gates, Captures, Importing, InApply
  <2>6. Filed(r)' /\ Loaded(r)'
    BY <1>0, <1>1, <1>2, <1>3 DEF Filed, Loaded, Gates, Captures, Either, Importing, InApply
  <2>7. Halts(r)' /\ Told(r)'
    BY <1>0, <1>1, <1>2, <1>3, <2>2 DEF Halts, Told, Gates, Captures, Importing, InApply
  <2>8. tx'.ok => FromTar(r, Chat)' /\ (pc'[r] = "rbstart" => FromTar(r, Qdrant)')
    BY <1>0, <1>2, <1>3 DEF FromTar
  <2>9. Swapped(r)'
    BY <1>1, <1>3, <2>8 DEF Swapped, Gates, Captures, Importing, InApply
  <2>. QED  BY <2>2, <2>3, <2>5, <2>6, <2>7, <2>9 DEF Restoring
<1>4. CASE ~Carries(Qdrant) /\ Goto(r, "rbstart") /\ UNCHANGED <<vol, tx>>
  <2>1. pc'[r] = "rbstart" /\ tx' = tx /\ vol' = vol /\ ~Live(r) /\ Unmade(r)'
    BY <1>4, RestoreParts DEF Goto, Live, Unmade, Carries
  <2>. QED  BY <1>0, <1>1, <1>3, <2>1
<1>5. CASE Live(r) /\ tx' = [tx EXCEPT !.v = Qdrant] /\ Goto(r, "remove") /\ UNCHANGED vol
  <2>1. /\ tx'.arch = tx.arch /\ tx'.files = tx.files /\ tx'.way = tx.way /\ tx'.ok = tx.ok /\ tx'.v = Qdrant
        /\ pc'[r] = "remove" /\ vol' = vol
    BY <1>5, RestoreParts DEF Txs, Goto
  <2>. QED  BY <1>1, <1>3, <1>5, <2>1
<1>6. CASE /\ Carries(Qdrant) /\ ~Live(r) /\ Goto(r, "rbstart")
           /\ \/ vol' = [vol EXCEPT ![Qdrant] = Absent] /\ UNCHANGED tx
              \/ tx' = [tx EXCEPT !.ok = Notes] /\ UNCHANGED vol
  <2>1. pc'[r] = "rbstart" /\ vol \in Tars
    BY <1>6, RestoreParts DEF Goto, Typed
  <2>2. CASE vol' = [vol EXCEPT ![Qdrant] = Absent] /\ UNCHANGED tx
    <3>1. vol'[Chat] = vol[Chat] /\ vol'[Qdrant] = Absent
      BY <1>1, <2>1, <2>2 DEF Tars, Volumes
    <3>2. Unmade(r)'
      BY <3>1 DEF Unmade
    <3>. QED  BY <1>0, <1>1, <1>3, <1>6, <2>1, <2>2, <3>1, <3>2
  <2>3. CASE tx' = [tx EXCEPT !.ok = Notes] /\ UNCHANGED vol
    <3>1. tx'.arch = tx.arch /\ tx'.files = tx.files /\ tx'.way = tx.way /\ ~tx'.ok /\ tx'.v = tx.v
      BY <2>3, RestoreParts DEF Txs, Notes
    <3>. QED  BY <1>0, <1>1, <1>3, <2>1, <2>3, <3>1
  <2>. QED  BY <1>6, <2>2, <2>3
<1>. QED  BY <1>4, <1>5, <1>6 DEF RbQdrant

\* The services are started, and the rollback says how it went.
LEMMA RbStartStep ==
  ASSUME NEW r \in Restores, RestoreInv, RbStart(r), lock = r
  PROVE  Restoring(r)'
<1>1. PICK s \in Volumes, ok \in BOOLEAN :
         /\ Holds(r, IF s = Qdrant THEN "rbstartq" ELSE "rbstart")
         /\ IF ok THEN StartOk(s) ELSE StartFails(s)
         /\ tx' = [tx EXCEPT !.ok = @ /\ (ok \/ Notes)]
         /\ Goto(r, IF s = Qdrant THEN "rbstart" ELSE "report")
         /\ out' = IF s = Qdrant THEN out ELSE [out EXCEPT ![r] = IF tx'.ok THEN "rolledback" ELSE "incomplete"]
  BY DEF RbStart
<1>2. /\ pc[r] = (IF s = Qdrant THEN "rbstartq" ELSE "rbstart") /\ pc[r] \in Rollback
      /\ UNCHANGED <<lock, cfg, env, disk, loaded, prior, next, todo, file, facts, tmp, was>> /\ SameWas
      /\ s = Qdrant => Live(r)
      /\ StartOk(s) \/ UNCHANGED <<run, vol>>
      /\ s = Chat \/ s = Qdrant
  BY <1>1, RestoreParts DEF RbStart, Holds, Rollback, Heading, kept, SameWas, Gates, Captures, StartFails, Volumes
<1>3. /\ tx.way = "back" /\ pc[r] \in Mutates /\ Chat # Qdrant /\ prior[r] = was.cfg /\ tx.ok \in BOOLEAN
      /\ tx.ok => Settled /\ Settled'
  BY <1>2, GoingBack
<1>4. /\ tx'.arch = tx.arch /\ tx'.files = tx.files /\ tx'.way = "back" /\ tx'.v = tx.v
      /\ tx'.ok => tx.ok /\ ok
      /\ pc'[r] = (IF s = Qdrant THEN "rbstart" ELSE "report")
      /\ s # Qdrant => out'[r] = IF tx'.ok THEN "rolledback" ELSE "incomplete"
  <2>1. tx \in Txs /\ DOMAIN pc = Procs /\ r \in Procs /\ DOMAIN out = Procs
    BY RestoreParts DEF Typed
  <2>. QED  BY <1>1, <1>3, <2>1 DEF Txs, Goto, Notes
<1>5. tx.ok => /\ Has(was.cfg) /\ env = cfg.key /\ InPlace /\ file = was.file /\ run[Chat] = Down
               /\ FromTar(r, Chat) /\ FromTar(r, Qdrant)
               /\ s = Chat => Unmade(r) /\ (Live(r) => run[Qdrant] # Down)
  BY <1>2, <1>3, BackAgain
<1>6. Live(r)' = Live(r) /\ Written(r)' = Written(r) /\ \A v \in Volumes : Carries(v)' = Carries(v)
  BY <1>2, <1>4, SameArchive
<1>7. tx'.ok => Has(was.cfg)' /\ env' = cfg'.key /\ InPlace' /\ Settled' /\ file' = was'.file
  BY <1>2, <1>3, <1>4, <1>5 DEF Has, InPlace, AsRendered
<1>8. tx'.ok => FromTar(r, Chat)' /\ FromTar(r, Qdrant)'
  BY <1>2, <1>4, <1>5, StartKeeps DEF Volumes
<1>9. /\ tx'.ok => StartOk(s)
      /\ StartOk(s) => /\ run'[s] # Down /\ (run[s] = Down => run'[s] = loaded[s])
                       /\ \A t \in Services \ {s} : run'[t] = run[t]
                       /\ \A v \in Volumes \ {s} : vol'[v] = vol[v]
  BY <1>1, <1>4, Started, RestoreParts
<1>10. CASE s = Qdrant
  <2>1. pc'[r] = "rbstart" /\ pc'[r] \in Mutates /\ Live(r)
    BY <1>2, <1>4, <1>10 DEF Mutates, RestorePlaces, Gates, Captures, InApply
  <2>2. Captured(r)'
    BY <1>2, <1>3, <1>4, <2>1, RestoreParts, KeptCaptured DEF Kept
  <2>3. Heading(r)'
    BY <1>2, <1>3, <1>4, <1>6, <2>1, RestoreParts DEF Heading, Gates, Captures, Rollback, Either, Importing, InApply
  <2>4. tx'.ok => run'[Chat] = Down /\ run'[Qdrant] # Down
    BY <1>3, <1>4, <1>5, <1>9, <1>10, ArchiveAssumption
  <2>5. Unmade(r)'
    BY <1>6, <2>1 DEF Unmade, Live
  <2>6. Aimed(r)' /\ Filed(r)'
    BY <1>3, <1>4, <1>7, <2>1, OtherRows, RestoreParts, <1>2, <1>6 DEF Aimed, Filed, Gates, Captures, Either, Importing, InApply
  <2>7. Loaded(r)'
    BY <1>4, <1>7, <2>1 DEF Loaded, Gates, Captures, Importing, InApply
  <2>8. Halts(r)' /\ Swapped(r)' /\ Told(r)'
    BY <1>4, <1>8, <2>1, <2>4, <2>5 DEF Halts, Swapped, Told, Gates, Captures, Importing, InApply
  <2>. QED  BY <2>2, <2>3, <2>6, <2>7, <2>8 DEF Restoring
<1>11. CASE s = Chat
  <2>1. pc'[r] = "report" /\ out'[r] = IF tx'.ok THEN "rolledback" ELSE "incomplete"
    BY <1>3, <1>4, <1>11
  <2>2. tx'.ok => run'[Chat] # Down /\ run'[Chat] = loaded'[Chat] /\ (Live(r)' => run'[Qdrant] # Down)
    BY <1>2, <1>3, <1>4, <1>5, <1>6, <1>9, <1>11, ArchiveAssumption
  <2>3. tx'.ok => Unmade(r)'
    BY <1>2, <1>3, <1>4, <1>5, <1>6, <1>9, <1>11 DEF Unmade, Volumes
  <2>4. tx'.ok => RolledBack(r)'
    <3>1. tx.arch \in Archive
      BY <1>3, RestoreParts DEF Captured, Mutates, Gates
    <3>. QED  BY <1>4, <1>7, <1>8, <2>2, <2>3, <3>1 DEF RolledBack, Volumes
  <2>5. Told(r)'
    BY <2>1, <2>4 DEF Told
  <2>6. Heading(r)' /\ Captured(r)' /\ Aimed(r)' /\ Filed(r)'
    BY <1>4, <2>1 DEF Heading, Captured, Aimed, Filed, Gates, Captures, Rollback, Either, Importing, InApply, Mutates
  <2>7. Loaded(r)' /\ Halts(r)' /\ Swapped(r)'
    BY <1>4, <2>1 DEF Loaded, Halts, Swapped, Gates, Captures, Importing, InApply, Mutates
  <2>. QED  BY <2>5, <2>6, <2>7 DEF Restoring
<1>. QED  BY <1>2, <1>10, <1>11

\* Every step of the restore that has the lock keeps what is said of it.
LEMMA OwnRestoreStep ==
  ASSUME NEW r \in Restores, RestoreInv, RestoreStep(r), lock = r
  PROVE  Restoring(r)'
<1>1. ~Prepare(r)
  BY ArchiveAssumption DEF RestoreInv, Placed, Prepare
<1>. QED
  BY <1>1, VerifyStep, SkewStep, CaptureConfigStep, CaptureVolumeStep, CaptureFilesStep, QuiesceStep, SaveStep,
     WriteFilesStep, RemoveVolumeStep, ReapplyStep, ApplyFailedStep, ImportStep, RestartStep, ProveStep,
     RbStopStep, RbSaveStep, RbFilesStep, RbQdrantStep, RbStartStep
  DEF RestoreStep

----------------------------------------------------------------------------
(* A backup                                                                *)

Bks == [want : SUBSET Volumes, v : Volumes, stopped : {<<>>, <<Chat>>, <<Chat, Qdrant>>},
        took : Tars, files : Files \cup {None}, failed : BOOLEAN, warned : BOOLEAN]

\* What the invariant says of the backup that has the lock.
LEMMA BackupParts ==
  ASSUME NEW b \in Backups, RestoreInv, lock = b
  PROVE  /\ BackingUp(b) /\ Typed /\ Unmixed /\ b \in Procs /\ b \notin Restores /\ b # Free
         /\ pc[b] \in BackupPlaces /\ DOMAIN pc = Procs /\ bk \in Bks /\ Chat # Qdrant
         /\ Chat \in Volumes /\ Qdrant \in Volumes
BY ArchiveAssumption, HostAssumption DEF RestoreInv, Placed, Typed, Bks, Volumes

\* The sequences of services a backup may have stopped.
LEMMA StoppedServices ==
  /\ Append(<<>>, Chat) = <<Chat>> /\ Append(<<Chat>>, Qdrant) = <<Chat, Qdrant>>
  /\ Last(<<Chat>>) = Chat /\ Front(<<Chat>>) = <<>>
  /\ Last(<<Chat, Qdrant>>) = Qdrant /\ Front(<<Chat, Qdrant>>) = <<Chat>>
  /\ <<Chat>> # <<>> /\ <<Chat, Qdrant>> # <<>> /\ <<Chat, Qdrant>> # <<Chat>>
<1>0. DEFINE S == {Chat, Qdrant}
             one == <<Chat>>
             two == <<Chat, Qdrant>>
<1>1. one \in Seq(S) /\ two \in Seq(S) /\ Len(one) = 1 /\ Len(two) = 2 /\ one[1] = Chat /\ two[1] = Chat /\ two[2] = Qdrant
  OBVIOUS
<1>2. Append(<<>>, Chat) = <<Chat>>
  OBVIOUS
<1>3. Append(<<Chat>>, Qdrant) = <<Chat, Qdrant>>
  <2>1. Append(one, Qdrant) \in Seq(S) /\ Len(Append(one, Qdrant)) = 2 /\ Append(one, Qdrant)[1] = Chat /\ Append(one, Qdrant)[2] = Qdrant
    BY <1>1, AppendProperties
  <2>2. Append(one, Qdrant) = two
    <3>. HIDE DEF one, two
    <3>1. \A i \in 1 .. Len(two) : Append(one, Qdrant)[i] = two[i]
      BY <1>1, <2>1
    <3>. QED  BY <1>1, <2>1, <3>1, SeqEqual
  <2>. QED  BY <2>2
<1>4. Last(<<Chat>>) = Chat
  BY DEF Last
<1>5. Last(<<Chat, Qdrant>>) = Qdrant
  BY DEF Last
<1>6. Front(<<Chat>>) = <<>>
  BY DEF Front
<1>7. Front(<<Chat, Qdrant>>) = <<Chat>>
  <2>1. Front(two) = SubSeq(two, 1, 1)
    BY DEF Front
  <2>2. SubSeq(two, 1, 1) = one
    <3>. HIDE DEF one, two
    <3>1. SubSeq(two, 1, 1) \in Seq(S) /\ Len(SubSeq(two, 1, 1)) = 1 /\ SubSeq(two, 1, 1)[1] = Chat
      BY <1>1, SubSeqProperties
    <3>2. \A i \in 1 .. Len(one) : SubSeq(two, 1, 1)[i] = one[i]
      BY <1>1, <3>1
    <3>. QED  BY <1>1, <3>1, <3>2, SeqEqual
  <2>. QED  BY <2>1, <2>2
<1>8. <<Chat>> # <<>> /\ <<Chat, Qdrant>> # <<>>
  OBVIOUS
<1>9. <<Chat, Qdrant>> # <<Chat>>
  OBVIOUS
<1>. QED  BY <1>2, <1>3, <1>4, <1>5, <1>6, <1>7, <1>8, <1>9

\* The same, as sets.
LEMMA StoppedSet ==
  /\ bk.stopped = <<>> => Stopped = {}
  /\ bk.stopped = <<Chat>> => Stopped = {Chat}
  /\ bk.stopped = <<Chat, Qdrant>> => Stopped = {Chat, Qdrant}
<1>1. CASE bk.stopped = <<>>
  BY <1>1, StoppedServices DEF Stopped
<1>2. CASE bk.stopped = <<Chat>>
  BY <1>2, StoppedServices DEF Stopped
<1>3. CASE bk.stopped = <<Chat, Qdrant>>
  BY <1>3, StoppedServices DEF Stopped
<1>. QED  BY <1>1, <1>2, <1>3

\* A backup that has failed starts what it stopped, and says so.
LEMMA BackupFailsStep ==
  ASSUME NEW b \in Backups, RestoreInv, lock = b, NEW place \in {"bkstart", "publish"}, BackupFails(b, place)
  PROVE  BackingUp(b)'
<1>1. pc'[b] = place /\ bk'.failed
  BY BackupParts DEF BackupFails, Goto, Bks
<1>. QED  BY <1>1 DEF BackingUp

\* The steps of a backup, one by one. The volumes that exist are found.
LEMMA BackupInputStep ==
  ASSUME NEW b \in Backups, RestoreInv, lock = b, BackupInput(b)
  PROVE  BackingUp(b)'
<1>1. CASE BackupFails(b, "publish")
  BY <1>1, BackupFailsStep
<1>2. ASSUME NEW want \in SUBSET Volumes, Chat \in want, bk' = [bk EXCEPT !.want = want], ToBackup(b, "bkstop")
      PROVE  BackingUp(b)'
  <2>1. bk = NoBk /\ pc'[b] = "bkstop"
    BY <1>2, BackupParts DEF BackupInput, Holds, BackingUp, ToBackup, Goto
  <2>2. /\ bk'.v = Chat /\ bk'.stopped = <<>> /\ bk'.took = NoTars /\ ~bk'.failed /\ ~bk'.warned /\ bk'.want = want
    BY <1>2, <2>1 DEF NoBk
  <2>. QED  BY <1>2, <2>1, <2>2, BackupParts DEF BackingUp
<1>3. Wanted \in SUBSET Volumes /\ Chat \in Wanted /\ {Chat} \in SUBSET Volumes
  BY DEF Wanted, Volumes
<1>. QED  BY <1>1, <1>2, <1>3 DEF BackupInput

\* A service is stopped for its export.
LEMMA BackupStopStep ==
  ASSUME NEW b \in Backups, RestoreInv, lock = b, BackupStop(b)
  PROVE  BackingUp(b)'
<1>0. /\ pc[b] = "bkstop" /\ ~bk.failed /\ ~bk.warned /\ Chat \in bk.want /\ (bk.v = Qdrant => Qdrant \in bk.want)
      /\ bk.stopped = IF bk.v = Chat THEN <<>> ELSE <<Chat>>
      /\ bk.v = Chat => bk.took = NoTars
      /\ bk.v = Qdrant => Taken(Chat) /\ bk.took[Qdrant] = Absent
      /\ bk.v = Chat \/ bk.v = Qdrant
      /\ run \in RunOf /\ bk.v \in Services /\ bk.v \in Volumes /\ was.vol \in Tars
      /\ was' = [was EXCEPT !.vol[bk.v] = vol[bk.v]] /\ UNCHANGED vol
  BY BackupParts, ArchiveAssumption DEF BackupStop, Holds, BackingUp, Bks, Volumes, Typed
<1>1. CASE BackupFails(b, "bkstart")
  BY <1>1, BackupFailsStep
<1>2. CASE StopOk(bk.v) /\ bk' = [bk EXCEPT !.stopped = Append(@, bk.v)] /\ ToBackup(b, "export")
  <2>1. /\ bk'.v = bk.v /\ bk'.stopped = Append(bk.stopped, bk.v) /\ bk'.took = bk.took /\ bk'.failed = bk.failed
        /\ bk'.warned = bk.warned /\ bk'.want = bk.want /\ pc'[b] = "export"
    BY <1>2, BackupParts DEF Bks, ToBackup, Goto
  <2>2. was'.vol[bk.v] = vol[bk.v] /\ \A v \in Volumes \ {bk.v} : was'.vol[v] = was.vol[v]
    BY <1>0, BackupParts DEF Typed, Tars
  <2>3. run'[bk.v] = Down
    BY <1>0, <1>2 DEF StopOk, RunOf
  <2>4. Halted(bk.v)'
    BY <1>0, <2>1, <2>2, <2>3 DEF Halted
  <2>5. bk.v = Qdrant => Taken(Chat)'
    BY <1>0, <2>1, <2>2, BackupParts DEF Taken
  <2>. QED  BY <1>0, <2>1, <2>4, <2>5, StoppedServices, BackupParts DEF BackingUp
<1>. QED  BY <1>1, <1>2 DEF BackupStop

\* A volume whose service is down is exported.
LEMMA BackupExportStep ==
  ASSUME NEW b \in Backups, RestoreInv, lock = b, BackupExport(b)
  PROVE  BackingUp(b)'
<1>a. pc[b] = "export" /\ UNCHANGED was
  <2>1. Holds(b, "export") /\ UNCHANGED <<lock, host, kept, servedKey, vol, file, archive, facts, tmp, tx, was>>
    BY Zenon DEF BackupExport
  <2>. QED  BY <2>1 DEF Holds
<1>b. bk.took \in Tars /\ bk.v \in Volumes /\ (bk.v = Chat \/ bk.v = Qdrant)
  BY BackupParts DEF Bks, Volumes
<1>c. ~bk.failed /\ ~bk.warned /\ Chat \in bk.want /\ (bk.v = Qdrant => Qdrant \in bk.want) /\ Halted(bk.v)
  BY <1>a, BackupParts DEF BackingUp
<1>d. /\ bk.stopped = IF bk.v = Chat THEN <<Chat>> ELSE <<Chat, Qdrant>>
      /\ bk.v = Chat => bk.took = NoTars
  BY <1>a, BackupParts DEF BackingUp
<1>e. bk.v = Qdrant => Taken(Chat) /\ bk.took[Qdrant] = Absent
  BY <1>a, BackupParts DEF BackingUp
<1>0. /\ pc[b] = "export" /\ ~bk.failed /\ ~bk.warned /\ Chat \in bk.want /\ (bk.v = Qdrant => Qdrant \in bk.want)
      /\ bk.stopped = IF bk.v = Chat THEN <<Chat>> ELSE <<Chat, Qdrant>>
      /\ bk.v = Chat => bk.took = NoTars
      /\ bk.v = Qdrant => Taken(Chat) /\ bk.took[Qdrant] = Absent
      /\ bk.v = Chat \/ bk.v = Qdrant
      /\ Halted(bk.v) /\ UNCHANGED was /\ bk.took \in Tars /\ bk.v \in Volumes
  BY <1>a, <1>b, <1>c, <1>d, <1>e
<1>1. CASE BackupFails(b, "bkstart")
  BY <1>1, BackupFailsStep
<1>2. CASE /\ vol[bk.v] # Absent
           /\ \E t \in Exported(bk.v) : bk' = [bk EXCEPT !.took[bk.v] = t, !.v = Qdrant]
           /\ ToBackup(b, IF bk.v = Chat /\ Qdrant \in bk.want THEN "bkstop" ELSE "read")
  <2>1. bk' = [bk EXCEPT !.took[bk.v] = vol[bk.v], !.v = Qdrant]
    BY <1>0, <1>2 DEF Exported, Halted
  <2>2. /\ bk'.v = Qdrant /\ bk'.stopped = bk.stopped /\ bk'.took = [bk.took EXCEPT ![bk.v] = vol[bk.v]]
        /\ bk'.failed = bk.failed /\ bk'.warned = bk.warned /\ bk'.want = bk.want
        /\ pc'[b] = IF bk.v = Chat /\ Qdrant \in bk.want THEN "bkstop" ELSE "read"
    BY <1>2, <2>1, BackupParts DEF Bks, ToBackup, Goto
  <2>3. bk'.took[bk.v] = vol[bk.v] /\ \A v \in Volumes \ {bk.v} : bk'.took[v] = bk.took[v]
    BY <1>0, <2>2 DEF Tars
  <2>4. bk'.took[bk.v] = was'.vol[bk.v] /\ bk'.took[bk.v] # Absent
    BY <1>0, <1>2, <2>3 DEF Halted
  <2>5. CASE bk.v = Chat
    <3>1. Taken(Chat)' /\ bk'.took[Qdrant] = Absent
      BY <1>0, <2>3, <2>4, <2>5, BackupParts DEF Taken, NoTars
    <3>2. CASE Qdrant \in bk.want
      BY <1>0, <2>2, <2>5, <3>1, <3>2, BackupParts DEF BackingUp
    <3>3. CASE Qdrant \notin bk.want
      <4>1. TookAll'
        BY <1>0, <2>2, <3>1, <3>3 DEF TookAll, Volumes
      <4>. QED  BY <1>0, <2>2, <2>5, <3>3, <4>1, BackupParts DEF BackingUp
    <3>. QED  BY <3>2, <3>3
  <2>6. CASE bk.v = Qdrant
    <3>1. Taken(Chat)' /\ Taken(Qdrant)'
      BY <1>0, <2>3, <2>4, <2>6, BackupParts DEF Taken
    <3>2. TookAll'
      BY <1>0, <2>2, <2>6, <3>1 DEF TookAll, Volumes
    <3>. QED  BY <1>0, <2>2, <2>6, <3>2, BackupParts DEF BackingUp
  <2>. QED  BY <1>0, <2>5, <2>6
<1>3. \/ BackupFails(b, "bkstart")
      \/ /\ vol[bk.v] # Absent
         /\ \E t \in Exported(bk.v) : bk' = [bk EXCEPT !.took[bk.v] = t, !.v = Qdrant]
         /\ ToBackup(b, IF bk.v = Chat /\ Qdrant \in bk.want THEN "bkstop" ELSE "read")
  BY Zenon DEF BackupExport
<1>. QED  BY <1>1, <1>2, <1>3, Zenon

\* The files are read.
LEMMA BackupReadStep ==
  ASSUME NEW b \in Backups, RestoreInv, lock = b, BackupRead(b)
  PROVE  BackingUp(b)'
<1>0. /\ pc[b] = "read" /\ ~bk.failed /\ ~bk.warned /\ Chat \in bk.want /\ TookAll
      /\ bk.stopped = IF Qdrant \in bk.want THEN <<Chat, Qdrant>> ELSE <<Chat>>
      /\ UNCHANGED was
  BY BackupParts DEF BackupRead, Holds, BackingUp
<1>1. CASE BackupFails(b, "bkstart")
  BY <1>1, BackupFailsStep
<1>2. CASE /\ bk' = [bk EXCEPT !.files = [r \in Rows |-> IF cfg.id \in BackupGate[r] THEN file[r] ELSE None]]
           /\ ToBackup(b, "bkstart")
  <2>1. /\ bk'.stopped = bk.stopped /\ bk'.took = bk.took
        /\ bk'.failed = bk.failed /\ bk'.warned = bk.warned /\ bk'.want = bk.want /\ pc'[b] = "bkstart"
        /\ bk'.files = [r \in Rows |-> IF cfg.id \in BackupGate[r] THEN file[r] ELSE None]
    BY <1>2, BackupParts DEF Bks, ToBackup, Goto
  <2>2. bk'.files \in Files
    BY <2>1, BackupParts DEF Files, Typed
  <2>3. TookAll'
    BY <1>0, <2>1 DEF TookAll, Taken
  <2>4. Stopped' = Stopped /\ bk.want \subseteq Stopped
    BY <1>0, <2>1, StoppedSet, BackupParts DEF Stopped, Bks, Volumes
  <2>. QED  BY <1>0, <2>1, <2>2, <2>3, <2>4 DEF BackingUp
<1>. QED  BY <1>1, <1>2 DEF BackupRead

\* A stopped service is started again, the last one first.
LEMMA BackupStartStep ==
  ASSUME NEW b \in Backups, RestoreInv, lock = b, BackupStart(b)
  PROVE  BackingUp(b)'
<1>0. /\ pc[b] = "bkstart" /\ (~bk.failed => Chat \in bk.want /\ TookAll /\ bk.files \in Files)
      /\ ~bk.failed /\ ~bk.warned => \A v \in bk.want : run[v] # Down \/ v \in Stopped
      /\ UNCHANGED was /\ bk \in Bks /\ bk.want \subseteq Volumes
  BY BackupParts DEF BackupStart, Holds, BackingUp, Bks
<1>1. CASE bk.stopped = <<>> /\ Goto(b, "publish") /\ UNCHANGED <<run, vol, bk>>
  <2>1. pc'[b] = "publish" /\ Stopped = {}
    BY <1>1, BackupParts, StoppedSet DEF Goto
  <2>2. TookAll' = TookAll
    BY <1>0, <1>1 DEF TookAll, Taken
  <2>. QED  BY <1>0, <1>1, <2>1, <2>2 DEF BackingUp
<1>2. CASE /\ bk.stopped # <<>> /\ UNCHANGED pc
           /\ \/ StartOk(Last(bk.stopped)) /\ bk' = [bk EXCEPT !.stopped = Front(@)]
              \/ bk' = [bk EXCEPT !.stopped = Front(@), !.warned = TRUE]
  <2>1. /\ bk'.took = bk.took /\ bk'.failed = bk.failed /\ bk'.want = bk.want /\ bk'.files = bk.files
        /\ bk'.stopped = Front(bk.stopped) /\ (~bk'.warned => ~bk.warned /\ StartOk(Last(bk.stopped)))
    BY <1>0, <1>2 DEF Bks
  <2>2. TookAll' = TookAll
    BY <1>0, <2>1 DEF TookAll, Taken
  <2>3. /\ Last(bk.stopped) \in Volumes
        /\ \A v \in Volumes : v \in Stopped => v \in Stopped' \/ v = Last(bk.stopped)
    <3>1. CASE bk.stopped = <<Chat>>
      BY <2>1, <3>1, StoppedSet, StoppedServices, BackupParts
    <3>2. CASE bk.stopped = <<Chat, Qdrant>>
      <4>1. bk'.stopped = <<Chat>>
        BY <2>1, <3>2, StoppedServices
      <4>2. Stopped' = {Chat}
        BY <4>1, StoppedServices DEF Stopped
      <4>. QED  BY <3>2, <4>2, StoppedSet, StoppedServices, BackupParts
    <3>. QED  BY <1>0, <1>2, <3>1, <3>2 DEF Bks
  <2>4. ASSUME ~bk'.failed, ~bk'.warned PROVE \A v \in bk.want : run'[v] # Down \/ v \in Stopped'
    <3>1. run'[Last(bk.stopped)] # Down /\ \A t \in Services \ {Last(bk.stopped)} : run'[t] = run[t]
      BY <2>1, <2>3, <2>4, Started, BackupParts
    <3>2. Volumes \subseteq Services
      BY ArchiveAssumption DEF Volumes
    <3>. QED  BY <1>0, <2>1, <2>3, <2>4, <3>1, <3>2
  <2>. QED  BY <1>0, <1>2, <2>1, <2>2, <2>4 DEF BackingUp
<1>. QED  BY <1>1, <1>2 DEF BackupStart

\* The archive takes its name, unless a step failed.
LEMMA PublishStep ==
  ASSUME NEW b \in Backups, RestoreInv, lock = b, Publish(b)
  PROVE  BackingUp(b)'
<1>0. /\ pc[b] = "publish" /\ (~bk.failed => Chat \in bk.want /\ TookAll)
      /\ ~bk.failed /\ ~bk.warned => \A v \in bk.want : run[v] # Down
      /\ UNCHANGED <<was, bk, cfg, run>> /\ pc'[b] = "report"
  BY BackupParts DEF Publish, Holds, BackingUp, host, Goto
<1>1. TookAll' = TookAll
  BY <1>0 DEF TookAll, Taken
<1>2. CASE out' = [out EXCEPT ![b] = "failed"] /\ (bk.failed \/ ~bk.failed)
  <2>1. out'[b] = "failed"
    BY <1>2, BackupParts DEF Typed
  <2>. QED  BY <1>0, <2>1, BackupParts DEF BackingUp
<1>3. CASE ~bk.failed /\ archive' = Finished /\ out' = [out EXCEPT ![b] = IF bk.warned THEN "warned" ELSE "written"]
  <2>1. out'[b] = (IF bk.warned THEN "warned" ELSE "written") /\ archive'.cfg = cfg /\ archive'.vols = bk.took
    BY <1>3, BackupParts DEF Typed, Finished
  <2>. QED  BY <1>0, <1>1, <1>3, <2>1, BackupParts DEF BackingUp
<1>. QED  BY <1>2, <1>3 DEF Publish

\* Every step of the backup that has the lock keeps what is said of it.
LEMMA OwnBackupStep ==
  ASSUME NEW b \in Backups, RestoreInv, lock = b, BackupStep(b)
  PROVE  BackingUp(b)'
BY BackupInputStep, BackupStopStep, BackupExportStep, BackupReadStep, BackupStartStep, PublishStep DEF BackupStep

----------------------------------------------------------------------------
(* The others                                                              *)

\* A step of another: the holder's locals and the host are as they were, but for what
\* the running services have written.
Grown(v) == vol[v] # Absent /\ run[v] # Down /\ vol'[v] \in Stored /\ Continues(vol[v], vol'[v])
Aside(p) ==
  /\ UNCHANGED <<lock, host, kept, servedKey, file, archive, tmp, tx, bk, was>>
  /\ DOMAIN pc' = Procs /\ pc'[p] = pc[p] /\ out'[p] = out[p]
  /\ p \in Restores => facts'[p] = facts[p]
  /\ \A v \in Volumes : vol'[v] = vol[v] \/ Grown(v)

\* A volume that has been written to continues what it continued.
LEMMA GrownContinues ==
  ASSUME Typed, NEW a \in Stored \cup {Absent}, a # Absent, NEW v \in Volumes,
         vol'[v] = vol[v] \/ Grown(v), Continues(a, vol[v])
  PROVE  Continues(a, vol'[v])
<1>1. CASE vol'[v] = vol[v]
  BY <1>1 DEF Continues
<1>2. CASE Grown(v)
  <2>1. vol[v] \in Stored /\ vol'[v] \in Stored /\ a \in Stored
    BY <1>2 DEF Grown, Typed, Tars
  <2>. QED  BY <1>2, <2>1, ArchiveAssumption DEF Grown, Continues, Stored
<1>. QED  BY <1>1, <1>2

\* What is said of a restore outlives a step of another.
LEMMA RestoreAside ==
  ASSUME NEW r \in Restores, RestoreInv, lock = r, Aside(r)
  PROVE  Restoring(r)'
<1>1. /\ UNCHANGED <<cfg, env, disk, loaded, run, prior, next, todo, file, tmp, tx, was>>
      /\ pc'[r] = pc[r] /\ out'[r] = out[r] /\ facts'[r] = facts[r]
  BY DEF Aside, host, kept
<1>2. /\ Live(r)' = Live(r) /\ Written(r)' = Written(r) /\ Knows(r)' = Knows(r)
      /\ \A v \in Volumes : Carries(v)' = Carries(v)
  BY <1>1, SameArchive
<1>3. Heading(r)' /\ Captured(r)'
  BY <1>1, <1>2, RestoreParts DEF Heading, Captured, Volumes
<1>4. Aimed(r)'
  BY <1>1, <1>2, RestoreParts DEF Aimed, Has, Recreated, InPlace, AsRendered
<1>5. Filed(r)'
  BY <1>1, <1>2, RestoreParts DEF Filed
<1>6. Loaded(r)' /\ Halts(r)'
  BY <1>1, <1>2, RestoreParts DEF Loaded, Halts, Loads, Settled
<1>7. tx.arch \in Archive => \A v \in Volumes : FromArchive(v) => FromArchive(v)'
  <2>1. ASSUME NEW v \in Volumes, tx.arch \in Archive, FromArchive(v) PROVE FromArchive(v)'
    <3>1. tx.arch.vols[v] \in Stored \cup {Absent}
      BY <2>1 DEF Archive
    <3>2. CASE Carries(v)
      BY <1>1, <2>1, <3>1, <3>2, GrownContinues, RestoreParts DEF Aside, FromArchive, Carries
    <3>3. CASE ~Carries(v)
      BY <1>2, <3>3 DEF FromArchive
    <3>. QED  BY <3>2, <3>3
  <2>. QED  BY <2>1
<1>8. \A v \in Volumes : FromTar(r, v) => FromTar(r, v)'
  <2>1. ASSUME NEW v \in Volumes, FromTar(r, v) PROVE FromTar(r, v)'
    <3>1. tmp[r][v] \in Stored \cup {Absent}
      BY RestoreParts DEF Typed, Tars
    <3>. QED  BY <1>1, <2>1, <3>1, GrownContinues, RestoreParts DEF Aside, FromTar
  <2>. QED  BY <2>1
<1>9. Unmade(r) => Unmade(r)'
  BY <1>1, <1>2 DEF Unmade, Aside, Grown, Volumes
<1>10. pc[r] \in RestorePlaces \ {"verify", "report"} => tx.arch \in Archive
  BY RestoreParts DEF Captured
<1>11. Swapped(r)'
  BY <1>1, <1>2, <1>7, <1>8, <1>9, <1>10, RestoreParts DEF Swapped, Importing, InApply, RestorePlaces, Volumes
<1>12. Told(r)'
  <2>1. Restored(r) => Restored(r)'
    BY <1>1, <1>2, <1>7 DEF Restored, Has, InPlace, AsRendered, Loads
  <2>2. RolledBack(r) => RolledBack(r)'
    BY <1>1, <1>2, <1>8, <1>9 DEF RolledBack, Has, InPlace, AsRendered, Settled
  <2>. QED  BY <1>1, <2>1, <2>2, RestoreParts DEF Told
<1>. QED  BY <1>3, <1>4, <1>5, <1>6, <1>11, <1>12 DEF Restoring

\* What is said of a backup outlives a step of another.
LEMMA BackupAside ==
  ASSUME NEW b \in Backups, RestoreInv, lock = b, Aside(b)
  PROVE  BackingUp(b)'
<1>1. UNCHANGED <<run, was, bk, archive, cfg>> /\ pc'[b] = pc[b] /\ out'[b] = out[b]
  BY DEF Aside, host
<1>2. \A v \in Volumes : Halted(v) => Halted(v)'
  BY <1>1 DEF Aside, Halted, Grown
<1>3. Taken(Chat)' = Taken(Chat) /\ TookAll' = TookAll /\ Stopped' = Stopped
  BY <1>1 DEF Taken, TookAll, Stopped
<1>. QED  BY <1>1, <1>2, <1>3, BackupParts DEF BackingUp, Bks

----------------------------------------------------------------------------
(* The places and the types                                                *)

\* A step of the holder moves it among the places of its kind, and no one else.
Moves(p, places) ==
  DOMAIN pc' = Procs /\ pc'[p] \in places /\ \A q \in Procs \ {p} : pc'[q] = pc[q]

\* A step that goes somewhere, or stays, moves nobody else.
LEMMA GotoMoves ==
  ASSUME NEW p \in Procs, NEW places, NEW l \in places, DOMAIN pc = Procs, Goto(p, l)
  PROVE  Moves(p, places)
BY DEF Goto, Moves

\* The same, of a step that stays.
LEMMA StayMoves ==
  ASSUME NEW p \in Procs, NEW places, pc[p] \in places, DOMAIN pc = Procs, UNCHANGED pc
  PROVE  Moves(p, places)
BY DEF Moves

\* Where refusing and rolling back lead.
LEMMA RollBackMoves ==
  ASSUME NEW r \in Restores, RestoreInv, lock = r
  PROVE  /\ Refuse(r) => Moves(r, RestorePlaces) /\ out' = [out EXCEPT ![r] = "refused"]
         /\ RollBack(r) => Moves(r, RestorePlaces) /\ tx' \in Txs
         /\ SwapFails(r) => Moves(r, RestorePlaces) /\ tx' \in Txs
         /\ \A more \in BOOLEAN, place \in RestorePlaces : OrQdrant(r, more, place) => Moves(r, RestorePlaces) /\ tx' \in Txs
<1>0. /\ r \in Procs /\ DOMAIN pc = Procs /\ tx \in Txs /\ pc[r] \in RestorePlaces
      /\ "report" \in RestorePlaces /\ "rbstop" \in RestorePlaces
      /\ "rbstartq" \in RestorePlaces /\ "rbqdrant" \in RestorePlaces /\ Chat \in Volumes /\ Qdrant \in Volumes
  BY RestoreParts DEF RestorePlaces, Volumes
<1>1. ASSUME Refuse(r) PROVE Moves(r, RestorePlaces) /\ out' = [out EXCEPT ![r] = "refused"]
  BY <1>0, <1>1, GotoMoves DEF Refuse
<1>2. ASSUME RollBack(r) PROVE Moves(r, RestorePlaces) /\ tx' \in Txs
  <2>1. tx' \in Txs
    BY <1>0, <1>2 DEF RollBack, Txs
  <2>. QED  BY <1>0, <1>2, <2>1, GotoMoves DEF RollBack
<1>3. ASSUME SwapFails(r) PROVE Moves(r, RestorePlaces) /\ tx' \in Txs
  <2>1. CASE tx.way = "forward" /\ RollBack(r)
    BY <1>2, <2>1
  <2>2. CASE tx.way = "back" /\ tx' = [tx EXCEPT !.ok = Notes] /\ Goto(r, AfterVolume)
    <3>1. tx' \in Txs
      BY <1>0, <2>2 DEF Txs, Notes
    <3>2. AfterVolume \in RestorePlaces
      BY <1>0 DEF AfterVolume
    <3>. QED  BY <1>0, <2>2, <3>1, <3>2, GotoMoves
  <2>. QED  BY <1>3, <2>1, <2>2 DEF SwapFails
<1>4. ASSUME NEW more \in BOOLEAN, NEW place \in RestorePlaces, OrQdrant(r, more, place)
      PROVE  Moves(r, RestorePlaces) /\ tx' \in Txs
  <2>1. tx' \in Txs
    BY <1>0, <1>4 DEF OrQdrant, Txs
  <2>2. Moves(r, RestorePlaces)
    BY <1>0, <1>4, GotoMoves, StayMoves DEF OrQdrant
  <2>. QED  BY <2>1, <2>2
<1>. QED  BY <1>1, <1>2, <1>3, <1>4

OwnStep(r) ==
  \/ Verify(r) \/ Skew(r) \/ CaptureConfig(r) \/ CaptureVolume(r) \/ CaptureFiles(r)
  \/ Quiesce(r) \/ SaveRestored(r) \/ WriteFiles(r) \/ RemoveVolume(r) \/ Reapply(r)
  \/ ApplyFailed(r) \/ Import(r) \/ Restart(r) \/ Prove(r)
  \/ RbStop(r) \/ RbSave(r) \/ RbFiles(r) \/ RbQdrant(r) \/ RbStart(r)

\* A step of a restore moves only that restore, to one of its places.
LEMMA OwnStepMoves ==
  ASSUME NEW r \in Restores, RestoreInv, lock = r, OwnStep(r)
  PROVE  Moves(r, RestorePlaces)
<1>0. r \in Procs /\ DOMAIN pc = Procs /\ pc[r] \in RestorePlaces
  BY RestoreParts
<1>1. CASE Verify(r)
  BY <1>0, <1>1, RollBackMoves, GotoMoves DEF Verify, RestorePlaces
<1>2. CASE Skew(r)
  BY <1>0, <1>2, RollBackMoves, GotoMoves DEF Skew, RestorePlaces
<1>3. CASE CaptureConfig(r)
  BY <1>0, <1>3, RollBackMoves, GotoMoves DEF CaptureConfig, RestorePlaces
<1>4. CASE CaptureVolume(r)
  <2>1. Refuse(r) \/ UNCHANGED pc \/ Goto(r, "capfiles")
    BY <1>4 DEF CaptureVolume
  <2>. QED  BY <1>0, <2>1, RollBackMoves, GotoMoves, StayMoves DEF RestorePlaces
<1>5. CASE CaptureFiles(r)
  <2>1. Refuse(r) \/ Goto(r, "quiesce")
    BY <1>5 DEF CaptureFiles
  <2>. QED  BY <1>0, <2>1, RollBackMoves, GotoMoves DEF RestorePlaces
<1>6. CASE Quiesce(r)
  <2>1. OrQdrant(r, Live(r), "save") \/ RollBack(r)
    BY <1>6 DEF Quiesce
  <2>2. "save" \in RestorePlaces /\ Live(r) \in BOOLEAN
    BY DEF RestorePlaces, Live
  <2>. QED  BY <2>1, <2>2, RollBackMoves
<1>7. CASE SaveRestored(r)
  <2>1. Goto(r, "files") \/ RollBack(r)
    BY <1>7 DEF SaveRestored
  <2>. QED  BY <1>0, <2>1, RollBackMoves, GotoMoves DEF RestorePlaces
<1>8. CASE WriteFiles(r)
  <2>1. Goto(r, "remove") \/ RollBack(r)
    BY <1>8 DEF WriteFiles
  <2>. QED  BY <1>0, <2>1, RollBackMoves, GotoMoves DEF RestorePlaces
<1>9. CASE RemoveVolume(r)
  <2>1. Goto(r, "heal") \/ SwapFails(r)
    BY <1>9 DEF RemoveVolume
  <2>. QED  BY <1>0, <2>1, RollBackMoves, GotoMoves DEF RestorePlaces, InApply
<1>10. CASE Reapply(r)
  <2>1. UNCHANGED pc \/ \E l \in {"env", "plan", "write", "applied", "failed"} : Goto(r, l)
    BY <1>10 DEF Reapply, Apply, HealKey, HealEnv, PlanApply, StopOrphan, WriteUnit, RemoveUnit, Reload
  <2>. QED  BY <1>0, <2>1, GotoMoves, StayMoves DEF RestorePlaces, InApply
<1>11. CASE ApplyFailed(r)
  BY <1>11, RollBackMoves DEF ApplyFailed
<1>12. CASE Import(r)
  <2>1. SwapFails(r) \/ Goto(r, "remove") \/ Goto(r, "restart") \/ Goto(r, AfterVolume)
    BY <1>12 DEF Import
  <2>2. AfterVolume \in RestorePlaces
    BY DEF AfterVolume, RestorePlaces
  <2>. QED  BY <1>0, <2>1, <2>2, RollBackMoves, GotoMoves DEF RestorePlaces
<1>13. CASE Restart(r)
  <2>1. OrQdrant(r, Live(r), "prove") \/ RollBack(r)
    BY <1>13 DEF Restart
  <2>2. "prove" \in RestorePlaces /\ Live(r) \in BOOLEAN
    BY DEF RestorePlaces, Live
  <2>. QED  BY <2>1, <2>2, RollBackMoves
<1>14. CASE Prove(r)
  <2>1. Goto(r, "report") \/ RollBack(r)
    BY <1>14 DEF Prove
  <2>. QED  BY <1>0, <2>1, RollBackMoves, GotoMoves DEF RestorePlaces
<1>15. CASE RbStop(r)
  <2>1. UNCHANGED pc \/ Goto(r, "rbsave")
    BY <1>15 DEF RbStop
  <2>. QED  BY <1>0, <2>1, StayMoves, GotoMoves DEF RestorePlaces
<1>16. CASE RbSave(r)
  BY <1>0, <1>16, GotoMoves DEF RbSave, RestorePlaces
<1>17. CASE RbFiles(r)
  BY <1>0, <1>17, GotoMoves DEF RbFiles, RestorePlaces
<1>18. CASE RbQdrant(r)
  <2>1. Goto(r, "remove") \/ Goto(r, "rbstart")
    BY <1>18 DEF RbQdrant
  <2>. QED  BY <1>0, <2>1, GotoMoves DEF RestorePlaces
<1>19. CASE RbStart(r)
  <2>1. Goto(r, "report") \/ Goto(r, "rbstart")
    BY <1>19 DEF RbStart
  <2>. QED  BY <1>0, <2>1, GotoMoves DEF RestorePlaces
<1>. QED
  BY <1>1, <1>2, <1>3, <1>4, <1>5, <1>6, <1>7, <1>8, <1>9, <1>10, <1>11, <1>12, <1>13, <1>14, <1>15,
     <1>16, <1>17, <1>18, <1>19 DEF OwnStep

\* It leaves alone what is another's.
LEMMA OwnStepFrame ==
  ASSUME NEW r \in Restores, RestoreInv, lock = r, OwnStep(r)
  PROVE  /\ UNCHANGED <<lock, bk, archive, servedKey, facts>>
         /\ tmp' = tmp \/ CaptureVolume(r)
<1>1. CASE Verify(r)
  BY <1>1 DEF Verify
<1>2. CASE Skew(r)
  BY <1>2 DEF Skew, mine
<1>3. CASE CaptureConfig(r)
  BY <1>3 DEF CaptureConfig, mine
<1>4. CASE CaptureFiles(r)
  BY <1>4 DEF CaptureFiles
<1>5. CASE Quiesce(r)
  BY <1>5 DEF Quiesce
<1>6. CASE SaveRestored(r)
  BY <1>6 DEF SaveRestored
<1>7. CASE WriteFiles(r)
  BY <1>7 DEF WriteFiles
<1>8. CASE RemoveVolume(r)
  BY <1>8 DEF RemoveVolume
<1>9. CASE Reapply(r)
  <2>1. UNCHANGED lock
    BY <1>9 DEF Reapply, Apply, HealKey, HealEnv, PlanApply, StopOrphan, WriteUnit, RemoveUnit, Reload
  <2>. QED  BY <1>9, <2>1 DEF Reapply, mine
<1>10. CASE ApplyFailed(r)
  BY <1>10 DEF ApplyFailed
<1>11. CASE Import(r)
  BY <1>11 DEF Import
<1>12. CASE Restart(r)
  BY <1>12 DEF Restart
<1>13. CASE Prove(r)
  BY <1>13 DEF Prove
<1>14. CASE RbStop(r)
  BY <1>14 DEF RbStop
<1>15. CASE RbSave(r)
  BY <1>15 DEF RbSave
<1>16. CASE RbFiles(r)
  BY <1>16 DEF RbFiles
<1>17. CASE RbQdrant(r)
  BY <1>17 DEF RbQdrant
<1>18. CASE RbStart(r)
  BY <1>18 DEF RbStart
<1>19. CASE CaptureVolume(r)
  BY <1>19 DEF CaptureVolume
<1>. QED
  BY <1>1, <1>2, <1>3, <1>4, <1>5, <1>6, <1>7, <1>8, <1>9, <1>10,
     <1>11, <1>12, <1>13, <1>14, <1>15, <1>16, <1>17, <1>18, <1>19 DEF OwnStep

\* Faults stay within their bound.
LEMMA FaultTyped ==
  ASSUME Typed, Fault \/ NoFault
  PROVE  faults' \in 0 .. MaxFaults
BY HostAssumption DEF Typed, Fault, NoFault

\* The types of what the host calls leave.
LEMMA CallsTyped ==
  ASSUME Typed, NEW s \in Volumes
  PROVE  /\ StopOk(s) \/ StopFails(s) => run' \in RunOf /\ faults' \in 0 .. MaxFaults
         /\ StartOk(s) \/ StartFails(s) => run' \in RunOf /\ vol' \in Tars /\ faults' \in 0 .. MaxFaults
         /\ [was EXCEPT !.vol[s] = vol[s]] \in [cfg : Config, disk : Content, loaded : Content, file : Files, vol : Tars]
<1>0. /\ s \in Services /\ s \in Units /\ run \in RunOf /\ vol \in Tars /\ loaded \in Content /\ Empty \in Stored
  BY ArchiveAssumption, HostAssumption DEF Typed, Volumes, Empty, Stored, Origin
<1>1. ASSUME StopOk(s) \/ StopFails(s) PROVE run' \in RunOf /\ faults' \in 0 .. MaxFaults
  BY <1>0, <1>1, FaultTyped DEF StopOk, StopFails, RunOf
<1>2. ASSUME StartOk(s) PROVE run' \in RunOf /\ vol' \in Tars
  <2>1. loaded[s] \in Texts
    BY <1>0, <1>2 DEF StartOk, Content
  <2>2. run' \in RunOf
    BY <1>0, <1>2, <2>1 DEF StartOk, RunOf
  <2>3. vol' \in Tars
    BY <1>0, <1>2 DEF StartOk, Tars
  <2>. QED  BY <2>2, <2>3
<1>3. ASSUME StartFails(s) PROVE run' \in RunOf /\ vol' \in Tars
  BY <1>0, <1>3 DEF StartFails
<1>4. StartOk(s) \/ StartFails(s) => faults' \in 0 .. MaxFaults
  BY FaultTyped DEF StartOk, StartFails
<1>5. [was EXCEPT !.vol[s] = vol[s]] \in [cfg : Config, disk : Content, loaded : Content, file : Files, vol : Tars]
  <2>1. was.vol \in Tars /\ vol[s] \in Stored \cup {Absent}
    BY <1>0 DEF Typed, Tars
  <2>2. [was.vol EXCEPT ![s] = vol[s]] \in Tars
    BY <2>1 DEF Tars
  <2>. QED  BY <2>2 DEF Typed
<1>. QED  BY <1>1, <1>2, <1>3, <1>4, <1>5

\* A step of the apply keeps the types.
LEMMA ReapplyTyped ==
  ASSUME NEW r \in Restores, RestoreInv, lock = r, Reapply(r)
  PROVE  Typed'
<1>0. /\ r \in Procs /\ DOMAIN pc = Procs /\ Typed /\ tx \in Txs
  BY RestoreParts
<1>1. UNCHANGED mine /\ Apply(r) /\ DOMAIN pc' = Procs
  BY <1>0, OwnStepMoves DEF Reapply, OwnStep, Moves
<1>2. CASE HealKey(r)
  <2>1. faults' \in 0 .. MaxFaults
    BY <1>0, <1>2, FaultTyped DEF HealKey
  <2>2. cfg' \in Config /\ next' \in [Procs -> Config]
    <3>1. CASE UNCHANGED <<cfg, next>>
      BY <1>0, <3>1 DEF Typed
    <3>2. CASE (\E k \in Keys \ {env} : cfg' = [next[r] EXCEPT !.key = k]) /\ next' = [next EXCEPT ![r] = cfg']
      <4>1. cfg' \in Config
        <5>1. PICK k \in Keys : cfg' = [next[r] EXCEPT !.key = k]
          BY <3>2
        <5>2. next[r] \in Config
          BY <1>0 DEF Typed
        <5>. QED  BY <5>1, <5>2 DEF Config
      <4>. QED  BY <1>0, <3>2, <4>1 DEF Typed
    <3>. QED  BY <1>2, <3>1, <3>2 DEF HealKey
  <2>. QED  BY <1>0, <1>1, <1>2, <2>1, <2>2 DEF HealKey, Typed, mine
<1>3. CASE HealEnv(r)
  <2>1. faults' \in 0 .. MaxFaults
    BY <1>0, <1>3, FaultTyped DEF HealEnv
  <2>2. env' \in Keys \cup {NoKey}
    BY <1>0, <1>3 DEF HealEnv, Typed, Config
  <2>. QED  BY <1>0, <1>1, <1>3, <2>1, <2>2 DEF HealEnv, Typed, mine, locals
<1>4. CASE PlanApply(r)
  <2>1. faults' \in 0 .. MaxFaults
    BY <1>0, <1>4, FaultTyped DEF PlanApply
  <2>2. todo' \in [Procs -> [Units -> Todo]]
    <3>1. \/ UNCHANGED todo
          \/ todo' = [todo EXCEPT ![r] = [u \in Units |->
               IF u \in ToChange(next[r].id, disk) THEN "write"
               ELSE IF u \notin Orphans(next[r].id, disk) THEN "keep"
               ELSE IF u \in Services /\ Up(u) THEN "stop" ELSE "remove"]]
      BY <1>4 DEF PlanApply
    <3>2. [u \in Units |-> IF u \in ToChange(next[r].id, disk) THEN "write"
               ELSE IF u \notin Orphans(next[r].id, disk) THEN "keep"
               ELSE IF u \in Services /\ Up(u) THEN "stop" ELSE "remove"] \in [Units -> Todo]
      BY DEF Todo
    <3>. QED  BY <1>0, <3>1, <3>2 DEF Typed
  <2>. QED  BY <1>0, <1>1, <1>4, <2>1, <2>2 DEF PlanApply, Typed, mine, host
<1>5. CASE StopOrphan(r)
  <2>1. faults' \in 0 .. MaxFaults
    BY <1>0, <1>5, FaultTyped DEF StopOrphan
  <2>2. PICK s \in Having(r, "stop") \cap Services :
          /\ Record(r, s)
          /\ \/ run' = [run EXCEPT ![s] = Down] /\ Mark(r, s, "remove")
             \/ run' \in {run, [run EXCEPT ![s] = Down]} /\ UNCHANGED todo
    BY <1>5 DEF StopOrphan
  <2>3. run' \in RunOf
    BY <1>0, <2>2 DEF Typed, RunOf
  <2>4. todo' \in [Procs -> [Units -> Todo]]
    <3>1. s \in Units /\ "remove" \in Todo
      BY <2>2, HostAssumption DEF Todo
    <3>2. CASE UNCHANGED todo
      BY <1>0, <3>2 DEF Typed
    <3>3. CASE Mark(r, s, "remove")
      <4>1. todo \in [Procs -> [Units -> Todo]] /\ todo[r] \in [Units -> Todo]
        BY <1>0 DEF Typed
      <4>2. [todo[r] EXCEPT ![s] = "remove"] \in [Units -> Todo]
        BY <3>1, <4>1
      <4>. QED  BY <1>0, <3>3, <4>1, <4>2 DEF Mark
    <3>. QED  BY <2>2, <3>2, <3>3
  <2>5. restarted' \in [Procs -> SUBSET Services]
    BY <1>0, <2>2 DEF Typed, Record
  <2>. QED  BY <1>0, <1>1, <1>5, <2>1, <2>3, <2>4, <2>5 DEF StopOrphan, Typed, mine
<1>6. CASE WriteUnit(r) \/ RemoveUnit(r)
  <2>1. faults' \in 0 .. MaxFaults
    BY <1>0, <1>6, FaultTyped DEF WriteUnit, RemoveUnit
  <2>2. ASSUME NEW u \in Units, NEW text \in Texts \cup {None}, NEW mark \in Todo,
               disk' = [disk EXCEPT ![u] = text] /\ Mark(r, u, mark)
        PROVE  disk' \in Content /\ todo' \in [Procs -> [Units -> Todo]]
    BY <1>0, <2>2 DEF Typed, Content, Mark
  <2>3. next[r].id \in Configs /\ \A u \in Units : Rendered[next[r].id][u] \in Texts \cup {None}
    BY <1>0, HostAssumption DEF Typed, Config
  <2>4. disk' \in Content /\ todo' \in [Procs -> [Units -> Todo]]
    <3>1. CASE UNCHANGED <<disk, todo>>
      BY <1>0, <3>1 DEF Typed
    <3>2. ASSUME NEW u \in Having(r, "write"), disk' = [disk EXCEPT ![u] = Rendered[next[r].id][u]], Mark(r, u, "written")
          PROVE  disk' \in Content /\ todo' \in [Procs -> [Units -> Todo]]
      BY <2>2, <2>3, <3>2 DEF Having, Todo
    <3>3. ASSUME NEW u \in Having(r, "remove"), disk' = [disk EXCEPT ![u] = None], Mark(r, u, "keep")
          PROVE  disk' \in Content /\ todo' \in [Procs -> [Units -> Todo]]
      BY <2>2, <3>3 DEF Having, Todo
    <3>4. CASE WriteUnit(r)
      BY <3>1, <3>2, <3>4 DEF WriteUnit
    <3>5. CASE RemoveUnit(r)
      BY <3>1, <3>3, <3>5 DEF RemoveUnit
    <3>. QED  BY <1>6, <3>4, <3>5
  <2>5. UNCHANGED <<cfg, env, loaded, run, prior, next, restarted, out>>
    BY <1>6 DEF WriteUnit, RemoveUnit
  <2>. QED  BY <1>0, <1>1, <2>1, <2>4, <2>5 DEF Typed, mine
<1>7. CASE Reload(r)
  <2>1. faults' \in 0 .. MaxFaults
    BY <1>0, <1>7, FaultTyped DEF Reload
  <2>2. loaded' \in Content
    BY <1>0, <1>7 DEF Reload, Typed
  <2>. QED  BY <1>0, <1>1, <1>7, <2>1, <2>2 DEF Reload, Typed, mine, locals
<1>. QED  BY <1>1, <1>2, <1>3, <1>4, <1>5, <1>6, <1>7 DEF Apply

\* Every step of a restore keeps the types.
LEMMA OwnStepTyped ==
  ASSUME NEW r \in Restores, RestoreInv, lock = r, OwnStep(r)
  PROVE  Typed'
<1>0. /\ r \in Procs /\ Typed /\ tx \in Txs /\ tx.v \in Volumes /\ Chat \in Volumes /\ Qdrant \in Volumes /\ DOMAIN pc' = Procs
      /\ vol \in Tars /\ file \in Files /\ archive \in Archive
  BY RestoreParts, OwnStepMoves DEF Txs, Volumes, Moves, Typed
<1>a. ASSUME Fault \/ NoFault PROVE faults' \in 0 .. MaxFaults
  BY <1>0, <1>a, FaultTyped
<1>b. ASSUME UNCHANGED out \/ Refuse(r) PROVE out' \in [Procs -> Outcomes]
  BY <1>0, <1>b, RollBackMoves DEF Typed, Outcomes
<1>1. CASE Verify(r)
  <2>1. tx' \in Txs
    BY <1>0, <1>1 DEF Verify, Txs
  <2>2. faults' \in 0 .. MaxFaults /\ out' \in [Procs -> Outcomes]
    BY <1>a, <1>b, <1>1 DEF Verify
  <2>. QED  BY <1>0, <1>1, <2>1, <2>2 DEF Verify, Typed, Txs, host, kept
<1>2. CASE Skew(r)
  <2>2. faults' \in 0 .. MaxFaults /\ out' \in [Procs -> Outcomes]
    BY <1>a, <1>b, <1>2 DEF Skew
  <2>. QED  BY <1>0, <1>2, <2>2 DEF Skew, Typed, mine, host, kept
<1>3. CASE CaptureConfig(r)
  <2>1. prior' \in [Procs -> Config]
    BY <1>0, <1>3 DEF CaptureConfig, Typed
  <2>2. faults' \in 0 .. MaxFaults /\ out' \in [Procs -> Outcomes]
    BY <1>a, <1>b, <1>3 DEF CaptureConfig
  <2>. QED  BY <1>0, <1>3, <2>1, <2>2 DEF CaptureConfig, Typed, mine, host
<1>4. CASE CaptureVolume(r)
  <2>1. tx' \in Txs
    <3>1. UNCHANGED tx \/ tx' = [tx EXCEPT !.v = Qdrant] \/ tx' = [tx EXCEPT !.v = Chat]
      BY <1>4 DEF CaptureVolume
    <3>. QED  BY <1>0, <3>1 DEF Txs
  <2>2. faults' \in 0 .. MaxFaults /\ out' \in [Procs -> Outcomes]
    <3>1. (Fault \/ NoFault) /\ (UNCHANGED out \/ Refuse(r))
      BY <1>4 DEF CaptureVolume
    <3>. QED  BY <3>1, <1>a, <1>b
  <2>3. tmp' \in [Restores -> Tars]
    <3>1. CASE UNCHANGED tmp
      BY <1>0, <3>1 DEF Typed
    <3>2. ASSUME vol[tx.v] # Absent, NEW t \in Exported(tx.v), tmp' = [tmp EXCEPT ![r][tx.v] = t]
          PROVE  tmp' \in [Restores -> Tars]
      <4>1. t \in Stored
        BY <1>0, <3>2, ExportedIsThere, RestoreParts
      <4>2. tmp[r] \in Tars /\ [tmp[r] EXCEPT ![tx.v] = t] \in Tars
        BY <1>0, <4>1 DEF Typed, Tars
      <4>. QED  BY <1>0, <3>2, <4>2 DEF Typed
    <3>. QED  BY <1>4, <3>1, <3>2 DEF CaptureVolume
  <2>4. UNCHANGED <<lock, host, kept, servedKey, vol, file, archive, facts, bk, was>>
    BY <1>4 DEF CaptureVolume
  <2>. QED  BY <1>0, <2>1, <2>2, <2>3, <2>4 DEF Typed, Txs, host, kept
<1>5. CASE CaptureFiles(r)
  <2>1. tx' \in Txs
    <3>1. ASSUME NEW rows, tx' = [tx EXCEPT !.files = [row \in Rows |-> IF row \in rows THEN file[row] ELSE None]]
          PROVE  tx' \in Txs
      <4>1. [row \in Rows |-> IF row \in rows THEN file[row] ELSE None] \in Files
        BY <1>0 DEF Files
      <4>. QED  BY <1>0, <3>1, <4>1 DEF Txs
    <3>2. \/ UNCHANGED tx
          \/ tx' = [tx EXCEPT !.files = [row \in Rows |-> IF row \in facts[r].dests THEN file[row] ELSE None]]
          \/ \E bad \in facts[r].dests \ Written(r) :
               tx' = [tx EXCEPT !.files = [row \in Rows |-> IF row \in facts[r].dests \ {bad} THEN file[row] ELSE None]]
      BY <1>5, Zenon DEF CaptureFiles
    <3>. QED  BY <1>0, <3>1, <3>2
  <2>2. faults' \in 0 .. MaxFaults /\ out' \in [Procs -> Outcomes]
    <3>1. (Fault \/ NoFault) /\ (UNCHANGED out \/ Refuse(r))
      BY <1>5 DEF CaptureFiles
    <3>. QED  BY <3>1, <1>a, <1>b
  <2>4. UNCHANGED <<lock, host, kept, servedKey, vol, file, archive, facts, tmp, bk, was>>
    BY <1>5 DEF CaptureFiles
  <2>. QED  BY <1>0, <2>1, <2>2, <2>4 DEF Typed, Txs, host, kept
<1>6. CASE Quiesce(r)
  <2>1. tx' \in Txs
    <3>1. OrQdrant(r, Live(r), "save") \/ RollBack(r)
      BY <1>6 DEF Quiesce
    <3>2. "save" \in RestorePlaces /\ Live(r) \in BOOLEAN
      BY DEF RestorePlaces, Live
    <3>. QED  BY <3>1, <3>2, RollBackMoves
  <2>2. run' \in RunOf /\ faults' \in 0 .. MaxFaults
    BY <1>0, <1>6, CallsTyped DEF Quiesce
  <2>3. was' \in [cfg : Config, disk : Content, loaded : Content, file : Files, vol : Tars]
    BY <1>0, <1>6, CallsTyped DEF Quiesce
  <2>. QED  BY <1>0, <1>6, <2>1, <2>2, <2>3 DEF Quiesce, Typed, Txs, kept
<1>7. CASE SaveRestored(r)
  <2>1. tx' \in Txs /\ cfg' \in Config
    <3>1. tx.arch.cfg \in Config
      BY <1>7, RestoreParts DEF SaveRestored, Holds, Captured, RestorePlaces, Archive
    <3>2. (cfg' = tx.arch.cfg /\ UNCHANGED tx) \/ (RollBack(r) /\ UNCHANGED cfg)
      BY <1>7 DEF SaveRestored
    <3>. QED  BY <1>0, <3>1, <3>2, RollBackMoves DEF Typed
  <2>2. faults' \in 0 .. MaxFaults
    BY <1>a, <1>7 DEF SaveRestored
  <2>. QED  BY <1>0, <1>7, <2>1, <2>2 DEF SaveRestored, Typed, Txs, kept
<1>8. CASE WriteFiles(r)
  <2>1. tx' \in Txs
    <3>1. UNCHANGED tx \/ RollBack(r)
      BY <1>8 DEF WriteFiles
    <3>. QED  BY <1>0, <3>1, RollBackMoves
  <2>2. faults' \in 0 .. MaxFaults
    <3>1. Fault \/ NoFault
      BY <1>8 DEF WriteFiles
    <3>. QED  BY <1>a, <3>1
  <2>3. file' \in Files
    <3>1. tx.arch.files \in Files
      BY <1>8, RestoreParts DEF WriteFiles, Holds, Captured, RestorePlaces, Archive, Files
    <3>3. ASSUME file' = [row \in Rows |-> IF row \in Written(r) THEN tx.arch.files[row] ELSE file[row]]
          PROVE  file' \in Files
      BY <1>0, <3>1, <3>3 DEF Files
    <3>4. \/ file' = [row \in Rows |-> IF row \in Written(r) THEN tx.arch.files[row] ELSE file[row]]
          \/ \E bad \in Written(r), done \in SUBSET Written(r), left \in {"untouched", "torn"} :
               file' = [row \in Rows |-> IF row \in done THEN tx.arch.files[row]
                                         ELSE IF row = bad /\ left = "torn" THEN "torn" ELSE file[row]]
      BY <1>8, Zenon DEF WriteFiles
    <3>5. ASSUME NEW bad \in Written(r), NEW done \in SUBSET Written(r), NEW left \in {"untouched", "torn"},
                 file' = [row \in Rows |-> IF row \in done THEN tx.arch.files[row]
                                           ELSE IF row = bad /\ left = "torn" THEN "torn" ELSE file[row]]
          PROVE  file' \in Files
      BY <1>0, <3>1, <3>5 DEF Files, FileText
    <3>. QED  BY <3>3, <3>4, <3>5, Zenon
  <2>4. UNCHANGED <<lock, host, kept, out, servedKey, vol, archive, facts, tmp, bk, was>>
    BY <1>8 DEF WriteFiles
  <2>. QED  BY <1>0, <2>1, <2>2, <2>3, <2>4 DEF Typed, Txs, host, kept
<1>9. CASE RemoveVolume(r)
  <2>1. tx' \in Txs
    BY <1>0, <1>9, RollBackMoves DEF RemoveVolume
  <2>2. faults' \in 0 .. MaxFaults
    BY <1>a, <1>9 DEF RemoveVolume
  <2>3. vol' \in Tars
    BY <1>0, <1>9 DEF RemoveVolume, Tars
  <2>4. next' \in [Procs -> Config]
    <3>1. Recreated(r) \in Config
      BY <1>0, <1>9, RestoreParts DEF RemoveVolume, Holds, Captured, RestorePlaces, Archive, Recreated, Typed
    <3>. QED  BY <1>0, <1>9, <3>1 DEF RemoveVolume, Typed
  <2>. QED  BY <1>0, <1>9, <2>1, <2>2, <2>3, <2>4 DEF RemoveVolume, Typed, Txs, host
<1>10. CASE Reapply(r)
  BY <1>10, ReapplyTyped
<1>11. CASE ApplyFailed(r)
  <2>1. tx' \in Txs
    BY <1>0, <1>11, RollBackMoves DEF ApplyFailed
  <2>2. faults' \in 0 .. MaxFaults
    BY <1>a, <1>11 DEF ApplyFailed
  <2>. QED  BY <1>0, <1>11, <2>1, <2>2 DEF ApplyFailed, Typed, Txs, host, kept
<1>12. CASE Import(r)
  <2>1. tx' \in Txs
    <3>1. \/ SwapFails(r) \/ UNCHANGED tx \/ tx' = [tx EXCEPT !.v = Qdrant] \/ tx' = [tx EXCEPT !.v = Chat]
      BY <1>12 DEF Import
    <3>. QED  BY <1>0, <3>1, RollBackMoves DEF Txs
  <2>2. faults' \in 0 .. MaxFaults
    <3>1. Fault \/ NoFault
      BY <1>12 DEF Import
    <3>. QED  BY <1>a, <3>1
  <2>3. vol' \in Tars
    <3>1. /\ (IF tx.way = "forward" THEN tx.arch.vols[tx.v] ELSE tmp[r][tx.v]) \in Stored \cup {Absent}
      BY <1>0, <1>12, RestoreParts DEF Import, Holds, Captured, RestorePlaces, Archive, Typed, Tars
    <3>2. {Empty, Torn, Mixed} \subseteq Stored
      BY ArchiveAssumption DEF Empty, Torn, Mixed, Stored, Origin
    <3>3. \E new \in Stored \cup {Absent} : vol' = [vol EXCEPT ![tx.v] = Merge(@, new)]
      BY <1>12, <3>1, <3>2 DEF Import
    <3>4. PICK new \in Stored \cup {Absent} : vol' = [vol EXCEPT ![tx.v] = Merge(vol[tx.v], new)]
      BY <3>3
    <3>5. Merge(vol[tx.v], new) \in Stored \cup {Absent}
      BY <3>2, <3>4 DEF Merge
    <3>. QED  BY <1>0, <3>4, <3>5 DEF Tars
  <2>4. UNCHANGED <<lock, host, kept, out, servedKey, file, archive, facts, tmp, bk, was>>
    BY <1>12 DEF Import
  <2>. QED  BY <1>0, <2>1, <2>2, <2>3, <2>4 DEF Typed, Txs, host, kept
<1>13. CASE Restart(r)
  <2>1. tx' \in Txs
    <3>1. OrQdrant(r, Live(r), "prove") \/ RollBack(r)
      BY <1>13 DEF Restart
    <3>2. "prove" \in RestorePlaces /\ Live(r) \in BOOLEAN
      BY DEF RestorePlaces, Live
    <3>. QED  BY <3>1, <3>2, RollBackMoves
  <2>2. run' \in RunOf /\ vol' \in Tars /\ faults' \in 0 .. MaxFaults
    BY <1>0, <1>13, CallsTyped DEF Restart
  <2>. QED  BY <1>0, <1>13, <2>1, <2>2 DEF Restart, Typed, Txs, kept
<1>14. CASE Prove(r)
  <2>1. tx' \in Txs
    BY <1>0, <1>14, RollBackMoves DEF Prove
  <2>2. faults' \in 0 .. MaxFaults
    BY <1>a, <1>14 DEF Prove
  <2>3. out' \in [Procs -> Outcomes]
    BY <1>0, <1>14 DEF Prove, Typed, Outcomes
  <2>. QED  BY <1>0, <1>14, <2>1, <2>2, <2>3 DEF Prove, Typed, Txs, host, kept
<1>15. CASE RbStop(r)
  <2>1. PICK ok \in BOOLEAN :
          /\ IF ok THEN StopOk(tx.v) ELSE StopFails(tx.v)
          /\ \/ tx' = [tx EXCEPT !.v = Qdrant, !.ok = @ /\ (ok \/ Notes)]
             \/ tx' = [tx EXCEPT !.v = Chat, !.ok = @ /\ (ok \/ Notes)]
    <3>1. \E ok \in BOOLEAN :
            /\ IF ok THEN StopOk(tx.v) ELSE StopFails(tx.v)
            /\ \/ /\ tx.v = Chat /\ Live(r)
                  /\ tx' = [tx EXCEPT !.v = Qdrant, !.ok = @ /\ (ok \/ Notes)] /\ UNCHANGED pc
               \/ /\ ~(tx.v = Chat /\ Live(r))
                  /\ tx' = [tx EXCEPT !.v = Chat, !.ok = @ /\ (ok \/ Notes)] /\ Goto(r, "rbsave")
      BY <1>15, Zenon DEF RbStop
    <3>. QED  BY <3>1, Zenon
  <2>2. tx' \in Txs
    BY <1>0, <2>1 DEF Txs
  <2>3. run' \in RunOf /\ faults' \in 0 .. MaxFaults
    BY <1>0, <2>1, CallsTyped
  <2>4. UNCHANGED <<lock, cfg, env, disk, loaded, kept, out, servedKey, vol, file, archive, facts, tmp, bk, was>>
    BY <1>15 DEF RbStop
  <2>. QED  BY <1>0, <2>2, <2>3, <2>4 DEF Typed, Txs, kept
<1>16. CASE RbSave(r)
  <2>1. tx' \in Txs /\ cfg' \in Config
    <3>1. tx' \in Txs
      <4>1. UNCHANGED tx \/ tx' = [tx EXCEPT !.ok = Notes]
        BY <1>16 DEF RbSave
      <4>. QED  BY <1>0, <4>1 DEF Txs, Notes
    <3>2. cfg' \in Config
      BY <1>0, <1>16 DEF RbSave, Typed
    <3>. QED  BY <3>1, <3>2
  <2>2. faults' \in 0 .. MaxFaults
    BY <1>a, <1>16 DEF RbSave
  <2>. QED  BY <1>0, <1>16, <2>1, <2>2 DEF RbSave, Typed, Txs, kept
<1>17. CASE RbFiles(r)
  <2>1. tx' \in Txs
    <3>1. UNCHANGED tx \/ tx' = [tx EXCEPT !.ok = Notes]
      BY <1>17 DEF RbFiles
    <3>. QED  BY <1>0, <3>1 DEF Txs, Notes
  <2>2. faults' \in 0 .. MaxFaults
    <3>1. Fault \/ NoFault
      BY <1>17 DEF RbFiles
    <3>. QED  BY <1>a, <3>1
  <2>3. file' \in Files
    <3>1. tx.files \in Files
      BY <1>17, RestoreParts DEF RbFiles, Holds, Captured, Mutates, RestorePlaces, Gates, Captures
    <3>3. ASSUME file' = [row \in Rows |-> IF row \in PutBack(r) THEN tx.files[row] ELSE file[row]]
          PROVE  file' \in Files
      BY <1>0, <3>1, <3>3 DEF Files
    <3>4. \/ file' = [row \in Rows |-> IF row \in PutBack(r) THEN tx.files[row] ELSE file[row]]
          \/ \E bad \in PutBack(r), left \in {"untouched", "torn"} :
               file' = [row \in Rows |-> IF row \in PutBack(r) \ {bad} THEN tx.files[row]
                                         ELSE IF row = bad /\ left = "torn" THEN "torn" ELSE file[row]]
      BY <1>17, Zenon DEF RbFiles
    <3>5. ASSUME NEW bad \in PutBack(r), NEW left \in {"untouched", "torn"},
                 file' = [row \in Rows |-> IF row \in PutBack(r) \ {bad} THEN tx.files[row]
                                           ELSE IF row = bad /\ left = "torn" THEN "torn" ELSE file[row]]
          PROVE  file' \in Files
      BY <1>0, <3>1, <3>5 DEF Files, FileText
    <3>. QED  BY <3>3, <3>4, <3>5, Zenon
  <2>4. UNCHANGED <<lock, host, kept, out, servedKey, vol, archive, facts, tmp, bk, was>>
    BY <1>17 DEF RbFiles
  <2>. QED  BY <1>0, <2>1, <2>2, <2>3, <2>4 DEF Typed, Txs, host, kept
<1>18. CASE RbQdrant(r)
  <2>1. tx' \in Txs
    <3>1. UNCHANGED tx \/ tx' = [tx EXCEPT !.ok = Notes] \/ tx' = [tx EXCEPT !.v = Qdrant]
      BY <1>18 DEF RbQdrant
    <3>. QED  BY <1>0, <3>1 DEF Txs, Notes
  <2>2. faults' \in 0 .. MaxFaults
    BY <1>a, <1>18 DEF RbQdrant
  <2>3. vol' \in Tars
    BY <1>0, <1>18 DEF RbQdrant, Tars
  <2>4. UNCHANGED <<lock, host, kept, out, servedKey, file, archive, facts, tmp, bk, was>>
    BY <1>18 DEF RbQdrant
  <2>. QED  BY <1>0, <2>1, <2>2, <2>3, <2>4 DEF Typed, Txs, host, kept
<1>19. CASE RbStart(r)
  <2>1. PICK s \in Volumes, ok \in BOOLEAN :
          /\ IF ok THEN StartOk(s) ELSE StartFails(s)
          /\ tx' = [tx EXCEPT !.ok = @ /\ (ok \/ Notes)]
          /\ out' = IF s = Qdrant THEN out ELSE [out EXCEPT ![r] = IF tx'.ok THEN "rolledback" ELSE "incomplete"]
          /\ UNCHANGED <<lock, cfg, env, disk, loaded, kept, servedKey, file, archive, facts, tmp, bk, was>>
    BY <1>19 DEF RbStart
  <2>2. tx' \in Txs
    BY <1>0, <2>1 DEF Txs
  <2>3. run' \in RunOf /\ vol' \in Tars /\ faults' \in 0 .. MaxFaults
    BY <1>0, <2>1, CallsTyped
  <2>4. out' \in [Procs -> Outcomes]
    BY <1>0, <2>1 DEF Typed, Outcomes
  <2>. QED  BY <1>0, <2>1, <2>2, <2>3, <2>4 DEF Typed, Txs, kept
<1>. QED
  BY <1>1, <1>2, <1>3, <1>4, <1>5, <1>6, <1>7, <1>8, <1>9, <1>10, <1>11, <1>12, <1>13, <1>14, <1>15,
     <1>16, <1>17, <1>18, <1>19 DEF OwnStep

----------------------------------------------------------------------------
(* No copy is a mix                                                        *)

\* The places of the steps that turn round.
LEMMA RollBackPlaces ==
  ASSUME NEW r \in Restores, RestoreInv, lock = r
  PROVE  /\ \A place \in RestorePlaces : Goto(r, place) => pc'[r] = place
         /\ Refuse(r) => pc'[r] = "report"
         /\ RollBack(r) => pc'[r] = "rbstop" /\ tx'.arch = tx.arch
         /\ SwapFails(r) => pc'[r] \in {"rbstop", "rbqdrant", "rbstartq"} /\ tx'.arch = tx.arch
         /\ \A more \in BOOLEAN, place \in RestorePlaces :
              OrQdrant(r, more, place) => pc'[r] \in {place, pc[r]} /\ tx'.arch = tx.arch
         /\ \A v \in Volumes, ok \in BOOLEAN, files \in Files :
              /\ [tx EXCEPT !.v = v].arch = tx.arch /\ [tx EXCEPT !.ok = ok].arch = tx.arch
              /\ [tx EXCEPT !.v = v, !.ok = ok].arch = tx.arch /\ [tx EXCEPT !.files = files].arch = tx.arch
<1>0. r \in Procs /\ DOMAIN pc = Procs /\ tx \in Txs
  BY RestoreParts
<1>1. \A place \in RestorePlaces : Goto(r, place) => pc'[r] = place
  BY <1>0 DEF Goto
<1>2. Refuse(r) => pc'[r] = "report"
  BY <1>0 DEF Goto, Refuse
<1>3. RollBack(r) => pc'[r] = "rbstop" /\ tx'.arch = tx.arch
  BY <1>0 DEF Goto, RollBack, Txs
<1>4. SwapFails(r) => pc'[r] \in {"rbstop", "rbqdrant", "rbstartq"} /\ tx'.arch = tx.arch
  BY <1>0, <1>3 DEF Goto, SwapFails, AfterVolume, Txs
<1>5. \A more \in BOOLEAN, place \in RestorePlaces :
        OrQdrant(r, more, place) => pc'[r] \in {place, pc[r]} /\ tx'.arch = tx.arch
  BY <1>0 DEF Goto, OrQdrant, Txs
<1>6. \A v \in Volumes, ok \in BOOLEAN, files \in Files :
        /\ [tx EXCEPT !.v = v].arch = tx.arch /\ [tx EXCEPT !.ok = ok].arch = tx.arch
        /\ [tx EXCEPT !.v = v, !.ok = ok].arch = tx.arch /\ [tx EXCEPT !.files = files].arch = tx.arch
  BY <1>0 DEF Txs
<1>. QED  BY <1>1, <1>2, <1>3, <1>4, <1>5, <1>6

\* The archive is read once; an import is next only after a removal.
LEMMA OwnStepArchive ==
  ASSUME NEW r \in Restores, RestoreInv, lock = r, OwnStep(r)
  PROVE  /\ \/ Verify(r) /\ (pc'[r] = "report" \/ tx'.arch = archive)
            \/ tx'.arch = tx.arch /\ pc[r] \notin {"verify", "report"}
         /\ pc'[r] # "verify"
         /\ pc'[r] \in Importing => Reapply(r) \/ (RemoveVolume(r) /\ tx' = tx /\ vol'[tx.v] = Absent)
<1>0. /\ r \in Procs /\ DOMAIN pc = Procs /\ tx \in Txs /\ Chat \in Volumes /\ Qdrant \in Volumes /\ tx.v \in Volumes
      /\ vol \in Tars /\ Live(r) \in BOOLEAN
  BY RestoreParts DEF Volumes, Txs, Typed, Live
<1>1. CASE Verify(r)
  BY <1>0, <1>1, RollBackPlaces DEF Verify, Holds, Txs, RestorePlaces, Importing, InApply
<1>2. CASE Skew(r)
  <2>1. pc[r] = "skew" /\ (UNCHANGED tx /\ (Goto(r, "capconfig") \/ Refuse(r)))
    BY <1>2 DEF Skew, Holds, mine
  <2>. QED  BY <1>0, <1>2, <2>1, RollBackPlaces DEF Txs, RestorePlaces, Importing, InApply
<1>3. CASE CaptureConfig(r)
  <2>1. pc[r] = "capconfig" /\ (UNCHANGED tx /\ (Goto(r, "capvol") \/ Refuse(r)))
    BY <1>3 DEF CaptureConfig, Holds, mine
  <2>. QED  BY <1>0, <1>3, <2>1, RollBackPlaces DEF Txs, RestorePlaces, Importing, InApply
<1>4. CASE CaptureVolume(r)
  <2>1. pc[r] = "capvol" /\ ((Refuse(r) /\ UNCHANGED tx) \/ (tx' = [tx EXCEPT !.v = Qdrant] /\ UNCHANGED pc) \/ (tx' = [tx EXCEPT !.v = Chat] /\ Goto(r, "capfiles")))
    BY <1>4 DEF CaptureVolume, Holds
  <2>. QED  BY <1>0, <1>4, <2>1, RollBackPlaces DEF Txs, RestorePlaces, Importing, InApply
<1>5. CASE CaptureFiles(r)
  <2>1. pc[r] = "capfiles" /\ ((Refuse(r) /\ UNCHANGED tx) \/ ((\E files : tx' = [tx EXCEPT !.files = files]) /\ Goto(r, "quiesce")))
    BY <1>5 DEF CaptureFiles, Holds
  <2>. QED  BY <1>0, <1>5, <2>1, RollBackPlaces DEF Txs, RestorePlaces, Importing, InApply
<1>6. CASE Quiesce(r)
  <2>1. pc[r] = "quiesce" /\ (OrQdrant(r, Live(r), "save") \/ RollBack(r))
    BY <1>6 DEF Quiesce, Holds
  <2>. QED  BY <1>0, <1>6, <2>1, RollBackPlaces DEF Txs, RestorePlaces, Importing, InApply
<1>7. CASE SaveRestored(r)
  <2>1. pc[r] = "save" /\ ((UNCHANGED tx /\ Goto(r, "files")) \/ RollBack(r))
    BY <1>7 DEF SaveRestored, Holds
  <2>. QED  BY <1>0, <1>7, <2>1, RollBackPlaces DEF Txs, RestorePlaces, Importing, InApply
<1>8. CASE WriteFiles(r)
  <2>1. pc[r] = "files" /\ ((UNCHANGED tx /\ Goto(r, "remove")) \/ RollBack(r))
    BY <1>8 DEF WriteFiles, Holds
  <2>. QED  BY <1>0, <1>8, <2>1, RollBackPlaces DEF Txs, RestorePlaces, Importing, InApply
<1>9. CASE RemoveVolume(r)
  <2>1. /\ pc[r] = "remove"
        /\ \/ SwapFails(r)
           \/ ~InUse(tx.v) /\ vol' = [vol EXCEPT ![tx.v] = IF run[tx.v] = Down THEN Absent ELSE @] /\ UNCHANGED tx
              /\ Goto(r, "heal")
    BY <1>9 DEF RemoveVolume, Holds
  <2>2. CASE SwapFails(r)
    BY <2>1, <2>2, RollBackPlaces DEF Importing, InApply
  <2>3. CASE UNCHANGED tx /\ Goto(r, "heal") /\ vol' = [vol EXCEPT ![tx.v] = Absent]
    <3>1. vol'[tx.v] = Absent /\ pc'[r] = "heal"
      BY <1>0, <2>3 DEF Tars, Goto
    <3>. QED  BY <1>9, <2>1, <2>3, <3>1
  <2>. QED  BY <2>1, <2>2, <2>3 DEF InUse
<1>10. CASE Reapply(r)
  <2>1. UNCHANGED tx /\ pc[r] \in InApply
    BY <1>10 DEF Reapply, mine, Apply, HealKey, HealEnv, PlanApply, StopOrphan, WriteUnit, RemoveUnit, Reload, InApply
  <2>2. pc'[r] \in Importing \cup {"failed"}
    BY <1>10, ApplyPlaces DEF Reapply
  <2>. QED  BY <1>10, <2>1, <2>2 DEF Importing, InApply
<1>11. CASE ApplyFailed(r)
  <2>1. pc[r] = "failed" /\ (SwapFails(r))
    BY <1>11 DEF ApplyFailed, Holds
  <2>. QED  BY <1>0, <1>11, <2>1, RollBackPlaces DEF Txs, RestorePlaces, Importing, InApply
<1>12. CASE Import(r)
  <2>1. pc[r] = "applied" /\ (SwapFails(r) \/ (tx' = [tx EXCEPT !.v = Qdrant] /\ Goto(r, "remove"))
             \/ (tx' = [tx EXCEPT !.v = Chat] /\ Goto(r, "restart")) \/ (Goto(r, AfterVolume) /\ UNCHANGED tx))
    BY <1>12 DEF Import, Holds
  <2>2. AfterVolume \in {"rbqdrant", "rbstartq"}
    BY DEF AfterVolume
  <2>. QED  BY <1>0, <1>12, <2>1, <2>2, RollBackPlaces DEF Txs, RestorePlaces, Importing, InApply
<1>13. CASE Restart(r)
  <2>1. pc[r] = "restart" /\ (OrQdrant(r, Live(r), "prove") \/ RollBack(r))
    BY <1>13 DEF Restart, Holds
  <2>. QED  BY <1>0, <1>13, <2>1, RollBackPlaces DEF Txs, RestorePlaces, Importing, InApply
<1>14. CASE Prove(r)
  <2>1. pc[r] = "prove" /\ ((Goto(r, "report") /\ UNCHANGED tx) \/ RollBack(r))
    BY <1>14 DEF Prove, Holds
  <2>. QED  BY <1>0, <1>14, <2>1, RollBackPlaces DEF Txs, RestorePlaces, Importing, InApply
<1>15. CASE RbStop(r)
  <2>1. pc[r] = "rbstop" /\ (UNCHANGED pc \/ Goto(r, "rbsave"))
    BY <1>15 DEF RbStop, Holds
  <2>2. PICK ok \in BOOLEAN :
          \/ tx' = [tx EXCEPT !.v = Qdrant, !.ok = @ /\ (ok \/ Notes)]
          \/ tx' = [tx EXCEPT !.v = Chat, !.ok = @ /\ (ok \/ Notes)]
    BY <1>15, Zenon DEF RbStop
  <2>3. tx'.arch = tx.arch
    BY <1>0, <2>2 DEF Txs
  <2>. QED  BY <1>0, <2>1, <2>3, RollBackPlaces DEF RestorePlaces, Importing, InApply
<1>16. CASE RbSave(r)
  <2>1. pc[r] = "rbsave" /\ Goto(r, "rbfiles") /\ (UNCHANGED tx \/ tx' = [tx EXCEPT !.ok = Notes])
    BY <1>16 DEF RbSave, Holds
  <2>. QED  BY <1>0, <2>1, RollBackPlaces DEF Notes, Txs, RestorePlaces, Importing, InApply
<1>17. CASE RbFiles(r)
  <2>1. pc[r] = "rbfiles" /\ Goto(r, "remove") /\ (UNCHANGED tx \/ tx' = [tx EXCEPT !.ok = Notes])
    BY <1>17 DEF RbFiles, Holds
  <2>. QED  BY <1>0, <2>1, RollBackPlaces DEF Notes, Txs, RestorePlaces, Importing, InApply
<1>18. CASE RbQdrant(r)
  <2>1. /\ pc[r] = "rbqdrant"
        /\ Goto(r, "rbstart") \/ Goto(r, "remove")
        /\ UNCHANGED tx \/ tx' = [tx EXCEPT !.ok = Notes] \/ tx' = [tx EXCEPT !.v = Qdrant]
    BY <1>18 DEF RbQdrant, Holds
  <2>. QED  BY <1>0, <2>1, RollBackPlaces DEF Notes, Txs, RestorePlaces, Importing, InApply
<1>19. CASE RbStart(r)
  <2>1. /\ pc[r] \in {"rbstart", "rbstartq"}
        /\ Goto(r, "rbstart") \/ Goto(r, "report")
        /\ \E ok \in BOOLEAN : tx' = [tx EXCEPT !.ok = tx.ok /\ (ok \/ Notes)]
    BY <1>19 DEF RbStart, Holds
  <2>2. tx'.arch = tx.arch
    BY <1>0, <2>1 DEF Txs
  <2>. QED  BY <1>0, <2>1, <2>2, RollBackPlaces DEF RestorePlaces, Importing, InApply
<1>. QED
  BY <1>1, <1>2, <1>3, <1>4, <1>5, <1>6, <1>7, <1>8, <1>9, <1>10,
     <1>11, <1>12, <1>13, <1>14, <1>15, <1>16, <1>17, <1>18, <1>19 DEF OwnStep

\* The volumes after one of its steps.
LEMMA OwnStepPure ==
  ASSUME NEW r \in Restores, RestoreInv, lock = r, OwnStep(r)
  PROVE  Pure(vol')
<1>0. /\ Pure(vol) /\ vol \in Tars /\ tx.v \in Volumes /\ Chat \in Volumes /\ Qdrant \in Volumes
      /\ Absent.of # "mixed" /\ Empty.of # "mixed" /\ Torn.of # "mixed" 
  BY RestoreParts DEF Unmixed, Typed, Txs, Volumes, Absent, Empty, Torn
<1>a. ASSUME NEW v \in Volumes, NEW new, new.of # "mixed", vol' = [vol EXCEPT ![v] = new] \/ vol' = vol
      PROVE  Pure(vol')
  BY <1>0, <1>a DEF Pure, Tars
<1>b. ASSUME NEW s \in Volumes, StartOk(s) \/ StartFails(s) PROVE Pure(vol')
  BY <1>0, <1>b DEF Pure, Tars, StartOk, StartFails
<1>1. CASE UNCHANGED vol
  BY <1>0, <1>1
<1>2. CASE RemoveVolume(r)
  BY <1>0, <1>a, <1>2 DEF RemoveVolume, InUse
<1>3. CASE Import(r)
  <2>1. pc[r] = "applied" /\ vol[tx.v] = Absent
    BY <1>3, RestoreParts DEF Import, Holds, Unmixed, Importing
  <2>2. (IF tx.way = "forward" THEN tx.arch.vols[tx.v] ELSE tmp[r][tx.v]).of # "mixed"
    BY <1>0, <2>1, RestoreParts DEF Unmixed, Sound, Pure
  <2>3. \E new \in {IF tx.way = "forward" THEN tx.arch.vols[tx.v] ELSE tmp[r][tx.v], Absent, Empty, Torn} :
          vol' = [vol EXCEPT ![tx.v] = Merge(@, new)]
    BY <1>3 DEF Import
  <2>4. \E new \in {IF tx.way = "forward" THEN tx.arch.vols[tx.v] ELSE tmp[r][tx.v], Absent, Empty, Torn} :
          vol' = [vol EXCEPT ![tx.v] = new]
    BY <2>1, <2>3 DEF Merge
  <2>5. PICK new \in {IF tx.way = "forward" THEN tx.arch.vols[tx.v] ELSE tmp[r][tx.v], Absent, Empty, Torn} :
          vol' = [vol EXCEPT ![tx.v] = new]
    BY <2>4
  <2>6. new.of # "mixed"
    BY <1>0, <2>2
  <2>. QED  BY <1>0, <1>a, <2>5, <2>6
<1>4. CASE Restart(r)
  BY <1>0, <1>b, <1>4 DEF Restart
<1>5. CASE RbQdrant(r)
  BY <1>0, <1>a, <1>5 DEF RbQdrant
<1>6. CASE RbStart(r)
  BY <1>b, <1>6 DEF RbStart
<1>7. CASE Reapply(r)
  BY <1>1, <1>7 DEF Reapply, mine
<1>8. CASE Skew(r) \/ CaptureConfig(r)
  BY <1>1, <1>8 DEF Skew, CaptureConfig, mine
<1>9. CASE Verify(r) \/ CaptureVolume(r) \/ CaptureFiles(r) \/ Quiesce(r) \/ SaveRestored(r) \/ WriteFiles(r)
  BY <1>1, <1>9 DEF Verify, CaptureVolume, CaptureFiles, Quiesce, SaveRestored, WriteFiles
<1>10. CASE ApplyFailed(r) \/ Prove(r) \/ RbStop(r) \/ RbSave(r) \/ RbFiles(r)
  <2>1. CASE ApplyFailed(r)
    BY <1>1, <2>1 DEF ApplyFailed
  <2>2. CASE Prove(r)
    BY <1>1, <2>2 DEF Prove
  <2>3. CASE RbStop(r)
    BY <1>1, <2>3 DEF RbStop
  <2>4. CASE RbSave(r)
    BY <1>1, <2>4 DEF RbSave
  <2>5. CASE RbFiles(r)
    BY <1>1, <2>5 DEF RbFiles
  <2>. QED  BY <1>10, <2>1, <2>2, <2>3, <2>4, <2>5
<1>. QED  BY <1>2, <1>3, <1>4, <1>5, <1>6, <1>7, <1>8, <1>9, <1>10 DEF OwnStep

\* No step of a restore mixes two copies of a volume.
LEMMA OwnStepUnmixed ==
  ASSUME NEW r \in Restores, RestoreInv, lock = r, OwnStep(r)
  PROVE  Unmixed'
<1>1. Pure(vol)'
  BY OwnStepPure DEF Pure
<1>2. UNCHANGED <<lock, bk, archive>> /\ (tmp' = tmp \/ CaptureVolume(r))
  BY OwnStepFrame
<1>3. \A q \in Restores : Pure(tmp[q])'
  <2>1. CASE tmp' = tmp
    BY <2>1, RestoreParts DEF Unmixed, Pure
  <2>2. ASSUME vol[tx.v] # Absent, NEW t \in Exported(tx.v), tmp' = [tmp EXCEPT ![r][tx.v] = t]
        PROVE  \A q \in Restores : Pure(tmp[q])'
    <3>1. t.of # "mixed" /\ tx.v \in Volumes /\ tmp \in [Restores -> Tars]
      BY <2>2, ExportedIsThere, RestoreParts DEF Txs, Typed
    <3>2. tmp'[r][tx.v] = t /\ \A v \in Volumes \ {tx.v} : tmp'[r][v] = tmp[r][v]
      BY <2>2, <3>1 DEF Tars
    <3>3. \A q \in Restores \ {r} : tmp'[q] = tmp[q]
      BY <2>2, <3>1
    <3>4. ASSUME NEW q \in Restores, NEW v \in Volumes PROVE tmp'[q][v].of # "mixed"
      BY <3>1, <3>2, <3>3, RestoreParts DEF Unmixed, Pure
    <3>. QED  BY <3>4 DEF Pure
  <2>. QED  BY <1>2, <2>1, <2>2 DEF CaptureVolume
<1>4. Sound(archive)' /\ Pure(bk.took)'
  BY <1>2, RestoreParts DEF Unmixed, Sound, Pure
<1>5. pc'[r] # "report" => Sound(tx.arch)'
  BY OwnStepArchive, RestoreParts DEF Unmixed, Sound, Pure
<1>6. pc'[r] \in Importing => vol'[tx'.v] = Absent
  <2>1. CASE Reapply(r)
    <3>1. UNCHANGED <<vol, tx>> /\ pc[r] \in Importing
      BY <2>1, ApplyFrame DEF mine, Importing
    <3>. QED  BY <3>1, RestoreParts DEF Unmixed
  <2>. QED  BY <2>1, OwnStepArchive
<1>. QED  BY <1>1, <1>2, <1>3, <1>4, <1>5, <1>6, RestoreParts DEF Unmixed

\* A step of the restore that holds the lock.
LEMMA OwnStepInv ==
  ASSUME NEW r \in Restores, RestoreInv, lock = r, OwnStep(r)
  PROVE  RestoreInv'
<1>1. Typed' /\ Unmixed' /\ Restoring(r)' /\ Moves(r, RestorePlaces)
  BY OwnStepTyped, OwnStepUnmixed, OwnStepMoves, OwnRestoreStep DEF OwnStep, RestoreStep
<1>2. UNCHANGED <<lock, bk, archive>> /\ (tmp' = tmp \/ CaptureVolume(r))
  BY OwnStepFrame
<1>3. Placed'
  <2>1. \A l \in RestorePlaces : l \notin {"idle", "waiting", "done"}
    BY DEF RestorePlaces, InApply
  <2>. QED  BY <1>1, <1>2, <2>1, RestoreParts DEF RestoreInv, Placed, Moves
<1>4. \A q \in Restores : Outside(q)'
  <2>1. \A l \in RestorePlaces : l \notin {"idle", "waiting"}
    BY DEF RestorePlaces, InApply
  <2>2. ASSUME NEW q \in Restores, q # r PROVE tmp'[q] = tmp[q] /\ pc'[q] = pc[q]
    <3>1. pc'[q] = pc[q]
      BY <1>1, <2>2, ArchiveAssumption DEF Moves
    <3>2. ASSUME NEW t, tmp' = [tmp EXCEPT ![r][tx.v] = t] PROVE tmp'[q] = tmp[q]
      BY <2>2, <3>2, RestoreParts DEF Typed
    <3>. QED  BY <1>2, <3>1, <3>2 DEF CaptureVolume
  <2>3. \A q \in Restores : Outside(q)
    BY DEF RestoreInv
  <2>4. Outside(r)'
    BY <1>1, <2>1 DEF Outside, Moves
  <2>. QED  BY <2>2, <2>3, <2>4 DEF Outside
<1>. QED  BY <1>1, <1>2, <1>3, <1>4, RestoreParts DEF RestoreInv

\* A step of a backup moves only that backup, and leaves the restores' state alone.
LEMMA BackupStepMoves ==
  ASSUME NEW b \in Backups, RestoreInv, lock = b, BackupStep(b)
  PROVE  Moves(b, BackupPlaces) /\ UNCHANGED <<lock, tx, tmp, servedKey, facts, kept>>
<1>0. b \in Procs /\ DOMAIN pc = Procs /\ pc[b] \in BackupPlaces
  BY BackupParts
<1>1. CASE BackupInput(b)
  <2>1. Goto(b, "bkstop") \/ Goto(b, "publish")
    BY <1>1 DEF BackupInput, ToBackup, BackupFails
  <2>. QED  BY <1>0, <1>1, <2>1, GotoMoves DEF BackupInput, BackupPlaces
<1>2. CASE BackupStop(b)
  <2>1. Goto(b, "export") \/ Goto(b, "bkstart")
    BY <1>2 DEF BackupStop, ToBackup, BackupFails
  <2>. QED  BY <1>0, <1>2, <2>1, GotoMoves DEF BackupStop, BackupPlaces
<1>3. CASE BackupExport(b)
  <2>1. Goto(b, "bkstop") \/ Goto(b, "read") \/ Goto(b, "bkstart")
    BY <1>3, Zenon DEF BackupExport, ToBackup, BackupFails
  <2>2. UNCHANGED <<lock, tx, tmp, servedKey, facts, kept>>
    BY <1>3, Zenon DEF BackupExport
  <2>. QED  BY <1>0, <2>1, <2>2, GotoMoves DEF BackupPlaces
<1>4. CASE BackupRead(b)
  <2>1. Goto(b, "bkstart")
    BY <1>4 DEF BackupRead, ToBackup, BackupFails
  <2>. QED  BY <1>0, <1>4, <2>1, GotoMoves DEF BackupRead, BackupPlaces
<1>5. CASE BackupStart(b)
  <2>1. Goto(b, "publish") \/ UNCHANGED pc
    BY <1>5 DEF BackupStart
  <2>. QED  BY <1>0, <1>5, <2>1, GotoMoves, StayMoves DEF BackupStart, BackupPlaces
<1>6. CASE Publish(b)
  BY <1>0, <1>6, GotoMoves DEF Publish, BackupPlaces
<1>. QED  BY <1>1, <1>2, <1>3, <1>4, <1>5, <1>6 DEF BackupStep

\* Every step of a backup keeps the types.
LEMMA BackupStepTyped ==
  ASSUME NEW b \in Backups, RestoreInv, lock = b, BackupStep(b)
  PROVE  Typed'
<1>0. /\ b \in Procs /\ Typed /\ bk \in Bks /\ bk.v \in Volumes /\ Chat \in Volumes /\ Qdrant \in Volumes
      /\ DOMAIN pc' = Procs /\ UNCHANGED <<tx, tmp, servedKey, facts, kept>>
      /\ vol \in Tars /\ file \in Files /\ archive \in Archive /\ bk.took \in Tars
  BY BackupParts, BackupStepMoves DEF Bks, Moves, Typed
<1>a. ASSUME Fault \/ NoFault PROVE faults' \in 0 .. MaxFaults
  BY <1>0, <1>a, FaultTyped
<1>b. ASSUME NEW place, BackupFails(b, place) PROVE bk' \in Bks /\ UNCHANGED out
  BY <1>0, <1>b DEF BackupFails, Bks
<1>1. CASE BackupInput(b)
  <2>1. bk' \in Bks
    <3>1. Wanted \in SUBSET Volumes /\ {Chat} \in SUBSET Volumes
      BY DEF Wanted, Volumes
    <3>2. bk' = [bk EXCEPT !.want = Wanted] \/ bk' = [bk EXCEPT !.want = {Chat}] \/ BackupFails(b, "publish")
      BY <1>1 DEF BackupInput
    <3>. QED  BY <1>0, <1>b, <3>1, <3>2 DEF Bks
  <2>2. UNCHANGED out /\ faults' \in 0 .. MaxFaults
    BY <1>a, <1>1 DEF BackupInput, ToBackup, BackupFails
  <2>. QED  BY <1>0, <1>1, <2>1, <2>2 DEF BackupInput, Typed, Bks, host, kept
<1>2. CASE BackupStop(b)
  <2>1. bk' \in Bks /\ UNCHANGED out
    <3>1. CASE BackupFails(b, "bkstart")
      BY <1>b, <3>1
    <3>2. CASE bk' = [bk EXCEPT !.stopped = Append(@, bk.v)] /\ ToBackup(b, "export")
      <4>1. pc[b] = "bkstop"
        BY <1>2 DEF BackupStop, Holds
      <4>2. bk.stopped = IF bk.v = Chat THEN <<>> ELSE <<Chat>>
        BY <4>1, BackupParts DEF BackingUp
      <4>3. Append(bk.stopped, bk.v) \in {<<>>, <<Chat>>, <<Chat, Qdrant>>}
        BY <1>0, <4>2, StoppedServices DEF Volumes
      <4>. QED  BY <1>0, <3>2, <4>3 DEF Bks, ToBackup
    <3>. QED  BY <1>2, <3>1, <3>2 DEF BackupStop
  <2>2. run' \in RunOf /\ faults' \in 0 .. MaxFaults
    BY <1>0, <1>2, CallsTyped DEF BackupStop
  <2>3. was' \in [cfg : Config, disk : Content, loaded : Content, file : Files, vol : Tars]
    BY <1>0, <1>2, CallsTyped DEF BackupStop
  <2>. QED  BY <1>0, <1>2, <2>1, <2>2, <2>3 DEF BackupStop, Typed, Bks, kept
<1>3. CASE BackupExport(b)
  <2>1. bk' \in Bks /\ UNCHANGED out
    <3>1. CASE BackupFails(b, "bkstart")
      BY <1>b, <3>1
    <3>2. ASSUME vol[bk.v] # Absent, NEW t \in Exported(bk.v), bk' = [bk EXCEPT !.took[bk.v] = t, !.v = Qdrant]
          PROVE  bk' \in Bks
      <4>1. t \in Stored
        BY <1>0, <3>2, ExportedIsThere, BackupParts
      <4>2. [bk.took EXCEPT ![bk.v] = t] \in Tars
        BY <1>0, <4>1 DEF Tars
      <4>. QED  BY <1>0, <3>2, <4>2 DEF Bks
    <3>3. \/ BackupFails(b, "bkstart")
          \/ /\ vol[bk.v] # Absent
             /\ \E t \in Exported(bk.v) : bk' = [bk EXCEPT !.took[bk.v] = t, !.v = Qdrant]
             /\ UNCHANGED out
      BY <1>3, Zenon DEF BackupExport, ToBackup
    <3>. QED  BY <3>1, <3>2, <3>3, Zenon
  <2>2. faults' \in 0 .. MaxFaults
    <3>1. Fault \/ NoFault
      BY <1>3, Zenon DEF BackupExport
    <3>. QED  BY <1>a, <3>1
  <2>3. UNCHANGED <<lock, host, kept, servedKey, vol, file, archive, facts, tmp, tx, was>>
    BY <1>3, Zenon DEF BackupExport
  <2>. QED  BY <1>0, <2>1, <2>2, <2>3 DEF Typed, Bks, host, kept
<1>4. CASE BackupRead(b)
  <2>1. bk' \in Bks /\ UNCHANGED out
    <3>1. [r \in Rows |-> IF cfg.id \in BackupGate[r] THEN file[r] ELSE None] \in Files
      BY <1>0 DEF Files
    <3>2. BackupFails(b, "bkstart") \/ (bk' = [bk EXCEPT !.files = [r \in Rows |-> IF cfg.id \in BackupGate[r] THEN file[r] ELSE None]] /\ UNCHANGED out)
      BY <1>4 DEF BackupRead, ToBackup
    <3>. QED  BY <1>0, <1>b, <3>1, <3>2 DEF Bks
  <2>2. faults' \in 0 .. MaxFaults
    BY <1>a, <1>4 DEF BackupRead
  <2>. QED  BY <1>0, <1>4, <2>1, <2>2 DEF BackupRead, Typed, Bks, host, kept
<1>5. CASE BackupStart(b)
  <2>1. CASE bk.stopped = <<>> /\ NoFault /\ UNCHANGED <<run, vol, bk>>
    <3>1. faults' \in 0 .. MaxFaults
      BY <1>a, <2>1
    <3>. QED  BY <1>0, <1>5, <2>1, <3>1 DEF BackupStart, Typed, kept
  <2>2. CASE bk.stopped # <<>>
    <3>1. /\ StartOk(Last(bk.stopped)) \/ StartFails(Last(bk.stopped))
          /\ bk' = [bk EXCEPT !.stopped = Front(@)] \/ bk' = [bk EXCEPT !.stopped = Front(@), !.warned = TRUE]
      BY <1>5, <2>2 DEF BackupStart
    <3>2. Last(bk.stopped) \in Volumes /\ Front(bk.stopped) \in {<<>>, <<Chat>>, <<Chat, Qdrant>>}
      BY <1>0, <2>2, StoppedServices DEF Bks
    <3>3. bk' \in Bks
      BY <1>0, <3>1, <3>2 DEF Bks
    <3>4. run' \in RunOf /\ vol' \in Tars /\ faults' \in 0 .. MaxFaults
      BY <1>0, <3>1, <3>2, CallsTyped
    <3>. QED  BY <1>0, <1>5, <3>3, <3>4 DEF BackupStart, Typed, Bks, kept
  <2>. QED  BY <1>5, <2>1, <2>2 DEF BackupStart
<1>6. CASE Publish(b)
  <2>1. archive' \in Archive
    <3>1. ASSUME ~bk.failed PROVE Finished \in Archive
      <4>1. pc[b] = "publish"
        BY <1>6 DEF Publish, Holds
      <4>2. bk.files \in Files
        BY <3>1, <4>1, BackupParts DEF BackingUp
      <4>. QED  BY <1>0, <4>2 DEF Finished, Archive, Typed, Tars, Files
    <3>. QED  BY <1>0, <1>6, <3>1 DEF Publish
  <2>2. faults' \in 0 .. MaxFaults
    BY <1>a, <1>6 DEF Publish
  <2>3. out' \in [Procs -> Outcomes]
    BY <1>0, <1>6 DEF Publish, Typed, Outcomes
  <2>. QED  BY <1>0, <1>6, <2>1, <2>2, <2>3 DEF Publish, Typed, host, kept
<1>. QED  BY <1>1, <1>2, <1>3, <1>4, <1>5, <1>6 DEF BackupStep

\* No step of a backup mixes two copies of a volume.
LEMMA BackupStepUnmixed ==
  ASSUME NEW b \in Backups, RestoreInv, lock = b, BackupStep(b)
  PROVE  Unmixed'
<1>0. /\ Pure(vol) /\ vol \in Tars /\ Pure(bk.took) /\ Sound(archive) /\ bk \in Bks /\ bk.v \in Volumes
      /\ b \notin Restores /\ UNCHANGED <<lock, tmp>> /\ Empty.of # "mixed"
  BY BackupParts, BackupStepMoves DEF Unmixed, Typed, Bks, Empty
<1>1. Pure(vol)'
  <2>1. CASE UNCHANGED vol
    BY <1>0, <2>1 DEF Pure
  <2>2. CASE BackupStart(b)
    <3>1. UNCHANGED vol \/ ((StartOk(Last(bk.stopped)) \/ StartFails(Last(bk.stopped))) /\ bk.stopped # <<>>)
      BY <2>2 DEF BackupStart
    <3>2. bk.stopped # <<>> => Last(bk.stopped) \in Volumes
      BY <1>0, StoppedServices DEF Bks, Volumes
    <3>. QED  BY <1>0, <2>1, <3>1, <3>2 DEF Pure, Tars, StartOk, StartFails
  <2>3. CASE BackupExport(b)
    BY <2>1, <2>3, Zenon DEF BackupExport
  <2>. QED  BY <2>1, <2>2, <2>3 DEF BackupStep, BackupInput, BackupStop, BackupRead, Publish
<1>2. Pure(bk.took)'
  <2>1. CASE bk'.took = bk.took
    BY <1>0, <2>1 DEF Pure
  <2>2. CASE BackupExport(b)
    <3>1. CASE BackupFails(b, "bkstart")
      BY <1>0, <2>1, <3>1 DEF BackupFails, Bks
    <3>2. ASSUME vol[bk.v] # Absent, NEW t \in Exported(bk.v), bk' = [bk EXCEPT !.took[bk.v] = t, !.v = Qdrant]
          PROVE  Pure(bk.took)'
      <4>1. t.of # "mixed"
        BY <1>0, <3>2, ExportedIsThere, BackupParts
      <4>2. bk'.took = [bk.took EXCEPT ![bk.v] = t] /\ bk.took \in Tars
        BY <1>0, <3>2 DEF Bks
      <4>. QED  BY <1>0, <4>1, <4>2 DEF Pure, Tars
    <3>3. \/ BackupFails(b, "bkstart")
          \/ /\ vol[bk.v] # Absent
             /\ \E t \in Exported(bk.v) : bk' = [bk EXCEPT !.took[bk.v] = t, !.v = Qdrant]
      BY <2>2, Zenon DEF BackupExport
    <3>. QED  BY <3>1, <3>2, <3>3, Zenon
  <2>3. CASE BackupInput(b) \/ BackupStop(b) \/ BackupRead(b)
    BY <1>0, <2>1, <2>3 DEF BackupInput, BackupStop, BackupRead, BackupFails, Bks
  <2>4. CASE BackupStart(b)
    BY <1>0, <2>1, <2>4 DEF BackupStart, Bks
  <2>5. CASE Publish(b)
    BY <2>1, <2>5 DEF Publish
  <2>. QED  BY <2>2, <2>3, <2>4, <2>5 DEF BackupStep
<1>3. Sound(archive)'
  <2>1. CASE UNCHANGED archive
    BY <1>0, <2>1 DEF Sound, Pure
  <2>2. CASE Publish(b)
    <3>1. CASE ~bk.failed /\ archive' = Finished
      <4>1. pc[b] = "publish"
        BY <2>2 DEF Publish, Holds
      <4>2. bk.took[Chat] # Absent
        BY <3>1, <4>1, BackupParts DEF BackingUp, TookAll, Taken
      <4>. QED  BY <1>0, <3>1, <4>2 DEF Sound, Pure, Finished
    <3>. QED  BY <2>1, <2>2, <3>1 DEF Publish
  <2>3. CASE BackupExport(b)
    BY <2>1, <2>3, Zenon DEF BackupExport
  <2>. QED  BY <2>1, <2>2, <2>3 DEF BackupStep, BackupInput, BackupStop, BackupRead, BackupStart
<1>4. \A q \in Restores : Pure(tmp[q])'
  BY <1>0, BackupParts DEF Unmixed, Pure
<1>. QED  BY <1>0, <1>1, <1>2, <1>3, <1>4 DEF Unmixed

\* A step of the backup that holds the lock.
LEMMA BackupStepInv ==
  ASSUME NEW b \in Backups, RestoreInv, lock = b, BackupStep(b)
  PROVE  RestoreInv'
<1>1. Typed' /\ Unmixed' /\ BackingUp(b)' /\ Moves(b, BackupPlaces) /\ UNCHANGED <<lock, tx, tmp>>
  BY BackupStepTyped, BackupStepUnmixed, BackupStepMoves, OwnBackupStep
<1>2. Placed'
  <2>1. \A l \in BackupPlaces : l \notin {"idle", "waiting", "done"}
    BY DEF BackupPlaces
  <2>. QED  BY <1>1, <2>1, BackupParts DEF RestoreInv, Placed, Moves
<1>3. \A q \in Restores : Outside(q)'
  <2>1. ASSUME NEW q \in Restores PROVE tmp'[q] = tmp[q] /\ pc'[q] = pc[q]
    BY <1>1, <2>1, BackupParts, ArchiveAssumption DEF Moves
  <2>. QED  BY <2>1 DEF RestoreInv, Outside
<1>. QED  BY <1>1, <1>2, <1>3, BackupParts DEF RestoreInv

----------------------------------------------------------------------------
(* Entering, leaving, and the steps of who is outside                      *)

\* The empty locals are of their types.
LEMMA Constants ==
  ASSUME NEW c0 \in Config
  PROVE  /\ AnyConfig \in Config /\ NoTars \in Tars /\ Pure(NoTars) /\ NoTx \in Txs /\ NoBk \in Bks /\ Pure(NoBk.took)
         /\ NoFacts \in [exists : {"yes", "no", "unknown"}, dests : SUBSET Rows]
         /\ [u \in Units |-> "keep"] \in [Units -> Todo]
<1>1. AnyConfig \in Config
  BY DEF AnyConfig
<1>2. NoTars \in Tars /\ Pure(NoTars)
  BY DEF NoTars, Tars, Pure, Absent
<1>3. NoTx \in Txs
  BY DEF NoTx, Txs, Volumes
<1>4. NoBk \in Bks /\ Pure(NoBk.took)
  BY <1>2 DEF NoBk, Bks, Volumes
<1>. QED  BY <1>1, <1>2, <1>3, <1>4 DEF NoFacts, Todo

\* Who holds the lock is at a place of its kind; who does not is outside.
LEMMA Holder ==
  ASSUME RestoreInv, NEW p \in Procs
  PROVE  /\ p \in Restores \/ p \in Backups
         /\ ~(p \in Restores /\ p \in Backups) /\ p # Free
         /\ lock = p <=> pc[p] \notin {"idle", "waiting", "done"}
         /\ lock \in Restores \/ lock \in Backups \/ lock = Free
BY ArchiveAssumption, HostAssumption DEF RestoreInv, Placed

\* A step of a process outside the lock that stays outside keeps the invariant.
LEMMA AsideInv ==
  ASSUME RestoreInv, Typed', Unmixed', UNCHANGED <<lock, tx, bk, tmp>>,
         \A p \in Procs : lock = p => Aside(p),
         \A p \in Procs : pc'[p] \in {"idle", "waiting", "done"} <=> pc[p] \in {"idle", "waiting", "done"},
         \A p \in Procs : pc'[p] = "idle" \/ pc'[p] = "waiting" => pc[p] = "idle" \/ pc[p] = "waiting"
  PROVE  RestoreInv'
<1>1. Restores \subseteq Procs /\ Backups \subseteq Procs
  BY ArchiveAssumption
<1>2. \A r \in Restores : lock' = r => Restoring(r)'
  BY <1>1, RestoreAside
<1>3. \A b \in Backups : lock' = b => BackingUp(b)'
  BY <1>1, BackupAside
<1>4. Placed'
  BY <1>1 DEF RestoreInv, Placed, Aside
<1>5. \A r \in Restores : Outside(r)'
  BY <1>1 DEF RestoreInv, Outside
<1>. QED  BY <1>2, <1>3, <1>4, <1>5 DEF RestoreInv

\* A write continues what was there.
LEMMA WriteIsAside ==
  ASSUME RestoreInv, NEW v \in Volumes, Write(v)
  PROVE  /\ Grown(v) /\ vol' \in Tars /\ vol'[v].of = vol[v].of
         /\ \A w \in Volumes : w # v => vol'[w] = vol[w]
         /\ \A w \in Volumes : vol'[w] = vol[w] \/ Grown(w)
<1>0. Typed /\ Unmixed /\ vol \in Tars /\ Pure(vol)
  BY DEF RestoreInv, Typed, Unmixed
<1>2. /\ vol[v] # Absent /\ run[v] # Down /\ vol[v] \in Stored /\ vol'[v].of = vol[v].of /\ vol'[v] \in Stored
      /\ vol[v].n <= vol'[v].n /\ vol' = [vol EXCEPT ![v] = vol'[v]]
  <2>1. vol[v] \in Stored /\ vol[v] # Absent /\ run[v] # Down /\ vol[v].n < MaxWrites
    BY <1>0 DEF Tars, Write
  <2>2. vol' = [vol EXCEPT ![v] = [vol[v] EXCEPT !.n = vol[v].n + 1]]
    BY DEF Write
  <2>3. vol'[v] = [vol[v] EXCEPT !.n = vol[v].n + 1]
    BY <1>0, <2>2 DEF Tars
  <2>4. vol[v].n + 1 \in 0 .. MaxWrites /\ vol[v].n <= vol[v].n + 1
    BY <2>1, ArchiveAssumption DEF Stored
  <2>5. vol'[v] \in Stored /\ vol'[v].of = vol[v].of /\ vol'[v].n = vol[v].n + 1
    BY <2>1, <2>3, <2>4 DEF Stored
  <2>. QED  BY <2>1, <2>2, <2>3, <2>4, <2>5
<1>3. Grown(v) /\ \A w \in Volumes \ {v} : vol'[w] = vol[w]
  BY <1>0, <1>2 DEF Grown, Continues, Tars
<1>4. vol' \in Tars
  BY <1>0, <1>2 DEF Tars
<1>. QED  BY <1>2, <1>3, <1>4

\* A service's write keeps it.
LEMMA WriteInv ==
  ASSUME RestoreInv, NEW v \in Volumes, Write(v)
  PROVE  RestoreInv'
<1>0. Typed /\ Unmixed /\ vol \in Tars /\ Pure(vol)
  BY DEF RestoreInv, Typed, Unmixed
<1>1. UNCHANGED <<lock, host, pc, kept, out, faults, servedKey, file, archive, facts, tmp, tx, bk, was>>
  BY DEF Write
<1>2. /\ Grown(v) /\ vol'[v].of = vol[v].of
      /\ \A w \in Volumes \ {v} : vol'[w] = vol[w]
  BY WriteIsAside
<1>4. vol' \in Tars
  BY WriteIsAside
<1>5. Typed'
  BY <1>0, <1>1, <1>4 DEF Typed, host, kept
<1>6. Unmixed'
  <2>1. Pure(vol)'
    BY <1>0, <1>2 DEF Pure
  <2>2. lock \in Restores /\ pc[lock] \in Importing => vol'[tx.v] = Absent
    <3>1. lock \in Restores => tx.v \in Volumes
      BY RestoreParts DEF Txs
    <3>. QED  BY <1>0, <1>2, <3>1 DEF Unmixed, Grown
  <2>. QED  BY <1>0, <1>1, <2>1, <2>2 DEF Unmixed, Pure, Sound
<1>7. \A p \in Procs : Aside(p)
  BY <1>0, <1>1, WriteIsAside DEF Aside, Typed
<1>. QED  BY <1>1, <1>5, <1>6, <1>7, AsideInv

\* A step of who is outside and stays there.
LEMMA OutsideInv ==
  ASSUME RestoreInv, NEW p \in Procs, pc[p] \in {"idle", "waiting"},
         NEW l \in {"waiting", "done"}, Goto(p, l), Typed',
         UNCHANGED <<lock, host, kept, servedKey, vol, file, archive, tmp, tx, bk, was>>,
         \A q \in Procs \ {p} : out'[q] = out[q],
         \A r \in Restores \ {p} : facts'[r] = facts[r]
  PROVE  RestoreInv'
<1>0. Typed /\ Unmixed /\ lock # p /\ DOMAIN pc = Procs
  BY DEF RestoreInv, Placed, Typed
<1>1. DOMAIN pc' = Procs /\ pc'[p] = l /\ \A q \in Procs \ {p} : pc'[q] = pc[q]
  BY <1>0 DEF Goto
<1>2. \A q \in Procs : lock = q => Aside(q)
  BY <1>0, <1>1 DEF Aside
<1>3. Unmixed'
  BY <1>0, <1>1, ArchiveAssumption DEF Unmixed, Pure, Sound
<1>. QED  BY <1>1, <1>2, <1>3, AsideInv

\* A restore that looks at the host before it asks for the lock keeps it.
LEMMA PrepareInv ==
  ASSUME RestoreInv, NEW r \in Restores, Prepare(r)
  PROVE  RestoreInv'
<1>0. r \in Procs /\ Typed /\ pc[r] = "idle" /\ DOMAIN pc = Procs
  BY ArchiveAssumption DEF RestoreInv, Typed, Prepare
<1>1. UNCHANGED <<lock, host, kept, servedKey, vol, file, archive, tmp, tx, bk, was>>
  BY DEF Prepare
<1>2. faults' \in 0 .. MaxFaults
  <2>1. Fault \/ NoFault
    BY Zenon DEF Prepare
  <2>. QED  BY <1>0, <2>1, FaultTyped
<1>3. /\ facts' \in [Restores -> [exists : {"yes", "no", "unknown"}, dests : SUBSET Rows]]
      /\ \A q \in Restores \ {r} : facts'[q] = facts[q]
  <2>1. CASE UNCHANGED facts
    BY <1>0, <2>1 DEF Typed
  <2>2. ASSUME NEW seen \in {"yes", "no", "unknown"},
               facts' = [facts EXCEPT ![r] = [exists |-> seen, dests |-> {row \in Rows : cfg.id \in RestoreGate[row]}]]
        PROVE  /\ facts' \in [Restores -> [exists : {"yes", "no", "unknown"}, dests : SUBSET Rows]]
               /\ \A q \in Restores \ {r} : facts'[q] = facts[q]
    BY <1>0, <2>2 DEF Typed
  <2>3. \/ UNCHANGED facts
        \/ \E seen \in {IF vol[Qdrant] = Absent THEN "no" ELSE "yes", "unknown"} :
             facts' = [facts EXCEPT ![r] = [exists |-> seen, dests |-> {row \in Rows : cfg.id \in RestoreGate[row]}]]
    BY Zenon DEF Prepare
  <2>. QED  BY <2>1, <2>2, <2>3
<1>4. out' \in [Procs -> Outcomes] /\ \A q \in Procs \ {r} : out'[q] = out[q]
  <2>1. UNCHANGED out \/ out' = [out EXCEPT ![r] = "failed"]
    BY Zenon DEF Prepare
  <2>. QED  BY <1>0, <2>1 DEF Typed, Outcomes
<1>5. Goto(r, "waiting") \/ Goto(r, "done")
  BY Zenon DEF Prepare
<1>6. Typed'
  <2>1. DOMAIN pc' = Procs
    BY <1>0, <1>5 DEF Goto
  <2>. QED  BY <1>0, <1>1, <1>2, <1>3, <1>4, <2>1 DEF Typed, host, kept
<1>. QED  BY <1>0, <1>1, <1>3, <1>4, <1>5, <1>6, OutsideInv

\* Taking the lock, or being turned away, keeps it.
LEMMA AcquireInv ==
  ASSUME RestoreInv, NEW p \in Procs, Acquire(p)
  PROVE  RestoreInv'
<1>0. /\ Typed /\ Unmixed /\ Placed /\ DOMAIN pc = Procs /\ pc[p] \in {"idle", "waiting"} /\ lock # p
      /\ UNCHANGED <<host, kept, servedKey, vol, file, archive, facts, tmp, tx, bk>>
      /\ p \in Restores => pc[p] = "waiting"
  BY DEF RestoreInv, Placed, Typed, Acquire
<1>1. CASE Fault /\ out' = [out EXCEPT ![p] = "failed"] /\ Goto(p, "done") /\ UNCHANGED <<lock, was>>
  <2>1. faults' \in 0 .. MaxFaults
    BY <1>0, <1>1, FaultTyped
  <2>2. out' \in [Procs -> Outcomes] /\ \A q \in Procs \ {p} : out'[q] = out[q]
    BY <1>0, <1>1 DEF Typed, Outcomes
  <2>3. DOMAIN pc' = Procs
    BY <1>0, <1>1 DEF Goto
  <2>4. Typed'
    BY <1>0, <1>1, <2>1, <2>2, <2>3 DEF Typed, host, kept
  <2>. QED  BY <1>0, <1>1, <2>2, <2>4, OutsideInv
<1>2. CASE /\ lock = Free /\ lock' = p
           /\ Goto(p, IF p \in Restores THEN "verify" ELSE "input")
           /\ was' = [cfg |-> cfg, disk |-> disk, loaded |-> loaded, file |-> file, vol |-> vol]
           /\ NoFault /\ UNCHANGED out
  <2>0. /\ DOMAIN pc' = Procs /\ pc'[p] = (IF p \in Restores THEN "verify" ELSE "input")
        /\ \A q \in Procs \ {p} : pc'[q] = pc[q]
        /\ Free \notin Procs /\ Restores \subseteq Procs /\ Backups \subseteq Procs
    BY <1>0, <1>2, ArchiveAssumption, HostAssumption DEF Goto
  <2>1. tx = NoTx /\ bk = NoBk
    BY <1>0, <1>2, <2>0 DEF Placed
  <2>2. Typed'
    <3>1. faults' \in 0 .. MaxFaults
      BY <1>0, <1>2, FaultTyped
    <3>2. was' \in [cfg : Config, disk : Content, loaded : Content, file : Files, vol : Tars]
      BY <1>0, <1>2 DEF Typed
    <3>. QED  BY <1>0, <1>2, <2>0, <3>1, <3>2 DEF Typed, host, kept
  <2>3. Placed'
    <3>1. \A q \in Procs : q # p => (pc'[q] \in {"idle", "waiting", "done"} <=> lock' # q)
      BY <1>0, <1>2, <2>0 DEF Placed
    <3>2. pc'[p] \notin {"idle", "waiting", "done"} /\ lock' = p
      BY <1>2, <2>0
    <3>3. (p \in Restores => pc'[p] \in RestorePlaces) /\ (p \in Backups => pc'[p] \in BackupPlaces)
      BY <2>0, ArchiveAssumption DEF RestorePlaces, BackupPlaces
    <3>. QED  BY <1>0, <1>2, <2>0, <2>1, <3>1, <3>2, <3>3 DEF Placed
  <2>4. Unmixed'
    <3>1. p \in Restores => pc'[p] = "verify" /\ "verify" \notin Importing
      BY <2>0 DEF Importing, InApply
    <3>. QED  BY <1>0, <1>2, <3>1 DEF Unmixed, Pure, Sound
  <2>5. ASSUME p \in Restores PROVE Restoring(p)'
    <3>1. /\ pc'[p] = "verify" /\ tmp'[p] = NoTars /\ tx' = NoTx
          /\ was'.cfg = cfg' /\ was'.disk = disk' /\ was'.loaded = loaded' /\ was'.file = file'
      BY <1>0, <1>2, <2>0, <2>1, <2>5 DEF RestoreInv, Outside, host
    <3>2. Heading(p)' /\ Captured(p)'
      BY <3>1 DEF Heading, Captured, NoTx, Gates, Captures, Rollback, Either, Importing, InApply, Mutates, RestorePlaces
    <3>3. Aimed(p)' /\ Filed(p)'
      BY <3>1 DEF Aimed, Filed, NoTx, Gates, Captures, Either, Importing, InApply, Mutates, RestorePlaces
    <3>4. Loaded(p)' /\ Halts(p)'
      BY <3>1 DEF Loaded, Halts, NoTx, Gates, Captures, Importing, InApply, Mutates, RestorePlaces
    <3>5. Swapped(p)' /\ Told(p)'
      BY <3>1 DEF Swapped, Told, NoTx, Importing, InApply
    <3>. QED  BY <3>2, <3>3, <3>4, <3>5 DEF Restoring
  <2>6. ASSUME p \in Backups PROVE BackingUp(p)'
    <3>1. pc'[p] = "input" /\ bk' = NoBk /\ ~NoBk.failed /\ ~NoBk.warned
      BY <1>0, <2>0, <2>1, <2>6, ArchiveAssumption DEF NoBk
    <3>. QED  BY <3>1 DEF BackingUp
  <2>7. \A r \in Restores : Outside(r)'
    BY <1>0, <2>0 DEF RestoreInv, Outside
  <2>. QED  BY <1>2, <2>2, <2>3, <2>4, <2>5, <2>6, <2>7 DEF RestoreInv
<1>. QED  BY <1>1, <1>2 DEF Acquire

\* A return or a death: the locals go, the host stays as it is.
LEMMA LeaveInv ==
  ASSUME RestoreInv, NEW p \in Procs, lock = p, Clear(p),
         UNCHANGED <<host, servedKey, vol, file, archive, was>>,
         out' = out \/ out' = [out EXCEPT ![p] = "crashed"], Fault \/ NoFault,
         tmp' = tmp \/ (p \in Restores /\ tmp' = [tmp EXCEPT ![p] = NoTars])
  PROVE  RestoreInv'
<1>0. Typed /\ Unmixed /\ Placed /\ DOMAIN pc = Procs /\ cfg \in Config
  BY DEF RestoreInv, Typed
<1>1. /\ lock' = Free /\ tx' = NoTx /\ bk' = NoBk /\ pc' = [pc EXCEPT ![p] = "done"]
      /\ Free \notin Procs /\ Free \notin Restores /\ Free \notin Backups
  BY ArchiveAssumption, HostAssumption DEF Clear
<1>2. DOMAIN pc' = Procs /\ pc'[p] = "done" /\ \A q \in Procs \ {p} : pc'[q] = pc[q]
  BY <1>0, <1>1
<1>3. Typed'
  <2>1. faults' \in 0 .. MaxFaults
    BY <1>0, FaultTyped
  <2>2. out' \in [Procs -> Outcomes]
    BY <1>0 DEF Typed, Outcomes
  <2>3. prior' \in [Procs -> Config] /\ next' \in [Procs -> Config]
    BY <1>0, Constants DEF Typed, Clear
  <2>4. todo' \in [Procs -> [Units -> Todo]] /\ restarted' \in [Procs -> SUBSET Services]
    BY <1>0, Constants DEF Typed, Clear
  <2>5. facts' \in [Restores -> [exists : {"yes", "no", "unknown"}, dests : SUBSET Rows]]
    BY <1>0, Constants DEF Typed, Clear
  <2>6. tmp' \in [Restores -> Tars]
    BY <1>0, Constants DEF Typed
  <2>7. tx' \in Txs /\ bk' \in Bks
    BY <1>0, <1>1, Constants
  <2>. QED  BY <1>0, <1>2, <2>1, <2>2, <2>3, <2>4, <2>5, <2>6, <2>7 DEF Typed, Txs, Bks, host
<1>4. Placed'
  BY <1>0, <1>1, <1>2 DEF Placed
<1>5. Unmixed'
  <2>1. Pure(bk.took)' /\ Pure(NoTars)
    BY <1>0, <1>1, Constants DEF Pure
  <2>2. \A r \in Restores : Pure(tmp[r])'
    BY <1>0, <2>1 DEF Unmixed, Pure, Typed
  <2>. QED  BY <1>0, <1>1, <2>1, <2>2 DEF Unmixed, Pure, Sound
<1>6. \A r \in Restores : Outside(r)'
  <2>1. ASSUME NEW r \in Restores, r # p PROVE pc'[r] = pc[r] /\ tmp'[r] = tmp[r]
    BY <1>0, <1>2, <2>1, ArchiveAssumption DEF Typed
  <2>. QED  BY <1>2, <2>1 DEF RestoreInv, Outside
<1>. QED  BY <1>1, <1>3, <1>4, <1>5, <1>6 DEF RestoreInv

\* Reporting and leaving keeps it.
LEMMA ReportInv ==
  ASSUME RestoreInv, NEW p \in Procs, Report(p)
  PROVE  RestoreInv'
BY LeaveInv DEF Report, Holds, NoFault

\* So does dying.
LEMMA CrashInv ==
  ASSUME RestoreInv, NEW p \in Procs, Crash(p)
  PROVE  RestoreInv'
BY LeaveInv DEF Crash

----------------------------------------------------------------------------
\* The invariant holds at the start.
LEMMA InitInv == Init => RestoreInv
<1>. SUFFICES ASSUME Init PROVE RestoreInv
  OBVIOUS
<1>0. /\ Restores \subseteq Procs /\ Backups \subseteq Procs /\ Free \notin Procs /\ cfg \in Config
      /\ lock = Free /\ tx = NoTx /\ bk = NoBk /\ pc = [p \in Procs |-> "idle"]
      /\ tmp = [r \in Restores |-> NoTars]
  BY ArchiveAssumption, HostAssumption DEF Init
<1>1. Typed
  <2>1. cfg \in Config /\ env \in Keys \cup {NoKey} /\ servedKey \in Keys \cup {NoKey}
    BY DEF Init, Config
  <2>2. disk \in Content /\ loaded \in Content
    <3>1. \E c \in Configs : disk = Rendered[c]
      BY DEF Init
    <3>. QED  BY <3>1, HostAssumption DEF Init, Content
  <2>3. run \in RunOf
    BY DEF Init, RunOf
  <2>4. vol \in Tars
    <3>1. [of |-> "host", n |-> 0] \in Stored
      BY ArchiveAssumption DEF Stored, Origin
    <3>. QED  BY <3>1 DEF Init, Tars
  <2>5. file \in Files /\ archive \in Archive
    BY ArchiveAssumption DEF Init, Files, FileText
  <2>6. DOMAIN pc = Procs /\ prior \in [Procs -> Config] /\ next \in [Procs -> Config]
    BY <2>1, Constants DEF Init
  <2>7. todo \in [Procs -> [Units -> Todo]] /\ restarted \in [Procs -> SUBSET Services]
    BY DEF Init, Todo
  <2>8. out \in [Procs -> Outcomes] /\ faults \in 0 .. MaxFaults
    BY HostAssumption DEF Init, Outcomes
  <2>9. facts \in [Restores -> [exists : {"yes", "no", "unknown"}, dests : SUBSET Rows]] /\ tmp \in [Restores -> Tars]
    BY <2>1, Constants DEF Init
  <2>10. tx \in Txs /\ bk \in Bks
    BY <1>0, Constants
  <2>11. was \in [cfg : Config, disk : Content, loaded : Content, file : Files, vol : Tars]
    BY <2>1, <2>2, <2>4, <2>5 DEF Init
  <2>. QED  BY <2>1, <2>2, <2>3, <2>4, <2>5, <2>6, <2>7, <2>8, <2>9, <2>10, <2>11 DEF Typed, Txs, Bks
<1>2. Placed
  BY <1>0 DEF Placed
<1>3. Unmixed
  <2>1. Pure(vol)
    <3>1. \A v \in Volumes : vol[v] \in {Absent, [of |-> "host", n |-> 0]}
      BY DEF Init
    <3>2. Absent.of # "mixed" /\ [of |-> "host", n |-> 0].of # "mixed"
      BY DEF Absent
    <3>. QED  BY <3>1, <3>2 DEF Pure
  <2>3. Sound(archive)
    BY ArchiveAssumption DEF Init, Pure, Sound
  <2>2. Pure(bk.took) /\ \A r \in Restores : Pure(tmp[r])
    BY <1>0, Constants
  <2>. QED  BY <1>0, <2>1, <2>2, <2>3 DEF Unmixed
<1>4. \A r \in Restores : Outside(r)
  BY <1>0 DEF Outside
<1>. QED  BY <1>0, <1>1, <1>2, <1>3, <1>4 DEF RestoreInv

\* It is inductive.
LEMMA StepInv == RestoreInv /\ [Next]_vars => RestoreInv'
<1>. SUFFICES ASSUME RestoreInv, [Next]_vars PROVE RestoreInv'
  OBVIOUS
<1>1. ASSUME NEW b \in Backups, BackupStep(b) PROVE RestoreInv'
  <2>1. lock = b
    BY <1>1, Zenon DEF BackupStep, BackupInput, BackupStop, BackupExport, BackupRead, BackupStart, Publish, Holds
  <2>. QED  BY <1>1, <2>1, BackupStepInv
<1>2. ASSUME NEW r \in Restores, RestoreStep(r) PROVE RestoreInv'
  <2>1. CASE Prepare(r)
    BY <2>1, PrepareInv
  <2>2. CASE OwnStep(r)
    <3>1. lock = r
      BY <2>2, Zenon DEF OwnStep, Verify, Skew, CaptureConfig, CaptureVolume, CaptureFiles, Quiesce, SaveRestored,
         WriteFiles, RemoveVolume, Reapply, ApplyFailed, Import, Restart, Prove, RbStop, RbSave, RbFiles, RbQdrant,
         RbStart, Holds
    <3>. QED  BY <2>2, <3>1, OwnStepInv
  <2>. QED  BY <1>2, <2>1, <2>2 DEF RestoreStep, OwnStep
<1>3. ASSUME NEW p \in Procs, Acquire(p) \/ Report(p) \/ Crash(p) PROVE RestoreInv'
  BY <1>3, AcquireInv, ReportInv, CrashInv
<1>4. ASSUME NEW v \in Volumes, Write(v) PROVE RestoreInv'
  BY <1>4, WriteInv
<1>5. CASE UNCHANGED vars
  <2>1. UNCHANGED <<lock, cfg, env, disk, loaded, run, pc, prior, next, captured, base, todo, restarted, out, faults,
                    servedKey, vol, file, archive, facts, tmp, tx, bk, was>>
    BY <1>5 DEF vars, host, kept, mine
  <2>2. \A p \in Procs : Aside(p)
    BY <2>1 DEF Aside, host, kept, RestoreInv, Typed
  <2>3. Typed' /\ Unmixed'
    BY <2>1 DEF RestoreInv, Typed, Unmixed, Pure, Sound
  <2>. QED  BY <2>1, <2>2, <2>3, AsideInv
<1>. QED  BY <1>1, <1>2, <1>3, <1>4, <1>5 DEF Next

----------------------------------------------------------------------------
(* What the invariant says                                                 *)

\* Everything stays of its type: the archive and the locals of a backup (internal/backup/backup.go),
\* of a restore and of its rollback (internal/backup/restore.go).
THEOREM Types == Spec => []TypeOK
<1>1. RestoreInv => TypeOK
  <2>. SUFFICES ASSUME RestoreInv PROVE TypeOK
    OBVIOUS
  <2>1. Len(bk.stopped) <= 2
    <3>1. bk.stopped \in {<<>>, <<Chat>>, <<Chat, Qdrant>>}
      BY DEF RestoreInv, Typed
    <3>2. Len(<<>>) = 0 /\ Len(<<Chat>>) = 1 /\ Len(<<Chat, Qdrant>>) = 2
      OBVIOUS
    <3>3. Len(bk.stopped) \in {0, 1, 2}
      BY <3>1, <3>2
    <3>4. \A n \in {0, 1, 2} : n <= 2
      OBVIOUS
    <3>. QED  BY <3>3, <3>4
  <2>2. tx \in Txs /\ bk \in Bks
    BY DEF RestoreInv, Typed, Txs, Bks
  <2>3. \A r \in Restores : facts[r].exists \in {"yes", "no", "unknown"} /\ facts[r].dests \subseteq Rows
    BY DEF RestoreInv, Typed
  <2>4. tx.way \in {"forward", "back"} /\ tx.v \in Volumes /\ tx.ok \in BOOLEAN /\ bk.want \subseteq Volumes
    BY <2>2 DEF Txs, Bks
  <2>. QED  BY <2>1, <2>3, <2>4 DEF TypeOK, RestoreInv, Typed, Placed, Tars, Files, Outcomes
<1>. QED  BY InitInv, StepInv, <1>1, PTL DEF Spec

\* What is reported is so.
LEMMA Honest == RestoreInv => ReportsAreHonest
<1>. SUFFICES ASSUME RestoreInv PROVE ReportsAreHonest
  OBVIOUS
<1>1. NothingIsMerged
  BY DEF RestoreInv, Unmixed, Pure, Sound, NothingIsMerged
<1>2. ASSUME NEW r \in Restores, Holds(r, "report"), out[r] = "rolledback" PROVE RolledBack(r)
  BY <1>2, RestoreParts DEF Holds, Told
<1>3. RollbackIsComplete
  BY <1>2 DEF RollbackIsComplete, RolledBack, Has, InPlace, AsRendered, Settled, FromTar, Unmade
<1>4. ASSUME NEW r \in Restores, Holds(r, "report"), out[r] = "restored" PROVE Restored(r)
  BY <1>4, RestoreParts DEF Holds, Told
<1>5. RestoredIsApplied
  BY <1>4 DEF RestoredIsApplied, Restored, Has, InPlace, AsRendered, Loads, FromArchive
<1>6. BackupLeavesRunning
  BY BackupParts DEF BackupLeavesRunning, Holds, BackingUp
<1>7. ArchiveIsQuiescent
  <2>1. ASSUME NEW b \in Backups, Holds(b, "report"), out[b] \in {"written", "warned"}
        PROVE  archive.cfg = cfg /\ archive.vols = bk.took /\ TookAll
    BY <2>1, BackupParts DEF Holds, BackingUp
  <2>2. bk.want \subseteq Volumes
    BY DEF RestoreInv, Typed
  <2>. QED  BY <2>1, <2>2 DEF ArchiveIsQuiescent, TookAll, Taken
<1>. QED  BY <1>1, <1>3, <1>5, <1>6, <1>7 DEF ReportsAreHonest

\* "backed up", "restored" and "rolled back" mean what they say, whatever failed, died or
\* was written meanwhile, for any number of backups and restores (internal/backup/backup.go backupRun,
\* internal/backup/restore.go rollback).
THEOREM OutcomesAreHonest == Spec => []ReportsAreHonest
BY InitInv, StepInv, Honest, PTL DEF Spec

\* The tars are removed by the report, and by nothing else.
LEMMA TarsStep ==
  ASSUME RestoreInv, [Next]_vars, NEW r \in Restores, NEW v \in Volumes, tmp[r][v] # Absent, tmp'[r][v] = Absent
  PROVE  out[r] \in {"restored", "refused"} \/ Continues(tmp[r][v], vol[v])
<1>0. tmp \in [Restores -> Tars] /\ Typed
  BY DEF RestoreInv, Typed
<1>1. tmp' # tmp
  OBVIOUS
<1>2. ASSUME NEW q \in Restores, CaptureVolume(q) PROVE FALSE
  <2>1. lock = q
    BY <1>2 DEF CaptureVolume, Holds
  <2>2. PICK t \in Exported(tx.v) : tmp' = [tmp EXCEPT ![q][tx.v] = t] /\ vol[tx.v] # Absent
    BY <1>1, <1>2 DEF CaptureVolume
  <2>3. t # Absent /\ tx.v \in Volumes
    BY <2>1, <2>2, RestoreParts, ExportedIsThere DEF Txs
  <2>. QED  BY <1>0, <2>2, <2>3 DEF Tars
<1>3. ASSUME NEW p \in Procs, Report(p) PROVE out[r] \in {"restored", "refused"} \/ Continues(tmp[r][v], vol[v])
  <2>1. p = r /\ out[r] # "incomplete" /\ lock = r /\ pc[r] = "report"
    BY <1>0, <1>1, <1>3 DEF Report, Cleans, Holds
  <2>2. out[r] = "rolledback" => FromTar(r, v)
    BY <2>1, RestoreParts DEF Told, RolledBack
  <2>3. out[r] \in {"refused", "restored", "rolledback", "incomplete"}
    BY <2>1, RestoreParts DEF Told
  <2>. QED  BY <2>1, <2>2, <2>3 DEF FromTar
<1>4. ASSUME NEW q \in Restores, RestoreStep(q) PROVE FALSE
  <2>1. ~Prepare(q)
    BY <1>1 DEF Prepare
  <2>2. OwnStep(q)
    BY <1>4, <2>1 DEF RestoreStep, OwnStep
  <2>3. lock = q
    BY <2>2, Zenon DEF OwnStep, Verify, Skew, CaptureConfig, CaptureVolume, CaptureFiles, Quiesce, SaveRestored,
       WriteFiles, RemoveVolume, Reapply, ApplyFailed, Import, Restart, Prove, RbStop, RbSave, RbFiles, RbQdrant,
       RbStart, Holds
  <2>. QED  BY <1>1, <1>2, <2>2, <2>3, OwnStepFrame
<1>5. ASSUME NEW b \in Backups, BackupStep(b) PROVE FALSE
  <2>1. lock = b
    BY <1>5, Zenon DEF BackupStep, BackupInput, BackupStop, BackupExport, BackupRead, BackupStart, Publish, Holds
  <2>. QED  BY <1>1, <1>5, <2>1, BackupStepMoves
<1>6. ASSUME NEW p \in Procs, Acquire(p) \/ Crash(p) PROVE FALSE
  BY <1>1, <1>6 DEF Acquire, Crash
<1>7. ~UNCHANGED vars /\ \A w \in Volumes : ~Write(w)
  BY <1>1 DEF vars, mine, Write
<1>. QED  BY <1>3, <1>4, <1>5, <1>6, <1>7 DEF Next

\* A rollback tar is removed only by a report after which nobody needs it
\* (cmd/villa/restore.go reportPreserved).
THEOREM TarsAreKept == Spec => TarsOutliveTheNeed
<1>1. RestoreInv /\ [Next]_vars =>
        [\A r \in Restores, v \in Volumes : tmp[r][v] # Absent /\ tmp'[r][v] = Absent =>
           out[r] \in {"restored", "refused"} \/ Continues(tmp[r][v], vol[v])]_vars
  BY TarsStep
<1>. QED  BY InitInv, StepInv, <1>1, PTL DEF Spec, TarsOutliveTheNeed

----------------------------------------------------------------------------
(* A restore on its own                                                    *)

\* What becomes of the memory volume in a step of the restore that holds the lock.
LEMMA MemoryStep ==
  ASSUME NEW r \in Restores, RestoreInv, lock = r, OwnStep(r), facts[r].exists = "no"
  PROVE  \/ vol'[Qdrant] = vol[Qdrant]
         \/ vol'[Qdrant] = Absent
         \/ pc[r] # "verify" /\ tx.arch \in Archive /\ tx'.arch = tx.arch /\ pc'[r] # "verify"
            /\ (Continues(tx.arch.vols[Qdrant], vol'[Qdrant]) \/ vol'[Qdrant].of \in {"empty", "torn"})
<1>0. /\ ~Live(r) /\ vol \in Tars /\ tx.v \in Volumes /\ Chat # Qdrant /\ Chat \in Volumes /\ Qdrant \in Volumes
      /\ tx.v = Chat \/ tx.v = Qdrant
  BY RestoreParts, ArchiveAssumption DEF Live, Typed, Txs, Volumes
<1>1. CASE UNCHANGED vol
  BY <1>1
<1>2. CASE RemoveVolume(r)
  BY <1>0, <1>2 DEF RemoveVolume, Tars
<1>3. CASE Import(r)
  <2>1. pc[r] = "applied" /\ vol[tx.v] = Absent /\ tx.arch \in Archive
    BY <1>3, RestoreParts DEF Import, Holds, Unmixed, Importing, Captured, RestorePlaces, InApply
  <2>2. \E new \in {IF tx.way = "forward" THEN tx.arch.vols[tx.v] ELSE tmp[r][tx.v], Absent, Empty, Torn} :
          vol' = [vol EXCEPT ![tx.v] = Merge(@, new)]
    BY <1>3 DEF Import
  <2>3. PICK new \in {IF tx.way = "forward" THEN tx.arch.vols[tx.v] ELSE tmp[r][tx.v], Absent, Empty, Torn} :
          vol' = [vol EXCEPT ![tx.v] = new]
    BY <2>1, <2>2 DEF Merge
  <2>4. CASE tx.v = Chat
    BY <1>0, <2>3, <2>4 DEF Tars
  <2>5. CASE tx.v = Qdrant
    <3>1. tx.way = "forward"
      BY <1>0, <2>1, <2>5, RestoreParts DEF Heading, Either, Importing, Txs
    <3>2. vol'[Qdrant] = new /\ new \in {tx.arch.vols[Qdrant], Absent, Empty, Torn}
      BY <1>0, <2>3, <2>5, <3>1 DEF Tars
    <3>3. tx.arch.vols[Qdrant] \in Stored \cup {Absent}
      BY <1>0, <2>1 DEF Archive
    <3>4. vol'[Qdrant] = Absent \/ Continues(tx.arch.vols[Qdrant], vol'[Qdrant]) \/ vol'[Qdrant].of \in {"empty", "torn"}
      BY <3>2, <3>3, ArchiveAssumption DEF Continues, Stored, Empty, Torn
    <3>5. pc'[r] # "verify" /\ tx'.arch = tx.arch
      <4>1. \/ SwapFails(r) \/ (tx' = [tx EXCEPT !.v = Qdrant] /\ Goto(r, "remove"))
            \/ (tx' = [tx EXCEPT !.v = Chat] /\ Goto(r, "restart")) \/ (Goto(r, AfterVolume) /\ UNCHANGED tx)
        BY <1>3 DEF Import
      <4>2. AfterVolume \in RestorePlaces \ {"verify"} /\ "remove" \in RestorePlaces /\ "restart" \in RestorePlaces
        BY DEF AfterVolume, RestorePlaces
      <4>3. [tx EXCEPT !.v = Qdrant].arch = tx.arch /\ [tx EXCEPT !.v = Chat].arch = tx.arch
        BY <1>0, RestoreParts DEF Txs
      <4>. QED  BY <4>1, <4>2, <4>3, RollBackPlaces
    <3>. QED  BY <2>1, <3>4, <3>5
  <2>. QED  BY <1>0, <2>4, <2>5
<1>4. CASE Restart(r)
  <2>1. tx.v = Chat
    BY <1>0, <1>4, RestoreParts DEF Restart, Holds, Heading
  <2>. QED  BY <1>0, <1>4, <2>1 DEF Restart, StartOk, StartFails, Tars
<1>5. CASE RbQdrant(r)
  BY <1>0, <1>5 DEF RbQdrant, Tars
<1>6. CASE RbStart(r)
  <2>1. PICK s \in Volumes, ok \in BOOLEAN :
          /\ Holds(r, IF s = Qdrant THEN "rbstartq" ELSE "rbstart")
          /\ IF ok THEN StartOk(s) ELSE StartFails(s)
    BY <1>6 DEF RbStart
  <2>2. s = Chat
    BY <1>0, <2>1, RestoreParts DEF Holds, Heading, Volumes
  <2>. QED  BY <1>0, <2>1, <2>2 DEF StartOk, StartFails, Tars
<1>7. CASE Reapply(r)
  BY <1>1, <1>7 DEF Reapply, mine
<1>8. CASE Skew(r) \/ CaptureConfig(r)
  BY <1>1, <1>8 DEF Skew, CaptureConfig, mine
<1>9. CASE Verify(r) \/ CaptureVolume(r) \/ CaptureFiles(r) \/ Quiesce(r) \/ SaveRestored(r) \/ WriteFiles(r)
  BY <1>1, <1>9 DEF Verify, CaptureVolume, CaptureFiles, Quiesce, SaveRestored, WriteFiles
<1>10. CASE ApplyFailed(r) \/ Prove(r) \/ RbStop(r) \/ RbSave(r) \/ RbFiles(r)
  <2>1. CASE ApplyFailed(r)
    BY <1>1, <2>1 DEF ApplyFailed
  <2>2. CASE Prove(r)
    BY <1>1, <2>2 DEF Prove
  <2>3. CASE RbStop(r)
    BY <1>1, <2>3 DEF RbStop
  <2>4. CASE RbSave(r)
    BY <1>1, <2>4 DEF RbSave
  <2>5. CASE RbFiles(r)
    BY <1>1, <2>5 DEF RbFiles
  <2>. QED  BY <1>10, <2>1, <2>2, <2>3, <2>4, <2>5
<1>. QED  BY <1>2, <1>3, <1>4, <1>5, <1>6, <1>7, <1>8, <1>9, <1>10 DEF OwnStep

\* A step of the restore that has the lock makes the memory volume only from its archive.
LEMMA AloneOwn ==
  ASSUME NEW r \in Restores, \A q \in Restores : q = r, RestoreInv, AloneInv, lock = r, OwnStep(r)
  PROVE  AloneInv'
<1>0. /\ UNCHANGED <<lock, facts>> /\ pc[r] \notin {"idle", "done"} /\ lock' \notin Backups
      /\ r \in Procs /\ pc[r] \in RestorePlaces /\ DOMAIN pc = Procs
  BY OwnStepFrame, RestoreParts DEF RestorePlaces, InApply
<1>1. ASSUME Seen(r)' PROVE vol'[Qdrant] = Absent \/ Made(r)'
  <2>1. Seen(r) /\ facts[r].exists = "no"
    BY <1>0, <1>1 DEF Seen
  <2>2. CASE vol'[Qdrant] = vol[Qdrant] /\ vol[Qdrant] # Absent
    <3>1. Made(r)
      BY <2>1, <2>2 DEF AloneInv
    <3>2. ~Verify(r)
      BY <3>1 DEF Made, Verify, Holds
    <3>3. pc'[r] # "verify" /\ tx'.arch = tx.arch
      BY <3>2, OwnStepArchive
    <3>. QED  BY <1>0, <2>2, <3>1, <3>3 DEF Made
  <2>3. CASE vol'[Qdrant] = Absent
    BY <2>3
  <2>. QED  BY <1>0, <2>1, <2>2, <2>3, MemoryStep DEF Made
<1>. QED  BY <1>0, <1>1 DEF AloneInv

\* A backup starts again no service it has not stopped, so it makes no memory volume.
LEMMA AloneBackup ==
  ASSUME NEW b \in Backups, RestoreInv, AloneInv, lock = b, BackupStep(b)
  PROVE  AloneInv'
<1>0. /\ bk \in Bks /\ vol \in Tars /\ Chat # Qdrant /\ Chat \in Volumes /\ Qdrant \in Volumes /\ b \notin Restores
      /\ Stopped \subseteq bk.want /\ (Qdrant \in bk.want => vol[Qdrant] # Absent)
      /\ UNCHANGED <<lock, facts, tx>> /\ \A q \in Restores : pc'[q] = pc[q]
  BY BackupParts, BackupStepMoves, ArchiveAssumption DEF Typed, AloneInv, Moves
<1>a. ASSUME UNCHANGED vol, bk'.want = bk.want, Stopped' \subseteq bk.want PROVE AloneInv'
  BY <1>0, <1>a DEF AloneInv, Seen, Made
<1>b. ASSUME NEW place, BackupFails(b, place), UNCHANGED vol PROVE AloneInv'
  <2>1. bk'.want = bk.want /\ bk'.stopped = bk.stopped
    BY <1>0, <1>b DEF BackupFails, Bks
  <2>. QED  BY <1>0, <1>a, <1>b, <2>1 DEF Stopped
<1>1. CASE BackupInput(b)
  <2>1. ASSUME NEW want \in {Wanted, {Chat}}, bk' = [bk EXCEPT !.want = want] PROVE AloneInv'
    <3>1. pc[b] = "input" /\ UNCHANGED vol
      BY <1>1 DEF BackupInput, Holds
    <3>2. bk.stopped = <<>>
      BY <3>1, BackupParts DEF BackingUp, NoBk
    <3>3. bk'.stopped = <<>> /\ bk'.want = want
      BY <1>0, <2>1, <3>2 DEF Bks
    <3>4. Stopped' = {}
      BY <3>3 DEF Stopped
    <3>5. Qdrant \in want => vol[Qdrant] # Absent
      BY <1>0 DEF Wanted
    <3>. QED  BY <1>0, <3>1, <3>3, <3>4, <3>5 DEF AloneInv, Seen, Made
  <2>. QED  BY <1>1, <1>b, <2>1 DEF BackupInput
<1>2. CASE BackupStop(b)
  <2>1. UNCHANGED vol
    BY <1>2 DEF BackupStop
  <2>2. CASE bk' = [bk EXCEPT !.stopped = Append(@, bk.v)]
    <3>1. pc[b] = "bkstop"
      BY <1>2 DEF BackupStop, Holds
    <3>2. /\ bk.stopped = (IF bk.v = Chat THEN <<>> ELSE <<Chat>>) /\ Chat \in bk.want /\ (bk.v = Qdrant => Qdrant \in bk.want)
          /\ bk.v = Chat \/ bk.v = Qdrant
      BY <1>0, <3>1, BackupParts DEF BackingUp, Bks, Volumes
    <3>3. bk'.want = bk.want /\ bk'.stopped = Append(bk.stopped, bk.v)
      BY <1>0, <2>2 DEF Bks
    <3>4. CASE bk.v = Chat
      <4>1. bk'.stopped = <<Chat>>
        BY <3>2, <3>3, <3>4, StoppedServices
      <4>2. Stopped' = {Chat}
        BY <4>1, StoppedServices DEF Stopped
      <4>. QED  BY <1>a, <2>1, <3>2, <3>3, <4>2
    <3>5. CASE bk.v = Qdrant
      <4>1. bk'.stopped = <<Chat, Qdrant>>
        BY <1>0, <3>2, <3>3, <3>5, StoppedServices
      <4>2. Stopped' = {Chat, Qdrant}
        BY <4>1, StoppedServices DEF Stopped
      <4>. QED  BY <1>a, <2>1, <3>2, <3>3, <3>5, <4>2
    <3>. QED  BY <3>2, <3>4, <3>5
  <2>. QED  BY <1>2, <1>b, <2>1, <2>2 DEF BackupStop
<1>3. CASE BackupExport(b)
  <2>1. UNCHANGED vol
    BY <1>3, Zenon DEF BackupExport
  <2>2. ASSUME NEW t, bk' = [bk EXCEPT !.took[bk.v] = t, !.v = Qdrant] PROVE AloneInv'
    <3>1. bk'.want = bk.want /\ bk'.stopped = bk.stopped
      BY <1>0, <2>2 DEF Bks
    <3>. QED  BY <1>0, <1>a, <2>1, <3>1 DEF Stopped
  <2>3. BackupFails(b, "bkstart") \/ \E t \in Exported(bk.v) : bk' = [bk EXCEPT !.took[bk.v] = t, !.v = Qdrant]
    BY <1>3, Zenon DEF BackupExport
  <2>4. CASE BackupFails(b, "bkstart")
    BY <1>b, <2>1, <2>4
  <2>. QED  BY <2>2, <2>3, <2>4, Zenon
<1>4. CASE BackupRead(b)
  <2>1. UNCHANGED vol
    BY <1>4 DEF BackupRead
  <2>2. ASSUME NEW files, bk' = [bk EXCEPT !.files = files] PROVE AloneInv'
    <3>1. bk'.want = bk.want /\ bk'.stopped = bk.stopped
      BY <1>0, <2>2 DEF Bks
    <3>. QED  BY <1>0, <1>a, <2>1, <3>1 DEF Stopped
  <2>. QED  BY <1>4, <1>b, <2>1, <2>2 DEF BackupRead
<1>5. CASE BackupStart(b)
  <2>1. CASE UNCHANGED <<vol, bk>>
    BY <1>0, <1>a, <2>1 DEF Stopped
  <2>2. CASE /\ bk.stopped # <<>>
             /\ StartOk(Last(bk.stopped)) \/ StartFails(Last(bk.stopped))
             /\ bk' = [bk EXCEPT !.stopped = Front(@)] \/ bk' = [bk EXCEPT !.stopped = Front(@), !.warned = TRUE]
    <3>1. bk'.want = bk.want /\ bk'.stopped = Front(bk.stopped)
      BY <1>0, <2>2 DEF Bks
    <3>2. bk.stopped = <<Chat>> \/ bk.stopped = <<Chat, Qdrant>>
      BY <1>0, <2>2 DEF Bks
    <3>3. Stopped' \subseteq Stopped /\ Last(bk.stopped) \in Stopped
      <4>1. CASE bk.stopped = <<Chat>>
        <5>1. bk'.stopped = <<>>
          BY <3>1, <4>1, StoppedServices
        <5>2. Stopped' = {}
          BY <5>1 DEF Stopped
        <5>. QED  BY <4>1, <5>2, StoppedServices, StoppedSet
      <4>2. CASE bk.stopped = <<Chat, Qdrant>>
        <5>1. bk'.stopped = <<Chat>>
          BY <3>1, <4>2, StoppedServices
        <5>2. Stopped' = {Chat}
          BY <5>1, StoppedServices DEF Stopped
        <5>. QED  BY <4>2, <5>2, StoppedServices, StoppedSet
      <4>. QED  BY <3>2, <4>1, <4>2
    <3>4. vol'[Qdrant] = vol[Qdrant]
      BY <1>0, <2>2, <3>3 DEF StartOk, StartFails, Tars
    <3>. QED  BY <1>0, <3>1, <3>3, <3>4 DEF AloneInv, Seen, Made
  <2>. QED  BY <1>5, <2>1, <2>2 DEF BackupStart
<1>6. CASE Publish(b)
  BY <1>0, <1>a, <1>6 DEF Publish, Stopped
<1>. QED  BY <1>1, <1>2, <1>3, <1>4, <1>5, <1>6 DEF BackupStep

\* That a volume seen absent is absent or made by the restore is inductive.
LEMMA AloneStep ==
  ASSUME \A r, s \in Restores : r = s, RestoreInv, AloneInv, [Next]_vars
  PROVE  AloneInv'
<1>0. Typed /\ vol \in Tars /\ DOMAIN pc = Procs /\ Restores \subseteq Procs /\ Qdrant \in Volumes /\ DOMAIN facts = Restores
  BY ArchiveAssumption DEF RestoreInv, Typed, Volumes
<1>1. ASSUME NEW b \in Backups, BackupStep(b) PROVE AloneInv'
  <2>1. lock = b
    BY <1>1, Zenon DEF BackupStep, BackupInput, BackupStop, BackupExport, BackupRead, BackupStart, Publish, Holds
  <2>. QED  BY <1>1, <2>1, AloneBackup
<1>2. ASSUME NEW r \in Restores, OwnStep(r) PROVE AloneInv'
  <2>1. lock = r
    BY <1>2, Zenon DEF OwnStep, Verify, Skew, CaptureConfig, CaptureVolume, CaptureFiles, Quiesce, SaveRestored,
       WriteFiles, RemoveVolume, Reapply, ApplyFailed, Import, Restart, Prove, RbStop, RbSave, RbFiles, RbQdrant,
       RbStart, Holds
  <2>. QED  BY <1>2, <2>1, AloneOwn
<1>3. ASSUME NEW r \in Restores, Prepare(r) PROVE AloneInv'
  <2>1. UNCHANGED <<lock, vol, tx, bk>> /\ lock # r
    BY <1>0, <1>3 DEF Prepare, RestoreInv, Placed
  <2>2. ASSUME Seen(r)' PROVE vol[Qdrant] = Absent
    <3>1. Goto(r, "waiting") \/ Goto(r, "done")
      BY <1>3, Zenon DEF Prepare
    <3>2. ~Goto(r, "done")
      BY <1>0, <2>2 DEF Goto, Seen
    <3>3. \E seen \in {IF vol[Qdrant] = Absent THEN "no" ELSE "yes", "unknown"} :
            facts' = [facts EXCEPT ![r] = [exists |-> seen, dests |-> {row \in Rows : cfg.id \in RestoreGate[row]}]]
      BY <1>3, <3>2, Zenon DEF Prepare
    <3>4. facts'[r].exists \in {IF vol[Qdrant] = Absent THEN "no" ELSE "yes", "unknown"}
      BY <1>0, <3>3
    <3>. QED  BY <2>2, <3>4 DEF Seen
  <2>3. \A q \in Restores : q = r
    OBVIOUS
  <2>. QED  BY <2>1, <2>2, <2>3 DEF AloneInv, Stopped
<1>4. ASSUME NEW p \in Procs, Acquire(p) PROVE AloneInv'
  <2>1. UNCHANGED <<vol, tx, bk, facts>>
    BY <1>4 DEF Acquire
  <2>2. pc[p] \in {"idle", "waiting"} /\ lock # p /\ (p \in Restores => pc[p] = "waiting")
    BY <1>4 DEF Acquire, RestoreInv, Placed
  <2>3. CASE UNCHANGED lock /\ Goto(p, "done")
    <3>1. ASSUME NEW q \in Restores, Seen(q)' PROVE vol[Qdrant] = Absent \/ Made(q)'
      <4>1. q # p /\ pc'[q] = pc[q] /\ Seen(q)
        BY <1>0, <2>1, <2>3, <3>1 DEF Goto, Seen
      <4>. QED  BY <2>1, <2>3, <4>1 DEF AloneInv, Made
    <3>. QED  BY <2>1, <2>3, <3>1 DEF AloneInv, Stopped
  <2>4. CASE lock = Free /\ lock' = p /\ Goto(p, IF p \in Restores THEN "verify" ELSE "input")
    <3>1. lock \notin Restores /\ lock \notin Backups
      BY <2>4, Holder, HostAssumption, ArchiveAssumption
    <3>2. \A q \in Restores : Seen(q) => vol[Qdrant] = Absent
      BY <3>1 DEF AloneInv, Made
    <3>3. \A q \in Restores : Seen(q)' => Seen(q)
      BY <1>0, <2>1, <2>2, <2>4 DEF Goto, Seen
    <3>4. bk' = NoBk
      BY <2>1, <3>1 DEF RestoreInv, Placed
    <3>5. Stopped' = {} /\ bk'.want = {}
      BY <3>4 DEF NoBk, Stopped
    <3>. QED  BY <2>1, <3>2, <3>3, <3>5 DEF AloneInv
  <2>. QED  BY <1>4, <2>3, <2>4 DEF Acquire
<1>5. ASSUME NEW p \in Procs, Report(p) \/ Crash(p) PROVE AloneInv'
  <2>1. lock = p /\ Clear(p) /\ UNCHANGED vol
    BY <1>5 DEF Report, Crash, Holds
  <2>2. lock' = Free /\ pc' = [pc EXCEPT ![p] = "done"]
    BY <2>1 DEF Clear
  <2>3. ASSUME NEW q \in Restores, Seen(q)' PROVE vol[Qdrant] = Absent
    <3>1. q # p
      BY <1>0, <2>2, <2>3 DEF Seen
    <3>2. pc'[q] = pc[q] /\ facts'[q] = facts[q]
      BY <1>0, <2>1, <2>2, <3>1 DEF Clear
    <3>3. Seen(q) /\ lock # q
      BY <2>1, <2>3, <3>1, <3>2 DEF Seen
    <3>. QED  BY <3>3 DEF AloneInv, Made
  <2>. QED  BY <2>1, <2>2, <2>3, HostAssumption, ArchiveAssumption DEF AloneInv
<1>6. ASSUME NEW v \in Volumes, Write(v) PROVE AloneInv'
  <2>0. vol'[Qdrant] = vol[Qdrant] \/ Grown(Qdrant)
    BY <1>0, <1>6, WriteIsAside
  <2>1. UNCHANGED <<lock, pc, facts, tx, bk>>
    BY <1>6 DEF Write
  <2>2. ASSUME NEW r \in Restores, Made(r), vol[Qdrant] # Absent PROVE Made(r)'
    <3>1. tx.arch.vols[Qdrant] \in Stored \cup {Absent} /\ vol[Qdrant] \in Stored
      BY <1>0, <2>2 DEF Made, Archive, Tars
    <3>2. CASE Continues(tx.arch.vols[Qdrant], vol[Qdrant])
      <4>1. tx.arch.vols[Qdrant] # Absent
        BY <3>1, <3>2 DEF Continues, Stored, Absent, Origin
      <4>. QED  BY <1>0, <2>0, <2>1, <2>2, <3>1, <3>2, <4>1, GrownContinues DEF Made
    <3>3. CASE vol[Qdrant].of \in {"empty", "torn"}
      BY <2>0, <2>1, <2>2, <3>3 DEF Made, Grown, Continues
    <3>. QED  BY <2>2, <3>2, <3>3 DEF Made
  <2>3. vol'[Qdrant] = Absent <=> vol[Qdrant] = Absent
    BY <2>0 DEF Grown, Stored, Origin, Absent
  <2>4. ASSUME NEW r \in Restores, Seen(r)' PROVE vol'[Qdrant] = Absent \/ Made(r)'
    <3>1. Seen(r)
      BY <2>1, <2>4 DEF Seen
    <3>. QED  BY <2>2, <2>3, <3>1 DEF AloneInv
  <2>5. Stopped' = Stopped
    BY <2>1 DEF Stopped
  <2>. QED  BY <2>1, <2>3, <2>4, <2>5 DEF AloneInv
<1>7. CASE UNCHANGED vars
  BY <1>7 DEF vars, mine, AloneInv, Seen, Made, Stopped
<1>. QED  BY <1>1, <1>2, <1>3, <1>4, <1>5, <1>6, <1>7 DEF Next, RestoreStep, OwnStep

\* A restore removes a volume it has in a tar, or one it made.
LEMMA RemovalStep ==
  ASSUME RestoreInv, AloneInv, [Next]_vars, NEW v \in Volumes, vol[v] # Absent, vol'[v] = Absent
  PROVE  /\ lock \in Restores
         /\ tmp[lock][v] # Absent \/ Continues(tx.arch.vols[v], vol[v]) \/ vol[v].of \in {"empty", "torn"}
<1>0. Typed /\ vol \in Tars /\ Chat # Qdrant
  BY ArchiveAssumption DEF RestoreInv, Typed
<1>a. vol' # vol
  OBVIOUS
<1>b. ASSUME NEW s \in Volumes, StartOk(s) \/ StartFails(s) PROVE FALSE
  BY <1>0, <1>b DEF StartOk, StartFails, Tars, Empty, Absent
<1>c. ASSUME NEW r \in Restores, lock = r, pc[r] \in Mutates, v = Chat \/ Live(r) \/ facts[r].exists = "no" \/ ~Carries(Qdrant)
      PROVE  tmp[r][v] # Absent \/ Continues(tx.arch.vols[v], vol[v]) \/ vol[v].of \in {"empty", "torn"} \/ ~Carries(Qdrant)
  <2>1. tmp[r][Chat] # Absent /\ (Live(r) => tmp[r][Qdrant] # Absent)
    BY <1>c, RestoreParts DEF Captured
  <2>2. CASE v = Qdrant /\ facts[r].exists = "no"
    <3>1. Seen(r)
      BY <1>c, <2>2 DEF Seen, Mutates, RestorePlaces, InApply
    <3>. QED  BY <2>2, <3>1 DEF AloneInv, Made
  <2>. QED  BY <1>c, <2>1, <2>2 DEF Volumes
<1>1. ASSUME NEW r \in Restores, lock = r, OwnStep(r)
      PROVE  tmp[r][v] # Absent \/ Continues(tx.arch.vols[v], vol[v]) \/ vol[v].of \in {"empty", "torn"}
  <2>0. tx.v \in Volumes /\ (tx.v = Chat \/ tx.v = Qdrant) /\ (Live(r) => Carries(Qdrant))
    BY <1>1, RestoreParts DEF Txs, Volumes, Live
  <2>1. CASE RemoveVolume(r)
    <3>1. v = tx.v /\ pc[r] = "remove"
      BY <1>0, <2>0, <2>1 DEF RemoveVolume, Holds, Tars
    <3>2. pc[r] \in Mutates /\ pc[r] \in Either
      BY <3>1 DEF Mutates, Either, RestorePlaces, Gates, Captures
    <3>3. v = Qdrant => Carries(Qdrant)
      BY <1>1, <2>0, <3>1, <3>2, RestoreParts DEF Heading, Txs
    <3>4. Knows(r) /\ facts[r].exists \in {"yes", "no", "unknown"}
      BY <1>1, <3>2, RestoreParts DEF Captured, Typed
    <3>5. v = Chat \/ Live(r) \/ facts[r].exists = "no"
      BY <2>0, <3>1, <3>3, <3>4 DEF Knows, Live
    <3>6. CASE v = Chat
      BY <1>1, <3>2, <3>6, RestoreParts DEF Captured
    <3>. QED  BY <1>1, <1>c, <2>0, <3>1, <3>2, <3>3, <3>5, <3>6
  <2>2. CASE Import(r)
    <3>1. pc[r] = "applied" /\ vol[tx.v] = Absent
      BY <1>1, <2>2, RestoreParts DEF Import, Holds, Unmixed, Importing
    <3>2. \E new : vol' = [vol EXCEPT ![tx.v] = new]
      BY <2>2 DEF Import
    <3>. QED  BY <1>0, <2>0, <3>1, <3>2 DEF Tars
  <2>3. CASE RbQdrant(r)
    <3>1. v = Qdrant /\ Carries(Qdrant) /\ ~Live(r) /\ pc[r] = "rbqdrant"
      BY <1>0, <1>a, <2>3 DEF RbQdrant, Holds, Tars
    <3>2. pc[r] \in Mutates
      BY <3>1 DEF Mutates, RestorePlaces, Gates, Captures
    <3>3. Knows(r) /\ facts[r].exists \in {"yes", "no", "unknown"}
      BY <1>1, <3>2, RestoreParts DEF Captured, Typed
    <3>. QED  BY <1>1, <1>c, <3>1, <3>2, <3>3 DEF Knows, Live
  <2>4. CASE Restart(r)
    BY <1>b, <2>0, <2>4 DEF Restart
  <2>5. CASE RbStart(r)
    <3>1. \E s \in Volumes : StartOk(s) \/ StartFails(s)
      BY <2>5 DEF RbStart
    <3>. QED  BY <1>b, <3>1
  <2>6. CASE Reapply(r)
    BY <1>a, <2>6 DEF Reapply, mine
  <2>7. CASE Skew(r) \/ CaptureConfig(r)
    BY <1>a, <2>7 DEF Skew, CaptureConfig, mine
  <2>8. CASE Verify(r) \/ CaptureVolume(r) \/ CaptureFiles(r) \/ Quiesce(r) \/ SaveRestored(r) \/ WriteFiles(r)
    BY <1>a, <2>8 DEF Verify, CaptureVolume, CaptureFiles, Quiesce, SaveRestored, WriteFiles
  <2>9. CASE ApplyFailed(r) \/ Prove(r)
    BY <1>a, <2>9 DEF ApplyFailed, Prove
  <2>10. CASE RbStop(r)
    BY <1>a, <2>10 DEF RbStop
  <2>11. CASE RbSave(r)
    BY <1>a, <2>11 DEF RbSave
  <2>12. CASE RbFiles(r)
    BY <1>a, <2>12 DEF RbFiles
  <2>. QED  BY <1>1, <2>1, <2>2, <2>3, <2>4, <2>5, <2>6, <2>7, <2>8, <2>9, <2>10, <2>11, <2>12 DEF OwnStep
<1>2. ASSUME NEW r \in Restores, OwnStep(r) PROVE lock = r
  BY <1>2, Zenon DEF OwnStep, Verify, Skew, CaptureConfig, CaptureVolume, CaptureFiles, Quiesce, SaveRestored,
     WriteFiles, RemoveVolume, Reapply, ApplyFailed, Import, Restart, Prove, RbStop, RbSave, RbFiles, RbQdrant,
     RbStart, Holds
<1>3. ASSUME NEW b \in Backups, BackupStep(b) PROVE FALSE
  <2>1. CASE BackupStart(b)
    <3>0. lock = b /\ bk \in Bks
      BY <2>1, BackupParts DEF BackupStart, Holds
    <3>1. bk.stopped # <<>> => Last(bk.stopped) \in Volumes
      BY <3>0, StoppedServices DEF Bks, Volumes
    <3>. QED  BY <1>a, <1>b, <2>1, <3>1 DEF BackupStart
  <2>2. CASE BackupExport(b)
    BY <1>a, <2>2, Zenon DEF BackupExport
  <2>. QED  BY <1>a, <1>3, <2>1, <2>2 DEF BackupStep, BackupInput, BackupStop, BackupRead, Publish
<1>4. ASSUME NEW r \in Restores, Prepare(r) PROVE FALSE
  BY <1>a, <1>4 DEF Prepare
<1>5. ASSUME NEW p \in Procs, Acquire(p) \/ Report(p) \/ Crash(p) PROVE FALSE
  BY <1>a, <1>5 DEF Acquire, Report, Crash
<1>6. ASSUME NEW w \in Volumes, Write(w) PROVE FALSE
  <2>1. vol[w] # Absent /\ vol[w].n \in Nat /\ vol' = [vol EXCEPT ![w].n = @ + 1]
    BY <1>0, <1>6, ArchiveAssumption DEF Write, Tars, Stored
  <2>2. w = v
    BY <1>0, <2>1 DEF Tars
  <2>3. vol'[w] = [vol[w] EXCEPT !.n = @ + 1] /\ vol[w] \in Stored
    BY <1>0, <2>1 DEF Tars
  <2>4. vol'[w].n = vol[w].n + 1
    BY <2>3 DEF Stored
  <2>5. vol'[w].n # Absent.n
    BY <2>1, <2>4 DEF Absent
  <2>. QED  BY <2>2, <2>5
<1>7. ~UNCHANGED vars
  BY <1>a DEF vars, mine
<1>. QED  BY <1>1, <1>2, <1>3, <1>4, <1>5, <1>6, <1>7 DEF Next, RestoreStep, OwnStep

\* It holds at the start, where nobody has looked.
LEMMA AloneInit == Init => AloneInv
BY HostAssumption, ArchiveAssumption DEF Init, AloneInv, Seen

\* No volume is removed that is in no tar and that the restore did not make itself
\* (internal/backup/restore.go swapVolumes, rollbackQdrant).  The restore looks at the memory
\* volume before it takes the lock, so with a second restore on the host this does not hold.
THEOREM OnlyCopyIsSafe ==
  ASSUME \A r, s \in Restores : r = s
  PROVE  Spec => NoOnlyCopyIsRemoved
<1>1. RestoreInv /\ AloneInv /\ [Next]_vars =>
        [\A v \in Volumes : vol[v] # Absent /\ vol'[v] = Absent =>
           lock \in Restores /\ (tmp[lock][v] # Absent \/ Continues(tx.arch.vols[v], vol[v])
                                  \/ vol[v].of \in {"empty", "torn"})]_vars
  BY RemovalStep
<1>2. RestoreInv /\ AloneInv /\ [Next]_vars => AloneInv'
  BY AloneStep
<1>3. Spec => RemovedIsCaptured
  BY InitInv, StepInv, AloneInit, <1>1, <1>2, PTL DEF Spec, RemovedIsCaptured
<1>. QED  BY <1>3, TarsAreKept DEF NoOnlyCopyIsRemoved
=============================================================================

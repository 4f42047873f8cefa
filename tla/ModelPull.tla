------------------------------- MODULE ModelPull -------------------------------
(***************************************************************************)
(* Acquiring the files of a model (internal/download, the verbs of         *)
(* cmd/villa that pull, and the catalog they resolve names through).       *)
(*                                                                         *)
(* A pull takes the shards of the catalog entry one by one: it asks for    *)
(* the headers, resumes a .part if there is one, streams into it while     *)
(* hashing, verifies, and renames.  Between two steps the network can      *)
(* fail, Ctrl-C cancels, the process dies, the file is uploaded again      *)
(* upstream, or the catalog is replaced (another villa, or catalog_path).  *)
(* `villa model pull` takes no lock; the verbs that pull and then serve    *)
(* hold the stack lock and look for the files first.                       *)
(*                                                                         *)
(* A file is the sequence of its blocks, a block the revision it is of; a  *)
(* hash is what was hashed.  Files are kept by inode, for a writer goes on *)
(* writing to the file it opened, whatever its name has become.            *)
(***************************************************************************)
EXTENDS Naturals, Sequences, FiniteSets, GgufGeometry

CONSTANTS
  Pullers,      \* the processes that may pull
  Shards,       \* the shards of the entry and of its sidecar, in order: a sequence
  Weights,      \* how many of them are the model's own
  Size,         \* the blocks of each revision of a file
  Seed,         \* the entry compiled in
  Entries,      \* the entries that a catalog may have instead
  Arch,         \* the architecture the header of each revision describes
  Architectures,\* more of them, for the reader of the header alone
  MaxFaults,    \* bound on failures and deaths
  MaxEdits      \* bound on re-uploads and on new catalogs

Revs == DOMAIN Size

Names == {Shards[i] : i \in DOMAIN Shards}

\* A header describes a model.
ASSUME PullAssumption ==
  /\ IsFiniteSet(Pullers)
  /\ Shards \in Seq(Names) /\ \A i, j \in DOMAIN Shards : Shards[i] = Shards[j] => i = j
  /\ Weights \in 1 .. Len(Shards) /\ Size \in Seq(Nat \ {0})
  /\ \A e \in Entries : e.rev \in Revs /\ e.sidecar \in BOOLEAN /\ e.listed \in BOOLEAN
  /\ \A r \in Revs : Regular(Arch[r])
  /\ \A a \in Architectures : Regular(a)
  /\ MaxFaults \in Nat /\ MaxEdits \in Nat

VARIABLES
  catalog,   \* the entry of the catalog file, and whether the file is rejected for another reason
  upstream,  \* the revision each shard has upstream
  store,     \* the files, by inode
  part,      \* the inode of each shard's .part, 0 for none
  final,     \* the inode of each shard's file, 0 for none
  pull,      \* the pull of each puller
  faults, edits,
  pinned,    \* ghost: the revisions that catalogs in use have pinned
  pulled,    \* ghost: what the last pull that ended well says of the model
  serving    \* ghost: what was found when a model was put in service last

disk == <<store, part, final>>
ghosts == <<pinned, pulled, serving>>
vars == <<catalog, upstream, disk, pull, faults, edits, ghosts>>

Content(r) == [i \in 1 .. Size[r] |-> r]

----------------------------------------------------------------------------
(* The catalog                                                              *)

\* A declared sidecar without shards, and any other rejection, refuses the whole
\* file; the entry compiled in is used then.
NoCheck(e) == TRUE                \* mutant: a sidecar without shards is accepted
ValidSidecars(e) == e.sidecar => e.listed

\* The entry compiled in would not be refused.
ASSUME SeedAssumption == Seed \in Entries /\ ValidSidecars(Seed)
Load == IF ~catalog.flawed /\ ValidSidecars(catalog.entry) THEN catalog.entry ELSE Seed

\* The sidecar's shards come after the model's own.
AllShards(e) == IF e.sidecar /\ e.listed THEN Shards ELSE SubSeq(Shards, 1, Weights)
PrimaryFile == Shards[1]

----------------------------------------------------------------------------
(* Files                                                                    *)

Open(p) == pull[p].pc = "stream"
Used == {part[s] : s \in Names} \cup {final[s] : s \in Names} \cup {pull[p].ino : p \in {q \in Pullers : Open(q)}}
Inodes == 1 .. 2 * Len(Shards) + Cardinality(Pullers)
\* What has neither a name nor a writer is gone.
Reclaim == store' = [n \in Inodes |-> IF n \in Used' THEN store[n] ELSE <<>>]
NewInode == CHOOSE n \in Inodes : n \notin Used
Exists(f, s) == f[s] # 0
Bytes(f, s) == IF Exists(f, s) THEN store[f[s]] ELSE <<>>

\* A write of one block at an offset; a file that got shorter leaves a hole, which
\* reads as zeros.
WriteAt(f, off, b) ==
  [i \in 1 .. (IF off + 1 > Len(f) THEN off + 1 ELSE Len(f)) |->
     IF i = off + 1 THEN b ELSE IF i > Len(f) THEN 0 ELSE f[i]]

\* Who looks for what, before it pulls: a swap and an install for every file by its
\* name, resident add and coding mode for the first one, the image and memory
\* models of an install for every file at its size.
ModelFilesPresent(e) == \A i \in DOMAIN AllShards(e) : Exists(final, Shards[i])
FilesIntact(e) ==
  \A i \in DOMAIN AllShards(e) : Exists(final, Shards[i]) /\ Len(Bytes(final, Shards[i])) = Size[e.rev]
Present(verb, e) ==
  CASE verb = "swap" -> ModelFilesPresent(e)
    [] verb = "resident" -> Exists(final, PrimaryFile)
    [] verb = "prestage" -> FilesIntact(e)
    [] verb = "pull" -> FALSE

----------------------------------------------------------------------------
(* A pull                                                                   *)

Verbs == {"pull", "swap", "resident", "prestage"}
Idle == [pc |-> "idle"]
Running(p) == pull[p].pc # "idle"

Init ==
  /\ catalog = [entry |-> Seed, flawed |-> FALSE]
  /\ upstream = [s \in Names |-> Load.rev]
  /\ store = [n \in Inodes |-> <<>>]
  /\ part = [s \in Names |-> 0] /\ final = [s \in Names |-> 0]
  /\ pull = [p \in Pullers |-> Idle] /\ faults = 0 /\ edits = 0
  /\ pinned = {Load.rev}
  /\ pulled = "nothing" /\ serving = "nothing"

Fault == faults < MaxFaults /\ faults' = faults + 1
Goes(p, next) == pull' = [pull EXCEPT ![p] = next]
At(p, pc) == pull[p].pc = pc
Entry(p) == pull[p].entry
Shard(p) == Shards[pull[p].at]

\* What the verb will have its unit load: a resident slot has no sidecar.
Needed(verb, e) ==
  CASE verb = "pull" -> {}
    [] verb = "resident" -> {Shards[i] : i \in 1 .. Weights}
    [] OTHER -> {Shards[i] : i \in 1 .. Weights} \cup (IF e.sidecar THEN Names ELSE {})

Whole(S) == \A s \in S : Exists(final, s) /\ Bytes(final, s) \in {Content(r) : r \in pinned}

\* What the dimensions of the entry are to the model on disk.
Confirmed(e) ==
  CASE e.geometry = NoGeometry -> "undeclared"
    [] TrueGeometry(Arch[Bytes(final, PrimaryFile)[1]]) = {e.geometry} -> "as declared"
    [] OTHER -> "otherwise"

\* The verb ends well; one that serves puts its units in service.
Done(p, verb, e) ==
  /\ Goes(p, Idle)
  /\ pulled' = IF Running(p) /\ verb # "prestage" THEN Confirmed(e) ELSE pulled
  /\ serving' = CASE verb = "pull" -> serving
                  [] verb # "pull" /\ Whole(Needed(verb, e)) -> "whole"
                  [] OTHER -> "torn"

\* It ends with an error, and nothing is served.
Fail(p) == Goes(p, Idle) /\ UNCHANGED <<pulled, serving>>

\* A verb holds the stack lock, `model pull` does not.
Locked == \E p \in Pullers : Running(p) /\ pull[p].verb # "pull"

Start(p, verb) ==
  /\ ~Running(p) /\ (verb # "pull" => ~Locked)
  /\ \E e \in {Load} :
       IF Present(verb, e) THEN Done(p, verb, e)
       ELSE /\ Goes(p, [pc |-> "shard", verb |-> verb, entry |-> e, at |-> 1])
            /\ UNCHANGED <<pulled, serving>>
  /\ UNCHANGED <<catalog, upstream, disk, faults, edits, pinned>>

\* A shard that is on disk at its size is not fetched again.
SomeFile(p) == Exists(final, Shard(p))          \* mutant: of whatever size it is
OnDisk(p) == Exists(final, Shard(p)) /\ Len(Bytes(final, Shard(p))) = Size[Entry(p).rev]
TakeShard(p) ==
  /\ At(p, "shard")
  /\ IF pull[p].at > Len(AllShards(Entry(p))) THEN Goes(p, [pull[p] EXCEPT !.pc = "geometry"])
     ELSE IF OnDisk(p) THEN Goes(p, [pull[p] EXCEPT !.at = @ + 1])
     ELSE Goes(p, [pull[p] EXCEPT !.pc = "head"])
  /\ UNCHANGED <<catalog, upstream, disk, faults, edits, ghosts>>

\* Headers that are there and disagree with the entry end the pull; a server need
\* not have them.
HeadVerify(p) ==
  /\ At(p, "head")
  /\ \/ upstream[Shard(p)] # Entry(p).rev /\ Fail(p)
     \/ Goes(p, [pull[p] EXCEPT !.pc = "seed"]) /\ UNCHANGED <<pulled, serving>>
  /\ UNCHANGED <<catalog, upstream, disk, faults, edits, pinned>>

\* The hash of what was fetched before; a .part that cannot be read is removed.
SeedHash(p) ==
  /\ At(p, "seed")
  /\ \/ /\ Goes(p, [pc |-> "get", verb |-> pull[p].verb, entry |-> Entry(p), at |-> pull[p].at,
                    hash |-> Bytes(part, Shard(p))])
        /\ UNCHANGED <<part, faults>>
     \/ /\ Fault /\ Bytes(part, Shard(p)) # <<>>
        /\ part' = [part EXCEPT ![Shard(p)] = 0]
        /\ Goes(p, [pc |-> "get", verb |-> pull[p].verb, entry |-> Entry(p), at |-> pull[p].at, hash |-> <<>>])
  /\ UNCHANGED <<catalog, upstream, final, edits, ghosts>>
  /\ Reclaim

\* The reply has the whole file, the rest of it, or, when there is no rest, an
\* error that leaves the .part as it is.  The .part is opened to be written anew
\* or to be appended to.
Streams(p, body, hash, append) ==
  \E n \in {IF Exists(part, Shard(p)) THEN part[Shard(p)] ELSE NewInode} :
    /\ part' = [part EXCEPT ![Shard(p)] = n]
    /\ store' = IF append /\ Exists(part, Shard(p)) THEN store ELSE [store EXCEPT ![n] = <<>>]
    /\ Goes(p, [pc |-> "stream", verb |-> pull[p].verb, entry |-> Entry(p), at |-> pull[p].at,
                hash |-> hash, body |-> body, ino |-> n, append |-> append])

ResumesOver(p) ==                 \* mutant: the whole file is appended to what is there
  /\ Streams(p, Content(upstream[Shard(p)]), <<>>, TRUE)
  /\ UNCHANGED <<pulled, serving>>
GetWhole(p) ==
  /\ Streams(p, Content(upstream[Shard(p)]), <<>>, FALSE)
  /\ UNCHANGED <<pulled, serving>>
GetRest(p) ==
  \E r \in {upstream[Shard(p)]}, from \in {Len(pull[p].hash)} :
    /\ from > 0
    /\ IF from < Size[r]
       THEN /\ Streams(p, SubSeq(Content(r), from + 1, Size[r]), pull[p].hash, TRUE)
            /\ UNCHANGED <<pulled, serving>>
       ELSE Fail(p) /\ UNCHANGED <<store, part>>
Get(p) ==
  /\ At(p, "get") /\ (GetWhole(p) \/ GetRest(p))
  /\ UNCHANGED <<catalog, upstream, final, faults, edits, pinned>>

\* One block, into the file and into the hash.
StreamToPart(p) ==
  /\ At(p, "stream") /\ pull[p].body # <<>>
  /\ \E b \in {Head(pull[p].body)}, n \in {pull[p].ino} :
       /\ store' = [store EXCEPT ![n] = WriteAt(@, IF pull[p].append THEN Len(@) ELSE Len(pull[p].hash), b)]
       /\ Goes(p, [pull[p] EXCEPT !.body = Tail(@), !.hash = Append(@, b)])
  /\ UNCHANGED <<catalog, upstream, part, final, faults, edits, ghosts>>

\* Size and hash of what went through this pull; what does not match is removed.
SizeOnly(p) == Len(pull[p].hash) = Size[Entry(p).rev]          \* mutant: the checksum is not compared
Verified(p) == pull[p].hash = Content(Entry(p).rev)
KeepPart(p) == UNCHANGED part          \* mutant: a rename that leaves the old name
RemovePart(p) == part' = [part EXCEPT ![Shard(p)] = 0]
Verify(p) ==
  /\ At(p, "stream") /\ pull[p].body = <<>>
  /\ IF Verified(p)
     THEN /\ Goes(p, [pc |-> "rename", verb |-> pull[p].verb, entry |-> Entry(p), at |-> pull[p].at])
          /\ UNCHANGED <<part, faults, pulled, serving>>
     ELSE /\ Fail(p)
          /\ (RemovePart(p) /\ UNCHANGED faults) \/ (UNCHANGED part /\ Fault)
  /\ UNCHANGED <<catalog, upstream, final, edits, pinned>>
  /\ Reclaim

RenamePart(p) ==
  /\ At(p, "rename")
  /\ \/ /\ Exists(part, Shard(p))
        /\ final' = [final EXCEPT ![Shard(p)] = part[Shard(p)]] /\ RemovePart(p)
        /\ Goes(p, [pull[p] EXCEPT !.pc = "shard", !.at = @ + 1])
        /\ UNCHANGED <<faults, pulled, serving>>
     \/ /\ IF Exists(part, Shard(p)) THEN Fault ELSE UNCHANGED faults
        /\ RemovePart(p) /\ Fail(p) /\ UNCHANGED final
  /\ Reclaim
  /\ UNCHANGED <<catalog, upstream, edits, pinned>>

\* The header of the first file against the entry's dimensions: on every pull, and
\* the file is kept when they disagree.  The image and memory models declare none.
Declared(verb, e) == IF verb = "prestage" THEN NoGeometry ELSE e.geometry
ReadHeader(f) == {HeaderOf(Arch[f[i]]) : i \in {1} \cap DOMAIN f}
HeaderAgrees(want, f) == want = NoGeometry \/ \E h \in ReadHeader(f) : Geometry(h) = {want}
VerifyGeometry(p) ==
  /\ At(p, "geometry")
  /\ IF HeaderAgrees(Declared(pull[p].verb, Entry(p)), Bytes(final, PrimaryFile))
     THEN Done(p, pull[p].verb, Entry(p))
     ELSE Fail(p)
  /\ UNCHANGED <<catalog, upstream, disk, faults, edits, pinned>>

\* The network fails, or Ctrl-C cancels the context: the .part stays.
Cut(p) ==
  /\ pull[p].pc \in {"shard", "head", "get", "stream"} /\ Fault /\ Fail(p)
  /\ UNCHANGED <<catalog, upstream, disk, edits, pinned>>

\* The process dies.
Die(p) ==
  /\ Running(p) /\ Fault /\ Goes(p, Idle)
  /\ UNCHANGED <<catalog, upstream, disk, edits, ghosts>>

----------------------------------------------------------------------------
(* The others                                                               *)

Edit == edits < MaxEdits /\ edits' = edits + 1

Reupload(s) ==
  /\ Edit /\ \E r \in Revs : upstream' = [upstream EXCEPT ![s] = r]
  /\ UNCHANGED <<catalog, disk, pull, faults, ghosts>>

\* Another villa, or another file at catalog_path.
NewCatalog ==
  /\ Edit /\ \E e \in Entries, flawed \in BOOLEAN : catalog' = [entry |-> e, flawed |-> flawed]
  /\ pinned' = pinned \cup {Load'.rev}
  /\ UNCHANGED <<upstream, disk, pull, faults, pulled, serving>>

Step(p) ==
  \/ TakeShard(p) \/ HeadVerify(p) \/ SeedHash(p) \/ Get(p) \/ StreamToPart(p)
  \/ Verify(p) \/ RenamePart(p) \/ VerifyGeometry(p)

Next ==
  \/ \E p \in Pullers : (\E v \in Verbs : Start(p, v)) \/ Step(p) \/ Cut(p) \/ Die(p)
  \/ \E s \in Names : Reupload(s)
  \/ NewCatalog

\* A pull goes on until it ends, and the operator runs `model pull` again and
\* again: every failure of it is told, and nothing else retries.
Fairness == \A p \in Pullers : WF_vars(Step(p)) /\ SF_vars(Start(p, "pull"))
Spec == Init /\ [][Next]_vars /\ Fairness

----------------------------------------------------------------------------
(* Properties                                                               *)

\* Inodes have one name, and a puller's copy of its work is about its shard.
TypeOK ==
  /\ catalog.entry \in Entries /\ catalog.flawed \in BOOLEAN
  /\ upstream \in [Names -> Revs] /\ pinned \subseteq Revs
  /\ \A n \in Inodes : \A i \in DOMAIN store[n] : store[n][i] \in Revs \cup {0}
  /\ \A f \in {part, final} : f \in [Names -> Inodes \cup {0}]
  /\ \A s, t \in Names :
       /\ Exists(part, s) => part[s] # final[t] /\ (part[s] = part[t] => s = t)
       /\ Exists(final, s) /\ final[s] = final[t] => s = t
  /\ \A p \in Pullers : Running(p) => pull[p].verb \in Verbs /\ pull[p].at \in 1 .. Len(Shards) + 1

\* A file with its final name is, block by block, what a catalog pinned, however
\* many pulls were cut or resumed on the way and whatever was uploaded in between
\* (download.go: "the final path appears only after SHA256 + size both verify").
\* It holds for one pull at a time.
PulledIsPinned == \A s \in Names : Exists(final, s) => Bytes(final, s) \in {Content(r) : r \in pinned}

\* What a verb puts in service is there: every file that its unit names, the
\* sidecar's included, is on disk and was verified.  And after a pull that ended
\* well the dimensions the fit is computed from are those of the model on disk,
\* counted over its layers: what the reader takes off a header is never a wrong
\* count (gguf.go: counting blocks would overstate the KV term).
ReaderCounts == \A a \in Architectures : Geometry(HeaderOf(a)) \subseteq TrueGeometry(a)
ServedIsWhole == serving # "torn" /\ ReaderCounts /\ pulled # "otherwise"

\* What villa says of the files it pulled is so: in their bytes and in their use.
PullsAreTrue == PulledIsPinned /\ ServedIsWhole

\* An interrupted pull is resumable (model.go: "Cancelling mid-transfer is safe and
\* resumable"): when upstream has what the catalog pins and the pull is run again,
\* it gets every file in the end.  Except over a .part that is as long as the file:
\* a server has no rest of it to send, and the pull fails until it is deleted.
Jammed == \E p \in Pullers, s \in Names : ~Running(p) /\ Len(Bytes(part, s)) >= Size[Load.rev]
Complete ==
  \A i \in DOMAIN AllShards(Load) :
    Exists(final, Shards[i]) /\ Len(Bytes(final, Shards[i])) = Size[Load.rev]
Offered == \A i \in DOMAIN AllShards(Load) : upstream[Shards[i]] = Load.rev
RetriedPullCompletes == <>[]Offered => []<>(Complete \/ Jammed)

=============================================================================

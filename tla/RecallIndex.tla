------------------------------ MODULE RecallIndex ------------------------------
(***************************************************************************)
(* `villa recall index` and `villa recall status` (cmd/villa/recall.go     *)
(* over internal/recall and internal/openwebui): the index of past chats   *)
(* in a knowledge collection of Open WebUI.                                *)
(*                                                                         *)
(* A run is a chain of calls to Open WebUI and writes of                   *)
(* recall-state.json.  Any of them can fail, a call can also take effect   *)
(* and lose its reply, and the process can die between two; the run then   *)
(* ends and is started again from what the state file says.  Nothing is    *)
(* locked: while a run is on, chats are written and deleted, the           *)
(* collection can be deleted in the browser, and other verbs swap the      *)
(* model or install another embedder.  One run at a time is modelled.      *)
(*                                                                         *)
(* A transcript is its chat's id and version; updated_at is the version.   *)
(***************************************************************************)
EXTENDS Naturals, FiniteSets, Sequences

CONSTANTS
  Chats,        \* the ids of chats, numbers: a run takes them in their order
  Models,       \* the chat models that can be served
  Embeddings,   \* the embedding models, each with its dimension
  NoEmbedding,  \* a state file that records none
  Humans,       \* the users that are not villa's service account
  MaxFaults,    \* bound on failed calls, failed writes, lost replies and deaths
  MaxEdits      \* bound on what others do, and on rebuilds

ASSUME RecallAssumption ==
  /\ Chats \subseteq Nat /\ IsFiniteSet(Chats) /\ NoEmbedding \notin Embeddings
  /\ Humans \in Nat /\ MaxFaults \in Nat /\ MaxEdits \in Nat

VARIABLES
  chats,     \* Open WebUI's chats: unborn, live or gone, with version and whether a transcript can be made
  kb,        \* the collection of recall's name: its id, 0 for none, the last id given, its files
  attached,  \* the pairs of a model and a collection wired into it
  served,    \* the model that is served
  config,    \* config.toml's embedding model
  embedder,  \* the one villa-embed runs
  disk,      \* recall-state.json
  run,       \* the run: its program counter, its copy of the state and its work
  faults, edits,
  emptied,   \* ghost: the collection lost its files and the state file still lists them
  stray,     \* ghost: files whose record was lost before or after it was written
  drifted    \* ghost: a run embedded while villa-embed ran something else than config.toml says

owui == <<chats, kb, attached>>
host == <<served, config, embedder>>
vars == <<owui, host, disk, run, faults, edits, emptied, stray, drifted>>

----------------------------------------------------------------------------
(* The pure core                                                            *)

Partial(f, c) == [d \in DOMAIN f \ {c} |-> f[d]]
With(f, c, v) == [d \in DOMAIN f \cup {c} |-> IF d = c THEN v ELSE f[d]]

\* An absent, corrupt or newer state file reads as nothing indexed.
EmptyState == [kb |-> 0, emb |-> NoEmbedding, pass |-> "never", chats |-> <<>>]

Live == {c \in Chats : chats[c].is = "live"}

\* The diff of the listed chats and the recorded ones: removals, then changed
\* chats, then new ones, each in the order of the ids.
InOrder(S) ==
  CHOOSE q \in [1 .. Cardinality(S) -> S] : \A i, j \in 1 .. Cardinality(S) : i < j => q[i] < q[j]
Work(kind, S) == [i \in DOMAIN InOrder(S) |-> [kind |-> kind, chat |-> InOrder(S)[i]]]
Changed(listed, known) == {c \in DOMAIN listed \cap DOMAIN known : listed[c] > known[c].at}
PlanKeepsDeleted(listed, known) ==          \* mutant: what was deleted stays
  Work("update", Changed(listed, known)) \o Work("add", DOMAIN listed \ DOMAIN known)
Plan(listed, known) ==
  Work("delete", DOMAIN known \ DOMAIN listed) \o Work("update", Changed(listed, known))
    \o Work("add", DOMAIN listed \ DOMAIN known)

EmbeddingSkew(st, emb) == st.emb \notin {NoEmbedding, emb}

Refuses(rebuild, ack) == (Humans > 1 /\ ~ack) \/ (~rebuild /\ EmbeddingSkew(disk, config))

PreparedState(rebuild) ==
  [disk EXCEPT !.chats = IF rebuild THEN <<>> ELSE @, !.emb = config, !.pass = "partial"]

\* recall status: nothing to add, update or remove, and the recorded collection
\* wired into the served model; a list that cannot be read never passes.
AttachmentStateFor(id) == id # 0 /\ <<served, id>> \in attached
StatusPasses ==
  /\ Plan([c \in Live |-> chats[c].at], disk.chats) = <<>>
  /\ AttachmentStateFor(disk.kb)

----------------------------------------------------------------------------
(* A run                                                                    *)

Idle == [pc |-> "idle"]

Init ==
  /\ \E born \in SUBSET Chats :
       chats = [c \in Chats |-> [is |-> IF c \in born THEN "live" ELSE "unborn", at |-> 1, text |-> TRUE]]
  /\ kb = [id |-> 0, last |-> 0, files |-> {}]
  /\ attached = {} /\ served \in Models
  /\ config \in Embeddings /\ embedder = config
  /\ disk = EmptyState /\ run = Idle /\ faults = 0 /\ edits = 0
  /\ emptied = FALSE /\ stray = {} /\ drifted = FALSE

At(pc) == run.pc = pc
Fault == faults < MaxFaults /\ faults' = faults + 1

\* What was done is answered, or the run ends there: a lost reply, or a death.
Then(next) == (run' = next /\ UNCHANGED faults) \/ (run' = Idle /\ Fault)
Goes(pc) == Then([run EXCEPT !.pc = pc])
Fails == run' = Idle /\ UNCHANGED faults

\* A call or a write that fails without effect, or a death before it.
Cut ==
  /\ run # Idle /\ Fault /\ run' = Idle
  /\ stray' = IF At("record") THEN stray \cup {run.file} ELSE stray
  /\ UNCHANGED <<owui, host, disk, edits, emptied, drifted>>

\* The gate, the users and the guards, before anything is changed.
Begin(rebuild, ack) ==
  /\ run = Idle /\ ~Refuses(rebuild, ack)
  /\ run' = [pc |-> IF rebuild /\ disk.kb # 0 THEN "reset" ELSE "ensure", st |-> PreparedState(rebuild),
             listed |-> <<>>, todo |-> <<>>, skipped |-> {}, at |-> 0, file |-> 0, model |-> served]
  /\ drifted' = (drifted \/ config # embedder)
  /\ IF rebuild THEN edits < MaxEdits /\ edits' = edits + 1 ELSE UNCHANGED edits
  /\ UNCHANGED <<owui, host, disk, faults, emptied, stray>>

\* --rebuild empties the recorded collection before the state file says so.
ResetKnowledge ==
  /\ At("reset")
  /\ \/ /\ run.st.kb = kb.id
        /\ kb' = [kb EXCEPT !.files = {}] /\ emptied' = TRUE /\ stray' = {}
        /\ Goes("ensure")
     \/ run.st.kb # kb.id /\ Fails /\ UNCHANGED <<kb, emptied, stray>>
  /\ UNCHANGED <<chats, attached, host, disk, edits, drifted>>

\* The collection is found by its name, or made.
EnsureKnowledge ==
  /\ At("ensure")
  /\ kb' = IF kb.id # 0 THEN kb ELSE [id |-> kb.last + 1, last |-> kb.last + 1, files |-> {}]
  /\ Then([run EXCEPT !.pc = "begin", !.st.kb = kb'.id])
  /\ UNCHANGED <<chats, attached, host, disk, edits, emptied, stray, drifted>>

\* The state file is replaced by the run's copy of the state.
Save(st) == disk' = st

SaveBegun ==
  /\ At("begin") /\ Save(run.st) /\ Goes("list")
  /\ emptied' = (emptied /\ (run.st.chats # <<>> \/ run.st.kb # kb.id))
  /\ UNCHANGED <<owui, host, edits, stray, drifted>>

\* Every chat of every human, and the work they make; then one chat at a time.
RecallChats ==
  /\ At("list")
  /\ \E listed \in {[c \in Live |-> chats[c].at]} :
       Then([run EXCEPT !.pc = "next", !.listed = listed, !.todo = Plan(listed, run.st.chats)])
  /\ UNCHANGED <<owui, host, disk, edits, emptied, stray, drifted>>

This == Head(run.todo)
Known == IF This.chat \in DOMAIN run.st.chats THEN run.st.chats[This.chat].file ELSE 0
HasOld == This.kind \in {"delete", "update"} /\ Known # 0
Next0(st) == [run EXCEPT !.pc = "next", !.st = st, !.todo = Tail(@)]

\* The old transcript leaves the collection before anything is put in its place.
RemoveKnowledgeFile ==
  /\ At("next") /\ run.todo # <<>> /\ HasOld
  /\ \/ /\ run.st.kb = kb.id
        /\ kb' = [kb EXCEPT !.files = {f \in @ : f.id # Known}]
        /\ Goes("removed")
     \/ run.st.kb # kb.id /\ Fails /\ UNCHANGED kb
  /\ UNCHANGED <<chats, attached, host, disk, edits, emptied, stray, drifted>>

\* The entry of a changed chat is kept and cleared, so that the next run takes it
\* up again if this one does not get further.
Cleared(st) == [st EXCEPT !.chats[This.chat] = [file |-> 0, at |-> 0]]
ClearEntry ==
  /\ At("removed") /\ This.kind = "update"
  /\ \E st \in {Cleared(run.st)} : Save(st) /\ Then([run EXCEPT !.pc = "fetch", !.st = st])
  /\ UNCHANGED <<owui, host, edits, emptied, stray, drifted>>

\* The entry of a chat that is gone, or of which no transcript can be made, is
\* dropped; one that was never uploaded has no file to remove first.
Dropped(st) == [st EXCEPT !.chats = Partial(@, This.chat)]
DropEntry ==
  /\ At("removed") \/ (At("next") /\ run.todo # <<>> /\ ~HasOld)
  /\ This.kind = "delete"
  /\ \E st \in {Dropped(run.st)} : Save(st) /\ Then(Next0(st))
  /\ UNCHANGED <<owui, host, edits, emptied, stray, drifted>>

\* The chat as it is now, which may be newer than the list, or gone since.
GetChat ==
  /\ At("fetch") \/ (At("next") /\ run.todo # <<>> /\ This.kind # "delete" /\ ~HasOld)
  /\ IF This.chat \in Live
     THEN Then([run EXCEPT !.pc = IF chats[This.chat].text THEN "join" ELSE "skip", !.at = chats[This.chat].at])
     ELSE Fails
  /\ UNCHANGED <<owui, host, disk, edits, emptied, stray, drifted>>

SkipStops ==          \* mutant: a chat without a transcript ends the run
  At("skip") /\ run' = Idle /\ UNCHANGED <<owui, host, disk, faults, edits, emptied, stray, drifted>>
SkipChat ==
  /\ At("skip")
  /\ \E st \in {Dropped(run.st)} :
       Save(st) /\ Then([Next0(st) EXCEPT !.skipped = @ \cup {This.chat}])
  /\ UNCHANGED <<owui, host, edits, emptied, stray, drifted>>

\* An id nothing refers to any more stands for a new one.
Used == stray \cup {f.id : f \in kb.files} \cup {disk.chats[c].file : c \in DOMAIN disk.chats}
NewFile == CHOOSE n \in 1 .. Cardinality(Used) + 1 : n \notin Used

\* Upload, processing and joining: what villa-embed runs makes the vectors.
\* A join whose reply is lost leaves the file in, or the deletion that follows
\* an error takes it out.
UploadToKnowledge ==
  /\ At("join")
  /\ \E n \in {NewFile} :
       \/ /\ run.st.kb = kb.id
          /\ kb' = [kb EXCEPT !.files = @ \cup {[id |-> n, chat |-> This.chat, at |-> run.at, emb |-> embedder]}]
          /\ Then([run EXCEPT !.pc = "record", !.file = n])
          /\ stray' = IF run' = Idle THEN stray \cup {n} ELSE stray
       \/ run.st.kb # kb.id /\ Fails /\ UNCHANGED <<kb, stray>>
  /\ UNCHANGED <<chats, attached, host, disk, edits, emptied, drifted>>

\* The record carries the version that was listed, not the one that was fetched.
RecordedLatest(st) ==          \* mutant: the version of the moment, not the listed one
  [st EXCEPT !.chats = With(@, This.chat, [file |-> run.file, at |-> chats[This.chat].at])]
RecordedNow(st) ==          \* mutant: the time of the run, not the chat's
  [st EXCEPT !.chats = With(@, This.chat, [file |-> run.file, at |-> MaxEdits + 2])]
Recorded(st) == [st EXCEPT !.chats = With(@, This.chat, [file |-> run.file, at |-> run.listed[This.chat]])]
RecordChat ==
  /\ At("record")
  /\ \E st \in {Recorded(run.st)} : Save(st) /\ Then(Next0(st))
  /\ UNCHANGED <<owui, host, edits, emptied, stray, drifted>>

\* The collection is wired into the model that is served now, and read back.
DiscoverModel ==
  /\ At("next") /\ run.todo = <<>>
  /\ Then([run EXCEPT !.pc = "attach", !.model = served])
  /\ UNCHANGED <<owui, host, disk, edits, emptied, stray, drifted>>

AttachKnowledge ==
  /\ At("attach")
  /\ attached' = attached \cup {<<run.model, run.st.kb>>}
  /\ Goes("stamp")
  /\ UNCHANGED <<chats, kb, host, disk, edits, emptied, stray, drifted>>

\* Only a pass that got this far is a complete one.
Stamp ==
  /\ At("stamp")
  /\ Save([run.st EXCEPT !.pass = "complete"])
  /\ run' = Idle
  /\ UNCHANGED <<owui, host, faults, edits, emptied, stray, drifted>>

Step ==
  \/ ResetKnowledge \/ EnsureKnowledge \/ SaveBegun \/ RecallChats
  \/ RemoveKnowledgeFile \/ ClearEntry \/ DropEntry \/ GetChat \/ SkipChat
  \/ UploadToKnowledge \/ RecordChat
  \/ DiscoverModel \/ AttachKnowledge \/ Stamp

----------------------------------------------------------------------------
(* The others                                                               *)

Others == edits < MaxEdits /\ edits' = edits + 1 /\ UNCHANGED <<run, faults>>

\* A chat is opened, gets another turn (which can leave a history no transcript
\* can be made of, or mend it), or is deleted.
Open(c) ==
  /\ Others /\ chats[c].is = "unborn" /\ chats' = [chats EXCEPT ![c].is = "live"]
  /\ UNCHANGED <<kb, attached, host, disk, emptied, stray, drifted>>
Write(c) ==
  /\ Others /\ c \in Live
  /\ \E t \in BOOLEAN : chats' = [chats EXCEPT ![c].at = @ + 1, ![c].text = t]
  /\ UNCHANGED <<kb, attached, host, disk, emptied, stray, drifted>>
Delete(c) ==
  /\ Others /\ c \in Live /\ chats' = [chats EXCEPT ![c].is = "gone"]
  /\ UNCHANGED <<kb, attached, host, disk, emptied, stray, drifted>>

DeleteCollection ==
  /\ Others /\ kb.id # 0 /\ kb' = [kb EXCEPT !.id = 0, !.files = {}]
  /\ emptied' = TRUE /\ stray' = {}
  /\ UNCHANGED <<chats, attached, host, disk, drifted>>

\* The state file is removed, or no longer parses.
LoseState ==
  /\ Others /\ run = Idle /\ disk # EmptyState /\ disk' = EmptyState
  /\ stray' = {f.id : f \in kb.files} /\ emptied' = FALSE
  /\ UNCHANGED <<owui, host, drifted>>

ModelSwap ==
  /\ Others /\ served' \in Models \ {served}
  /\ UNCHANGED <<owui, config, embedder, disk, emptied, stray, drifted>>
EditConfig ==
  /\ Others /\ config' \in Embeddings \ {config}
  /\ UNCHANGED <<owui, served, embedder, disk, emptied, stray, drifted>>
Install ==
  /\ Others /\ config # embedder /\ embedder' = config
  /\ drifted' = (drifted \/ run # Idle)
  /\ UNCHANGED <<owui, served, config, disk, emptied, stray>>

World ==
  \/ \E c \in Chats : Open(c) \/ Write(c) \/ Delete(c)
  \/ DeleteCollection \/ LoseState \/ ModelSwap \/ EditConfig \/ Install

Next == (\E rebuild, ack \in BOOLEAN : Begin(rebuild, ack)) \/ Step \/ Cut \/ World

\* Every message of a run that stopped ends in "re-run to resume": the operator
\* does, without --rebuild, and a run goes on until it ends.
Fairness == WF_vars(Begin(FALSE, TRUE)) /\ WF_vars(Step)
Spec == Init /\ [][Next]_vars /\ Fairness

----------------------------------------------------------------------------
(* Properties                                                               *)

IsState(st) ==
  /\ st.kb \in 0 .. kb.last /\ st.emb \in Embeddings \cup {NoEmbedding}
  /\ st.pass \in {"never", "partial", "complete"} /\ DOMAIN st.chats \subseteq Chats
  /\ \A c \in DOMAIN st.chats : st.chats[c].file \in Nat /\ st.chats[c].at \in 0 .. chats[c].at

\* The chats, the collection and the state file are what the code reads them as,
\* and the run's copy differs from the file in no more than the work of this run.
TypeOK ==
  /\ \A c \in Chats : chats[c].is \in {"unborn", "live", "gone"} /\ chats[c].at \in 1 .. MaxEdits + 1
  /\ kb.id \in {0, kb.last} /\ (kb.id = 0 => kb.files = {})
  /\ \A f \in kb.files : f.chat \in Chats /\ f.emb \in Embeddings /\ f.at \in 1 .. chats[f.chat].at
  /\ \A f, g \in kb.files : f.id = g.id => f = g
  /\ attached \subseteq Models \X (1 .. kb.last) /\ served \in Models /\ {config, embedder} \subseteq Embeddings
  /\ IsState(disk)
  /\ run # Idle => IsState(run.st) /\ run.todo \in Seq([kind : {"delete", "update", "add"}, chat : Chats])

\* What the state file says of a chat is so.  A chat recorded at its present
\* version has that transcript in the collection; nothing else is in there, but for
\* what is being recorded and what a cut run left; what is recorded was embedded
\* by the recorded model, unless the host ran another than config.toml said; and a
\* status that passes, when nothing emptied the collection, speaks of a collection
\* that is there and has every chat (recall.go: "never stale=0").
RecordedIsThere ==
  \A c \in Live \cap DOMAIN disk.chats :
    disk.chats[c].at >= chats[c].at =>
      \E f \in kb.files : f.id = disk.chats[c].file /\ f.chat = c /\ f.at = chats[c].at
NothingElse ==
  \A f \in kb.files :
    \/ f.id \in stray \/ (At("record") /\ f.id = run.file)
    \/ f.chat \in DOMAIN disk.chats /\ disk.chats[f.chat].file = f.id
OneEmbedding ==
  \A f \in kb.files : \A c \in DOMAIN disk.chats : disk.chats[c].file = f.id => f.emb = disk.emb
StateIsTrue ==
  /\ ~emptied => RecordedIsThere
  /\ NothingElse
  /\ ~drifted => OneEmbedding
  /\ ~emptied /\ StatusPasses =>
       disk.kb = kb.id /\ \A c \in Live : \E f \in kb.files : f.chat = c /\ f.at = chats[c].at

\* recall.go, step (9): a pass that is stamped complete is never one over a
\* collection that misses content.  Every chat it listed is in the collection at
\* the listed version or later, or is one it skipped; it kept no chat that was
\* gone; and the model it found served has the collection.
CompleteIsComplete ==
  At("stamp") /\ disk'.pass = "complete" /\ ~emptied =>
    /\ \A c \in DOMAIN run.listed \ run.skipped :
         \E f \in kb.files : f.id = disk'.chats[c].file /\ f.chat = c /\ f.at >= run.listed[c]
    /\ DOMAIN disk'.chats \subseteq DOMAIN run.listed
    /\ <<run.model, disk'.kb>> \in attached

\* What villa says of the index is so, in the state file and in the stamp.
IndexIsTrue == StateIsTrue /\ [][StateIsTrue' /\ CompleteIsComplete]_vars

\* Re-run to resume: whatever was cut, once faults and edits are over the plain
\* index, run again, brings every chat into the collection as it is, and takes
\* out every one that is gone; unless it refuses, for the embedding model was
\* changed, or the collection was emptied under the state file.
CaughtUp ==
  /\ \A c \in Live : chats[c].text => \E f \in kb.files : f.chat = c /\ f.at = chats[c].at
  /\ \A f \in kb.files : f.id \in stray \/ f.chat \in Live
RetriedIndexCatchesUp == <>[](CaughtUp \/ emptied \/ EmbeddingSkew(disk, config))

=============================================================================

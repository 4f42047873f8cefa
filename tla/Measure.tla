------------------------------ MODULE Measure ------------------------------
(***************************************************************************)
(* The measurements over a host that changes under them.  One invocation   *)
(* of villa is a proof before a cutover, a proof under a driven load or a  *)
(* bench; others crash, swap and take memory while it goes on.  With job   *)
(* "fold" nothing happens: the folds of the servers villa starts itself    *)
(* are compared with where they are.                                       *)
(***************************************************************************)
EXTENDS Residency, Bench

VARIABLE job          \* which of the three this invocation is, or "fold"

vars == <<hostVars, p, b, store, job>>

(* What an earlier villa, or a later one, may have saved. *)
EarlierReports ==
  {[mode |-> "single", fp |-> [model |-> m, backend |-> Vulkan, host |-> h, speculation |-> d],
    labels |-> <<Vulkan>>, sides |-> <<[kept |-> Reps, by |-> {[backend |-> Vulkan, model |-> m]}]>>,
    void |-> FALSE, version |-> v, alone |-> TRUE] :
      m \in Models, h \in Hosts, d \in BOOLEAN, v \in {SchemaVersion, SchemaVersion + 1}}

Init ==
  /\ HostInit /\ p = Idle /\ b = BenchIdle
  /\ job \in {"prove", "underload", "bench", "fold"}
  /\ store \in {<<>>} \cup (IF job = "bench" THEN {<<r>> : r \in EarlierReports} ELSE {})

Proves == job = "prove" /\ (StartProve \/ ProveStep) /\ UNCHANGED <<b, store, job>>
Drives == job = "underload" /\ (StartUnderLoad \/ LoadStep) /\ UNCHANGED <<b, store, job>>
Benches == job = "bench" /\ (Invoke \/ Ctrl_C \/ Kill \/ BenchStep) /\ UNCHANGED <<p, job>>
(* The host is followed while the invocation runs, and a swap of another  *)
(* process may be under way when it starts.                               *)
Running == {p.at, b.at} \ {"idle", "done"} # {}
Elsewhere ==
  /\ \/ Running /\ HostNext
     \/ ~Running /\ {p.at, b.at} = {"idle"} /\ job # "fold" /\ (SwapSave \/ OtherFinishes)
  /\ UNCHANGED <<p, b, store, job>>

Next == Proves \/ Drives \/ Benches \/ Elsewhere

Spec == Init /\ [][Next]_vars

---------------------------------------------------------------------------
(* What a pass or a counted run says. *)

\* inference/running_offload.go: a pass is evidence of the target's own, or it
\* was vouched for by others' memory together with a device line not its own.
Earned == Resident \/ Vouched
DraftEarned == server.draft = "gpu" \/ past # <<>>

\* residency.go Prove: "proven under load" - the generation it drove ended well,
\* and what runs at that moment is on the GPU, the draft too.
ProvePassIsEarned ==
  p.at = "fold" /\ p'.verdict = "pass" =>
    p.gen = "ok" /\ Earned /\ (p.cfg.draft => DraftEarned)

\* underload.go: the sample is read with a round launched and not joined and
\* the warmup behind it; a proof ends with every round joined, passes only on
\* such a sample, and never, where errors count, after a round that failed.
LoadPassIsEarned ==
  /\ p'.sampled /\ ~p.sampled =>
       /\ p.gen # "none" /\ p.done >= p.load.warmup
       /\ p'.verdict = "pass" => Earned
  /\ p.at # "done" /\ p'.at = "done" /\ p.at \notin {"idle", "poll", "select", "fold"} =>
       /\ p'.gen = "none"
       /\ p'.verdict = "pass" => p.sampled /\ (p.load.faltered => p.errs = 0)

\* bench.go: a run counts only when it ended and the server that runs when it
\* is judged, the one that served it unless it restarted since, is on the GPU.
CountedRunIsEarned ==
  b'.a.kept + b'.b.kept > b.a.kept + b.b.kept => Earned /\ (b.run.draft => DraftEarned)

PassIsEarned == [][ProvePassIsEarned /\ LoadPassIsEarned /\ CountedRunIsEarned]_vars

---------------------------------------------------------------------------
\* bench.go, benchstore.go: a band that is not void has its resident runs on
\* every side; unless another process changed the config meanwhile, each side
\* was served by what its label and the record's model say; and a delta is only
\* taken between two records of one model, host and speculation.
BandIsHonest ==
  /\ \A i \in DOMAIN store : LET r == store[i]
       IN /\ ~r.void => \A k \in DOMAIN r.sides : r.sides[k].kept >= benchMinResident
          /\ r.alone => \A k \in DOMAIN r.sides :
               r.sides[k].by \subseteq {[backend |-> r.labels[k], model |-> r.fp.model]}
  /\ Cardinality(Load) >= 2 =>
       LET pair == selectComparePair
       IN Comparable(pair[1].fp, pair[2].fp) =>
            /\ pair[1].fp.host # "" /\ pair[1].version <= SchemaVersion
            /\ [pair[1].fp EXCEPT !.backend = pair[2].fp.backend] = pair[2].fp

---------------------------------------------------------------------------
\* bench.go, "the original backend is restored on every exit path": whatever
\* failed or was cancelled, a bench that ended by itself leaves the config at the
\* backend it began with, or it warned that it does not, or another process swapped.
OriginalComesBack ==
  b.at = "done" /\ b.orig # NoBackend /\ ~touched => cfg.backend = b.orig \/ b.warned

\* What a finished bench leaves: its records, and the backend.
BenchIsHonest == BandIsHonest /\ OriginalComesBack

---------------------------------------------------------------------------
(* The other folds, on the server and what its log and the counters can be. *)

Full == [device |-> TokenOf[server.backend], vram |-> OnGpu(server.target, Weight)]
ServerLogs ==
  {Unread} \cup
  [blocks : {LoadsOf(server)}, fault : BOOLEAN, software : BOOLEAN, devices : {{}, {Full.device}},
   params : {Unread, [vram |-> Full.vram, ram |-> Weight - Full.vram]},
   layers : {Unread, [on |-> Full.vram, of |-> Weight]}, clip : {Host, Full.device}]

Read(log, w) ==
  [log |-> log, markers |-> markersOf(server.backend), weight |-> w, gtt |-> GTTUsed, busy |-> Unread]

ValidateReads(log) ==
  [log : {log}, markers : {markersOf(server.backend)}, weight : {weightBytes(cfg)},
   before : {Unread, 0, others}, after : {Unread, GTTUsed}, draft : {cfg.draft},
   started : BOOLEAN, ready : BOOLEAN, chat : BOOLEAN, cliff : BOOLEAN, vision : BOOLEAN]

\* whisper_offload.go, image_offload.go, validate.go: no server of villa's own
\* passes off the GPU.  Voice may be vouched for as chat is; the image server's
\* own figures cannot be; a validate's log proves the device and, when it counts
\* layers, all of them, and the growth proves some of the model, if nobody else
\* took memory over the start.
FoldsAreSound ==
  job = "fold" =>
    \A log \in ServerLogs :
      /\ ~cfg.draft /\ WhisperOffloadVerdict(Read(log, Weight)) = "pass" =>
           Earned /\ ~(log.software /\ server.backend \in Rejecting)
      /\ \A w \in {Weight, 2 * Weight} :
           ~cfg.draft /\ ImageOffloadVerdict(Read(log, w)) = "pass" => Resident /\ w = Weight
      /\ \A in \in ValidateReads(log) : Validate(in) = "pass" =>
           /\ in.chat /\ ~in.cliff /\ (cfg.draft => server.draft = "gpu")
           /\ log.layers # Unread => Resident
           /\ in.before = others => server.target # "cpu"
           /\ in.vision => log.clip = Full.device
=============================================================================

--------------------------- MODULE MeasureProofs ---------------------------
(***************************************************************************)
(* What a measurement can be trusted with, for every set of backends,      *)
(* models, loads and hosts.  The evidence is cut at one place: PassIsOwn   *)
(* says that the shared residency fold passes only when the model is on    *)
(* the GPU, or when memory of others together with a device line that is   *)
(* not the model's own vouched for it (Earned, in Measure).  Everything    *)
(* else is an invariant over the steps of a proof, of a bench and of the   *)
(* other processes, MeasureSafe, whose parts are stated first.             *)
(***************************************************************************)
EXTENDS Measure, FiniteSetTheorems, SequenceTheorems, WellFoundedInduction, TLAPS

\* What the host is.
Cfgs == [backend : Backends, model : Models, draft : BOOLEAN]
Servers == [backend : Backends, model : Models, target : Placements, draft : {"none", "gpu", "cpu"}, up : BOOLEAN]
Devices == {Host} \cup {TokenOf[x] : x \in Backends}
Lines == [device : Devices, some : BOOLEAN]

HostType ==
  /\ cfg \in Cfgs /\ server \in Servers /\ past \in Seq(SUBSET Lines) /\ others \in Nat
  /\ lock \in {"free", "other"} /\ fresh \in BOOLEAN /\ touched \in BOOLEAN
  /\ swap \in [at : {"none", "saved", "started"}, prior : Cfgs \cup {Unread}, made : Nat]

(* The server has a draft exactly when one is configured, which no one changes; a swap
   under way holds the lock, knows the config it replaced and is remembered. *)
HostAgrees ==
  /\ server.draft = "none" <=> ~cfg.draft
  /\ swap.at # "none" => lock = "other" /\ swap.prior \in Cfgs /\ swap.prior.draft = cfg.draft /\ touched
  /\ swap.at # "saved" => server.backend = cfg.backend /\ server.model = cfg.model

\* Where a proof stands.
Verdict == {"pass", "warn", "fail"}
Rounds == {"settle", "sampleload", "join"}
ProofType ==
  /\ p \in [at : {"idle", "poll", "sample", "select", "fold", "loop", "judge", "done"} \cup Rounds,
            cfg : Cfgs \cup {Unread}, load : Loads \cup {Unread},
            gen : {"none", "running", "ok", "bad"}, busy : {Unread, 0, 1}, done : Nat, errs : Nat,
            over : BOOLEAN, sampled : BOOLEAN, verdict : Verdict \cup {"none", "unevaluable"}]
  /\ p.at \notin {"idle", "done"} => p.cfg \in Cfgs /\ p.cfg.draft = cfg.draft
  /\ p.at \in {"loop", "judge"} \cup Rounds => p.load \in Loads
ProofPlaced ==
  /\ p.at = "idle" => p = Idle
  /\ p.at = "fold" => p.gen = "ok"
  /\ p.at \in {"loop", "judge"} => p.gen = "none"
  /\ p.at \in Rounds => p.gen # "none"
  /\ p.at \in {"settle", "sampleload"} => p.done >= p.load.warmup
  /\ p.at \in {"poll", "sample", "select", "fold"} => p.verdict = "none"

\* Where a bench stands.
Served == [backend : Backends, model : Models]
Side == [kept : Nat, by : SUBSET Served]
BenchType ==
  /\ b \in [at : {"idle", "check", "load", "side", "run", "proof", "flip", "restore", "report", "done"},
            ab : BOOLEAN, target : Backends \cup {NoBackend}, orig : Backends \cup {NoBackend},
            side : {"A", "B"}, warm : Nat, tries : Nat, run : Cfgs \cup {Unread},
            served : Served \cup {Unread}, a : Side, b : Side, err : BOOLEAN, cancelled : BOOLEAN,
            warned : BOOLEAN, exit : {"none", "killed", "blocked", "warn", "pass"}]
  /\ b.at = "idle" => b = BenchIdle
  /\ b.at \in {"idle", "check", "load"} => b.a = NoSide /\ b.b = NoSide /\ b.orig = NoBackend /\ b.side = "A"
  /\ b.at \in {"run", "proof"} => b.run \in Cfgs /\ b.run.draft = cfg.draft /\ b.served \in Served
  /\ b.at \notin {"idle", "check", "load", "done"} /\ b.ab => b.orig \in Backends /\ b.target \in Backends
  /\ b.at \in {"flip", "restore"} => b.ab
  /\ b.at # "done" /\ ~b.ab => b.orig = NoBackend /\ b.side = "A"

(* What served a run, while no other process swaps. *)
As(backend) == {[backend |-> backend, model |-> cfg.model]}
AloneA == IF b.ab THEN b.orig ELSE cfg.backend
BenchAlone ==
  ~touched /\ b.at # "done" =>
    /\ b.at \notin {"idle", "check", "load"} =>
         b.a.by \subseteq As(AloneA) /\ b.b.by \subseteq As(b.target)
    /\ b.at \in {"side", "run", "proof", "flip"} /\ b.ab => cfg.backend = IF b.side = "A" THEN b.orig ELSE b.target
    /\ b.at \in {"run", "proof"} => b.served \in As(cfg.backend)
    /\ b.at = "report" /\ b.ab => cfg.backend = b.orig \/ b.warned

\* What a saved report is, and what it keeps.
Records ==
  [mode : {"single", "ab"}, fp : [model : Models, backend : Backends, host : Hosts, speculation : BOOLEAN],
   labels : Seq(Backends), sides : Seq(Side), void : BOOLEAN, version : Nat, alone : BOOLEAN]
Kept(r) ==
  /\ ~r.void => \A k \in DOMAIN r.sides : r.sides[k].kept >= benchMinResident
  /\ r.alone => \A k \in DOMAIN r.sides : r.sides[k].by \subseteq {[backend |-> r.labels[k], model |-> r.fp.model]}
StoreKept == store \in Seq(Records) /\ \A i \in DOMAIN store : Kept(store[i])

\* One invocation does one of the three.
JobIs == job \in {"prove", "underload", "bench", "fold"} /\ (job # "bench" => b = BenchIdle) /\ (job \in {"bench", "fold"} => p = Idle)
----------------------------------------------------------------------------
(* The folds: what a pass rests on.                                        *)

\* A combined pass has neither a fail nor a warn among its signals.
LEMMA CombinePasses ==
  ASSUME NEW s, NEW t, combineOffload(s, t) \notin {"fail", "warn"}
  PROVE  s \notin {"fail", "warn"} /\ t \notin {"fail", "warn"}
BY DEF combineOffload

\* Two verdicts combine into a verdict.
LEMMA CombineVerdict ==
  ASSUME NEW s \in Verdict, NEW t \in Verdict
  PROVE  combineOffload(s, t) \in Verdict
BY DEF combineOffload, Verdict

\* A floor of the counters passes only on evidence of its own.
LEMMA FloorPasses ==
  ASSUME NEW in, NEW v, foldFloors(v, in) \notin {"fail", "warn"}
  PROVE  v \notin {"fail", "warn"} /\ in.weight # 0 /\ in.gtt >= in.weight
<1>1. combineOffload(v, gttFloor(in.gtt, in.weight)) \notin {"fail", "warn"}
  BY CombinePasses DEF foldFloors
<1>2. v \notin {"fail", "warn"} /\ gttFloor(in.gtt, in.weight) \notin {"fail", "warn"}
  BY <1>1, CombinePasses
<1>. QED  BY <1>2 DEF gttFloor

\* So do a verdict and the floors.
LEMMA FloorVerdict ==
  ASSUME NEW in, NEW v \in Verdict
  PROVE  foldFloors(v, in) \in Verdict
<1>1. gttFloor(in.gtt, in.weight) \in Verdict /\ gpuBusyFloor(in.busy) \in Verdict
  BY DEF gttFloor, gpuBusyFloor, Verdict
<1>. QED  BY <1>1, CombineVerdict DEF foldFloors

\* A log passes only on a line of the device with something on it; with a draft
\* expected, on such a line of the second load as well.
LEMMA BufferPasses ==
  ASSUME NEW log, NEW m, scrapeBufferResidency(log, m) \notin {"fail", "warn"}
  PROVE  log # Unread /\ OnDevice(AllLines(log), m)
BY DEF scrapeBufferResidency, bufferRule

\* The draft passes on the second load only.
LEMMA DraftPasses ==
  ASSUME NEW log, NEW m, judgeDraftBlock(log, m) \notin {"fail", "warn"}
  PROVE  ~(Len(log.blocks) < 2) /\ OnDevice(log.blocks[2], m)
BY DEF judgeDraftBlock

\* A draft that failed, or was not read, takes the pass away.
LEMMA FoldDraftPasses ==
  ASSUME NEW target, NEW draft, foldDraft(target, draft) \notin {"fail", "warn"}
  PROVE  target \notin {"fail", "warn"} /\ draft # "fail" /\ (target = "pass" => draft # "warn")
BY DEF foldDraft

\* The rules over buffer lines judge pass, warn or fail.
LEMMA BufferVerdict ==
  ASSUME NEW log, NEW m
  PROVE  scrapeBufferResidency(log, m) \in Verdict /\ judgeDraftBlock(log, m) \in Verdict
BY DEF scrapeBufferResidency, bufferRule, judgeDraftBlock, Verdict

\* scrapeLoadTensorsResidency: what a pass of the log rests on.
LEMMA TensorsPass ==
  ASSUME NEW log, NEW m, NEW draft, scrapeLoadTensorsResidency(log, m, draft) \notin {"fail", "warn"}
  PROVE  /\ log # Unread /\ OnDevice(AllLines(log), m)
         /\ draft => ~(Len(log.blocks) < 2) /\ OnDevice(log.blocks[2], m)
<1>1. CASE draft
  <2>1. scrapeBufferResidency(log, m) \notin {"fail", "warn"} /\ judgeDraftBlock(log, m) # "fail"
        /\ (scrapeBufferResidency(log, m) = "pass" => judgeDraftBlock(log, m) # "warn")
    BY <1>1, FoldDraftPasses DEF scrapeLoadTensorsResidency
  <2>2. judgeDraftBlock(log, m) \notin {"fail", "warn"}
    BY <2>1, BufferVerdict DEF Verdict
  <2>. QED  BY <2>1, <2>2, BufferPasses, DraftPasses
<1>2. CASE ~draft
  BY <1>2, BufferPasses DEF scrapeLoadTensorsResidency
<1>. QED  BY <1>1, <1>2

\* And it judges pass, warn or fail.
LEMMA TensorsVerdict ==
  ASSUME NEW log, NEW m, NEW draft
  PROVE  scrapeLoadTensorsResidency(log, m, draft) \in Verdict
BY BufferVerdict DEF scrapeLoadTensorsResidency, foldDraft, Verdict

\* What the shared residency fold passes on.
LEMMA RunningPasses ==
  ASSUME NEW in, RunningOffloadVerdict(in) = "pass"
  PROVE  /\ in.log # Unread /\ OnDevice(AllLines(in.log), in.markers) /\ in.weight # 0 /\ in.gtt >= in.weight
         /\ in.draft => ~(Len(in.log.blocks) < 2) /\ OnDevice(in.log.blocks[2], in.markers)
<1>1. foldFloors(scrapeLoadTensorsResidency(in.log, in.markers, in.draft), in) \notin {"fail", "warn"}
  BY DEF RunningOffloadVerdict
<1>. QED  BY <1>1, FloorPasses, TensorsPass

\* The shared residency fold judges pass, warn or fail.
LEMMA RunningVerdict ==
  ASSUME NEW in
  PROVE  RunningOffloadVerdict(in) \in Verdict
<1>1. foldFloors(scrapeLoadTensorsResidency(in.log, in.markers, in.draft), in) \in Verdict
  BY FloorVerdict, TensorsVerdict
<1>. QED  BY <1>1 DEF RunningOffloadVerdict, Verdict

----------------------------------------------------------------------------
(* The host: what its log and its counter say of where the model is.       *)

\* The lines of a load name the devices the model was placed on.
LEMMA LinesAre ==
  ASSUME NEW s \in Servers, NEW place
  PROVE  /\ LinesOf(s, place) \in SUBSET Lines
         /\ \A l \in LinesOf(s, place) : l.some /\ l.device # Host => place # "cpu"
<1>1. TokenOf[s.backend] \in Devices /\ Host \in Devices
  BY DEF Servers, Devices
<1>2. Line(TokenOf[s.backend], FALSE) \in Lines /\ Line(TokenOf[s.backend], TRUE) \in Lines /\ Line(Host, TRUE) \in Lines
  BY <1>1 DEF Line, Lines
<1>3. Line(TokenOf[s.backend], FALSE).some = FALSE /\ Line(Host, TRUE).device = Host
  BY DEF Line
<1>4. \A l \in LinesOf(s, place) : l.some /\ l.device # Host => place # "cpu"
  BY <1>3, Zenon DEF LinesOf
<1>5. \A l \in LinesOf(s, place) : l \in Lines
  BY <1>2, Zenon DEF LinesOf
<1>. QED  BY <1>4, <1>5

\* The loads a server logs: the model, then the draft if there is one.
LEMMA LoadsAre ==
  ASSUME NEW s \in Servers
  PROVE  /\ LoadsOf(s) \in Seq(SUBSET Lines)
         /\ s.draft = "none" => LoadsOf(s) = <<LinesOf(s, s.target)>>
         /\ s.draft # "none" => LoadsOf(s) = <<LinesOf(s, s.target), LinesOf(s, s.draft)>>
<1>. DEFINE S == SUBSET Lines
<1>1. LinesOf(s, s.target) \in S /\ LinesOf(s, s.draft) \in S
  BY LinesAre
<1>. HIDE DEF S
<1>2. s.draft = "none" => LoadsOf(s) = <<LinesOf(s, s.target)>>
  BY DEF LoadsOf
<1>3. s.draft # "none" => LoadsOf(s) = <<LinesOf(s, s.target), LinesOf(s, s.draft)>>
  BY DEF LoadsOf
<1>4. LoadsOf(s) \in Seq(S)
  <2>1. <<LinesOf(s, s.target)>> \in Seq(S)
    BY <1>1
  <2>2. <<LinesOf(s, s.target), LinesOf(s, s.draft)>> \in Seq(S)
    BY <1>1
  <2>. QED  BY <1>2, <1>3, <2>1, <2>2
<1>. QED  BY <1>2, <1>3, <1>4 DEF S

\* A device line of what runs now, or one an earlier invocation printed.
LEMMA LineIsSomeones ==
  ASSUME NEW s \in Servers, NEW older \in Seq(SUBSET Lines), NEW log, NEW m,
         log.blocks = LoadsOf(s) \/ log.blocks = older \o LoadsOf(s),
         m.token # Host, OnDevice(AllLines(log), m)
  PROVE  \/ s.target # "cpu" \/ s.draft \notin {"none", "cpu"}
         \/ \E i \in DOMAIN older : \E l \in older[i] : l.device # Host /\ l.some
<1>1. PICK l \in AllLines(log) : l.device # Host /\ l.some
  BY DEF OnDevice
<1>2. PICK i \in DOMAIN log.blocks : l \in log.blocks[i]
  BY <1>1 DEF AllLines
<1>3. \A k \in DOMAIN LoadsOf(s) : l \in LoadsOf(s)[k] => s.target # "cpu" \/ s.draft \notin {"none", "cpu"}
  BY <1>1, LoadsAre, LinesAre
<1>4. CASE log.blocks = LoadsOf(s)
  BY <1>2, <1>3, <1>4
<1>5. CASE log.blocks = older \o LoadsOf(s)
  <2>1. LoadsOf(s) \in Seq(SUBSET Lines)
    BY LoadsAre
  <2>2. i \in 1 .. (Len(older) + Len(LoadsOf(s)))
    BY <1>2, <1>5, <2>1
  <2>3. CASE i \in 1 .. Len(older)
    BY <1>1, <1>2, <1>5, <2>1, <2>3
  <2>4. CASE i \in (Len(older) + 1) .. (Len(older) + Len(LoadsOf(s)))
    <3>1. log.blocks[i] = LoadsOf(s)[i - Len(older)] /\ (i - Len(older)) \in DOMAIN LoadsOf(s)
      BY <1>5, <2>1, <2>4
    <3>. QED  BY <1>2, <1>3, <3>1
  <2>. QED  BY <2>2, <2>3, <2>4
<1>. QED  BY <1>4, <1>5

\* The draft's line: the second load that printed lines.
LEMMA DraftLineIsSomeones ==
  ASSUME NEW s \in Servers, NEW older \in Seq(SUBSET Lines), NEW log, NEW m,
         log.blocks = LoadsOf(s) \/ log.blocks = older \o LoadsOf(s),
         m.token # Host, ~(Len(log.blocks) < 2), OnDevice(log.blocks[2], m)
  PROVE  s.draft \notin {"none", "cpu"} \/ (older # <<>> /\ log.blocks = older \o LoadsOf(s))
<1>1. PICK l \in log.blocks[2] : l.device # Host /\ l.some
  BY DEF OnDevice
<1>2. CASE log.blocks = LoadsOf(s)
  <2>1. s.draft # "none"
    BY <1>2, LoadsAre
  <2>2. log.blocks[2] = LinesOf(s, s.draft)
    BY <1>2, <2>1, LoadsAre
  <2>. QED  BY <1>1, <2>1, <2>2, LinesAre
<1>3. CASE log.blocks = older \o LoadsOf(s) /\ older = <<>>
  <2>1. log.blocks = LoadsOf(s)
    BY <1>3, LoadsAre
  <2>. QED  BY <1>2, <2>1
<1>. QED  BY <1>2, <1>3

----------------------------------------------------------------------------
\* A pass of the shared fold on this host is earned: the counter covers the
\* weight only with the model on the GPU or with others' memory.
LEMMA PassIsOwn ==
  ASSUME HostType, HostAgrees, NEW c \in Cfgs, c.draft = cfg.draft, NEW log \in ResidencyJournal,
         NEW in, in.log = log, in.markers = markersOf(c.backend), in.gtt = GTTUsed, in.weight = weightBytes(c),
         RunningOffloadVerdict(in) = "pass"
  PROVE  Earned /\ (in.draft => DraftEarned)
<1>1. /\ log # Unread /\ OnDevice(AllLines(log), markersOf(c.backend)) /\ GTTUsed >= weightBytes(c)
      /\ in.draft => ~(Len(log.blocks) < 2) /\ OnDevice(log.blocks[2], markersOf(c.backend))
  BY RunningPasses
<1>2. markersOf(c.backend).token # Host
  BY HostAssumption DEF markersOf, Cfgs
<1>3. server \in Servers /\ past \in Seq(SUBSET Lines)
  BY DEF HostType
<1>4. log.blocks = LoadsOf(server) \/ log.blocks = past \o LoadsOf(server)
  BY <1>1 DEF ResidencyJournal, LogOf
<1>5. \/ server.target # "cpu" \/ server.draft \notin {"none", "cpu"}
      \/ \E i \in DOMAIN past : \E l \in past[i] : l.device # Host /\ l.some
  BY <1>1, <1>2, <1>3, <1>4, LineIsSomeones
<1>6. server.target # "gpu" => others > 0
  <2>. SUFFICES ASSUME server.target # "gpu", others = 0 PROVE FALSE
    BY DEF HostType
  <2>1. OnGpu(server.target, Weight) <= Weight \div 2 /\ OnGpu(server.target, Weight) \in Nat
    BY <1>3, HostAssumption DEF OnGpu, Servers, Placements
  <2>2. Weight \in Nat /\ DraftWeight \in Nat /\ Weight >= 2 /\ DraftWeight >= 1 /\ Weight \div 2 < Weight
    BY HostAssumption
  <2>3. server.draft = "none" => OnGpu(server.draft, DraftWeight) = 0
    BY DEF OnGpu
  <2>4. OnGpu(server.draft, DraftWeight) \in 0 .. DraftWeight
    BY <1>3, <2>2 DEF OnGpu, Servers
  <2>5. CASE c.draft
    BY <1>1, <2>1, <2>2, <2>4, <2>5 DEF GTTUsed, weightBytes
  <2>6. CASE ~c.draft
    <3>1. server.draft = "none"
      BY <2>6 DEF HostAgrees
    <3>. QED  BY <1>1, <2>1, <2>2, <2>3, <2>6, <3>1 DEF GTTUsed, weightBytes
  <2>. QED  BY <2>5, <2>6
<1>7. Earned
  BY <1>3, <1>5, <1>6 DEF Earned, Resident, Vouched, Servers, Placements
<1>8. in.draft => server.draft = "gpu" \/ past # <<>>
  BY <1>1, <1>2, <1>3, <1>4, DraftLineIsSomeones DEF Servers
<1>. QED  BY <1>7, <1>8 DEF DraftEarned

----------------------------------------------------------------------------
(* The folds of the servers villa starts itself.                           *)

\* What placed where the counters see.
LEMMA PlacedIs ==
  ASSUME NEW w \in Nat, NEW place
  PROVE  /\ OnGpu(place, w) \in 0 .. w
         /\ place # "gpu" => OnGpu(place, w) <= w \div 2
         /\ place \notin {"gpu", "part"} => OnGpu(place, w) = 0
BY DEF OnGpu

\* The memory counter is what others hold and what this server placed.
LEMMA CounterIs ==
  ASSUME HostType, HostAgrees
  PROVE  /\ GTTUsed \in Nat /\ weightBytes(cfg) \in Nat /\ GTTUsed >= others
         /\ server.draft \in {"none", "gpu", "cpu"} /\ server.target \in {"gpu", "part", "cpu"}
         /\ ~cfg.draft => weightBytes(cfg) = Weight /\ GTTUsed = others + OnGpu(server.target, Weight)
         /\ cfg.draft => weightBytes(cfg) = Weight + DraftWeight
<1>1. OnGpu(server.target, Weight) \in Nat /\ OnGpu(server.draft, DraftWeight) \in Nat
  BY PlacedIs, HostAssumption
<1>2. server.draft = "none" => OnGpu(server.draft, DraftWeight) = 0
  BY DEF OnGpu
<1>3. others \in Nat /\ Weight \in Nat /\ DraftWeight \in Nat
  BY HostAssumption DEF HostType
<1>4. server.draft \in {"none", "gpu", "cpu"} /\ server.target \in {"gpu", "part", "cpu"}
  BY DEF HostType, Servers, Placements
<1>5. server.draft = "none" <=> ~cfg.draft
  BY DEF HostAgrees
<1>. QED  BY <1>1, <1>2, <1>3, <1>4, <1>5 DEF GTTUsed, weightBytes

\* A pass on the server's own loads, none of them a draft's: the target has a line.
LEMMA OwnLine ==
  ASSUME HostType, HostAgrees, ~cfg.draft, NEW log, log.blocks = LoadsOf(server),
         OnDevice(AllLines(log), markersOf(server.backend))
  PROVE  server.target # "cpu"
<1>. DEFINE older == <<>>
            m == markersOf(server.backend)
<1>1. server \in Servers /\ server.draft = "none" /\ older \in Seq(SUBSET Lines) /\ DOMAIN older = {}
  BY DEF HostType, HostAgrees
<1>2. m.token # Host
  BY <1>1, HostAssumption DEF markersOf, Servers
<1>3. OnDevice(AllLines(log), m)
  OBVIOUS
<1>. HIDE DEF older, m
<1>4. \/ server.target # "cpu" \/ server.draft \notin {"none", "cpu"}
      \/ \E i \in DOMAIN older : \E l \in older[i] : l.device # Host /\ l.some
  BY <1>1, <1>2, <1>3, LineIsSomeones
<1>. QED  BY <1>1, <1>4

\* whisper_offload.go: voice passes on the target's line and the counter.
LEMMA WhisperIsSound ==
  ASSUME HostType, HostAgrees, ~cfg.draft, NEW log, log.blocks = LoadsOf(server),
         WhisperOffloadVerdict(Read(log, Weight)) = "pass"
  PROVE  Earned /\ ~(log.software /\ server.backend \in Rejecting)
<1>. DEFINE in == Read(log, Weight)
            m == markersOf(server.backend)
            s == IF softwareRenderer(log, m) THEN "fail" ELSE scrapeBufferResidency(log, m)
<1>1. in.log = log /\ in.markers = m /\ in.weight = Weight /\ in.gtt = GTTUsed
  BY DEF Read
<1>2. foldFloors(s, in) = "pass"
  BY DEF WhisperOffloadVerdict, Read
<1>3. s \notin {"fail", "warn"} /\ GTTUsed >= Weight
  <2>. HIDE DEF in, s
  <2>. QED  BY <1>1, <1>2, FloorPasses
<1>4. ~softwareRenderer(log, m) /\ scrapeBufferResidency(log, m) \notin {"fail", "warn"}
  BY <1>3
<1>5. log # Unread /\ OnDevice(AllLines(log), m)
  BY <1>4, BufferPasses
<1>6. ~(log.software /\ server.backend \in Rejecting)
  BY <1>4, <1>5 DEF softwareRenderer, markersOf
<1>7. server.target \in {"gpu", "part"}
  BY <1>5, OwnLine, CounterIs
<1>8. server.target = "part" => others > 0
  <2>1. OnGpu("part", Weight) <= Weight \div 2 /\ Weight \div 2 < Weight /\ OnGpu("part", Weight) \in Nat
    BY PlacedIs, HostAssumption
  <2>2. server.target = "part" => GTTUsed = others + OnGpu("part", Weight)
    BY CounterIs
  <2>3. others \in Nat /\ Weight \in Nat
    BY HostAssumption DEF HostType
  <2>. QED  BY <1>3, <2>1, <2>2, <2>3
<1>. QED  BY <1>6, <1>7, <1>8 DEF Earned, Resident, Vouched

\* image_offload.go: the image server's own figures cannot be vouched for.
LEMMA ImageIsSound ==
  ASSUME HostType, NEW log \in ServerLogs, NEW w \in {Weight, 2 * Weight},
         ImageOffloadVerdict(Read(log, w)) = "pass"
  PROVE  Resident /\ w = Weight
<1>. DEFINE in == Read(log, w)
            m == markersOf(server.backend)
            v == OnGpu(server.target, Weight)
<1>1. in.log = log /\ in.markers = m /\ in.weight = w
  BY DEF Read
<1>2. foldFloors(scrapeImagePlacement(log, m), in) = "pass" /\ Witnessed(log, w)
  BY <1>1 DEF ImageOffloadVerdict
<1>3. scrapeImagePlacement(log, m) \notin {"fail", "warn"}
  BY <1>2, FloorPasses
<1>4. log # Unread /\ log.params # Unread /\ ~(log.params.ram > 0)
  BY <1>3 DEF scrapeImagePlacement
<1>5. log.params \in {Unread, [vram |-> v, ram |-> Weight - v]}
  BY <1>4 DEF ServerLogs, Full
<1>6. log.params.vram = v /\ log.params.ram = Weight - v
  BY <1>4, <1>5
<1>. HIDE DEF v
<1>7. v \in 0 .. Weight /\ (server.target # "gpu" => v <= Weight \div 2) /\ Weight \div 2 < Weight /\ Weight \in Nat
  BY PlacedIs, HostAssumption DEF v
<1>8. v = Weight
  BY <1>4, <1>6, <1>7
<1>9. w = Weight
  BY <1>2, <1>6, <1>7, <1>8 DEF Witnessed
<1>. QED  BY <1>7, <1>8, <1>9 DEF Resident

\* validate.go: what a validate passes on.
LEMMA ValidatePasses ==
  ASSUME NEW in, Validate(in) = "pass"
  PROVE  /\ in.chat /\ ~in.cliff
         /\ scrapeOffloadLogTarget(in.log, in.markers) \notin {"fail", "warn"}
         /\ in.draft => judgeDraftBlock(in.log, in.markers) \notin {"fail", "warn"}
         /\ offloadSysfsDelta(in.before, in.after, in.weight) = "pass"
         /\ in.vision => scrapeProjectorLog(in.log, in.markers) = "pass"
<1>. DEFINE l == scrapeOffloadLog(in.log, in.markers, in.draft)
            d == offloadSysfsDelta(in.before, in.after, in.weight)
            t == scrapeOffloadLogTarget(in.log, in.markers)
            j == judgeDraftBlock(in.log, in.markers)
            pr == scrapeProjectorLog(in.log, in.markers)
            c == combineOffload(l, d)
            v == foldVerdict(c, in.chat, in.cliff)
<1>1. Validate(in) = IF ~in.started THEN "fail" ELSE IF ~in.ready THEN "warn"
                     ELSE IF in.vision THEN foldProjector(v, pr) ELSE v
  BY DEF Validate
<1>2. t \in Verdict /\ d \in Verdict /\ j \in Verdict /\ pr \in {"pass", "warn"}
  <2>1. t \in Verdict
    BY DEF scrapeOffloadLogTarget, Verdict
  <2>2. d \in Verdict
    BY DEF offloadSysfsDelta, Verdict
  <2>3. pr \in {"pass", "warn"}
    BY DEF scrapeProjectorLog
  <2>. HIDE DEF t, d, pr
  <2>. QED  BY <2>1, <2>2, <2>3, BufferVerdict DEF j
<1>3. l = IF in.draft THEN foldDraft(t, j) ELSE t
  BY DEF scrapeOffloadLog
<1>. HIDE DEF l, d, t, j, pr
<1>4. v = "pass" /\ (in.vision => pr = "pass")
  <2>1. in.vision => foldProjector(v, pr) = "pass"
    BY <1>1
  <2>2. v = "pass"
    BY <1>1, <2>1 DEF foldProjector
  <2>. QED  BY <1>2, <2>1, <2>2 DEF foldProjector
<1>5. c = "pass" /\ in.chat /\ ~in.cliff
  BY <1>4 DEF foldVerdict
<1>6. l \notin {"fail", "warn"} /\ d \notin {"fail", "warn"}
  BY <1>5, CombinePasses
<1>7. t \notin {"fail", "warn"} /\ (in.draft => j \notin {"fail", "warn"})
  BY <1>2, <1>3, <1>6, FoldDraftPasses DEF Verdict
<1>. QED  BY <1>2, <1>4, <1>5, <1>6, <1>7 DEF l, d, t, j, pr, Verdict

\* A validate that passes answered, without a cliff, its draft on the device; with layers
\* counted the whole model is, with the counter read before the start some of it is.
LEMMA ValidateIsSound ==
  ASSUME HostType, HostAgrees, NEW log \in ServerLogs, NEW in \in ValidateReads(log), Validate(in) = "pass"
  PROVE  /\ in.chat /\ ~in.cliff /\ (cfg.draft => server.draft = "gpu")
         /\ log.layers # Unread => Resident
         /\ in.before = others => server.target # "cpu"
         /\ in.vision => log.clip = Full.device
<1>. DEFINE m == markersOf(server.backend)
            v == OnGpu(server.target, Weight)
<1>1. in.log = log /\ in.markers = m /\ in.draft = cfg.draft /\ in.weight = weightBytes(cfg)
      /\ in.after \in {Unread, GTTUsed}
  BY DEF ValidateReads
<1>2. /\ in.chat /\ ~in.cliff
      /\ scrapeOffloadLogTarget(log, m) \notin {"fail", "warn"}
      /\ cfg.draft => judgeDraftBlock(log, m) \notin {"fail", "warn"}
      /\ offloadSysfsDelta(in.before, in.after, in.weight) = "pass"
      /\ in.vision => scrapeProjectorLog(log, m) = "pass"
  BY <1>1, ValidatePasses
<1>3. log # Unread
  BY <1>2 DEF scrapeOffloadLogTarget
<1>4. log.blocks = LoadsOf(server) /\ log.layers \in {Unread, [on |-> v, of |-> Weight]} /\ log.clip \in {Host, Full.device}
  BY <1>3 DEF ServerLogs, Full
<1>5. server \in Servers /\ m.token # Host /\ m.token = Full.device
  <2>1. server \in Servers
    BY DEF HostType
  <2>. QED  BY <2>1, HostAssumption DEF markersOf, Servers, Full
<1>6. cfg.draft => server.draft = "gpu"
  <2>1. cfg.draft => ~(Len(log.blocks) < 2) /\ OnDevice(log.blocks[2], m)
    BY <1>2, DraftPasses
  <2>2. <<>> \in Seq(SUBSET Lines)
    OBVIOUS
  <2>. HIDE DEF m
  <2>3. cfg.draft => server.draft \notin {"none", "cpu"}
    BY <1>4, <1>5, <2>1, <2>2, DraftLineIsSomeones
  <2>. QED  BY <1>5, <2>3 DEF Servers
<1>7. v \in 0 .. Weight /\ (server.target # "gpu" => v <= Weight \div 2) /\ (server.target = "cpu" => v = 0)
      /\ Weight \div 2 < Weight /\ Weight \in Nat /\ Weight > 1
  BY PlacedIs, HostAssumption
<1>. HIDE DEF v
<1>8. log.layers # Unread => Resident
  <2>. SUFFICES ASSUME log.layers # Unread PROVE Resident
    OBVIOUS
  <2>1. log.layers.on = v /\ log.layers.of = Weight
    BY <1>4
  <2>2. ~(log.layers.on < log.layers.of)
    BY <1>2, <1>3 DEF scrapeOffloadLogTarget
  <2>. QED  BY <1>7, <2>1, <2>2 DEF Resident
<1>9. in.before = others => server.target # "cpu"
  <2>. SUFFICES ASSUME in.before = others, server.target = "cpu" PROVE FALSE
    OBVIOUS
  <2>1. in.after = GTTUsed /\ Known(in.after) /\ 2 * (IF GTTUsed > others THEN GTTUsed - others ELSE 0) >= weightBytes(cfg)
    BY <1>1, <1>2 DEF offloadSysfsDelta, Known
  <2>2. OnGpu(server.draft, DraftWeight) \in 0 .. DraftWeight /\ DraftWeight \in 1 .. (Weight - 1) /\ others \in Nat
    BY PlacedIs, HostAssumption DEF HostType
  <2>3. GTTUsed = others + OnGpu(server.draft, DraftWeight)
    BY <1>7, <2>2 DEF GTTUsed, v
  <2>4. CASE cfg.draft
    BY <1>7, <2>1, <2>2, <2>3, <2>4 DEF weightBytes
  <2>5. CASE ~cfg.draft
    <3>1. GTTUsed = others
      BY <1>7, <2>2, <2>5, CounterIs DEF v
    <3>. QED  BY <1>7, <2>1, <2>2, <2>5, <3>1 DEF weightBytes
  <2>. QED  BY <2>4, <2>5
<1>10. in.vision => log.clip = Full.device
  BY <1>2, <1>3, <1>5 DEF scrapeProjectorLog
<1>. QED  BY <1>2, <1>6, <1>8, <1>9, <1>10

\* Whatever a server of villa's own logs, none passes off the GPU.
LEMMA FoldsHold == HostType /\ HostAgrees => FoldsAreSound
<1>. SUFFICES ASSUME HostType, HostAgrees, NEW log \in ServerLogs
              PROVE  /\ ~cfg.draft /\ WhisperOffloadVerdict(Read(log, Weight)) = "pass" =>
                          Earned /\ ~(log.software /\ server.backend \in Rejecting)
                     /\ \A w \in {Weight, 2 * Weight} :
                          ~cfg.draft /\ ImageOffloadVerdict(Read(log, w)) = "pass" => Resident /\ w = Weight
                     /\ \A in \in ValidateReads(log) : Validate(in) = "pass" =>
                          /\ in.chat /\ ~in.cliff /\ (cfg.draft => server.draft = "gpu")
                          /\ log.layers # Unread => Resident
                          /\ in.before = others => server.target # "cpu"
                          /\ in.vision => log.clip = Full.device
  BY DEF FoldsAreSound
<1>1. \A w \in {Weight, 2 * Weight} :
        ~cfg.draft /\ ImageOffloadVerdict(Read(log, w)) = "pass" => Resident /\ w = Weight
  BY ImageIsSound
<1>2. ASSUME ~cfg.draft, WhisperOffloadVerdict(Read(log, Weight)) = "pass"
      PROVE  Earned /\ ~(log.software /\ server.backend \in Rejecting)
  <2>1. log # Unread
    BY <1>2, FloorPasses DEF WhisperOffloadVerdict, softwareRenderer, scrapeBufferResidency, Read
  <2>2. log.blocks = LoadsOf(server)
    BY <2>1 DEF ServerLogs
  <2>. QED  BY <1>2, <2>2, WhisperIsSound
<1>. QED  BY <1>1, <1>2, ValidateIsSound

----------------------------------------------------------------------------
(* The host, step by step.                                                 *)

\* A server started under a config is that config's, wherever it loads.
LEMMA StartsAre ==
  ASSUME NEW c \in Cfgs, NEW s \in Starts(c)
  PROVE  /\ s \in Servers /\ s.backend = c.backend /\ s.model = c.model
         /\ s.draft = "none" <=> ~c.draft
<1>1. c.backend \in Backends /\ c.model \in Models
  BY DEF Cfgs
<1>2. s \in [backend : {c.backend}, model : {c.model}, target : Placements,
             draft : IF c.draft THEN {"gpu", "cpu"} ELSE {"none"}, up : BOOLEAN]
  BY DEF Starts
<1>. HIDE DEF Starts
<1>3. CASE c.draft
  BY <1>1, <1>2, <1>3 DEF Servers
<1>4. CASE ~c.draft
  BY <1>1, <1>2, <1>4 DEF Servers
<1>. QED  BY <1>3, <1>4

\* StartAs keeps the log of the server it replaces.
LEMMA StartAsDoes ==
  ASSUME HostType, NEW s \in Servers, StartAs(s)
  PROVE  server' = s /\ server' \in Servers /\ past' \in Seq(SUBSET Lines) /\ fresh' = FALSE
BY LoadsAre DEF StartAs, HostType

\* What every step keeps of the host.
HostSafe == HostType /\ HostAgrees
DraftStays == cfg'.draft = cfg.draft

\* A crash: the same backend and model come up again, perhaps elsewhere.
LEMMA CrashKeeps ==
  ASSUME HostSafe, Crash
  PROVE  HostSafe' /\ DraftStays
<1>. DEFINE c == [backend |-> server.backend, model |-> server.model, draft |-> cfg.draft]
<1>1. c \in Cfgs
  BY DEF HostSafe, HostType, Servers, Cfgs
<1>2. PICK s \in Starts(c) : StartAs(s)
  BY DEF Crash
<1>3. c.backend = server.backend /\ c.model = server.model /\ c.draft = cfg.draft
  OBVIOUS
<1>. HIDE DEF c
<1>4. s \in Servers /\ s.backend = server.backend /\ s.model = server.model /\ (s.draft = "none" <=> ~cfg.draft)
  BY <1>1, <1>3, StartsAre
<1>5. server' = s /\ past' \in Seq(SUBSET Lines) /\ fresh' = FALSE
  BY <1>2, <1>4, StartAsDoes DEF HostSafe
<1>6. UNCHANGED <<cfg, others, lock, swap, touched>>
  BY DEF Crash
<1>7. HostType'
  BY <1>4, <1>5, <1>6 DEF HostSafe, HostType
<1>8. HostAgrees'
  BY <1>4, <1>5, <1>6 DEF HostSafe, HostAgrees
<1>. QED  BY <1>6, <1>7, <1>8 DEF HostSafe, DraftStays

\* Another process's swap, its three moments: the config is saved...
LEMMA SwapSaveKeeps ==
  ASSUME HostSafe, SwapSave
  PROVE  HostSafe' /\ DraftStays /\ touched' = TRUE
<1>1. cfg' \in Cfgs /\ cfg'.draft = cfg.draft
  BY DEF SwapSave, HostSafe, HostType, Cfgs
<1>2. swap' = [at |-> "saved", prior |-> cfg, made |-> swap.made + 1] /\ lock' = "other" /\ touched' = TRUE
      /\ UNCHANGED <<server, past, others, fresh>>
  BY DEF SwapSave
<1>3. swap' \in [at : {"none", "saved", "started"}, prior : Cfgs \cup {Unread}, made : Nat]
  BY <1>2 DEF HostSafe, HostType
<1>4. HostType'
  BY <1>1, <1>2, <1>3 DEF HostSafe, HostType
<1>5. HostAgrees'
  BY <1>1, <1>2 DEF HostSafe, HostType, HostAgrees
<1>. QED  BY <1>1, <1>2, <1>4, <1>5 DEF HostSafe, DraftStays

\* ...the server is restarted under it...
LEMMA SwapRestartKeeps ==
  ASSUME HostSafe, SwapRestart
  PROVE  HostSafe' /\ DraftStays /\ touched' = touched
<1>1. cfg \in Cfgs
  BY DEF HostSafe, HostType
<1>2. PICK s \in Starts(cfg) : StartAs(s)
  BY DEF SwapRestart
<1>3. s \in Servers /\ s.backend = cfg.backend /\ s.model = cfg.model /\ (s.draft = "none" <=> ~cfg.draft)
  BY <1>1, StartsAre
<1>4. server' = s /\ past' \in Seq(SUBSET Lines) /\ fresh' = FALSE
  BY <1>2, <1>3, StartAsDoes DEF HostSafe
<1>5. UNCHANGED <<cfg, others, lock, touched>> /\ swap' = [swap EXCEPT !.at = "started"] /\ swap.at = "saved"
  BY DEF SwapRestart
<1>6. swap' \in [at : {"none", "saved", "started"}, prior : Cfgs \cup {Unread}, made : Nat]
      /\ swap'.prior = swap.prior /\ swap'.at = "started"
  BY <1>5 DEF HostSafe, HostType
<1>7. HostType'
  BY <1>3, <1>4, <1>5, <1>6 DEF HostSafe, HostType
<1>8. HostAgrees'
  BY <1>3, <1>4, <1>5, <1>6 DEF HostSafe, HostAgrees
<1>. QED  BY <1>5, <1>7, <1>8 DEF HostSafe, DraftStays

\* ...and the change is kept...
LEMMA SwapKeepKeeps ==
  ASSUME HostSafe, SwapKeep
  PROVE  HostSafe' /\ DraftStays /\ touched' = touched
<1>1. UNCHANGED <<cfg, server, past, others, fresh, touched>> /\ lock' = "free"
      /\ swap' = [swap EXCEPT !.at = "none", !.prior = Unread] /\ swap.at = "started"
  BY DEF SwapKeep
<1>2. swap' \in [at : {"none", "saved", "started"}, prior : Cfgs \cup {Unread}, made : Nat] /\ swap'.at = "none"
  BY <1>1 DEF HostSafe, HostType
<1>3. HostType'
  BY <1>1, <1>2 DEF HostSafe, HostType
<1>4. HostAgrees'
  BY <1>1, <1>2 DEF HostSafe, HostAgrees
<1>. QED  BY <1>1, <1>3, <1>4 DEF HostSafe, DraftStays

\* ...or taken back.
LEMMA SwapBackKeeps ==
  ASSUME HostSafe, SwapBack
  PROVE  HostSafe' /\ DraftStays /\ touched' = touched
<1>1. swap.prior \in Cfgs /\ swap.prior.draft = cfg.draft
  BY DEF SwapBack, HostSafe, HostAgrees
<1>2. PICK s \in Starts(swap.prior) : StartAs(s)
  BY DEF SwapBack
<1>3. s \in Servers /\ s.backend = swap.prior.backend /\ s.model = swap.prior.model /\ (s.draft = "none" <=> ~swap.prior.draft)
  BY <1>1, StartsAre
<1>4. server' = s /\ past' \in Seq(SUBSET Lines) /\ fresh' = FALSE
  BY <1>2, <1>3, StartAsDoes DEF HostSafe
<1>5. cfg' = swap.prior /\ UNCHANGED <<others, touched>> /\ lock' = "free" /\ swap' = [swap EXCEPT !.at = "none", !.prior = Unread]
  BY DEF SwapBack
<1>6. swap' \in [at : {"none", "saved", "started"}, prior : Cfgs \cup {Unread}, made : Nat] /\ swap'.at = "none"
  BY <1>5 DEF HostSafe, HostType
<1>7. HostType'
  BY <1>1, <1>3, <1>4, <1>5, <1>6 DEF HostSafe, HostType
<1>8. HostAgrees'
  BY <1>1, <1>3, <1>4, <1>5, <1>6 DEF HostSafe, HostAgrees
<1>. QED  BY <1>1, <1>5, <1>7, <1>8 DEF HostSafe, DraftStays

\* Others' memory comes and goes.
LEMMA OthersKeep ==
  ASSUME HostSafe, OthersChange
  PROVE  HostSafe' /\ DraftStays /\ touched' = touched
<1>1. others' \in Nat /\ UNCHANGED <<cfg, server, past, lock, swap, fresh, touched>>
  BY HostAssumption DEF OthersChange
<1>. QED  BY <1>1 DEF HostSafe, HostType, HostAgrees, DraftStays

\* Another process keeps the host whole and the draft setting; a swap is remembered.
LEMMA HostKeeps ==
  ASSUME HostSafe, HostNext
  PROVE  HostSafe' /\ DraftStays /\ (touched => touched') /\ (cfg' # cfg => touched') 
<1>1. CASE Crash
  BY <1>1, CrashKeeps DEF Crash
<1>2. CASE SwapSave
  BY <1>2, SwapSaveKeeps
<1>3. CASE SwapRestart
  BY <1>3, SwapRestartKeeps DEF SwapRestart
<1>4. CASE SwapKeep
  BY <1>4, SwapKeepKeeps DEF SwapKeep
<1>5. CASE SwapBack
  <2>1. touched
    BY <1>5 DEF SwapBack, HostSafe, HostAgrees
  <2>. QED  BY <1>5, <2>1, SwapBackKeeps
<1>6. CASE OthersChange
  BY <1>6, OthersKeep DEF OthersChange
<1>. QED  BY <1>1, <1>2, <1>3, <1>4, <1>5, <1>6 DEF HostNext, OtherFinishes

\* `backend set` out of the bench: the config is the one before or the one asked for.
LEMMA BackendSwapKeeps ==
  ASSUME HostSafe, NEW to \in Backends, NEW ok, NEW failed, runBackendSwap(to, ok, failed)
  PROVE  /\ HostSafe' /\ DraftStays /\ UNCHANGED <<swap, touched>> /\ cfg'.model = cfg.model
         /\ b' \in {ok, failed} /\ (b' = ok => cfg'.backend = to \/ ok = failed)
<1>. DEFINE new == [cfg EXCEPT !.backend = to]
<1>0. cfg \in Cfgs /\ new \in Cfgs /\ new.draft = cfg.draft /\ new.model = cfg.model /\ new.backend = to
  BY DEF HostSafe, HostType, Cfgs
<1>1. lock = "free" /\ UNCHANGED <<others, lock, swap, touched>> /\ swap.at = "none"
  BY DEF runBackendSwap, HostSafe, HostType, HostAgrees
<1>2. \/ b' = ok /\ cfg.backend = to /\ UNCHANGED <<cfg, server, past, fresh>>
      \/ b' = failed /\ UNCHANGED <<cfg, server, past, fresh>>
      \/ b' = ok /\ cfg' = new /\ \E s \in Starts(new) : StartAs(s)
      \/ b' = failed /\ cfg' \in {cfg, new} /\ \E s \in Starts(cfg') : StartAs(s)
  BY Zenon DEF runBackendSwap
<1>. HIDE DEF new
<1>3. ASSUME UNCHANGED <<cfg, server, past, fresh>> PROVE HostSafe'
  BY <1>1, <1>3 DEF HostSafe, HostType, HostAgrees
<1>4. ASSUME NEW s \in Starts(cfg'), cfg' \in {cfg, new}, StartAs(s) PROVE HostSafe'
  <2>1. cfg' \in Cfgs /\ cfg'.draft = cfg.draft
    BY <1>0, <1>4
  <2>2. s \in Servers /\ s.backend = cfg'.backend /\ s.model = cfg'.model /\ (s.draft = "none" <=> ~cfg'.draft)
    BY <1>4, <2>1, StartsAre
  <2>3. server' = s /\ past' \in Seq(SUBSET Lines) /\ fresh' = FALSE
    BY <1>4, <2>2, StartAsDoes DEF HostSafe
  <2>4. HostType'
    BY <1>1, <2>1, <2>2, <2>3 DEF HostSafe, HostType
  <2>5. HostAgrees'
    BY <1>1, <2>1, <2>2, <2>3 DEF HostSafe, HostAgrees
  <2>. QED  BY <2>4, <2>5 DEF HostSafe
<1>5. HostSafe'
  BY <1>2, <1>3, <1>4
<1>6. DraftStays /\ cfg'.model = cfg.model
  BY <1>0, <1>2 DEF DraftStays
<1>7. b' \in {ok, failed} /\ (b' = ok => cfg'.backend = to \/ ok = failed)
  BY <1>0, <1>2
<1>. QED  BY <1>1, <1>5, <1>6, <1>7

----------------------------------------------------------------------------
(* The proofs, step by step.                                               *)

ProofSafe == ProofType /\ ProofPlaced

\* A proof that does not move stays sound while the draft setting does.
LEMMA ProofKept ==
  ASSUME ProofSafe, p' = p, DraftStays
  PROVE  ProofSafe'
BY DEF ProofSafe, ProofType, ProofPlaced, DraftStays

\* The fold of a proof is a verdict.
LEMMA FoldVerdict ==
  ASSUME NEW log, NEW busy, NEW draft, NEW props
  PROVE  Fold(log, busy, draft, props) \in Verdict
BY RunningVerdict DEF Fold

\* What each step of a proof before a cutover does.
LEMMA ProveKeeps ==
  ASSUME HostSafe, ProofSafe, StartProve \/ ProveStep
  PROVE  ProofSafe' /\ DraftStays
<1>. USE DEF ProofSafe, ProofType, ProofPlaced, Rounds
<1>0. DraftStays
  BY DEF StartProve, ProveStep, PollHealth, Generate, Sample, Tick, Receive, Deadline, Judge, hostVars, DraftStays
<1>1. CASE StartProve
  <2>1. p' = [p EXCEPT !.at = "poll", !.cfg = cfg] /\ cfg \in Cfgs /\ cfg' = cfg /\ p.at = "idle"
    BY <1>1 DEF StartProve, HostSafe, HostType
  <2>2. p.verdict = "none" /\ p.gen = "none"
    BY <2>1 DEF Idle
  <2>. QED  BY <1>0, <2>1, <2>2 DEF DraftStays
<1>2. CASE PollHealth
  BY <1>2, <1>0 DEF PollHealth, Conclude, Verdict, DraftStays
<1>3. CASE Generate
  BY <1>3, <1>0 DEF Generate, hostVars, DraftStays
<1>4. CASE Sample
  <2>1. PICK x \in GPUBusyPercent(p.gen = "running") : p' = [p EXCEPT !.at = "select", !.busy = MaxBusy(@, x)]
    BY <1>4 DEF Sample
  <2>2. MaxBusy(p.busy, x) \in {Unread, 0, 1}
    BY DEF MaxBusy, GPUBusyPercent
  <2>3. p.at = "sample"
    BY <1>4 DEF Sample
  <2>. QED  BY <1>0, <2>1, <2>2, <2>3 DEF DraftStays
<1>5. CASE Tick
  BY <1>5, <1>0 DEF Tick, DraftStays
<1>6. CASE Receive
  <2>1. PICK x \in GPUBusyPercent(FALSE) :
          IF p.gen = "bad" THEN Conclude("fail") ELSE p' = [p EXCEPT !.at = "fold", !.busy = MaxBusy(@, x)]
    BY <1>6 DEF Receive
  <2>2. MaxBusy(p.busy, x) \in {Unread, 0, 1}
    BY DEF MaxBusy, GPUBusyPercent
  <2>3. p.at = "select" /\ p.gen \in {"ok", "bad"}
    BY <1>6 DEF Receive
  <2>4. CASE p.gen = "bad"
    BY <1>0, <2>1, <2>3, <2>4 DEF Conclude, Verdict, DraftStays
  <2>5. CASE p.gen = "ok"
    <3>1. p' = [p EXCEPT !.at = "fold", !.busy = MaxBusy(@, x)]
      BY <2>1, <2>5
    <3>. QED  BY <1>0, <2>2, <2>3, <2>5, <3>1 DEF DraftStays
  <2>. QED  BY <2>3, <2>4, <2>5
<1>7. CASE Deadline
  BY <1>7, <1>0 DEF Deadline, Conclude, Verdict, DraftStays
<1>8. CASE Judge
  <2>1. PICK v \in Verdict : p' = [p EXCEPT !.at = "done", !.verdict = v]
    BY <1>8, FoldVerdict DEF Judge, Conclude
  <2>. QED  BY <1>0, <2>1 DEF DraftStays
<1>. QED  BY <1>0, <1>1, <1>2, <1>3, <1>4, <1>5, <1>6, <1>7, <1>8 DEF ProveStep

\* What each step of a proof under a driven load does.
LEMMA LoadKeeps ==
  ASSUME HostSafe, ProofSafe, StartUnderLoad \/ LoadStep
  PROVE  ProofSafe' /\ DraftStays
<1>. USE DEF ProofSafe, ProofType, ProofPlaced, Rounds
<1>0. DraftStays
  BY DEF StartUnderLoad, LoadStep, NextRound, RoundEnds, Budget, Settle, SampleFold, Join, JudgeLoad, hostVars, DraftStays
<1>1. CASE StartUnderLoad
  <2>1. PICK l \in Loads :
          \/ server.up /\ p' = [p EXCEPT !.at = "loop", !.cfg = cfg, !.load = l]
          \/ p' = [p EXCEPT !.at = "done", !.verdict = "unevaluable"]
    BY <1>1 DEF StartUnderLoad
  <2>2. p.at = "idle"
    BY <1>1 DEF StartUnderLoad
  <2>6. p.gen = "none"
    BY <2>2 DEF Idle
  <2>3. cfg \in Cfgs /\ cfg' = cfg
    BY <1>1 DEF StartUnderLoad, HostSafe, HostType
  <2>4. CASE p' = [p EXCEPT !.at = "loop", !.cfg = cfg, !.load = l]
    BY <2>1, <2>2, <2>3, <2>4, <2>6, <1>0 DEF DraftStays
  <2>5. CASE p' = [p EXCEPT !.at = "done", !.verdict = "unevaluable"]
    BY <2>1, <2>2, <2>3, <2>5, <1>0 DEF DraftStays
  <2>. QED  BY <2>1, <2>4, <2>5
<1>2. CASE NextRound
  <2>1. CASE p' = [p EXCEPT !.at = "judge"]
    BY <1>2, <1>0, <2>1 DEF NextRound, DraftStays
  <2>2. CASE p' # [p EXCEPT !.at = "judge"]
    <3>1. p' = [p EXCEPT !.gen = "running",
                 !.at = IF p.sampled \/ p.done < p.load.warmup THEN "join"
                        ELSE IF p.load.settle THEN "settle" ELSE "sampleload"]
      BY <1>2, <2>2 DEF NextRound
    <3>2. p.at = "loop" /\ p.load \in Loads /\ p.done \in Nat /\ p.load.warmup \in Nat
      BY <1>2, LoadsAssumption DEF NextRound
    <3>3. cfg' = cfg
      BY <1>2 DEF NextRound, hostVars
    <3>4. CASE p.sampled \/ p.done < p.load.warmup
      <4>1. p' = [p EXCEPT !.gen = "running", !.at = "join"]
        BY <3>1, <3>4
      <4>. QED  BY <1>0, <3>2, <3>3, <4>1 DEF DraftStays
    <3>5. CASE ~(p.sampled \/ p.done < p.load.warmup)
      <4>1. p' = [p EXCEPT !.gen = "running", !.at = IF p.load.settle THEN "settle" ELSE "sampleload"]
        BY <3>1, <3>5
      <4>2. p.done >= p.load.warmup
        BY <3>2, <3>5
      <4>3. p' = [p EXCEPT !.gen = "running", !.at = "settle"] \/ p' = [p EXCEPT !.gen = "running", !.at = "sampleload"]
        BY <4>1
      <4>4. CASE p' = [p EXCEPT !.gen = "running", !.at = "settle"]
        BY <1>0, <3>2, <3>3, <4>2, <4>4 DEF DraftStays
      <4>5. CASE p' = [p EXCEPT !.gen = "running", !.at = "sampleload"]
        BY <1>0, <3>2, <3>3, <4>2, <4>5 DEF DraftStays
      <4>. QED  BY <4>3, <4>4, <4>5
    <3>. QED  BY <1>0, <3>4, <3>5
  <2>. QED  BY <2>1, <2>2
<1>3. CASE RoundEnds
  BY <1>3, <1>0 DEF RoundEnds, DraftStays
<1>4. CASE Budget
  BY <1>4, <1>0 DEF Budget, DraftStays
<1>5. CASE Settle
  BY <1>5, <1>0 DEF Settle, DraftStays
<1>6. CASE SampleFold
  <2>1. PICK v \in Verdict : p' = [p EXCEPT !.at = "join", !.sampled = TRUE, !.verdict = v]
    BY <1>6, FoldVerdict DEF SampleFold
  <2>2. p.at = "sampleload"
    BY <1>6 DEF SampleFold
  <2>. QED  BY <1>0, <2>1, <2>2 DEF DraftStays
<1>7. CASE Join
  <2>1. PICK n \in {0, 1} : p' = [p EXCEPT !.at = "loop", !.gen = "none", !.done = @ + 1, !.errs = @ + n]
    BY <1>7 DEF Join
  <2>2. p.at = "join"
    BY <1>7 DEF Join
  <2>3. p.errs + n \in Nat /\ p.done + 1 \in Nat
    BY <2>1
  <2>. DEFINE e == p.errs + n
              d == p.done + 1
  <2>4. p' = [p EXCEPT !.at = "loop", !.gen = "none", !.done = d, !.errs = e] /\ d \in Nat /\ e \in Nat
    BY <2>1, <2>3
  <2>. HIDE DEF d, e
  <2>. QED  BY <1>0, <2>4, <2>2 DEF DraftStays
<1>8. CASE JudgeLoad
  BY <1>8, <1>0 DEF JudgeLoad, Conclude, Verdict, DraftStays
<1>. QED  BY <1>0, <1>1, <1>2, <1>3, <1>4, <1>5, <1>6, <1>7, <1>8 DEF LoadStep

\* A pass of a proof is earned.
LEMMA ProvePassEarned ==
  ASSUME HostSafe, ProofSafe, Next
  PROVE  ProvePassIsEarned
<1>. SUFFICES ASSUME p.at = "fold", p'.verdict = "pass"
              PROVE  p.gen = "ok" /\ Earned /\ (p.cfg.draft => DraftEarned)
  BY DEF ProvePassIsEarned
<1>. USE DEF ProofSafe, ProofType, ProofPlaced
<1>1. CASE Judge
  <2>1. PICK log \in ResidencyJournal : p' = [p EXCEPT !.at = "done", !.verdict = Fold(log, p.busy, p.cfg.draft, Unread)]
    BY <1>1 DEF Judge, Conclude
  <2>2. Fold(log, p.busy, p.cfg.draft, Unread) = "pass"
    BY <2>1
  <2>. DEFINE in == [log |-> log, markers |-> markersOf(p.cfg.backend), draft |-> p.cfg.draft,
                     gtt |-> GTTUsed, weight |-> weightBytes(p.cfg), busy |-> p.busy,
                     props |-> Unread, model |-> p.cfg.model, ctx |-> 0]
  <2>3. RunningOffloadVerdict(in) = "pass"
    BY <2>2 DEF Fold
  <2>4. in.log = log /\ in.markers = markersOf(p.cfg.backend) /\ in.gtt = GTTUsed /\ in.weight = weightBytes(p.cfg)
        /\ in.draft = p.cfg.draft
    OBVIOUS
  <2>5. p.cfg \in Cfgs /\ p.cfg.draft = cfg.draft /\ HostType /\ HostAgrees
    BY DEF HostSafe
  <2>. HIDE DEF in
  <2>6. Earned /\ (in.draft => DraftEarned)
    BY <2>3, <2>4, <2>5, PassIsOwn
  <2>. QED  BY <2>4, <2>6
<1>2. CASE ~Judge
  <2>1. p.verdict = "none" /\ p.gen = "ok"
    OBVIOUS
  <2>2. p' = p
    BY <1>2, <2>1 DEF Next, Proves, Drives, Benches, Elsewhere, StartProve, ProveStep, PollHealth, Generate,
       Sample, Tick, Receive, Deadline, StartUnderLoad, LoadStep, NextRound, RoundEnds, Budget, Settle,
       SampleFold, Join, JudgeLoad
  <2>. QED  BY <2>1, <2>2
<1>. QED  BY <1>1, <1>2

\* The sample under load is read in flight and earned; the proof ends joined.
LEMMA LoadPassEarned ==
  ASSUME HostSafe, ProofSafe, Next
  PROVE  LoadPassIsEarned
<1>. USE DEF ProofSafe, ProofType, ProofPlaced, Rounds
<1>1. ASSUME p'.sampled, ~p.sampled
      PROVE  p.gen # "none" /\ p.done >= p.load.warmup /\ (p'.verdict = "pass" => Earned)
  <2>1. SampleFold
    <3>. SUFFICES ASSUME ~SampleFold PROVE p'.sampled = p.sampled
      BY <1>1
    <3>. QED  BY DEF Next, Proves, Drives, Benches, Elsewhere, StartProve, ProveStep, PollHealth, Generate,
       Sample, Tick, Receive, Deadline, Judge, StartUnderLoad, LoadStep, NextRound, RoundEnds, Budget, Settle,
       Join, JudgeLoad, Conclude
  <2>2. PICK log \in ResidencyJournal, props \in Props :
          p' = [p EXCEPT !.at = "join", !.sampled = TRUE, !.verdict = Fold(log, Unread, FALSE, props)]
    BY <2>1 DEF SampleFold
  <2>3. p.at = "sampleload"
    BY <2>1 DEF SampleFold
  <2>4. ASSUME p'.verdict = "pass" PROVE Earned
    <3>. DEFINE in == [log |-> log, markers |-> markersOf(p.cfg.backend), draft |-> FALSE,
                       gtt |-> GTTUsed, weight |-> weightBytes(p.cfg), busy |-> Unread,
                       props |-> props, model |-> p.cfg.model, ctx |-> 0]
    <3>1. Fold(log, Unread, FALSE, props) = "pass"
      BY <2>2, <2>4
    <3>2. RunningOffloadVerdict(in) = "pass"
      BY <3>1 DEF Fold
    <3>3. in.log = log /\ in.markers = markersOf(p.cfg.backend) /\ in.gtt = GTTUsed /\ in.weight = weightBytes(p.cfg)
      OBVIOUS
    <3>4. p.cfg \in Cfgs /\ p.cfg.draft = cfg.draft /\ HostType /\ HostAgrees
      BY <2>3 DEF HostSafe
    <3>. HIDE DEF in
    <3>. QED  BY <3>2, <3>3, <3>4, PassIsOwn
  <2>. QED  BY <2>3, <2>4
<1>2. ASSUME p.at # "done", p'.at = "done", p.at \notin {"idle", "poll", "select", "fold"}
      PROVE  p'.gen = "none" /\ (p'.verdict = "pass" => p.sampled /\ (p.load.faltered => p.errs = 0))
  <2>1. JudgeLoad
    <3>. SUFFICES ASSUME ~JudgeLoad PROVE p'.at # "done"
      BY <1>2
    <3>. QED  BY <1>2 DEF Next, Proves, Drives, Benches, Elsewhere, StartProve, ProveStep, PollHealth, Generate,
       Sample, Tick, Receive, Deadline, Judge, StartUnderLoad, LoadStep, NextRound, RoundEnds, Budget, Settle,
       SampleFold, Join
  <2>2. p.at = "judge" /\ p.gen = "none" /\ p.errs \in Nat
    BY <2>1 DEF JudgeLoad
  <2>. QED  BY <2>1, <2>2 DEF JudgeLoad, Conclude, DriveFaltered
<1>. QED  BY <1>1, <1>2 DEF LoadPassIsEarned

----------------------------------------------------------------------------
(* The bench.                                                              *)

BenchSafe == BenchType /\ BenchAlone /\ OriginalComesBack /\ StoreKept

\* Nobody swaps under a bench that knows of none, and the config is as it was.
LEMMA BenchKept ==
  ASSUME HostSafe, BenchSafe, b' = b, store' = store, HostNext
  PROVE  BenchSafe'
<1>1. DraftStays /\ (touched => touched') /\ (cfg' # cfg => touched')
  BY HostKeeps
<1>2. BenchType'
  BY <1>1 DEF BenchSafe, BenchType, DraftStays
<1>3. BenchAlone'
  BY <1>1 DEF BenchSafe, BenchAlone, As, AloneA
<1>4. OriginalComesBack'
  BY <1>1 DEF BenchSafe, OriginalComesBack
<1>5. StoreKept'
  BY DEF BenchSafe, StoreKept
<1>. QED  BY <1>2, <1>3, <1>4, <1>5 DEF BenchSafe

\* The sides of a bench are sides.
LEMMA SidesAre ==
  ASSUME BenchType
  PROVE  b.a \in Side /\ b.b \in Side /\ Now \in Side
BY DEF BenchType, Now

\* So is the empty one.
LEMMA NoSideIs == NoSide \in Side
BY DEF NoSide, Side

\* The steps of a bench outside its swaps leave the host and its store alone.
LEMMA InvokeKeeps ==
  ASSUME HostSafe, BenchSafe, Invoke
  PROVE  BenchSafe' /\ UNCHANGED cfg
<1>1. PICK ab \in BOOLEAN, t \in Backends \cup {NoBackend} : b' = [b EXCEPT !.at = "check", !.ab = ab, !.target = t]
  BY DEF Invoke
<1>2. b = BenchIdle /\ UNCHANGED <<cfg, store>>
  BY DEF Invoke, BenchSafe, BenchType
<1>3. BenchType'
  BY <1>1, <1>2, NoSideIs DEF BenchSafe, BenchType, BenchIdle
<1>4. BenchAlone'
  BY <1>1, <1>2 DEF BenchAlone, BenchIdle
<1>5. OriginalComesBack' /\ StoreKept'
  BY <1>1, <1>2 DEF BenchIdle, OriginalComesBack, BenchSafe, StoreKept
<1>. QED  BY <1>2, <1>3, <1>4, <1>5 DEF BenchSafe

\* The steps that leave the config, the record and the runs as they are.
LEMMA StillBenches ==
  ASSUME HostSafe, BenchSafe, Ctrl_C \/ Kill \/ benchEndpointReachable \/ LoadOriginal \/ Discard
  PROVE  BenchSafe'
<1>. USE DEF BenchSafe
<1>0. UNCHANGED <<cfg, touched, store>> /\ DraftStays
  BY DEF Ctrl_C, Kill, benchEndpointReachable, LoadOriginal, Discard, hostVars, DraftStays
<1>1. StoreKept'
  BY <1>0 DEF StoreKept
<1>2. CASE Ctrl_C
  BY <1>0, <1>1, <1>2 DEF Ctrl_C, BenchType, BenchAlone, As, AloneA, OriginalComesBack
<1>3. CASE Kill
  BY <1>0, <1>1, <1>3, NoSideIs DEF Kill, BenchType, BenchAlone, OriginalComesBack, BenchIdle
<1>4. CASE benchEndpointReachable
  BY <1>0, <1>1, <1>4 DEF benchEndpointReachable, BenchType, BenchAlone, OriginalComesBack
<1>5. CASE LoadOriginal
  <2>1. PICK o \in {b.orig, cfg.backend}, t \in Backends \cup {NoBackend} :
            b' = [b EXCEPT !.at = "side", !.orig = o, !.target = t]
          /\ (b.ab => o = cfg.backend /\ t \in Backends) /\ (~b.ab => o = NoBackend)
    <3>1. other(cfg.backend) \in Backends /\ cfg.backend \in Backends
      BY BenchAssumption DEF other, HostSafe, HostType, Cfgs
    <3>2. b.target \in Backends \cup {NoBackend} /\ b.at = "load" /\ b.orig = NoBackend
      BY <1>5 DEF LoadOriginal, BenchType
    <3>. QED  BY <1>5, <3>1, <3>2 DEF LoadOriginal
  <2>2. cfg.backend \in Backends /\ b.at = "load" /\ b.side = "A" /\ b.a = NoSide /\ b.b = NoSide
    BY <1>5 DEF LoadOriginal, HostSafe, HostType, Cfgs, BenchType
  <2>3. BenchType'
    BY <1>0, <2>1, <2>2 DEF BenchType
  <2>4. BenchAlone'
    BY <1>0, <2>1, <2>2 DEF BenchAlone, NoSide, BenchType
  <2>. QED  BY <1>1, <2>1, <2>3, <2>4 DEF OriginalComesBack
<1>6. CASE Discard
  BY <1>0, <1>1, <1>6 DEF Discard, BenchType, BenchAlone, As, AloneA, OriginalComesBack
<1>. QED  BY <1>2, <1>3, <1>4, <1>5, <1>6

\* The moments of a measured run.
LEMMA BeginsKeeps ==
  ASSUME HostSafe, BenchSafe, MeasureBegins
  PROVE  BenchSafe'
<1>. USE DEF BenchSafe
<1>0. UNCHANGED <<cfg, touched, store>> /\ cfg \in Cfgs /\ b.at = "side" /\ server \in Servers
  BY DEF MeasureBegins, HostSafe, HostType
<1>. DEFINE by == [backend |-> server.backend, model |-> server.model]
<1>1. b' = [b EXCEPT !.at = "run", !.tries = @ + 1, !.run = cfg, !.served = by] /\ b.tries + 1 \in Nat
  BY DEF MeasureBegins, BenchType
<1>2. by \in Served
  BY <1>0 DEF Servers, Served
<1>3. ~touched => by \in As(cfg.backend)
  BY DEF HostSafe, HostAgrees, As
<1>. HIDE DEF by
<1>4. BenchType'
  BY <1>0, <1>1, <1>2 DEF BenchType
<1>5. BenchAlone'
  BY <1>0, <1>1, <1>3 DEF BenchAlone, As, AloneA
<1>. QED  BY <1>0, <1>1, <1>4, <1>5 DEF OriginalComesBack, StoreKept

\* A side takes what it is given: the band grows by a run its own server served.
LEMMA OverKeeps ==
  ASSUME HostSafe, BenchSafe, b.at \in {"run", "proof"}, NEW s \in Side,
         ~touched => s.by \subseteq Now.by \cup {b.served},
         b' = Over(s), UNCHANGED <<cfg, touched, store>>
  PROVE  BenchSafe'
<1>. USE DEF BenchSafe
<1>1. CASE b.side = "A"
  <2>1. b' = [b EXCEPT !.a = s, !.at = "side", !.run = Unread, !.served = Unread]
    BY <1>1 DEF Over, SetSide
  <2>2. BenchType'
    BY <2>1 DEF BenchType
  <2>3. ~touched => s.by \subseteq As(AloneA)
    BY <1>1 DEF BenchAlone, As, AloneA, Now
  <2>4. BenchAlone'
    BY <2>1, <2>3, <1>1 DEF BenchAlone, As, AloneA
  <2>. QED  BY <2>1, <2>2, <2>4 DEF OriginalComesBack, StoreKept
<1>2. CASE b.side # "A"
  <2>1. b' = [b EXCEPT !.b = s, !.at = "side", !.run = Unread, !.served = Unread]
    BY <1>2 DEF Over, SetSide
  <2>2. BenchType'
    BY <2>1 DEF BenchType
  <2>3. b.ab
    BY <1>2 DEF BenchType
  <2>4. ~touched => s.by \subseteq As(b.target)
    BY <1>2, <2>3 DEF BenchAlone, As, Now
  <2>5. BenchAlone'
    BY <2>1, <2>4, <1>2 DEF BenchAlone, As, AloneA
  <2>. QED  BY <2>1, <2>2, <2>5 DEF OriginalComesBack, StoreKept
<1>. QED  BY <1>1, <1>2

\* A completion that ends goes on to its proof, or the run does not count.
LEMMA CompletesKeeps ==
  ASSUME HostSafe, BenchSafe, Completes
  PROVE  BenchSafe'
<1>1. b.at = "run" /\ UNCHANGED <<cfg, touched, store>> /\ (b' = [b EXCEPT !.at = "proof"] \/ b' = Over(Now))
  BY DEF Completes, hostVars, Void
<1>2. CASE b' = Over(Now)
  <2>1. Now \in Side
    BY SidesAre DEF BenchSafe
  <2>. QED  BY <1>1, <1>2, <2>1, OverKeeps
<1>3. CASE b' = [b EXCEPT !.at = "proof"]
  <2>1. BenchType'
    BY <1>1, <1>3 DEF BenchSafe, BenchType
  <2>2. BenchAlone'
    BY <1>1, <1>3 DEF BenchSafe, BenchAlone, As, AloneA
  <2>. QED  BY <1>1, <1>3, <2>1, <2>2 DEF BenchSafe, OriginalComesBack, StoreKept
<1>. QED  BY <1>1, <1>2, <1>3

\* What a judged run leaves, and that a counted one is earned.
LEMMA MeasureProofKeeps ==
  ASSUME HostSafe, BenchSafe, MeasureProof
  PROVE  BenchSafe' /\ CountedRunIsEarned
<1>. DEFINE in(log, busy) == [log |-> log, markers |-> markersOf(b.run.backend), draft |-> b.run.draft,
                  gtt |-> GTTUsed, weight |-> weightBytes(b.run), busy |-> busy,
                  props |-> Unread, model |-> b.run.model, ctx |-> 0]
            more == [Now EXCEPT !.kept = @ + 1, !.by = IF touched THEN @ ELSE @ \cup {b.served}]
<1>1. PICK log \in ResidencyJournal, busy \in GPUBusyPercent(TRUE) :
         b' = IF RunningOffloadVerdict(in(log, busy)) = "pass" THEN Over(more) ELSE Void
  BY DEF MeasureProof
<1>2. b.at = "proof" /\ UNCHANGED <<cfg, touched, store>>
  BY DEF MeasureProof, hostVars
<1>3. Now \in Side /\ b.run \in Cfgs /\ b.run.draft = cfg.draft /\ b.served \in Served
  BY <1>2, SidesAre DEF BenchSafe, BenchType
<1>4. more \in Side /\ more.kept = Now.kept + 1 /\ (~touched => more.by \subseteq Now.by \cup {b.served})
  <2>. DEFINE k == Now.kept + 1
              y == IF touched THEN Now.by ELSE Now.by \cup {b.served}
  <2>1. k \in Nat /\ y \in SUBSET Served /\ (~touched => y \subseteq Now.by \cup {b.served})
    BY <1>3 DEF Side
  <2>2. more = [Now EXCEPT !.kept = k, !.by = y] /\ k = Now.kept + 1
    OBVIOUS
  <2>. HIDE DEF in, k, y, more
  <2>. QED  BY <1>3, <2>1, <2>2 DEF Side
<1>5. CASE RunningOffloadVerdict(in(log, busy)) = "pass"
  <2>1. b' = Over(more)
    BY <1>1, <1>5
  <2>2. Earned /\ (b.run.draft => DraftEarned)
    <3>. DEFINE i == in(log, busy)
    <3>1. i.log = log /\ i.markers = markersOf(b.run.backend) /\ i.gtt = GTTUsed /\ i.weight = weightBytes(b.run)
          /\ i.draft = b.run.draft
      OBVIOUS
    <3>2. RunningOffloadVerdict(i) = "pass"
      BY <1>5
    <3>. HIDE DEF i
    <3>3. Earned /\ (i.draft => DraftEarned)
      BY <1>3, <3>1, <3>2, PassIsOwn DEF HostSafe
    <3>. QED  BY <3>1, <3>3
  <2>. HIDE DEF in, more
  <2>3. BenchSafe'
    BY <1>2, <1>4, <2>1, OverKeeps
  <2>. QED  BY <2>2, <2>3 DEF CountedRunIsEarned
<1>6. CASE RunningOffloadVerdict(in(log, busy)) # "pass"
  <2>. HIDE DEF in, more
  <2>1. b' = Over(Now)
    BY <1>1, <1>6 DEF Void
  <2>2. BenchSafe'
    BY <1>2, <1>3, <2>1, OverKeeps
  <2>3. b'.a = b.a /\ b'.b = b.b
    BY <2>1 DEF Over, SetSide, Now, BenchSafe, BenchType
  <2>4. b.a.kept \in Nat /\ b.b.kept \in Nat
    BY SidesAre DEF BenchSafe, Side
  <2>. QED  BY <2>2, <2>3, <2>4 DEF CountedRunIsEarned
<1>. QED  BY <1>5, <1>6

\* A side that ends goes to its flip, its restore or its report.
LEMMA SideEndsKeeps ==
  ASSUME HostSafe, BenchSafe, SideEnds
  PROVE  BenchSafe'
<1>1. b.at = "side" /\ UNCHANGED <<cfg, touched, store>>
  BY DEF SideEnds, hostVars
<1>2. \/ ~b.ab /\ b' = [b EXCEPT !.at = "report"]
      \/ b.ab /\ b.side = "A" /\ b' = [b EXCEPT !.at = "flip"]
      \/ b.ab /\ b' = [b EXCEPT !.at = "restore"]
  BY DEF SideEnds
<1>3. PICK at \in {"report", "flip", "restore"} :
          /\ b' = [b EXCEPT !.at = at]
          /\ at = "report" => ~b.ab
          /\ at # "report" => b.ab
  BY <1>2
<1>5. BenchType'
  BY <1>1, <1>3 DEF BenchSafe, BenchType
<1>6. b'.at = at /\ b'.a = b.a /\ b'.b = b.b /\ b'.ab = b.ab /\ b'.side = b.side /\ b'.orig = b.orig /\ b'.target = b.target
  BY <1>3 DEF BenchSafe, BenchType
<1>4. BenchAlone'
  BY <1>1, <1>3, <1>6 DEF BenchSafe, BenchAlone, As, AloneA
<1>. QED  BY <1>1, <1>6, <1>5, <1>4 DEF BenchSafe, OriginalComesBack, StoreKept

\* The flip: side B is measured only when the config is at the target.
LEMMA SwitchKeeps ==
  ASSUME HostSafe, BenchSafe, Switch
  PROVE  HostSafe' /\ DraftStays /\ BenchSafe'
<1>. DEFINE ok == [b EXCEPT !.at = "side", !.side = "B", !.warm = 0, !.tries = 0]
            failed == [b EXCEPT !.at = "restore", !.err = TRUE]
<1>1. b.at = "flip" /\ runBackendSwap(b.target, ok, failed) /\ store' = store
  BY DEF Switch
<1>2. b.ab /\ b.target \in Backends /\ b.orig \in Backends
  BY <1>1 DEF BenchSafe, BenchType
<1>3. ok.at = "side" /\ failed.at = "restore"
  BY DEF BenchSafe, BenchType
<1>4. /\ HostSafe' /\ DraftStays /\ UNCHANGED <<swap, touched>> /\ cfg'.model = cfg.model
      /\ b' \in {ok, failed} /\ (b' = ok => cfg'.backend = b.target)
  <2>. HIDE DEF ok, failed
  <2>. QED  BY <1>1, <1>2, <1>3, BackendSwapKeeps
<1>5. ASSUME b' = ok PROVE BenchType' /\ BenchAlone'
  <2>1. BenchType'
    BY <1>1, <1>2, <1>4, <1>5 DEF BenchSafe, BenchType, DraftStays
  <2>2. /\ b'.at = "side" /\ b'.a = b.a /\ b'.b = b.b /\ b'.ab /\ b'.side = "B"
        /\ b'.orig = b.orig /\ b'.target = b.target /\ cfg'.backend = b.target
    BY <1>2, <1>4, <1>5 DEF BenchSafe, BenchType
  <2>3. BenchAlone'
    BY <1>1, <1>2, <1>4, <2>2 DEF BenchSafe, BenchAlone, As, AloneA
  <2>. QED  BY <2>1, <2>3
<1>6. ASSUME b' = failed PROVE BenchType' /\ BenchAlone'
  <2>1. BenchType'
    BY <1>1, <1>2, <1>4, <1>6 DEF BenchSafe, BenchType, DraftStays
  <2>2. /\ b'.at = "restore" /\ b'.a = b.a /\ b'.b = b.b /\ b'.ab
        /\ b'.orig = b.orig /\ b'.target = b.target
    BY <1>2, <1>6 DEF BenchSafe, BenchType
  <2>3. BenchAlone'
    BY <1>1, <1>2, <1>4, <2>2 DEF BenchSafe, BenchAlone, As, AloneA
  <2>. QED  BY <2>1, <2>3
<1>7. OriginalComesBack'
  BY <1>3, <1>4 DEF OriginalComesBack
<1>8. StoreKept'
  BY <1>1 DEF StoreKept, BenchSafe
<1>. QED  BY <1>4, <1>5, <1>6, <1>7, <1>8 DEF BenchSafe

\* The restore: the config is back at the original, or a warning says it is not.
LEMMA RestoreKeeps ==
  ASSUME HostSafe, BenchSafe, Restore
  PROVE  HostSafe' /\ DraftStays /\ BenchSafe'
<1>. DEFINE ok == [b EXCEPT !.at = "report"]
            failed == [b EXCEPT !.at = "report", !.warned = TRUE]
<1>1. b.at = "restore" /\ runBackendSwap(b.orig, ok, failed) /\ store' = store
  BY DEF Restore
<1>2. b.ab /\ b.target \in Backends /\ b.orig \in Backends
  BY <1>1 DEF BenchSafe, BenchType
<1>3. ok.at = "report" /\ failed.at = "report" /\ failed.warned = TRUE
  BY DEF BenchSafe, BenchType
<1>4. /\ HostSafe' /\ DraftStays /\ UNCHANGED <<swap, touched>> /\ cfg'.model = cfg.model
      /\ b' \in {ok, failed} /\ (b' = ok => cfg'.backend = b.orig \/ ok = failed)
  <2>. HIDE DEF ok, failed
  <2>. QED  BY <1>1, <1>2, BackendSwapKeeps
<1>5. BenchType'
  BY <1>1, <1>2, <1>4 DEF BenchSafe, BenchType, DraftStays
<1>6. cfg'.backend = b.orig \/ b'.warned
  BY <1>3, <1>4
<1>7. BenchAlone'
  BY <1>1, <1>2, <1>4, <1>6 DEF BenchSafe, BenchType, BenchAlone, As, AloneA
<1>8. OriginalComesBack'
  BY <1>3, <1>4 DEF OriginalComesBack
<1>9. StoreKept'
  BY <1>1 DEF StoreKept, BenchSafe
<1>. QED  BY <1>4, <1>5, <1>7, <1>8, <1>9 DEF BenchSafe

\* A report is of the config at its end; the band it keeps is full, or is void.
LEMMA ReportKeeps ==
  ASSUME HostSafe, BenchSafe, Report
  PROVE  BenchSafe'
<1>0. b.at = "report" /\ UNCHANGED <<cfg, touched>>
  BY DEF Report, hostVars
<1>1. PICK e \in {"blocked", "warn", "pass"} :
         b' = [BenchIdle EXCEPT !.at = "done", !.orig = b.orig, !.warned = b.warned, !.exit = e]
  BY DEF Report
<1>2. BenchType'
  <2>1. b.orig \in Backends \cup {NoBackend} /\ b.warned \in BOOLEAN
    BY DEF BenchSafe, BenchType
  <2>. DEFINE o == b.orig
              w == b.warned
  <2>2. b' = [at |-> "done", ab |-> FALSE, target |-> NoBackend, orig |-> o,
              side |-> "A", warm |-> 0, tries |-> 0, run |-> Unread, served |-> Unread,
              a |-> NoSide, b |-> NoSide, err |-> FALSE, cancelled |-> FALSE, warned |-> w, exit |-> e]
    BY <1>1 DEF BenchIdle
  <2>3. o \in Backends \cup {NoBackend} /\ w \in BOOLEAN
    BY <2>1
  <2>. HIDE DEF o, w
  <2>. QED  BY <2>2, <2>3, NoSideIs DEF BenchType
<1>3. BenchAlone'
  BY <1>1 DEF BenchAlone, BenchIdle
<1>4. OriginalComesBack'
  <2>1. b'.orig = b.orig /\ b'.warned = b.warned
    BY <1>1 DEF BenchIdle
  <2>2. b.orig # NoBackend => b.ab
    BY <1>0 DEF BenchSafe, BenchType
  <2>3. ~touched /\ b.ab => cfg.backend = b.orig \/ b.warned
    BY <1>0 DEF BenchSafe, BenchAlone
  <2>. QED  BY <1>0, <2>1, <2>2, <2>3 DEF OriginalComesBack
<1>5. StoreKept'
  <2>1. CASE store' = store
    BY <2>1 DEF BenchSafe, StoreKept
  <2>2. CASE store' # store
    <3>. DEFINE bk == IF b.ab THEN b.orig ELSE cfg.backend
    <3>1. PICK h \in Hosts : store' = Append(store, savedReportFromResult(captureBenchFingerprint(cfg, bk, h)))
      BY <2>2 DEF Report
    <3>. DEFINE fp == captureBenchFingerprint(cfg, bk, h)
                r == savedReportFromResult(fp)
                ls == IF b.ab THEN <<b.orig, b.target>> ELSE <<fp.backend>>
                ss == IF b.ab THEN <<b.a, b.b>> ELSE <<b.a>>
    <3>2. cfg \in Cfgs /\ touched \in BOOLEAN
      BY DEF HostSafe, HostType
    <3>3. b.a \in Side /\ b.b \in Side /\ b.ab \in BOOLEAN /\ (b.ab => b.orig \in Backends /\ b.target \in Backends)
      BY <1>0 DEF BenchSafe, BenchType
    <3>4. bk \in Backends
      BY <3>2, <3>3 DEF Cfgs
    <3>5. fp \in [model : Models, backend : Backends, host : Hosts, speculation : BOOLEAN]
          /\ fp.backend = bk /\ fp.model = cfg.model
      <4>. HIDE DEF bk
      <4>. QED  BY <3>2, <3>4 DEF captureBenchFingerprint, Cfgs
    <3>6. ls \in Seq(Backends) /\ ss \in Seq(Side)
      <4>. HIDE DEF fp, bk
      <4>. QED  BY <3>3, <3>4, <3>5
    <3>7. r.labels = ls /\ r.sides = ss /\ r.void = VoidExhausted /\ r.alone = ~touched /\ r.fp = fp
      BY DEF savedReportFromResult
    <3>8. r \in Records
      <4>1. VoidExhausted \in BOOLEAN
        BY DEF VoidExhausted
      <4>. HIDE DEF fp, ls, ss
      <4>2. r = [mode |-> IF b.ab THEN "ab" ELSE "single", fp |-> fp, labels |-> ls, sides |-> ss,
                 void |-> VoidExhausted, version |-> SchemaVersion, alone |-> ~touched]
        BY DEF savedReportFromResult, ls, ss
      <4>3. SchemaVersion \in Nat
        BY BenchAssumption
      <4>. HIDE DEF r
      <4>. QED  BY <3>2, <3>3, <3>5, <3>6, <4>1, <4>2, <4>3 DEF Records
    <3>9. Kept(r)
      <4>1. ASSUME ~VoidExhausted, NEW k \in DOMAIN ss PROVE ss[k].kept >= benchMinResident
        <5>1. b.a.kept >= benchMinResident /\ (b.ab => b.b.kept >= benchMinResident)
          BY <4>1 DEF VoidExhausted, Enough
        <5>2. CASE b.ab
          BY <5>1, <5>2, <4>1
        <5>3. CASE ~b.ab
          BY <5>1, <5>3, <4>1
        <5>. QED  BY <5>2, <5>3
      <4>2. ASSUME ~touched, NEW k \in DOMAIN ss
            PROVE  ss[k].by \subseteq {[backend |-> ls[k], model |-> cfg.model]}
        <5>1. b.a.by \subseteq As(bk) /\ b.b.by \subseteq As(b.target)
          BY <1>0, <4>2 DEF BenchSafe, BenchAlone, AloneA
        <5>. HIDE DEF fp
        <5>2. CASE b.ab
          BY <5>1, <5>2, <4>2 DEF As
        <5>3. CASE ~b.ab
          BY <5>1, <5>3, <4>2, <3>5 DEF As
        <5>. QED  BY <5>2, <5>3
      <4>. HIDE DEF r, ls, ss, fp
      <4>. QED  BY <3>5, <3>7, <4>1, <4>2 DEF Kept
    <3>. HIDE DEF r
    <3>10. store \in Seq(Records) /\ \A i \in DOMAIN store : Kept(store[i])
      BY DEF BenchSafe, StoreKept
    <3>11. store' = Append(store, r) /\ store' \in Seq(Records)
      BY <3>1, <3>8, <3>10 DEF r
    <3>12. ASSUME NEW i \in DOMAIN store' PROVE store'[i] = r \/ (i \in DOMAIN store /\ store'[i] = store[i])
      BY <3>10, <3>11
    <3>13. ASSUME NEW i \in DOMAIN store' PROVE Kept(store'[i])
      BY <3>9, <3>10, <3>12
    <3>. QED  BY <3>11, <3>13 DEF StoreKept
  <2>. QED  BY <2>1, <2>2
<1>. QED  BY <1>2, <1>3, <1>4, <1>5 DEF BenchSafe

----------------------------------------------------------------------------
(* Reading back.                                                           *)

\* A set of places below a bound has a greatest.
LEMMA NewestIs ==
  ASSUME NEW n \in Nat, NEW S \in SUBSET (1 .. n), S # {}
  PROVE  Newest(S) \in S
<1>. DEFINE R == {ss \in Nat \X Nat : ss[1] < ss[2]}
            T == {n - i : i \in S}
<1>1. IsWellFoundedOn(R, Nat)
  BY NatLessThanWellFounded, Zenon DEF OpToRel
<1>2. T \subseteq Nat /\ T # {}
  <2>1. \A i \in S : n - i \in Nat
    OBVIOUS
  <2>2. T \subseteq Nat
    BY <2>1
  <2>3. PICK i \in S : TRUE
    OBVIOUS
  <2>4. n - i \in T
    BY <2>3
  <2>. QED  BY <2>2, <2>4
<1>3. PICK t \in T : \A y \in T : ~(<<y, t>> \in R)
  <2>. HIDE DEF R, T
  <2>. QED  BY <1>1, <1>2, WFMin
<1>4. PICK i \in S : t = n - i
  OBVIOUS
<1>5. ASSUME NEW j \in S PROVE j <= i
  <2>1. n - j \in T /\ n - j \in Nat /\ t \in Nat /\ ~(<<n - j, t>> \in R)
    BY <1>2, <1>3
  <2>2. ~(n - j < t)
    BY <2>1
  <2>. QED  BY <1>4, <2>2
<1>. QED  BY <1>5 DEF Newest

\* Full bands, labels that served, and deltas between comparable records only.
LEMMA BandHolds == StoreKept => BandIsHonest
<1>. SUFFICES ASSUME StoreKept PROVE BandIsHonest
  OBVIOUS
<1>1. ASSUME NEW i \in DOMAIN store
      PROVE  /\ ~store[i].void => \A k \in DOMAIN store[i].sides : store[i].sides[k].kept >= benchMinResident
             /\ store[i].alone => \A k \in DOMAIN store[i].sides :
                  store[i].sides[k].by \subseteq {[backend |-> store[i].labels[k], model |-> store[i].fp.model]}
  BY <1>1 DEF StoreKept, Kept
<1>2. ASSUME Cardinality(Load) >= 2,
             Comparable(selectComparePair[1].fp, selectComparePair[2].fp)
      PROVE  LET pair == selectComparePair
             IN /\ pair[1].fp.host # "" /\ pair[1].version <= SchemaVersion
                /\ [pair[1].fp EXCEPT !.backend = pair[2].fp.backend] = pair[2].fp
  <2>. DEFINE paired == {i \in Load : Olders(i) # {}}
              i == Newest(IF paired = {} THEN Load ELSE paired)
              j == Newest(IF paired = {} THEN Load \ {i} ELSE Olders(i))
  <2>1. selectComparePair = <<store[j], store[i]>>
    BY DEF selectComparePair
  <2>2. Len(store) \in Nat /\ DOMAIN store = 1 .. Len(store) /\ Load \subseteq 1 .. Len(store)
    BY DEF StoreKept, Load
  <2>3. IsFiniteSet(Load)
    BY <2>2, FS_Interval, FS_Subset, 1 \in Int, Len(store) \in Int
  <2>4. Load # {}
    BY <1>2, FS_EmptySet
  <2>5. i \in Load /\ (paired # {} => i \in paired)
    <3>. HIDE DEF paired
    <3>1. CASE paired = {}
      BY <2>2, <2>4, <3>1, NewestIs
    <3>2. CASE paired # {}
      <4>1. paired \subseteq Load
        BY DEF paired
      <4>2. i \in paired
        BY <2>2, <3>2, <4>1, NewestIs
      <4>. QED  BY <4>1, <4>2
    <3>. QED  BY <3>1, <3>2
  <2>6. j \in Load
    <3>. HIDE DEF i
    <3>1. CASE paired = {}
      <4>1. Load \ {i} # {}
        <5>. SUFFICES ASSUME Load = {i} PROVE FALSE
          BY <2>5
        <5>. QED  BY <1>2, FS_Singleton
      <4>. HIDE DEF paired
      <4>. QED  BY <2>2, <3>1, <4>1, NewestIs
    <3>2. CASE paired # {}
      <4>1. Olders(i) # {} /\ Olders(i) \subseteq Load
        BY <2>5, <3>2 DEF Olders
      <4>. HIDE DEF paired
      <4>2. j \in Olders(i)
        BY <2>2, <3>2, <4>1, NewestIs
      <4>. QED  BY <4>1, <4>2
    <3>. QED  BY <3>1, <3>2
  <2>. HIDE DEF i, j
  <2>7. store[i] \in Records /\ store[j] \in Records /\ store[j].version <= SchemaVersion
    BY <2>2, <2>5, <2>6, BenchAssumption DEF StoreKept, Load
  <2>8. Comparable(store[j].fp, store[i].fp)
    BY <1>2, <2>1
  <2>9. store[j].fp.host # ""
    BY <2>8 DEF Comparable
  <2>10. [store[j].fp EXCEPT !.backend = store[i].fp.backend] = store[i].fp
    BY <2>7, <2>8 DEF Comparable, Records
  <2>. QED  BY <2>1, <2>7, <2>9, <2>10
<1>. QED  BY <1>1, <1>2 DEF BandIsHonest

MeasureSafe == HostSafe /\ ProofSafe /\ BenchSafe /\ JobIs

\* Every step of a bench.
LEMMA BenchesKeep ==
  ASSUME HostSafe, BenchSafe, Invoke \/ Ctrl_C \/ Kill \/ BenchStep
  PROVE  HostSafe' /\ DraftStays /\ BenchSafe'
<1>1. CASE Switch
  BY <1>1, SwitchKeeps
<1>2. CASE Restore
  BY <1>2, RestoreKeeps
<1>3. ASSUME Invoke \/ Ctrl_C \/ Kill \/ benchEndpointReachable \/ LoadOriginal \/ Discard \/ MeasureBegins
              \/ Completes \/ MeasureProof \/ SideEnds \/ Report
      PROVE  HostSafe' /\ DraftStays
  <2>1. UNCHANGED <<cfg, server, past, others, lock, swap>> /\ fresh' \in BOOLEAN /\ touched' \in BOOLEAN
        /\ (swap.at # "none" /\ touched => touched')
    BY <1>3 DEF Invoke, Ctrl_C, Kill, benchEndpointReachable, LoadOriginal, Discard, MeasureBegins,
       Completes, MeasureProof, SideEnds, Report, hostVars, HostSafe, HostType
  <2>2. HostType'
    BY <2>1 DEF HostSafe, HostType
  <2>3. HostAgrees'
    BY <2>1 DEF HostSafe, HostAgrees
  <2>. QED  BY <2>1, <2>2, <2>3 DEF HostSafe, DraftStays
<1>4. ASSUME Invoke \/ Ctrl_C \/ Kill \/ benchEndpointReachable \/ LoadOriginal \/ Discard \/ MeasureBegins
              \/ Completes \/ MeasureProof \/ SideEnds \/ Report
      PROVE  BenchSafe'
  BY <1>4, InvokeKeeps, StillBenches, BeginsKeeps, CompletesKeeps, MeasureProofKeeps, SideEndsKeeps, ReportKeeps
<1>. QED  BY <1>1, <1>2, <1>3, <1>4 DEF BenchStep

\* A proof writes nothing of the host but what it remembers of it.
LEMMA ProofsKeepHost ==
  ASSUME HostSafe, StartProve \/ ProveStep \/ StartUnderLoad \/ LoadStep
  PROVE  HostSafe'
<1>1. UNCHANGED <<cfg, server, past, others, lock, swap>> /\ fresh' \in BOOLEAN /\ touched' \in BOOLEAN
      /\ (swap.at # "none" /\ touched => touched')
  BY DEF StartProve, ProveStep, PollHealth, Generate, Sample, Tick, Receive, Deadline, Judge, StartUnderLoad,
     LoadStep, NextRound, RoundEnds, Budget, Settle, SampleFold, Join, JudgeLoad, hostVars, HostSafe, HostType
<1>2. HostType'
  BY <1>1 DEF HostSafe, HostType
<1>3. HostAgrees'
  BY <1>1 DEF HostSafe, HostAgrees
<1>. QED  BY <1>2, <1>3 DEF HostSafe

\* A bench that never began promises nothing.
LEMMA IdleBenchIsSafe ==
  ASSUME HostSafe', StoreKept', b' = BenchIdle
  PROVE  BenchSafe'
<1>1. BenchType'
  BY NoSideIs DEF BenchType, BenchIdle
<1>2. BenchAlone'
  BY DEF BenchAlone, BenchIdle
<1>. QED  BY <1>1, <1>2 DEF BenchSafe, OriginalComesBack, BenchIdle

\* Where every invocation begins.
LEMMA InitIsSafe == Init => MeasureSafe
<1>. SUFFICES ASSUME Init PROVE MeasureSafe
  OBVIOUS
<1>0. b = BenchIdle /\ p = Idle /\ HostInit
  BY DEF Init
<1>1. HostSafe
  <2>1. cfg \in Cfgs /\ server \in Starts(cfg)
    BY <1>0 DEF HostInit, Cfgs
  <2>2. server \in Servers /\ server.backend = cfg.backend /\ server.model = cfg.model
        /\ (server.draft = "none" <=> ~cfg.draft)
    BY <2>1, StartsAre
  <2>3. others \in Nat
    BY <1>0, HostAssumption DEF HostInit
  <2>4. past = <<>> /\ past \in Seq(SUBSET Lines)
    BY <1>0 DEF HostInit
  <2>5. swap \in [at : {"none"}, prior : {Unread}, made : 0..MaxSwaps] /\ lock = "free" /\ fresh = TRUE /\ touched = FALSE
    BY <1>0 DEF HostInit
  <2>8. swap \in [at : {"none", "saved", "started"}, prior : Cfgs \cup {Unread}, made : Nat]
    BY <2>5, HostAssumption
  <2>6. HostType
    BY <2>1, <2>2, <2>3, <2>4, <2>5, <2>8 DEF HostType
  <2>7. HostAgrees
    BY <2>2, <2>5 DEF HostAgrees
  <2>. QED  BY <2>6, <2>7 DEF HostSafe
<1>2. ProofSafe
  BY <1>0 DEF Idle, ProofSafe, ProofType, ProofPlaced, Rounds, Verdict
<1>3. BenchType
  BY <1>0, NoSideIs DEF BenchType, BenchIdle
<1>4. BenchAlone /\ OriginalComesBack
  BY <1>0 DEF BenchAlone, BenchIdle, OriginalComesBack
<1>5. StoreKept
  <2>1. ASSUME NEW r \in EarlierReports PROVE r \in Records /\ Kept(r)
    <3>1. PICK m \in Models, h \in Hosts, d \in BOOLEAN, v \in {SchemaVersion, SchemaVersion + 1} :
            r = [mode |-> "single", fp |-> [model |-> m, backend |-> Vulkan, host |-> h, speculation |-> d],
                 labels |-> <<Vulkan>>, sides |-> <<[kept |-> Reps, by |-> {[backend |-> Vulkan, model |-> m]}]>>,
                 void |-> FALSE, version |-> v, alone |-> TRUE]
      BY <2>1 DEF EarlierReports
    <3>2. Vulkan \in Backends /\ v \in Nat /\ Reps \in Nat /\ Reps >= benchMinResident
      BY BenchAssumption DEF benchMinResident
    <3>. DEFINE s == [kept |-> Reps, by |-> {[backend |-> Vulkan, model |-> m]}]
    <3>3. s \in Side /\ s.kept = Reps /\ s.by = {[backend |-> Vulkan, model |-> m]}
      BY <3>2 DEF Side, Served
    <3>. HIDE DEF s
    <3>4. <<Vulkan>> \in Seq(Backends) /\ <<s>> \in Seq(Side)
      BY <3>2, <3>3
    <3>5. r = [mode |-> "single", fp |-> [model |-> m, backend |-> Vulkan, host |-> h, speculation |-> d],
               labels |-> <<Vulkan>>, sides |-> <<s>>, void |-> FALSE, version |-> v, alone |-> TRUE]
      BY <3>1 DEF s
    <3>6. r \in Records
      BY <3>2, <3>4, <3>5 DEF Records
    <3>7. Kept(r)
      BY <3>2, <3>3, <3>5 DEF Kept
    <3>. QED  BY <3>6, <3>7
  <2>2. store = <<>> \/ \E r \in EarlierReports : store = <<r>>
    BY DEF Init
  <2>3. CASE store = <<>>
    BY <2>3 DEF StoreKept
  <2>4. ASSUME NEW r \in EarlierReports, store = <<r>> PROVE StoreKept
    <3>1. r \in Records /\ Kept(r)
      BY <2>1
    <3>. HIDE DEF Records, Kept
    <3>. QED  BY <3>1, <2>4 DEF StoreKept
  <2>. QED  BY <2>2, <2>3, <2>4
<1>6. JobIs
  BY <1>0 DEF Init, JobIs
<1>. QED  BY <1>1, <1>2, <1>3, <1>4, <1>5, <1>6 DEF MeasureSafe, BenchSafe

\* And what every step of it keeps.
LEMMA StepIsSafe ==
  ASSUME MeasureSafe, [Next]_vars
  PROVE  MeasureSafe'
<1>. USE DEF MeasureSafe
<1>1. CASE Proves
  <2>1. ProofSafe' /\ HostSafe' /\ b = BenchIdle
    BY <1>1, ProveKeeps, ProofsKeepHost DEF Proves, JobIs
  <2>2. BenchSafe'
    BY <1>1, <2>1, IdleBenchIsSafe DEF Proves, BenchSafe, StoreKept
  <2>3. JobIs'
    BY <1>1 DEF Proves, JobIs
  <2>. QED  BY <2>1, <2>2, <2>3
<1>2. CASE Drives
  <2>1. ProofSafe' /\ HostSafe' /\ b = BenchIdle
    BY <1>2, LoadKeeps, ProofsKeepHost DEF Drives, JobIs
  <2>2. BenchSafe'
    BY <1>2, <2>1, IdleBenchIsSafe DEF Drives, BenchSafe, StoreKept
  <2>3. JobIs'
    BY <1>2 DEF Drives, JobIs
  <2>. QED  BY <2>1, <2>2, <2>3
<1>3. CASE Benches
  <2>1. HostSafe' /\ BenchSafe' /\ DraftStays
    BY <1>3, BenchesKeep DEF Benches
  <2>2. ProofSafe'
    BY <1>3, <2>1, ProofKept DEF Benches
  <2>3. JobIs'
    BY <1>3 DEF Benches, JobIs
  <2>. QED  BY <2>1, <2>2, <2>3
<1>4. CASE Elsewhere
  <2>1. HostNext /\ p' = p /\ b' = b /\ store' = store /\ job' = job
    BY <1>4 DEF Elsewhere, HostNext
  <2>2. HostSafe' /\ DraftStays
    BY <2>1, HostKeeps
  <2>3. ProofSafe'
    BY <2>1, <2>2, ProofKept
  <2>4. BenchSafe'
    BY <2>1, BenchKept
  <2>5. JobIs'
    BY <2>1 DEF JobIs
  <2>. QED  BY <2>2, <2>3, <2>4, <2>5
<1>5. CASE UNCHANGED vars
  <2>1. HostSafe' /\ ProofSafe'
    BY <1>5, ProofKept DEF vars, hostVars, HostSafe, HostType, HostAgrees, DraftStays
  <2>2. BenchType' /\ BenchAlone' /\ OriginalComesBack'
    BY <1>5 DEF vars, hostVars, BenchSafe, BenchType, BenchAlone, OriginalComesBack, As, AloneA
  <2>3. StoreKept' /\ JobIs'
    BY <1>5 DEF vars, BenchSafe, StoreKept, JobIs
  <2>. QED  BY <2>1, <2>2, <2>3 DEF BenchSafe
<1>. QED  BY <1>1, <1>2, <1>3, <1>4, <1>5 DEF Next

\* The inductive invariant of a measurement (internal/residency, internal/bench): the host
\* is what its config, its swap and its starts say, a proof stands where its protocol puts
\* it, and a bench nobody swapped under has every run, label and record from one config.
THEOREM MeasurementIsSafe == Spec => []MeasureSafe
<1>1. Init => MeasureSafe
  BY InitIsSafe
<1>2. MeasureSafe /\ [Next]_vars => MeasureSafe'
  BY StepIsSafe
<1>. QED  BY <1>1, <1>2, PTL DEF Spec

\* FoldsAreSound (internal/inference/whisper_offload.go, image_offload.go, validate.go): no
\* fold of a server villa starts passes where its evidence cannot carry it.
THEOREM FoldsSound == Spec => []FoldsAreSound
<1>1. MeasureSafe => FoldsAreSound
  BY FoldsHold DEF MeasureSafe, HostSafe
<1>. QED  BY <1>1, MeasurementIsSafe, PTL

\* BenchIsHonest (cmd/villa/bench.go, internal/benchstore): the bands, the labels and the
\* deltas of every record are true, and the original backend is back or a warning says so.
THEOREM BenchHonest == Spec => []BenchIsHonest
<1>1. MeasureSafe => BenchIsHonest
  BY BandHolds DEF MeasureSafe, BenchSafe, BenchIsHonest
<1>. QED  BY <1>1, MeasurementIsSafe, PTL

\* Every step that passes, samples or counts a run has earned it.
LEMMA StepIsEarned ==
  ASSUME MeasureSafe, Next
  PROVE  ProvePassIsEarned /\ LoadPassIsEarned /\ CountedRunIsEarned
<1>1. ProvePassIsEarned /\ LoadPassIsEarned
  BY ProvePassEarned, LoadPassEarned DEF MeasureSafe
<1>2. CASE MeasureProof
  BY <1>1, <1>2, MeasureProofKeeps DEF MeasureSafe
<1>3. CASE ~MeasureProof
  <2>. DEFINE Same == b'.a = b.a /\ b'.b = b.b
              None == b'.a = NoSide /\ b'.b = NoSide
  <2>0. BenchType
    BY DEF MeasureSafe, BenchSafe
  <2>1. b' = b => Same
    OBVIOUS
  <2>2. ASSUME Invoke \/ Ctrl_C \/ Kill \/ benchEndpointReachable \/ LoadOriginal \/ Discard \/ MeasureBegins
                \/ SideEnds \/ Report
        PROVE  Same \/ None
    BY <2>0, <2>2 DEF BenchType, Invoke, Ctrl_C, Kill, benchEndpointReachable, LoadOriginal, Discard, MeasureBegins,
       SideEnds, Report, BenchIdle
  <2>3. ASSUME Completes PROVE Same
    BY <2>0, <2>3 DEF BenchType, Completes, Void, Over, SetSide, Now
  <2>4. ASSUME Switch \/ Restore PROVE Same
    <3>1. b' \in {[b EXCEPT !.at = "side", !.side = "B", !.warm = 0, !.tries = 0],
                  [b EXCEPT !.at = "restore", !.err = TRUE],
                  [b EXCEPT !.at = "report"], [b EXCEPT !.at = "report", !.warned = TRUE]}
      BY <2>4, Zenon DEF Switch, Restore, runBackendSwap
    <3>. QED  BY <2>0, <3>1 DEF BenchType
  <2>5. Same \/ None
    BY <1>3, <2>1, <2>2, <2>3, <2>4 DEF Next, Proves, Drives, Benches, Elsewhere, BenchStep
  <2>6. b.a.kept \in Nat /\ b.b.kept \in Nat
    BY <2>0 DEF BenchType, Side
  <2>7. CASE Same
    BY <1>1, <2>6, <2>7 DEF CountedRunIsEarned
  <2>8. CASE None
    BY <1>1, <2>6, <2>8 DEF CountedRunIsEarned, NoSide
  <2>. QED  BY <2>5, <2>7, <2>8
<1>. QED  BY <1>1, <1>2, <1>3

\* PassIsEarned (internal/residency/residency.go, underload.go, cmd/villa/bench.go): no step
\* of any measurement calls a model proven, sampled or counted that has not earned it.
THEOREM PassEarned == Spec => PassIsEarned
<1>1. MeasureSafe /\ [Next]_vars => [ProvePassIsEarned /\ LoadPassIsEarned /\ CountedRunIsEarned]_vars
  BY StepIsEarned
<1>. QED  BY <1>1, MeasurementIsSafe, PTL DEF Spec, PassIsEarned
=============================================================================

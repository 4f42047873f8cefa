----------------------------- MODULE ServedModel -----------------------------
(***************************************************************************)
(* The verbs that decide what is served, each with its fit guard, over the *)
(* part of config.toml they read and write: model swap, backend set,       *)
(* speculation set, tools-mode, coding-mode, model resident, recommend     *)
(* --save and config set, in any order, with a host whose envelope an      *)
(* operator changes between them.                                          *)
(*                                                                         *)
(* A verb is one step: SwapTransaction is how the transaction around it    *)
(* interleaves, fails and rolls back.  What the renderer makes of a config *)
(* is Served(c), or nothing when it refuses c.                             *)
(***************************************************************************)
EXTENDS ModelFit

CONSTANTS
  Hosts,          \* what detection may find
  Ctxs,           \* the contexts an operator sets
  Subsystems,     \* the sets of parts that may be on
  PrimaryPort, Ports,   \* the inference port; the range of resident ports
  Slug,           \* Slug[m]: the unit name m's id comes to
  MaxResident,    \* bound on the resident set
  MaxVerbs        \* bound on the verbs that change the config or the host

\* Every context a model may be given: the operator's, and the catalog's own.
Contexts == Ctxs \cup {Catalog[m].ctx : m \in Models} \cup {Catalog[m].agentCtx : m \in Models}

\* No host has all the bytes a word can count, and no context is within a pad of the
\* largest int.
ASSUME ServedAssumption ==
  /\ Hosts \subseteq [gtt : 0..(Top - 1) \cup {Unknown}, ram : 0..Top \cup {Unknown},
                      signals : SUBSET {"good", "bad", "unknown"}]
  /\ Contexts \subseteq 0..(TopInt - CellPad) /\ Subsystems \subseteq SUBSET Parts /\ {} \in Subsystems
  /\ PrimaryPort \notin Ports /\ Ports \subseteq Nat
  /\ MaxResident \in Nat /\ MaxVerbs \in Nat

VARIABLES
  host,
  cfg,      \* config.toml
  last,     \* history: the verb that made the config, with its guard passed and its change kept
  vetted,   \* history: no model was put in the config past a guard since a guard last chose one
  verbs     \* how many verbs have changed something

vars == <<host, cfg, last, vetted, verbs>>

----------------------------------------------------------------------------
(* What a config serves                                                    *)

\* stackapply.ServedTarget, and the context the renderer gives the unit: the agent
\* context in coding mode, and at least the model's own in tools mode.
ServedModelOf(c) == IF c.coding /\ c.coder # 0 THEN c.coder ELSE c.model
ServedCtx(c) ==
  IF c.coding THEN c.coderCtx
  ELSE IF c.tools /\ Known(c.model) THEN Larger(c.ctx, Catalog[c.model].agentCtx) ELSE c.ctx

\* liveSpeculation: in coding mode the served model's own qualification picks the mode.
Requested(c) == IF c.coding THEN "unset" ELSE c.spec
ServedSpec(c) ==
  IF c.spec \in {"unset", "off"} THEN "off"
  ELSE Speculation(ServedModelOf(c), Requested(c), Catalog[ServedModelOf(c)].draft # None)
SpecRenders(c) ==
  c.spec \in {"unset", "off"}
  \/ SpeculationOk(ServedModelOf(c), Requested(c), Catalog[ServedModelOf(c)].draft # None)

\* liveProjector: vision with no projector is refused; a coder has none.
ServesProjector(c) == c.vision /\ ~c.coding
ProjectorRenders(c) == ServesProjector(c) => Catalog[c.model].projector > 0

\* A resident slot is a unit of its own: known, with its own name and port.
ResidentsRender(c) ==
  /\ \A i \in DOMAIN c.resident : Known(c.resident[i].model) /\ c.resident[i].port # PrimaryPort
  /\ \A i, j \in DOMAIN c.resident : i # j =>
       /\ Slug[c.resident[i].model] # Slug[c.resident[j].model]
       /\ c.resident[i].port # c.resident[j].port

Renders(c) ==
  /\ Known(ServedModelOf(c))
  /\ SpecRenders(c) /\ ProjectorRenders(c) /\ ResidentsRender(c)

\* The memory of the unit of c, for as long as it runs; the cache of a context of 0
\* is the model's own choice and is not known here.
UnitSize(m, ctx, projector, draft) ==
  Catalog[m].weight + CacheSize(m, ctx) + PromptCache
    + (IF projector THEN Catalog[m].projector ELSE 0)
    + (IF draft THEN Catalog[m].draft.weight + Catalog[m].draft.perTok * ctx ELSE 0)
ServedSize(c) == UnitSize(ServedModelOf(c), ServedCtx(c), ServesProjector(c), ServedSpec(c) = "draft")

\* marshalVilla: what a save keeps of a config.
Marshal(c) ==
  [c EXCEPT !.coder = IF c.coding THEN @ ELSE 0, !.coderCtx = IF c.coding THEN @ ELSE 0,
            !.on = Reserved(@)]

\* The config coding-mode exit comes back to.
Chat(c) == [c EXCEPT !.coding = FALSE, !.coder = 0, !.coderCtx = 0]

----------------------------------------------------------------------------
(* The guards                                                              *)

\* Pick, tabulated over what the verbs ask of it.
Override(m, ctx, spec) == [model |-> m, ctx |-> ctx, spec |-> spec]
Asked == [model : 0..Len(Catalog) + 1, ctx : Contexts \cup {0}, spec : Modes]
Ons   == Subsystems \cup {Reserved(s) : s \in Subsystems}
Picks == [h \in Hosts |-> [on \in Ons |-> [ov \in Asked |-> Pick(h, on, ov)]]]
Recommended(m, ctx, spec) == Picks[host][cfg.on][Override(m, ctx, spec)]
CoderPicks == [h \in Hosts |-> [on \in Ons |-> PickCoder(h, on)]]

\* swapFit: as the render will serve c.
SwapSpecIgnored(c) == "off"           \* mutant: the persisted mode is not sized
SwapSpec(c) ==
  IF c.spec = "unset" THEN "off"
  ELSE IF c.coding /\ c.coder = 0 /\ c.spec # "off" THEN "unset" ELSE c.spec
SwapCtxUnfloored(m, c) == IF c.ctx > 0 THEN c.ctx ELSE Catalog[m].ctx   \* mutant: the floor of tools mode is forgotten
SwapCtx(m, c) ==
  LET ctx == IF c.ctx > 0 THEN c.ctx ELSE Catalog[m].ctx IN
  IF c.coding /\ c.coder = 0 THEN IF c.coderCtx > 0 THEN c.coderCtx ELSE ctx
  ELSE IF c.tools \/ c.coding THEN Larger(ctx, Catalog[m].agentCtx) ELSE ctx
SwapFit(m, c) == Recommended(m, SwapCtx(m, c), SwapSpec(c))
SwapOver(m, c) ==
  \E r \in {SwapFit(m, c)} :
    ~r.fits /\ (r.total > r.usable \/ (SwapSpec(c) = "draft" /\ Catalog[m].draft # None))

\* modelswap.Size: a context that does not fit is retried at the model's default.
Sized(m, c) ==
  IF SwapOver(m, c) /\ c.ctx > Catalog[m].ctx THEN [c EXCEPT !.ctx = Catalog[m].ctx] ELSE c

\* backend set and speculation set size the model they keep at its default context.
FitsModel(c) == Recommended(c.model, 0, c.spec).fits

\* toolsFits: at the floor the renderer raises the context to.
ToolsFits(c) ==
  LET agentCtx == IF Known(c.model) THEN Catalog[c.model].agentCtx ELSE 0 IN
  Recommended(c.model, Larger(c.ctx, agentCtx), c.spec).fits

----------------------------------------------------------------------------
(* The verbs                                                               *)

Changed(v) == last' = v /\ verbs' = verbs + 1
Refused    == UNCHANGED vars
NoOp       == UNCHANGED vars

\* stackapply.Transact: the target is kept, or nothing changes: it does not render, or
\* a step or its proof fails and it is rolled back.
Transact(v, target, vet) ==
  \/ Refused
  \/ Changed(v) /\ cfg' = Marshal(target) /\ Renders(cfg') /\ vetted' = vet /\ UNCHANGED host

\* A swap in shared coding mode is sized as the coder it serves.
SwapTarget(c) == [c EXCEPT !.vision = SwapFit(c.model, c).vision]
ModelSwap(m) ==
  \E c \in {IF Known(m) THEN Sized(m, [cfg EXCEPT !.model = m]) ELSE cfg} :
    IF ~Known(m) \/ ~SwapFit(m, c).fits THEN Refused
    ELSE Transact("swap", SwapTarget(c), ~(cfg.coding /\ cfg.coder = 0))

\* PreflightROCm has a verdict of its own.
BackendSet(b) ==
  IF cfg.backend = b THEN NoOp
  ELSE IF ~FitsModel(cfg) THEN Refused
  ELSE \/ b = "rocm" /\ Refused
       \/ Transact("backend", [cfg EXCEPT !.backend = b], vetted)

SpeculationSet(s) ==
  IF (IF cfg.spec = "unset" THEN "off" ELSE cfg.spec) = s THEN NoOp
  ELSE IF ~FitsModel([cfg EXCEPT !.spec = s]) THEN Refused
  ELSE Transact("speculation", [cfg EXCEPT !.spec = s], vetted)

ToolsMode(on) ==
  IF (cfg.tools \/ cfg.coding) = on THEN NoOp
  ELSE IF (~on /\ cfg.coding) \/ ~ToolsFits([cfg EXCEPT !.tools = on]) THEN Refused
  ELSE Transact("tools", [cfg EXCEPT !.tools = on], vetted)

CodingEnter ==
  \E t \in {CoderPicks[host][cfg.on]} :
    IF cfg.coding THEN NoOp
    ELSE Transact("enter", [cfg EXCEPT !.coding = TRUE, !.coder = t.model, !.coderCtx = t.ctx], vetted)

CodingExit ==
  IF ~cfg.coding THEN NoOp ELSE Transact("exit", Chat(cfg), vetted)

\* recommend --save: the pick is saved, one that does not fit too, and nothing applied.
RecommendSave(m, ctx) ==
  \E r \in {Recommended(m, ctx, cfg.spec)} :
    IF r.model = 0 THEN Refused
    ELSE /\ Changed("save") /\ vetted' = TRUE /\ UNCHANGED host
         /\ cfg' = Marshal([cfg EXCEPT !.model = r.model, !.ctx = r.ctx, !.backend = r.backend,
                                       !.spec = r.spec, !.vision = r.vision])

\* config set: any model id, any context above 0, and vulkan.
ConfigSet ==
  /\ \/ \E m \in Models \cup {Len(Catalog) + 1} : cfg' = Marshal([cfg EXCEPT !.model = m]) /\ vetted' = FALSE
     \/ \E n \in Ctxs \ {0} : cfg' = Marshal([cfg EXCEPT !.ctx = n]) /\ UNCHANGED vetted
     \/ cfg' = Marshal([cfg EXCEPT !.backend = "vulkan"]) /\ UNCHANGED vetted
  /\ Changed("set") /\ UNCHANGED host

\* An install turns subsystems on and off; a reboot may change the envelope.
Reconfigure ==
  /\ \E on \in Subsystems : cfg' = [cfg EXCEPT !.on = on]
  /\ Changed("install") /\ UNCHANGED <<host, vetted>>
Reboot ==
  /\ host' \in Hosts \ {host}
  /\ Changed("reboot") /\ UNCHANGED <<cfg, vetted>>

----------------------------------------------------------------------------
(* The resident set                                                        *)

\* residentSlots: the primary at the context of the config, then the slots.
Slots(c) == <<[model |-> c.model, ctx |-> c.ctx, port |-> PrimaryPort]>> \o c.resident
Fit(m, ctx) == Recommended(m, ctx, "unset")
SlotBytes(slots) == [i \in DOMAIN slots |-> Fit(slots[i].model, slots[i].ctx).slot]
Sizeable(c) == \A i \in DOMAIN Slots(c) : Known(Slots(c)[i].model) /\ Fit(Slots(c)[i].model, Slots(c)[i].ctx).model # 0
Sum(sizes) == LET sum[i \in 0..Len(sizes)] == IF i = 0 THEN 0 ELSE sizes[i] + sum[i - 1] IN sum[Len(sizes)]
Used(c) == Wrapped(Sum(SlotBytes(Slots(c))))

FreePorts(c) == Ports \ {c.resident[i].port : i \in DOMAIN c.resident}
PortAbove(c) == 1 + (IF c.resident = <<>> THEN PrimaryPort ELSE c.resident[Len(c.resident)].port)   \* mutant: a freed port is never used again
LowestFree(c) == CHOOSE q \in FreePorts(c) : \A r \in FreePorts(c) : q <= r

\* residentset.Admit: no eviction is ever asked for.
Resident(c, m, ctx) == \E i \in DOMAIN Slots(c) : Slots(c)[i].model = m /\ Slots(c)[i].ctx = ctx
AdmitAlone(c, r) == r.slot <= r.usable    \* mutant: the candidate is held against the envelope alone
Admit(c, r) ==
  /\ r.slot <= r.usable
  /\ Wrapped(Used(c) + r.slot) <= (IF r.headroom >= r.usable THEN 0 ELSE r.usable - r.headroom)

ResidentAdd(m) ==
  \E r \in {Fit(m, 0)} :
    IF ~Known(m) \/ r.model = 0 \/ cfg.model = 0 \/ ~Sizeable(cfg) \/ FreePorts(cfg) = {} THEN Refused
    ELSE IF Resident(cfg, m, r.ctx) THEN NoOp
    ELSE IF ~Admit(cfg, r) THEN Refused
    ELSE /\ Len(cfg.resident) < MaxResident
         /\ Transact("add", [cfg EXCEPT !.resident =
              Append(@, [model |-> m, ctx |-> r.ctx, port |-> LowestFree(cfg)])], vetted)

Others(slots, m) ==
  LET kept[i \in 0..Len(slots)] ==
        IF i = 0 THEN <<>>
        ELSE IF slots[i].model = m THEN kept[i - 1] ELSE Append(kept[i - 1], slots[i])
  IN kept[Len(slots)]

\* The slot of a model that has since become the primary is not removed.
ResidentRm(m) ==
  IF m = cfg.model \/ \A i \in DOMAIN cfg.resident : cfg.resident[i].model # m THEN Refused
  ELSE /\ Transact("rm", [cfg EXCEPT !.resident = Others(@, m)], vetted)

----------------------------------------------------------------------------
Fresh == [model |-> 0, ctx |-> 0, backend |-> "rocm", spec |-> "unset", vision |-> FALSE, tools |-> FALSE,
          coding |-> FALSE, coder |-> 0, coderCtx |-> 0, on |-> {}, resident |-> <<>>]

\* An install with no choice made saves the best pick.
Installed(h) ==
  LET r == Pick(h, {}, Override(0, 0, "unset")) IN
  [Fresh EXCEPT !.model = r.model, !.ctx = r.ctx, !.backend = r.backend, !.spec = r.spec, !.vision = r.vision]

Init ==
  /\ host \in Hosts
  /\ \/ cfg = Fresh /\ vetted = FALSE
     \/ cfg = Installed(host) /\ vetted = (cfg.model # 0)
  /\ last = "none" /\ verbs = 0

Verb ==
  \/ \E m \in Models : ModelSwap(m) \/ ResidentAdd(m) \/ ResidentRm(m)
  \/ \E m \in Models \cup {0}, n \in Ctxs : RecommendSave(m, n)
  \/ \E b \in {"rocm", "vulkan"} : BackendSet(b)
  \/ \E s \in Modes \ {"unset"} : SpeculationSet(s)
  \/ \E on \in BOOLEAN : ToolsMode(on)
  \/ CodingEnter \/ CodingExit \/ ConfigSet \/ Reconfigure \/ Reboot

Next == IF verbs < MaxVerbs THEN Verb ELSE UNCHANGED vars

Spec == Init /\ [][Next]_vars

----------------------------------------------------------------------------
(* Properties                                                              *)

Config ==
  [model : 0..(Len(Catalog) + 1), ctx : Contexts \cup {0}, backend : {"rocm", "vulkan"}, spec : Modes,
   vision : BOOLEAN, tools : BOOLEAN, coding : BOOLEAN, coder : Models \cup {0},
   coderCtx : Contexts \cup {0}, on : Ons,
   resident : Seq([model : Models, ctx : Contexts, port : Ports])]
Verbs == {"none", "swap", "backend", "speculation", "tools", "enter", "exit", "save", "set",
          "install", "reboot", "add", "rm"}

\* A config that detection, the catalog and the port range can have made: a resident
\* slot has a port of the range, and a context no verb resolved is 0.
TypeOK ==
  /\ host \in Hosts /\ cfg \in Config
  /\ last \in Verbs /\ vetted \in BOOLEAN /\ verbs \in 0..MaxVerbs

Within(size) == size + Headroom(Usable(host, cfg.on)) <= Usable(host, cfg.on)

\* cmd/villa/model.go:358: a swap sizes its target "the way the render serves cfg".
\* What a swap that was kept serves, or will serve when coding mode is left, fits the
\* envelope with its headroom, whatever verbs came before: the context, the floor of
\* tools mode, the projector and the draft that are rendered are the ones it sized.
SwapServesWhatFits ==
  last = "swap" /\ ~(cfg.coding /\ cfg.coder = 0) /\ ServedCtx(Chat(cfg)) > 0
    => Within(ServedSize(Chat(cfg)))

\* No sequence of verbs leaves a config the renderer refuses, in chat or coding mode:
\* the chat config behind a coding session is one that coding-mode exit can render.
ChatStillRenders == vetted => Renders(cfg) /\ Renders(Chat(cfg))

\* residentset.go: an admitted set fits together, every server with its own cache and
\* the headroom once, with the primary at the context it is configured for, as long as
\* a word can count its bytes.
AdmittedSize ==
  Sum([i \in DOMAIN Slots(cfg) |->
    LET s == Slots(cfg)[i] IN UnitSize(s.model, IF s.ctx > 0 THEN s.ctx ELSE Catalog[s.model].ctx, FALSE, FALSE)])
AdmittedSetFits == last = "add" => (AdmittedSize <= Top => Within(AdmittedSize))

\* What the verbs admit can be rendered, now and behind coding mode, and fits.
StackStaysServable == ChatStillRenders /\ AdmittedSetFits

\* kv.go:123: "overflow must never wrap to fits".  A recommendation that fits does so
\* in whole numbers, with the projector and the draft it turns on; the pick made with
\* no override is eligible and no heavier eligible model would fit; it fits, unless a
\* mode was asked for or a word cannot count a context; and a host with more memory,
\* or a subsystem less, is never given a lighter model.
FitIsReal(on) ==
  \A r \in {Picks[host][on][ov] : ov \in Asked} :
    r.fits => UnitSize(r.model, r.ctx, r.vision, r.spec = "draft") + r.headroom <= Usable(host, on)
ChatSize(m, ov, e) == UnitSize(m, EffectiveCtx(m, ov), FALSE, FALSE) + Headroom(e)
Weight(m) == IF m = 0 THEN 0 ELSE Catalog[m].weight
PickIsBest(pick, on, ov) ==
  LET e == Usable(host, on) IN
  /\ pick.model # 0 =>
       /\ Eligible(pick.model, e)
       /\ ov.spec \in {"unset", "off"} /\ ChatSize(pick.model, ov, e) <= Top => pick.fits
  /\ \A m \in Models : Envelope(host) # Unknown /\ Eligible(m, e) /\ Catalog[m].weight > Weight(pick.model) =>
       ChatSize(m, ov, e) > e
  /\ \A h \in Hosts, off \in Subsystems :
       Envelope(h) # Unknown /\ (Envelope(host) = Unknown \/ Usable(h, off) >= e)
         => Weight(Picks[h][off][ov].model) >= Weight(pick.model)
PickIsSound ==
  last = "none" => \A on \in Subsystems :
    /\ FitIsReal(on)
    /\ \A ov \in {Override(0, n, s) : n \in Ctxs, s \in Modes} :
         \A pick \in {Picks[host][on][ov]} : PickIsBest(pick, on, ov)
=============================================================================

------------------------------ MODULE ModelFit ------------------------------
(***************************************************************************)
(* internal/recommend: which model fits the memory envelope of the host.   *)
(*                                                                         *)
(* A model is its place in the catalog, and 0 is no model.  Its per-token  *)
(* cost stands for the product of the cache geometry (layers, heads, head  *)
(* dimension, bytes per element).  Byte counts are uint64: Top is the      *)
(* largest, a saturating sum stops there and a plain one wraps.  A chain   *)
(* of saturating sums is written as one: it stops at Top all the same.  A  *)
(* reservation is a subsystem's footprint, held back before the fit.       *)
(***************************************************************************)
EXTENDS Integers, Sequences

CONSTANTS
  Catalog,       \* the model entries, in catalog order
  Footprint,     \* Footprint[part]: what a part of a subsystem reserves
  Top,           \* the largest uint64; TopInt, the largest int
  TopInt,
  PromptCache,   \* the host prompt cache every llama-server holds
  SeqMax, UBatch, CellPad, Checkpoints,   \* llama-server's sliding-window cache
  Unknown,       \* a value detection could not read
  None           \* no draft, no sliding window

Models == 1..Len(Catalog)
Parts  == {"memory", "rerank", "extract", "web", "voice", "image"}
Modes  == {"unset", "off", "ngram", "draft"}

ASSUME FitAssumption ==
  /\ Top \in Nat \ {0} /\ TopInt \in Nat /\ TopInt <= Top
  /\ PromptCache \in Nat /\ SeqMax \in Nat /\ UBatch \in Nat /\ Checkpoints \in Nat
  /\ CellPad \in Nat \ {0}
  /\ Catalog \in Seq([weight : 0..Top, perTok : Nat, ctx : Nat, agentCtx : Nat, floor : Nat,
                      projector : Nat, draft : {None} \cup [weight : Nat, perTok : Nat],
                      swa : {None} \cup [window : Nat, perTok : Nat],
                      coder : BOOLEAN, bootstrap : BOOLEAN, safe : BOOLEAN, ngram : BOOLEAN,
                      backend : {"rocm", "vulkan"}])
  /\ Footprint \in [Parts -> Nat]

Known(m) == m \in Models
Smaller(a, b) == IF a <= b THEN a ELSE b
Larger(a, b)  == IF a >= b THEN a ELSE b

----------------------------------------------------------------------------
(* Bytes                                                                   *)

Wrapped(n) == n % (Top + 1)   \* an addition that does not saturate
Sat(n) == IF n > Top THEN Top ELSE n

\* The cells of a sliding-window cache: the window per sequence and a batch, never
\* more than the context, padded; the steps an int would overflow in are left out.
SwaCells(ctx, window) ==
  LET bound == IF window * SeqMax + UBatch <= TopInt THEN Smaller(ctx, window * SeqMax + UBatch) ELSE ctx
  IN IF ctx <= 0 THEN 0
     ELSE IF bound > TopInt - CellPad THEN bound
     ELSE ((bound + CellPad - 1) \div CellPad) * CellPad

SwaBytes(s, ctx) ==
  IF s = None THEN 0
  ELSE s.perTok * (SwaCells(ctx, s.window) + Smaller(ctx, s.window) * SeqMax * Checkpoints)

CacheSize(m, ctx) == Catalog[m].perTok * ctx + SwaBytes(Catalog[m].swa, ctx)
KVBytes(m, ctx) == Sat(CacheSize(m, ctx))

----------------------------------------------------------------------------
(* The envelope                                                            *)

\* A host is what detection read: the GTT envelope, the RAM and the ROCm signals.
\* Without an envelope half the RAM is the floor; without either there is none.
Envelope(h) ==
  IF h.gtt \notin {Unknown, 0} THEN h.gtt
  ELSE IF h.ram # Unknown /\ h.ram \div 2 > 0 THEN h.ram \div 2 ELSE Unknown

Headroom(e) == (e * 12) \div 100

\* ReservationsFor: what each subsystem that is on holds back.  The reranker and the
\* extractor belong to memory.
Reserved(on) == IF "memory" \in on THEN on ELSE on \ {"rerank", "extract"}

Held(on, part) == IF part \in Reserved(on) THEN Footprint[part] ELSE 0
ReservedBytes(on) ==
  Sat(Held(on, "memory") + Held(on, "rerank") + Held(on, "extract")
        + Held(on, "web") + Held(on, "voice") + Held(on, "image"))

\* What is left for the models: nothing, when the reservations take it all.
Usable(h, on) ==
  IF ReservedBytes(on) >= Envelope(h) THEN 0 ELSE Envelope(h) - ReservedBytes(on)

----------------------------------------------------------------------------
(* One model against an envelope                                           *)

\* An override: the model or 0, the context or 0, and the speculation mode.
EffectiveCtx(m, ov) == IF ov.ctx > 0 THEN ov.ctx ELSE Catalog[m].ctx

\* ResolveSpeculation: the mode a request comes to, "off" and not ok for one the
\* model is not qualified for.
Qualified(m, draftFits) == Catalog[m].draft # None /\ draftFits
Speculation(m, requested, draftFits) ==
  CASE requested = "unset" -> IF Qualified(m, draftFits) THEN "draft"
                              ELSE IF Catalog[m].ngram THEN "ngram" ELSE "off"
    [] requested = "ngram" -> IF Catalog[m].ngram THEN "ngram" ELSE "off"
    [] requested = "draft" -> IF Qualified(m, draftFits) THEN "draft" ELSE "off"
    [] OTHER -> "off"
SpeculationOk(m, requested, draftFits) ==
  requested \in {"ngram", "draft"} => Speculation(m, requested, draftFits) = requested

BaseTotal(m, ctx, e) ==
  Sat(Catalog[m].weight + KVBytes(m, ctx) + Headroom(e) + PromptCache)

\* reserveProjector: the projector of m beside what m already takes, or dropped.
HasProjector(m, total, e) == Catalog[m].projector > 0 /\ Sat(total + Catalog[m].projector) <= e
WithProjector(m, total, e) == Sat(total + (IF HasProjector(m, total, e) THEN Catalog[m].projector ELSE 0))

\* draftTermsFor: the draft of m, its cache included, beside the rest.
WithDraft(m, ctx, total) ==
  IF Catalog[m].draft = None THEN 0 ELSE Sat(total + Catalog[m].draft.weight + Catalog[m].draft.perTok * ctx)

\* buildRecommendation: the terms are added in this order, and a mode that was asked
\* for and cannot be had is no fit.
Recommend(m, ov, e) ==
  LET ctx    == EffectiveCtx(m, ov)
      base   == BaseTotal(m, ctx, e)
      beside == WithProjector(m, base, e)
      draft  == WithDraft(m, ctx, beside)
      mode   == Speculation(m, ov.spec, draft <= e)
      total  == IF mode = "draft" THEN draft ELSE beside
  IN [model |-> m, ctx |-> ctx, spec |-> mode, vision |-> HasProjector(m, base, e),
      backend |-> Catalog[m].backend, total |-> total, usable |-> e, headroom |-> Headroom(e),
      slot |-> Wrapped(Catalog[m].weight + KVBytes(m, ctx) + PromptCache),
      fits |-> total <= e /\ SpeculationOk(m, ov.spec, draft <= e)]
NoPick(e) ==
  [model |-> 0, ctx |-> 0, spec |-> "unset", vision |-> FALSE, backend |-> "rocm",
   total |-> 0, usable |-> e, headroom |-> 0, slot |-> 0, fits |-> FALSE]

----------------------------------------------------------------------------
(* The pick                                                                *)

\* chatFit: what the automatic pick may choose.  Its total is a plain sum.
Eligible(m, e) ==
  /\ ~Catalog[m].coder /\ ~Catalog[m].bootstrap /\ Catalog[m].safe
  /\ Catalog[m].floor = 0 \/ e >= Catalog[m].floor
ChatTotal(m, ov, e) ==
  Wrapped(Catalog[m].weight + KVBytes(m, EffectiveCtx(m, ov)) + Headroom(e) + PromptCache)
Candidates(ov, e) == {m \in Models : Eligible(m, e) /\ ChatTotal(m, ov, e) <= e}

\* selectBest: the heaviest weights, then the larger total, then the catalog order.
Outranks(a, b, ov, e) ==
  \/ Catalog[a].weight > Catalog[b].weight
  \/ Catalog[a].weight = Catalog[b].weight /\ ChatTotal(a, ov, e) > ChatTotal(b, ov, e)
Best(S, ov, e) ==
  CHOOSE m \in S : \A n \in S : ~Outranks(n, m, ov, e) /\ (Outranks(m, n, ov, e) \/ m <= n)

\* pickCoder: the eligible coder with the largest total at its agent context; without
\* one the chat model itself is shared, and the agent context is the zero value.
CoderTotal(m, e) ==
  Sat(Catalog[m].weight + KVBytes(m, Catalog[m].agentCtx) + Headroom(e) + PromptCache)
Coders(e) ==
  {m \in Models : /\ Catalog[m].coder /\ ~Catalog[m].bootstrap /\ Catalog[m].safe
                  /\ Catalog[m].floor = 0 \/ e >= Catalog[m].floor
                  /\ CoderTotal(m, e) <= e}
SharedCoder == [model |-> 0, ctx |-> 0]
PickCoder(h, on) ==
  LET e == Usable(h, on)
      m == CHOOSE n \in Coders(e) : \A o \in Coders(e) :
             CoderTotal(n, e) > CoderTotal(o, e) \/ (CoderTotal(n, e) = CoderTotal(o, e) /\ n <= o)
  IN IF Envelope(h) = Unknown \/ Coders(e) = {} THEN SharedCoder
     ELSE [model |-> m, ctx |-> Catalog[m].agentCtx]

\* finalizeRecommendation: a host that is known to block ROCm gets vulkan.
Blocked(h) == "unknown" \notin h.signals /\ "bad" \in h.signals
Final(h, r) == IF Blocked(h) THEN [r EXCEPT !.backend = "vulkan"] ELSE r

\* Pick: the model asked for, sized, or the best one.
PickWithin(ov, e) ==
  IF ov.model # 0 THEN IF Known(ov.model) THEN Recommend(ov.model, ov, e) ELSE NoPick(e)
  ELSE IF Candidates(ov, e) = {} THEN NoPick(e) ELSE Recommend(Best(Candidates(ov, e), ov, e), ov, e)
Pick(h, on, ov) ==
  Final(h, IF Envelope(h) = Unknown THEN NoPick(0) ELSE PickWithin(ov, Usable(h, on)))
=============================================================================

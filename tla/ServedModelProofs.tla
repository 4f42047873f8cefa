-------------------------- MODULE ServedModelProofs --------------------------
(***************************************************************************)
(* Theorems about ModelFit and ServedModel, for every catalog, host, width *)
(* of a word and set of contexts: a recommendation that fits does so in    *)
(* whole numbers and the automatic pick is the best there is, a swap that  *)
(* was kept serves what it sized, and what the verbs admit can be rendered *)
(* and, as a resident set, fits together.                                  *)
(***************************************************************************)
EXTENDS ServedModel, WellFoundedInduction, SequenceTheorems, TLAPS

----------------------------------------------------------------------------
(* Arithmetic                                                              *)

LEMMA SatExact ==
  ASSUME NEW n \in Nat, NEW e \in Nat, e < Top, Sat(n) <= e
  PROVE  Sat(n) = n
  BY FitAssumption, SMT DEF Sat, FitAssumption

LEMMA SatType ==
  ASSUME NEW n \in Nat
  PROVE  Sat(n) \in 0..Top
  BY FitAssumption, SMT DEF Sat, FitAssumption

LEMMA TimesType ==
  ASSUME NEW a \in Nat, NEW b \in Nat
  PROVE  a * b \in Nat
  BY SMT

LEMMA PlusType ==
  ASSUME NEW a \in Nat, NEW b \in Nat
  PROVE  a + b \in Nat
  BY SMT

LEMMA TimesMonotone ==
  ASSUME NEW k \in Nat, NEW a \in Nat, NEW b \in Nat, a <= b
  PROVE  k * a <= k * b
<1>1. b = a + (b - a) /\ b - a \in Nat
  BY SMT
<1>2. k * (b - a) \in Nat
  BY <1>1, TimesType
<1>3. k * b = k * a + k * (b - a)
  BY SMT
<1>. QED  BY <1>2, <1>3, TimesType, SMT

LEMMA DivType ==
  ASSUME NEW a \in Nat, NEW p \in Nat \ {0}
  PROVE  a \div p \in Nat
  BY SMT

LEMMA DivMonotone ==
  ASSUME NEW a \in Nat, NEW b \in Nat, a <= b, NEW p \in Nat \ {0}
  PROVE  a \div p <= b \div p
  BY SMT

\* The least of a set of numbers.
Below == {ss \in Nat \X Nat : ss[1] < ss[2]}
LEMMA BelowWellFounded == IsWellFoundedOn(Below, Nat)
  BY NatLessThanWellFounded, Zenon DEF OpToRel, Below

LEMMA LeastNatural ==
  ASSUME NEW T \in SUBSET Nat, T # {}
  PROVE  \E x \in T : \A y \in T : x <= y
<1>1. PICK x \in T : \A y \in T : <<y, x>> \notin Below
  BY BelowWellFounded, WFMin, Zenon
<1>2. \A y \in T : ~ (y < x)
  BY <1>1 DEF Below
<1>. QED  BY <1>2, SMT

----------------------------------------------------------------------------
(* One model against an envelope                                           *)

Entry == [weight : 0..Top, perTok : Nat, ctx : Nat, agentCtx : Nat, floor : Nat,
          projector : Nat, draft : {None} \cup [weight : Nat, perTok : Nat],
          swa : {None} \cup [window : Nat, perTok : Nat],
          coder : BOOLEAN, bootstrap : BOOLEAN, safe : BOOLEAN, ngram : BOOLEAN,
          backend : {"rocm", "vulkan"}]

LEMMA EntryType ==
  ASSUME NEW m \in Models
  PROVE  Catalog[m] \in Entry
<1>1. Catalog \in Seq(Entry)
  BY FitAssumption DEF FitAssumption, Entry
<1>. QED  BY <1>1, ElementOfSeq DEF Models

LEMMA SwaCellsType ==
  ASSUME NEW ctx \in Nat, NEW window \in Nat
  PROVE  SwaCells(ctx, window) \in Nat
<1>. DEFINE cells == window * SeqMax + UBatch
            bound == IF cells <= TopInt THEN Smaller(ctx, cells) ELSE ctx
<1>0. cells \in Nat /\ TopInt \in Nat
  <2>1. window * SeqMax \in Nat
    BY FitAssumption, TimesType DEF FitAssumption
  <2>2. UBatch \in Nat /\ TopInt \in Nat
    BY FitAssumption DEF FitAssumption
  <2>. QED  BY <2>1, <2>2, PlusType
<1>. HIDE DEF cells
<1>1. bound \in Nat
  BY <1>0, SMT DEF Smaller
<1>. HIDE DEF bound
<1>2. bound + CellPad - 1 \in Nat
  BY <1>1, FitAssumption, SMT DEF FitAssumption
<1>3. ((bound + CellPad - 1) \div CellPad) * CellPad \in Nat
  BY <1>2, FitAssumption, DivType, TimesType DEF FitAssumption
<1>. QED  BY <1>1, <1>3 DEF SwaCells, bound, cells

\* Away from the largest int, a longer context never takes fewer cells.
LEMMA SwaCellsMonotone ==
  ASSUME NEW a \in Nat, NEW b \in Nat, a <= b, b <= TopInt - CellPad, NEW window \in Nat
  PROVE  SwaCells(a, window) <= SwaCells(b, window)
<1>. DEFINE cells    == window * SeqMax + UBatch
            bound(c) == IF cells <= TopInt THEN Smaller(c, cells) ELSE c
            up(n)    == ((n + CellPad - 1) \div CellPad) * CellPad
<1>. USE FitAssumption DEF FitAssumption
<1>0. cells \in Nat
  <2>1. window * SeqMax \in Nat
    BY TimesType
  <2>. QED  BY <2>1, PlusType
<1>. HIDE DEF cells
<1>1. bound(a) \in Nat /\ bound(b) \in Nat /\ bound(a) <= bound(b) /\ bound(b) <= TopInt - CellPad
  <2>1. TopInt \in Nat /\ CellPad \in Nat
    OBVIOUS
  <2>. QED  BY ONLY <1>0, <2>1, a \in Nat, b \in Nat, a <= b, b <= TopInt - CellPad, SMT DEF Smaller
<1>. HIDE DEF bound
<1>2. up(bound(a)) <= up(bound(b)) /\ up(bound(b)) \in Nat
  <2>1. bound(a) + CellPad - 1 \in Nat /\ bound(b) + CellPad - 1 \in Nat
    BY <1>1, SMT
  <2>2. bound(a) + CellPad - 1 <= bound(b) + CellPad - 1
    BY <1>1, SMT
  <2>3. (bound(a) + CellPad - 1) \div CellPad <= (bound(b) + CellPad - 1) \div CellPad
    BY <2>1, <2>2, DivMonotone
  <2>. HIDE DEF up
  <2>4. CellPad * ((bound(a) + CellPad - 1) \div CellPad) <= CellPad * ((bound(b) + CellPad - 1) \div CellPad)
    BY <2>1, <2>3, DivType, TimesMonotone
  <2>5. /\ (bound(a) + CellPad - 1) \div CellPad \in Nat
        /\ (bound(b) + CellPad - 1) \div CellPad \in Nat
    BY <2>1, DivType
  <2>6. up(bound(a)) = CellPad * ((bound(a) + CellPad - 1) \div CellPad)
    BY <2>5, SMT DEF up
  <2>7. up(bound(b)) = CellPad * ((bound(b) + CellPad - 1) \div CellPad)
    BY <2>5, SMT DEF up
  <2>8. up(bound(b)) \in Nat
    BY <2>5, <2>7, TimesType
  <2>. QED  BY <2>4, <2>6, <2>7, <2>8
<1>. HIDE DEF up
<1>3. SwaCells(b, window) = IF b <= 0 THEN 0 ELSE up(bound(b))
  BY <1>1, SMT DEF SwaCells, bound, cells, up
<1>4. SwaCells(a, window) = IF a <= 0 THEN 0 ELSE up(bound(a))
  BY <1>1, SMT DEF SwaCells, bound, cells, up
<1>. QED  BY <1>2, <1>3, <1>4, SMT

LEMMA SwaBytesType ==
  ASSUME NEW m \in Models, NEW ctx \in Nat
  PROVE  SwaBytes(Catalog[m].swa, ctx) \in Nat
<1>1. CASE Catalog[m].swa = None
  BY <1>1 DEF SwaBytes
<1>2. CASE Catalog[m].swa # None
  <2>. DEFINE s == Catalog[m].swa
  <2>1. s.window \in Nat /\ s.perTok \in Nat
    BY <1>2, EntryType DEF Entry
  <2>. HIDE DEF s
  <2>2. Smaller(ctx, s.window) \in Nat
    BY <2>1 DEF Smaller
  <2>3. Smaller(ctx, s.window) * SeqMax * Checkpoints \in Nat
    BY <2>2, FitAssumption, TimesType DEF FitAssumption
  <2>6. SwaCells(ctx, s.window) \in Nat
    BY <2>1, SwaCellsType
  <2>4. SwaCells(ctx, s.window) + Smaller(ctx, s.window) * SeqMax * Checkpoints \in Nat
    BY <2>3, <2>6, SMT
  <2>5. s.perTok * (SwaCells(ctx, s.window) + Smaller(ctx, s.window) * SeqMax * Checkpoints) \in Nat
    BY <2>1, <2>4, TimesType
  <2>. QED  BY <1>2, <2>5 DEF SwaBytes, s
<1>. QED  BY <1>1, <1>2

LEMMA SwaBytesMonotone ==
  ASSUME NEW m \in Models, NEW a \in Nat, NEW b \in Nat, a <= b, b <= TopInt - CellPad
  PROVE  SwaBytes(Catalog[m].swa, a) <= SwaBytes(Catalog[m].swa, b)
<1>1. CASE Catalog[m].swa = None
  BY <1>1, SMT DEF SwaBytes
<1>2. CASE Catalog[m].swa # None
  <2>. DEFINE s == Catalog[m].swa
              kept(c) == SwaCells(c, s.window) + Smaller(c, s.window) * SeqMax * Checkpoints
  <2>1. s.window \in Nat /\ s.perTok \in Nat /\ SeqMax \in Nat /\ Checkpoints \in Nat
    BY <1>2, EntryType, FitAssumption DEF Entry, FitAssumption
  <2>. HIDE DEF s
  <2>2. Smaller(a, s.window) \in Nat /\ Smaller(b, s.window) \in Nat /\ Smaller(a, s.window) <= Smaller(b, s.window)
    BY <2>1, SMT DEF Smaller
  <2>3. Smaller(a, s.window) * SeqMax <= Smaller(b, s.window) * SeqMax
    <3>1. SeqMax * Smaller(a, s.window) <= SeqMax * Smaller(b, s.window)
      BY <2>1, <2>2, TimesMonotone
    <3>. QED  BY <2>1, <2>2, <3>1, SMT
  <2>4. /\ Smaller(a, s.window) * SeqMax \in Nat
        /\ Smaller(b, s.window) * SeqMax \in Nat
    BY <2>1, <2>2, TimesType
  <2>5. Smaller(a, s.window) * SeqMax * Checkpoints <= Smaller(b, s.window) * SeqMax * Checkpoints
    <3>1. Checkpoints * (Smaller(a, s.window) * SeqMax) <= Checkpoints * (Smaller(b, s.window) * SeqMax)
      BY <2>1, <2>3, <2>4, TimesMonotone
    <3>. QED  BY <2>1, <2>4, <3>1, SMT
  <2>6. /\ Smaller(a, s.window) * SeqMax * Checkpoints \in Nat
        /\ Smaller(b, s.window) * SeqMax * Checkpoints \in Nat
    BY <2>1, <2>4, TimesType
  <2>7. SwaCells(a, s.window) \in Nat /\ SwaCells(b, s.window) \in Nat /\ SwaCells(a, s.window) <= SwaCells(b, s.window)
    BY <2>1, SwaCellsType, SwaCellsMonotone
  <2>8. kept(a) \in Nat /\ kept(b) \in Nat /\ kept(a) <= kept(b)
    BY <2>5, <2>6, <2>7, SMT
  <2>. HIDE DEF kept
  <2>9. s.perTok * kept(a) <= s.perTok * kept(b)
    BY <2>1, <2>8, TimesMonotone
  <2>. QED  BY <1>2, <2>9 DEF SwaBytes, s, kept
<1>. QED  BY <1>1, <1>2

LEMMA CacheSizeType ==
  ASSUME NEW m \in Models, NEW ctx \in Nat
  PROVE  CacheSize(m, ctx) \in Nat
<1>1. Catalog[m].perTok * ctx \in Nat
  BY EntryType, TimesType DEF Entry
<1>. QED  BY <1>1, SwaBytesType, SMT DEF CacheSize

LEMMA CacheSizeMonotone ==
  ASSUME NEW m \in Models, NEW a \in Nat, NEW b \in Nat, a <= b, b <= TopInt - CellPad
  PROVE  CacheSize(m, a) <= CacheSize(m, b)
<1>1. Catalog[m].perTok \in Nat
  BY EntryType DEF Entry
<1>2. Catalog[m].perTok * a <= Catalog[m].perTok * b
  BY <1>1, TimesMonotone
<1>3. Catalog[m].perTok * a \in Nat /\ Catalog[m].perTok * b \in Nat
  BY <1>1, TimesType
<1>4. SwaBytes(Catalog[m].swa, a) <= SwaBytes(Catalog[m].swa, b)
  BY SwaBytesMonotone
<1>5. SwaBytes(Catalog[m].swa, a) \in Nat /\ SwaBytes(Catalog[m].swa, b) \in Nat
  BY SwaBytesType
<1>. QED  BY <1>2, <1>3, <1>4, <1>5, SMT DEF CacheSize

LEMMA KVBytesType ==
  ASSUME NEW m \in Models, NEW ctx \in Nat
  PROVE  KVBytes(m, ctx) \in Nat
  BY CacheSizeType, SatType DEF KVBytes

LEMMA HeadroomType ==
  ASSUME NEW e \in Nat
  PROVE  Headroom(e) \in Nat
  BY SMT DEF Headroom

LEMMA BaseTotalType ==
  ASSUME NEW m \in Models, NEW ctx \in Nat, NEW e \in Nat
  PROVE  /\ Catalog[m].weight + KVBytes(m, ctx) + Headroom(e) + PromptCache \in Nat
         /\ BaseTotal(m, ctx, e) \in Nat
<1>1. Catalog[m].weight \in Nat /\ PromptCache \in Nat
  BY EntryType, FitAssumption DEF Entry, FitAssumption
<1>2. Catalog[m].weight + KVBytes(m, ctx) + Headroom(e) + PromptCache \in Nat
  BY <1>1, KVBytesType, HeadroomType, PlusType
<1>. QED  BY <1>2, SatType DEF BaseTotal

\* What a unit takes never falls as its context grows, or as it is given a draft.
LEMMA UnitSizeMonotone ==
  ASSUME NEW m \in Models, NEW a \in Nat, NEW b \in Nat, a <= b, b <= TopInt - CellPad,
         NEW p \in BOOLEAN, NEW d \in BOOLEAN, NEW f \in BOOLEAN, d => f /\ Catalog[m].draft # None,
         f => Catalog[m].draft # None
  PROVE  /\ UnitSize(m, a, p, d) \in Nat
         /\ UnitSize(m, b, p, f) \in Nat
         /\ UnitSize(m, a, p, d) <= UnitSize(m, b, p, f)
<1>. DEFINE fixed == Catalog[m].weight
            image == IF p THEN Catalog[m].projector ELSE 0
            draft(c, g) == IF g THEN Catalog[m].draft.weight + Catalog[m].draft.perTok * c ELSE 0
<1>1. fixed \in Nat /\ image \in Nat /\ PromptCache \in Nat
  BY EntryType, FitAssumption DEF Entry, FitAssumption
<1>2. /\ CacheSize(m, a) \in Nat
      /\ CacheSize(m, b) \in Nat
      /\ CacheSize(m, a) <= CacheSize(m, b)
  BY CacheSizeType, CacheSizeMonotone
<1>3. draft(a, d) \in Nat /\ draft(b, f) \in Nat /\ draft(a, d) <= draft(b, f)
  <2>1. CASE ~f
    BY <2>1
  <2>2. CASE f
    <3>1. Catalog[m].draft.weight \in Nat /\ Catalog[m].draft.perTok \in Nat
      BY <2>2, EntryType DEF Entry
    <3>2. /\ Catalog[m].draft.perTok * a \in Nat
          /\ Catalog[m].draft.perTok * b \in Nat
          /\ Catalog[m].draft.perTok * a <= Catalog[m].draft.perTok * b
      BY <3>1, TimesType, TimesMonotone
    <3>. QED  BY <2>2, <3>1, <3>2, SMT
  <2>. QED  BY <2>1, <2>2
<1>4. UnitSize(m, a, p, d) = fixed + CacheSize(m, a) + PromptCache + image + draft(a, d)
  BY DEF UnitSize
<1>5. UnitSize(m, b, p, f) = fixed + CacheSize(m, b) + PromptCache + image + draft(b, f)
  BY DEF UnitSize
<1>. HIDE DEF fixed, image, draft
<1>. QED  BY <1>1, <1>2, <1>3, <1>4, <1>5, SMT

\* kv.go:123, "overflow must never wrap to fits": a recommendation that fits does so in
\* whole numbers, with the projector and the draft it turns on.
THEOREM RecommendFits ==
  ASSUME NEW m \in Models, NEW ov, ov.ctx \in Nat, ov.spec \in Modes,
         NEW e \in Nat, e < Top, Recommend(m, ov, e).fits
  PROVE  LET r == Recommend(m, ov, e) IN
         UnitSize(m, r.ctx, r.vision, r.spec = "draft") + r.headroom <= e
<1>. DEFINE r      == Recommend(m, ov, e)
            ctx    == EffectiveCtx(m, ov)
            base   == BaseTotal(m, ctx, e)
            beside == WithProjector(m, base, e)
            draft  == WithDraft(m, ctx, beside)
            mode   == Speculation(m, ov.spec, draft <= e)
            image  == IF HasProjector(m, base, e) THEN Catalog[m].projector ELSE 0
            sum    == Catalog[m].weight + KVBytes(m, ctx) + Headroom(e) + PromptCache
<1>1. /\ r.ctx = ctx /\ r.vision = HasProjector(m, base, e) /\ r.spec = mode
      /\ r.headroom = Headroom(e)
      /\ (IF mode = "draft" THEN draft ELSE beside) <= e
  BY DEF Recommend
<1>2. /\ ctx \in Nat /\ Catalog[m].weight \in Nat /\ image \in Nat /\ PromptCache \in Nat
  <2>1. Catalog[m].ctx \in Nat /\ Catalog[m].weight \in Nat /\ Catalog[m].projector \in Nat
    BY EntryType DEF Entry
  <2>2. PromptCache \in Nat
    BY FitAssumption DEF FitAssumption
  <2>. QED  BY <2>1, <2>2 DEF EffectiveCtx
<1>. HIDE DEF r, ctx
<1>3. sum \in Nat /\ base = Sat(sum) /\ base \in Nat
  BY <1>2, BaseTotalType DEF BaseTotal
<1>. HIDE DEF base
<1>4. beside = Sat(base + image) /\ base + image \in Nat /\ beside \in Nat
  BY <1>2, <1>3, PlusType, SatType DEF WithProjector
<1>. HIDE DEF beside, image
<1>5. ASSUME beside <= e
      PROVE  Catalog[m].weight + CacheSize(m, ctx) + PromptCache + image + Headroom(e) = beside
  <2>1. beside = base + image
    BY <1>4, <1>5, SatExact
  <2>2. base <= e
    BY <1>2, <1>3, <1>5, <2>1, SMT
  <2>3. base = sum
    BY <1>3, <2>2, SatExact
  <2>4. KVBytes(m, ctx) <= e
    BY <1>2, <2>2, <2>3, KVBytesType, HeadroomType, SMT
  <2>5. KVBytes(m, ctx) = CacheSize(m, ctx)
    BY <1>2, <2>4, CacheSizeType, SatExact DEF KVBytes
  <2>. QED  BY <1>2, <2>1, <2>3, <2>5, CacheSizeType, HeadroomType, SMT
<1>6. CASE mode = "draft"
  <2>. DEFINE extra == Catalog[m].draft.weight + Catalog[m].draft.perTok * ctx
  <2>1. Catalog[m].draft # None
    BY <1>6 DEF Speculation, Qualified
  <2>2. Catalog[m].draft.weight \in Nat /\ Catalog[m].draft.perTok \in Nat
    BY <2>1, EntryType DEF Entry
  <2>3. extra \in Nat
    BY <1>2, <2>2, TimesType, PlusType
  <2>4. draft = Sat(beside + extra)
    <3>1. Catalog[m].draft.perTok * ctx \in Nat
      BY <1>2, <2>2, TimesType
    <3>2. draft = Sat(beside + Catalog[m].draft.weight + Catalog[m].draft.perTok * ctx)
      BY <2>1 DEF WithDraft
    <3>3. beside + Catalog[m].draft.weight + Catalog[m].draft.perTok * ctx = beside + extra
      BY <1>4, <2>2, <3>1, SMT
    <3>. QED  BY <3>2, <3>3
  <2>. DEFINE unit == UnitSize(m, ctx, HasProjector(m, base, e), TRUE)
  <2>5. unit = Catalog[m].weight + CacheSize(m, ctx) + PromptCache + image + extra
    BY DEF UnitSize, image
  <2>. HIDE DEF extra, draft, unit
  <2>6. beside + extra \in Nat
    BY <1>4, <2>3, PlusType
  <2>7. draft <= e
    BY <1>1, <1>6
  <2>8. draft = beside + extra
    BY <2>4, <2>6, <2>7, SatExact
  <2>9. beside <= e
    BY <1>4, <2>3, <2>7, <2>8, SMT
  <2>10. Catalog[m].weight + CacheSize(m, ctx) + PromptCache + image + Headroom(e) = beside
    BY <1>5, <2>9
  <2>11. CacheSize(m, ctx) \in Nat /\ Headroom(e) \in Nat
    BY <1>2, CacheSizeType, HeadroomType
  <2>12. unit + Headroom(e) = beside + extra
    BY <1>2, <2>3, <2>5, <2>10, <2>11, SMT
  <2>. QED  BY <1>1, <1>6, <2>7, <2>8, <2>12 DEF r, unit
<1>7. CASE mode # "draft"
  <2>1. beside <= e
    BY <1>1, <1>7
  <2>. DEFINE unit == UnitSize(m, ctx, HasProjector(m, base, e), FALSE)
  <2>2. unit = Catalog[m].weight + CacheSize(m, ctx) + PromptCache + image + 0
    BY DEF UnitSize, image
  <2>. HIDE DEF unit
  <2>3. Catalog[m].weight + CacheSize(m, ctx) + PromptCache + image + Headroom(e) = beside
    BY <1>5, <2>1
  <2>4. CacheSize(m, ctx) \in Nat /\ Headroom(e) \in Nat
    BY <1>2, CacheSizeType, HeadroomType
  <2>5. unit + Headroom(e) = beside
    BY <1>2, <2>2, <2>3, <2>4, SMT
  <2>. QED  BY <1>1, <1>7, <2>1, <2>5 DEF r, unit
<1>. QED  BY <1>6, <1>7 DEF r

----------------------------------------------------------------------------
(* The pick                                                                *)

\* A nonempty set of catalog places has one first by f, then by g, then in order.
LEMMA FirstByTwo ==
  ASSUME NEW S \in SUBSET Nat, S # {}, NEW f \in [S -> 0..Top], NEW g \in [S -> 0..Top]
  PROVE  \E m \in S : \A n \in S :
           /\ ~ (f[n] > f[m] \/ (f[n] = f[m] /\ g[n] > g[m]))
           /\ (f[m] > f[n] \/ (f[m] = f[n] /\ g[m] > g[n])) \/ m <= n
<1>0. Top \in Nat
  BY FitAssumption DEF FitAssumption
<1>1. PICK a \in S : \A n \in S : f[n] <= f[a]
  <2>. DEFINE T == {Top - f[n] : n \in S}
  <2>0. ASSUME NEW n \in S
        PROVE  Top - f[n] \in Nat
    <3>1. f[n] \in 0..Top
      OBVIOUS
    <3>. QED  BY ONLY <1>0, <3>1, SMT
  <2>1. T \in SUBSET Nat /\ T # {}
    BY <2>0, Zenon
  <2>2. PICK x \in T : \A y \in T : x <= y
    BY <2>1, LeastNatural
  <2>3. PICK n \in S : x = Top - f[n]
    BY <2>2
  <2>4. \A k \in S : Top - f[n] <= Top - f[k]
    BY <2>2, <2>3
  <2>5. \A k \in S : f[k] <= f[n]
    BY <1>0, <2>4, SMT
  <2>. QED  BY <2>5
<1>. DEFINE A == {n \in S : f[n] = f[a]}
<1>2. PICK b \in A : \A n \in A : g[n] <= g[b]
  <2>. DEFINE T == {Top - g[n] : n \in A}
  <2>0. ASSUME NEW n \in S
        PROVE  Top - g[n] \in Nat
    <3>1. g[n] \in 0..Top
      OBVIOUS
    <3>. QED  BY ONLY <1>0, <3>1, SMT
  <2>1. T \in SUBSET Nat /\ T # {}
    BY <2>0, Zenon
  <2>2. PICK x \in T : \A y \in T : x <= y
    BY <2>1, LeastNatural
  <2>3. PICK n \in A : x = Top - g[n]
    BY <2>2
  <2>4. \A k \in A : Top - g[n] <= Top - g[k]
    BY <2>2, <2>3
  <2>5. \A k \in A : g[k] <= g[n]
    BY <1>0, <2>4, SMT
  <2>. QED  BY <2>5
<1>. DEFINE B == {n \in A : g[n] = g[b]}
<1>3. PICK m \in B : \A n \in B : m <= n
  <2>1. B \in SUBSET Nat /\ B # {}
    OBVIOUS
  <2>. QED  BY <2>1, LeastNatural
<1>4. m \in S /\ f[m] = f[a] /\ g[m] = g[b]
  OBVIOUS
<1>5. ASSUME NEW n \in S
      PROVE  /\ ~ (f[n] > f[m] \/ (f[n] = f[m] /\ g[n] > g[m]))
             /\ (f[m] > f[n] \/ (f[m] = f[n] /\ g[m] > g[n])) \/ m <= n
  <2>1. f[n] \in Nat /\ f[a] \in Nat /\ g[n] \in Nat /\ g[b] \in Nat /\ f[n] <= f[a]
    BY <1>0, <1>1, SMT
  <2>2. f[n] = f[a] => g[n] <= g[b]
    BY <1>2
  <2>3. f[n] = f[a] /\ g[n] = g[b] => m <= n
    BY <1>3
  <2>. QED  BY <1>4, <2>1, <2>2, <2>3, SMT
<1>. QED  BY <1>4, <1>5

LEMMA ChatTotalType ==
  ASSUME NEW m \in Models, NEW ov, ov.ctx \in Nat, NEW e \in Nat
  PROVE  ChatTotal(m, ov, e) \in 0..Top
<1>1. EffectiveCtx(m, ov) \in Nat
  BY EntryType DEF EffectiveCtx, Entry
<1>. DEFINE n == Catalog[m].weight + KVBytes(m, EffectiveCtx(m, ov)) + Headroom(e) + PromptCache
<1>2. n \in Nat
  BY <1>1, BaseTotalType
<1>. HIDE DEF n
<1>3. Wrapped(n) \in 0..Top
  BY <1>2, FitAssumption, SMT DEF Wrapped, FitAssumption
<1>. QED  BY <1>3 DEF ChatTotal, n

LEMMA BestType ==
  ASSUME NEW S \in SUBSET Models, S # {}, NEW ov, ov.ctx \in Nat, NEW e \in Nat
  PROVE  Best(S, ov, e) \in S /\ \A n \in S : ~Outranks(n, Best(S, ov, e), ov, e)
<1>. DEFINE f == [m \in S |-> Catalog[m].weight]
            g == [m \in S |-> ChatTotal(m, ov, e)]
<1>1. f \in [S -> 0..Top] /\ g \in [S -> 0..Top]
  BY EntryType, ChatTotalType DEF Entry
<1>2. S \in SUBSET Nat
  BY DEF Models
<1>. HIDE DEF f, g
<1>3. \E m \in S : \A n \in S :
           /\ ~ (f[n] > f[m] \/ (f[n] = f[m] /\ g[n] > g[m]))
           /\ (f[m] > f[n] \/ (f[m] = f[n] /\ g[m] > g[n])) \/ m <= n
  BY <1>1, <1>2, FirstByTwo
<1>4. \E m \in S : \A n \in S : ~Outranks(n, m, ov, e) /\ (Outranks(m, n, ov, e) \/ m <= n)
  BY <1>3 DEF Outranks, f, g
<1>. QED  BY <1>4 DEF Best

LEMMA CoderType ==
  ASSUME NEW h, NEW on, Envelope(h) # Unknown => Usable(h, on) \in Nat
  PROVE  /\ PickCoder(h, on).model \in Models \cup {0}
         /\ PickCoder(h, on).ctx \in Contexts \cup {0}
<1>1. CASE Envelope(h) = Unknown \/ Coders(Usable(h, on)) = {}
  BY <1>1 DEF PickCoder, SharedCoder
<1>2. CASE Envelope(h) # Unknown /\ Coders(Usable(h, on)) # {}
  <2>. DEFINE e == Usable(h, on)
              S == Coders(e)
              f == [m \in S |-> CoderTotal(m, e)]
              g == [m \in S |-> 0]
  <2>1. e \in Nat
    BY <1>2
  <2>. HIDE DEF e
  <2>2. S \in SUBSET Models
    BY DEF Coders
  <2>3. \A m \in Models : CoderTotal(m, e) \in 0..Top
    <3>1. TAKE m \in Models
    <3>2. Catalog[m].agentCtx \in Nat
      BY EntryType DEF Entry
    <3>3. Catalog[m].weight + KVBytes(m, Catalog[m].agentCtx) + Headroom(e) + PromptCache \in Nat
      BY <2>1, <3>2, BaseTotalType
    <3>. QED  BY <3>3, SatType DEF CoderTotal
  <2>4. f \in [S -> 0..Top] /\ g \in [S -> 0..Top]
    <3>1. 0 \in 0..Top
      BY FitAssumption, SMT DEF FitAssumption
    <3>. QED  BY <2>2, <2>3, <3>1
  <2>5. S \in SUBSET Nat /\ S # {}
    BY <1>2, <2>2 DEF Models, e
  <2>. HIDE DEF S, f, g
  <2>6. \E m \in S : \A n \in S :
           /\ ~ (f[n] > f[m] \/ (f[n] = f[m] /\ g[n] > g[m]))
           /\ (f[m] > f[n] \/ (f[m] = f[n] /\ g[m] > g[n])) \/ m <= n
    BY <2>4, <2>5, FirstByTwo
  <2>7. \E m \in S : \A n \in S : CoderTotal(m, e) > CoderTotal(n, e) \/ (CoderTotal(m, e) = CoderTotal(n, e) /\ m <= n)
    <3>1. PICK m \in S : \A n \in S :
           /\ ~ (f[n] > f[m] \/ (f[n] = f[m] /\ g[n] > g[m]))
           /\ (f[m] > f[n] \/ (f[m] = f[n] /\ g[m] > g[n])) \/ m <= n
      BY <2>6
    <3>2. ASSUME NEW n \in S
          PROVE  CoderTotal(m, e) > CoderTotal(n, e) \/ (CoderTotal(m, e) = CoderTotal(n, e) /\ m <= n)
      <4>1. f[n] = CoderTotal(n, e) /\ f[m] = CoderTotal(m, e) /\ g[m] = 0 /\ g[n] = 0
        BY DEF f, g
      <4>2. CoderTotal(n, e) \in 0..Top /\ CoderTotal(m, e) \in 0..Top
        BY <2>2, <2>3
      <4>3. /\ ~ (f[n] > f[m])
            /\ (f[m] > f[n] \/ (f[m] = f[n] /\ g[m] > g[n])) \/ m <= n
        BY <3>1
      <4>. QED  BY <4>1, <4>2, <4>3, SMT
    <3>. QED  BY <3>2
  <2>. DEFINE c == CHOOSE m \in S : \A n \in S : CoderTotal(m, e) > CoderTotal(n, e) \/ (CoderTotal(m, e) = CoderTotal(n, e) /\ m <= n)
  <2>8. c \in S
    BY <2>7
  <2>9. PickCoder(h, on) = [model |-> c, ctx |-> Catalog[c].agentCtx]
    BY <1>2 DEF PickCoder, e, S
  <2>. HIDE DEF c
  <2>. QED  BY <2>2, <2>8, <2>9 DEF Contexts
<1>. QED  BY <1>1, <1>2

LEMMA EnvelopeType ==
  ASSUME NEW h \in Hosts, Envelope(h) # Unknown
  PROVE  Envelope(h) \in Nat /\ Envelope(h) < Top
<1>1. /\ Top \in Nat \ {0}
      /\ h.gtt \in 0..(Top - 1) \cup {Unknown}
      /\ h.ram \in 0..Top \cup {Unknown}
  BY FitAssumption, ServedAssumption DEF FitAssumption, ServedAssumption
<1>2. CASE h.gtt \notin {Unknown, 0}
  BY <1>1, <1>2, SMT DEF Envelope
<1>3. CASE h.gtt \in {Unknown, 0} /\ h.ram # Unknown /\ h.ram \div 2 > 0
  <2>1. h.ram \in 0..Top
    BY <1>1, <1>3
  <2>2. Envelope(h) = h.ram \div 2
    BY <1>3 DEF Envelope
  <2>. QED  BY <1>1, <1>3, <2>1, <2>2, SMT
<1>4. CASE h.gtt \in {Unknown, 0} /\ ~ (h.ram # Unknown /\ h.ram \div 2 > 0)
  BY <1>4 DEF Envelope
<1>. QED  BY <1>2, <1>3, <1>4

LEMMA ReservedType ==
  ASSUME NEW on \in SUBSET Parts
  PROVE  ReservedBytes(on) \in Nat
<1>1. \A part \in Parts : Held(on, part) \in Nat
  BY FitAssumption DEF Held, FitAssumption
<1>2. /\ Held(on, "memory") \in Nat /\ Held(on, "rerank") \in Nat /\ Held(on, "extract") \in Nat
      /\ Held(on, "web") \in Nat /\ Held(on, "voice") \in Nat /\ Held(on, "image") \in Nat
  BY <1>1 DEF Parts
<1>3. Held(on, "memory") + Held(on, "rerank") + Held(on, "extract")
        + Held(on, "web") + Held(on, "voice") + Held(on, "image") \in Nat
  BY <1>2, PlusType
<1>. QED  BY <1>3, SatType DEF ReservedBytes

LEMMA UsableType ==
  ASSUME NEW h \in Hosts, NEW on \in SUBSET Parts, Envelope(h) # Unknown
  PROVE  Usable(h, on) \in Nat /\ Usable(h, on) < Top
<1>1. Top \in Nat \ {0}
  BY FitAssumption DEF FitAssumption
<1>. QED  BY <1>1, EnvelopeType, ReservedType, SMT DEF Usable

LEMMA OnsType == \A on \in Ons : on \in SUBSET Parts
  BY ServedAssumption DEF Ons, Reserved, ServedAssumption

\* A save keeps the subsystems that reserve, and what they reserve.
LEMMA ReservedTwice ==
  ASSUME NEW on
  PROVE  Reserved(Reserved(on)) = Reserved(on)
  BY DEF Reserved

LEMMA SavedEnvelope ==
  ASSUME NEW h, NEW on
  PROVE  Usable(h, Reserved(on)) = Usable(h, on)
  BY ReservedTwice DEF Usable, ReservedBytes, Held

LEMMA OnsClosed ==
  ASSUME NEW on \in Ons
  PROVE  Reserved(on) \in Ons
  BY ReservedTwice DEF Ons

\* What a pick that is made has: a known model at a context of the catalog or one asked
\* for.
LEMMA ContextType == Contexts \subseteq Nat /\ \A n \in Contexts : n <= TopInt - CellPad
<1>1. Contexts \subseteq 0..(TopInt - CellPad)
  BY ServedAssumption DEF ServedAssumption
<1>2. TopInt \in Nat /\ CellPad \in Nat
  BY FitAssumption DEF FitAssumption
<1>. QED  BY <1>1, <1>2, SMT

LEMMA CtxType ==
  ASSUME NEW n \in Contexts \cup {0}
  PROVE  n \in Nat
<1>1. Contexts \subseteq Nat
  BY ContextType
<1>2. CASE n = 0
  BY <1>2, SMT
<1>3. CASE n \in Contexts
  BY <1>1, <1>3
<1>. QED  BY <1>2, <1>3

LEMMA EffectiveCtxType ==
  ASSUME NEW m \in Models, NEW ov \in Asked
  PROVE  EffectiveCtx(m, ov) \in Contexts
<1>1. Catalog[m].ctx \in Contexts
  BY DEF Contexts
<1>2. ov.ctx \in Contexts \cup {0}
  BY DEF Asked
<1>3. ov.ctx > 0 => ov.ctx \in Contexts
  BY <1>2, SMT
<1>. QED  BY <1>1, <1>3 DEF EffectiveCtx

LEMMA SpeculationType ==
  ASSUME NEW m, NEW requested, NEW fit
  PROVE  Speculation(m, requested, fit) \in Modes
  BY DEF Speculation, Modes

PickRec(r) ==
  /\ r.model \in Models \cup {0} /\ r.ctx \in Contexts \cup {0} /\ r.spec \in Modes
  /\ r.vision \in BOOLEAN /\ r.backend \in {"rocm", "vulkan"}
  /\ r.model # 0 => r.ctx \in Contexts

LEMMA RecommendType ==
  ASSUME NEW m \in Models, NEW ov \in Asked, NEW e
  PROVE  PickRec(Recommend(m, ov, e))
<1>1. Catalog[m].backend \in {"rocm", "vulkan"}
  BY EntryType DEF Entry
<1>. QED  BY <1>1, EffectiveCtxType, SpeculationType DEF Recommend, PickRec, HasProjector

\* What a host that blocks ROCm changes of a recommendation: its backend.
LEMMA FinalRecommend ==
  ASSUME NEW h, NEW m \in Models, NEW ov \in Asked, NEW e
  PROVE  LET r == Recommend(m, ov, e)
             f == Final(h, r)
         IN /\ f.model = r.model /\ f.ctx = r.ctx /\ f.spec = r.spec /\ f.vision = r.vision
            /\ f.fits = r.fits /\ f.headroom = r.headroom
            /\ PickRec(f)
<1>1. PickRec(Recommend(m, ov, e))
  BY RecommendType
<1>. QED  BY <1>1 DEF Recommend, Final, PickRec

LEMMA FinalNoPick ==
  ASSUME NEW h, NEW e
  PROVE  PickRec(Final(h, NoPick(e))) /\ ~Final(h, NoPick(e)).fits
  BY DEF NoPick, Final, PickRec, Modes

LEMMA PickType ==
  ASSUME NEW h \in Hosts, NEW on \in SUBSET Parts, NEW ov \in Asked
  PROVE  PickRec(Pick(h, on, ov))
<1>1. CASE Envelope(h) = Unknown
  BY <1>1, FinalNoPick DEF Pick
<1>2. CASE Envelope(h) # Unknown
  <2>. DEFINE e == Usable(h, on)
              S == Candidates(ov, e)
  <2>1. e \in Nat
    BY <1>2, UsableType
  <2>2. S \in SUBSET Models
    BY DEF Candidates
  <2>3. ov.ctx \in Nat
    <3>1. ov.ctx \in Contexts \cup {0}
      BY DEF Asked
    <3>. QED  BY <3>1, CtxType
  <2>4. Pick(h, on, ov) = Final(h, PickWithin(ov, e))
    BY <1>2 DEF Pick
  <2>. HIDE DEF e
  <2>5. S # {} => Best(S, ov, e) \in Models
    BY <2>1, <2>2, <2>3, BestType
  <2>6. \/ PickWithin(ov, e) = NoPick(e)
        \/ \E m \in Models : PickWithin(ov, e) = Recommend(m, ov, e)
    BY <2>5 DEF PickWithin, Known
  <2>. QED  BY <2>4, <2>6, FinalNoPick, FinalRecommend
<1>. QED  BY <1>1, <1>2

LEMMA Tabulated ==
  ASSUME NEW h \in Hosts, NEW on \in Ons, NEW ov \in Asked
  PROVE  Picks[h][on][ov] = Pick(h, on, ov)
  BY DEF Picks

\* A model that is asked for and fits: the recommendation is for it, and the memory it
\* takes is there.
LEMMA AskedFits ==
  ASSUME NEW h \in Hosts, NEW on \in Ons, NEW m \in Models, NEW ctx \in Contexts \cup {0}, NEW spec \in Modes,
         Picks[h][on][Override(m, ctx, spec)].fits
  PROVE  LET r == Picks[h][on][Override(m, ctx, spec)]
             e == Usable(h, on)
             draft == WithDraft(m, r.ctx, WithProjector(m, BaseTotal(m, r.ctx, e), e))
         IN /\ e \in Nat
            /\ r.ctx = EffectiveCtx(m, Override(m, ctx, spec)) /\ r.vision \in BOOLEAN
            /\ r.spec = Speculation(m, spec, draft <= e) /\ SpeculationOk(m, spec, draft <= e)
            /\ UnitSize(m, r.ctx, r.vision, r.spec = "draft") + Headroom(e) <= e
<1>. DEFINE ov == Override(m, ctx, spec)
            e  == Usable(h, on)
            r  == Recommend(m, ov, e)
<1>1. ov \in Asked /\ ov.ctx \in Nat /\ ov.model = m /\ ov.spec = spec
  <2>1. Len(Catalog) \in Nat
    BY FitAssumption, LenProperties DEF FitAssumption
  <2>2. m \in 0..Len(Catalog) + 1
    BY <2>1, SMT DEF Models
  <2>3. ctx \in Nat
    BY CtxType
  <2>. QED  BY <2>2, <2>3 DEF Override, Asked
<1>2. Picks[h][on][ov] = Pick(h, on, ov)
  BY <1>1, Tabulated
<1>. HIDE DEF ov
<1>3. Envelope(h) # Unknown /\ Pick(h, on, ov) = Final(h, r)
  <2>1. m # 0
    BY SMT DEF Models
  <2>. QED  BY <1>1, <1>2, <2>1, FinalNoPick DEF Pick, PickWithin, Known, ov
<1>4. e \in Nat /\ e < Top
  BY <1>3, OnsType, UsableType
<1>. HIDE DEF e
<1>5. /\ Pick(h, on, ov).ctx = r.ctx /\ Pick(h, on, ov).spec = r.spec /\ Pick(h, on, ov).vision = r.vision
      /\ Pick(h, on, ov).fits = r.fits /\ PickRec(Pick(h, on, ov))
  BY <1>1, <1>3, FinalRecommend
<1>6. r.fits
  BY <1>2, <1>5 DEF ov
<1>7. UnitSize(m, r.ctx, r.vision, r.spec = "draft") + r.headroom <= e
  BY <1>1, <1>4, <1>6, RecommendFits
<1>8. /\ r.ctx = EffectiveCtx(m, ov) /\ r.headroom = Headroom(e)
      /\ r.spec = Speculation(m, spec, WithDraft(m, r.ctx, WithProjector(m, BaseTotal(m, r.ctx, e), e)) <= e)
      /\ SpeculationOk(m, spec, WithDraft(m, r.ctx, WithProjector(m, BaseTotal(m, r.ctx, e), e)) <= e)
  BY <1>1, <1>6 DEF Recommend
<1>. HIDE DEF r
<1>. QED  BY <1>2, <1>4, <1>5, <1>7, <1>8 DEF ov, e, PickRec

----------------------------------------------------------------------------
(* The configs the verbs make                                              *)

\* A config of the program, whatever its resident set s is.
Shape(s) ==
  [model : 0..(Len(Catalog) + 1), ctx : Contexts \cup {0}, backend : {"rocm", "vulkan"}, spec : Modes,
   vision : BOOLEAN, tools : BOOLEAN, coding : BOOLEAN, coder : Models \cup {0},
   coderCtx : Contexts \cup {0}, on : Ons, resident : {s}]
Typed == host \in Hosts /\ \E s : cfg \in Shape(s)

LEMMA LenType == Len(Catalog) \in Nat
  BY FitAssumption, LenProperties DEF FitAssumption

LEMMA ModelType ==
  ASSUME NEW m \in Models \cup {0}
  PROVE  m \in 0..(Len(Catalog) + 1)
  BY LenType, SMT DEF Models

LEMMA RecommendedType ==
  ASSUME Typed, NEW m \in 0..(Len(Catalog) + 1), NEW ctx \in Contexts \cup {0}, NEW spec \in Modes
  PROVE  PickRec(Recommended(m, ctx, spec))
<1>1. Override(m, ctx, spec) \in Asked
  BY DEF Override, Asked
<1>2. host \in Hosts /\ cfg.on \in Ons
  BY DEF Typed, Shape
<1>. QED  BY <1>1, <1>2, Tabulated, OnsType, PickType DEF Recommended

LEMMA MarshalShape ==
  ASSUME NEW s, NEW c \in Shape(s)
  PROVE  Marshal(c) \in Shape(s)
<1>1. Reserved(c.on) \in Ons
  BY OnsClosed DEF Shape
<1>. QED  BY <1>1 DEF Marshal, Shape

LEMMA TransactTyped ==
  ASSUME Typed, NEW v, NEW s, NEW target \in Shape(s), NEW vet, Transact(v, target, vet)
  PROVE  Typed'
<1>1. CASE Refused
  BY <1>1 DEF Refused, vars, Typed
<1>2. CASE cfg' = Marshal(target) /\ UNCHANGED host
  BY <1>2, MarshalShape DEF Typed
<1>. QED  BY <1>1, <1>2 DEF Transact

LEMMA SwapCtxType ==
  ASSUME NEW s, NEW c \in Shape(s), NEW m \in Models
  PROVE  SwapCtx(m, c) \in Contexts \cup {0} /\ SwapSpec(c) \in Modes
<1>1. Catalog[m].ctx \in Contexts /\ Catalog[m].agentCtx \in Contexts
  BY DEF Contexts
<1>2. c.ctx \in Contexts \cup {0} /\ c.coderCtx \in Contexts \cup {0} /\ c.spec \in Modes
  BY DEF Shape
<1>. QED  BY <1>1, <1>2 DEF SwapCtx, SwapSpec, Larger, Modes

LEMMA SizedShape ==
  ASSUME NEW s, NEW c \in Shape(s), NEW m \in Models
  PROVE  /\ [c EXCEPT !.model = m] \in Shape(s)
         /\ Sized(m, c) \in Shape(s)
         /\ \A v \in BOOLEAN : [c EXCEPT !.vision = v] \in Shape(s)
<1>1. Catalog[m].ctx \in Contexts /\ m \in 0..(Len(Catalog) + 1)
  BY ModelType DEF Contexts
<1>. QED  BY <1>1 DEF Sized, Shape

LEMMA TypedInit == Init => Typed
<1>. SUFFICES ASSUME Init
              PROVE  Typed
  OBVIOUS
<1>1. {} \in Ons /\ {} \in SUBSET Parts
  BY ServedAssumption DEF ServedAssumption, Ons
<1>2. Fresh \in Shape(<<>>)
  BY <1>1, ModelType DEF Fresh, Shape, Modes
<1>3. Installed(host) \in Shape(<<>>)
  <2>1. Override(0, 0, "unset") \in Asked
    BY ModelType DEF Override, Asked, Modes
  <2>. DEFINE r == Pick(host, {}, Override(0, 0, "unset"))
  <2>2. PickRec(r)
    BY <1>1, <2>1, PickType DEF Init
  <2>. HIDE DEF r
  <2>3. r.model \in 0..(Len(Catalog) + 1)
    BY <2>2, ModelType DEF PickRec
  <2>4. Installed(host) = [Fresh EXCEPT !.model = r.model, !.ctx = r.ctx, !.backend = r.backend, !.spec = r.spec,
                                        !.vision = r.vision]
    BY DEF Installed, r
  <2>. QED  BY <1>1, <2>2, <2>3, <2>4 DEF PickRec, Fresh, Shape
<1>. QED  BY <1>2, <1>3 DEF Init, Typed

\* Every verb keeps the shape of the config.
LEMMA TypedStep == Typed /\ [Next]_vars => Typed'
<1>. SUFFICES ASSUME Typed, [Next]_vars
              PROVE  Typed'
  OBVIOUS
<1>0. PICK s : cfg \in Shape(s)
  BY DEF Typed
<1>1. CASE UNCHANGED vars
  BY <1>1 DEF vars, Typed
<1>2. ASSUME NEW m \in Models, ModelSwap(m)
      PROVE  Typed'
  <2>. DEFINE c == Sized(m, [cfg EXCEPT !.model = m])
  <2>1. c \in Shape(s) /\ c.model = m
    <3>1. [cfg EXCEPT !.model = m] \in Shape(s)
      BY <1>0, SizedShape
    <3>2. Sized(m, [cfg EXCEPT !.model = m]).model = m
      BY <1>0 DEF Sized, Shape
    <3>. QED  BY <3>1, <3>2, SizedShape
  <2>2. CASE Refused
    BY <2>2, <1>1 DEF Refused
  <2>3. CASE Transact("swap", SwapTarget(c), ~(cfg.coding /\ cfg.coder = 0))
    <3>. HIDE DEF c
    <3>1. PickRec(SwapFit(c.model, c))
      BY <2>1, SwapCtxType, ModelType, RecommendedType DEF SwapFit
    <3>2. SwapTarget(c) \in Shape(s)
      BY <2>1, <3>1, SizedShape DEF SwapTarget, PickRec
    <3>. QED  BY <2>3, <3>2, TransactTyped
  <2>. QED  BY <1>2, <2>2, <2>3 DEF ModelSwap, Known
<1>3. ASSUME NEW m \in Models, ResidentAdd(m)
      PROVE  Typed'
  <2>1. CASE Refused \/ NoOp
    BY <2>1, <1>1 DEF Refused, NoOp
  <2>2. CASE \E t : Transact("add", [cfg EXCEPT !.resident = t], vetted)
    <3>1. PICK t : Transact("add", [cfg EXCEPT !.resident = t], vetted)
      BY <2>2
    <3>2. [cfg EXCEPT !.resident = t] \in Shape(t)
      BY <1>0 DEF Shape
    <3>. QED  BY <3>1, <3>2, TransactTyped
  <2>. QED  BY <1>3, <2>1, <2>2 DEF ResidentAdd
<1>4. ASSUME NEW m \in Models, ResidentRm(m)
      PROVE  Typed'
  <2>1. CASE Refused
    BY <2>1, <1>1 DEF Refused
  <2>2. CASE \E t : Transact("rm", [cfg EXCEPT !.resident = t], vetted)
    <3>1. PICK t : Transact("rm", [cfg EXCEPT !.resident = t], vetted)
      BY <2>2
    <3>2. [cfg EXCEPT !.resident = t] \in Shape(t)
      BY <1>0 DEF Shape
    <3>. QED  BY <3>1, <3>2, TransactTyped
  <2>. QED  BY <1>4, <2>1, <2>2 DEF ResidentRm
<1>5. ASSUME NEW m \in Models \cup {0}, NEW n \in Ctxs, RecommendSave(m, n)
      PROVE  Typed'
  <2>. DEFINE r == Recommended(m, n, cfg.spec)
              c == [cfg EXCEPT !.model = r.model, !.ctx = r.ctx, !.backend = r.backend,
                               !.spec = r.spec, !.vision = r.vision]
  <2>1. CASE Refused
    BY <2>1, <1>1 DEF Refused
  <2>2. CASE cfg' = Marshal(c) /\ UNCHANGED host
    <3>1. n \in Contexts \cup {0} /\ cfg.spec \in Modes
      BY <1>0 DEF Contexts, Shape
    <3>2. PickRec(r)
      BY <3>1, ModelType, RecommendedType
    <3>. HIDE DEF r
    <3>3. r.model \in 0..(Len(Catalog) + 1)
      BY <3>2, ModelType DEF PickRec
    <3>4. c \in Shape(s)
      BY <1>0, <3>2, <3>3 DEF PickRec, Shape
    <3>. QED  BY <2>2, <3>4, MarshalShape DEF Typed
  <2>. QED  BY <1>5, <2>1, <2>2 DEF RecommendSave
<1>6. ASSUME NEW b \in {"rocm", "vulkan"}, BackendSet(b)
      PROVE  Typed'
  <2>1. [cfg EXCEPT !.backend = b] \in Shape(s)
    BY <1>0 DEF Shape
  <2>. QED  BY <1>1, <1>6, <2>1, TransactTyped DEF BackendSet, Refused, NoOp
<1>7. ASSUME NEW m \in Modes, SpeculationSet(m)
      PROVE  Typed'
  <2>1. [cfg EXCEPT !.spec = m] \in Shape(s)
    BY <1>0 DEF Shape
  <2>. QED  BY <1>1, <1>7, <2>1, TransactTyped DEF SpeculationSet, Refused, NoOp
<1>8. ASSUME NEW on \in BOOLEAN, ToolsMode(on)
      PROVE  Typed'
  <2>1. [cfg EXCEPT !.tools = on] \in Shape(s)
    BY <1>0 DEF Shape
  <2>. QED  BY <1>1, <1>8, <2>1, TransactTyped DEF ToolsMode, Refused, NoOp
<1>9. CASE CodingEnter
  <2>. DEFINE t == CoderPicks[host][cfg.on]
              c == [cfg EXCEPT !.coding = TRUE, !.coder = t.model, !.coderCtx = t.ctx]
  <2>1. host \in Hosts /\ cfg.on \in Ons
    BY <1>0 DEF Typed, Shape
  <2>2. t = PickCoder(host, cfg.on)
    BY <2>1 DEF CoderPicks
  <2>3. t.model \in Models \cup {0} /\ t.ctx \in Contexts \cup {0}
    BY <2>1, <2>2, OnsType, UsableType, CoderType
  <2>4. c \in Shape(s)
    BY <1>0, <2>3 DEF Shape
  <2>. QED  BY <1>1, <1>9, <2>4, TransactTyped DEF CodingEnter, NoOp
<1>10. CASE CodingExit
  <2>1. Chat(cfg) \in Shape(s)
    BY <1>0 DEF Chat, Shape
  <2>. QED  BY <1>1, <1>10, <2>1, TransactTyped DEF CodingExit, NoOp
<1>11. CASE ConfigSet
  <2>1. \A m \in Models \cup {Len(Catalog) + 1} : [cfg EXCEPT !.model = m] \in Shape(s)
    <3>1. \A m \in Models \cup {Len(Catalog) + 1} : m \in 0..(Len(Catalog) + 1)
      BY LenType, ModelType, SMT
    <3>. QED  BY <1>0, <3>1 DEF Shape
  <2>2. \A n \in Ctxs : [cfg EXCEPT !.ctx = n] \in Shape(s)
    BY <1>0 DEF Shape, Contexts
  <2>3. [cfg EXCEPT !.backend = "vulkan"] \in Shape(s)
    BY <1>0 DEF Shape
  <2>4. cfg' \in Shape(s)
    BY <1>11, <2>1, <2>2, <2>3, MarshalShape DEF ConfigSet
  <2>. QED  BY <1>11, <2>4 DEF ConfigSet, Typed
<1>12. CASE Reconfigure
  <2>1. \A on \in Subsystems : [cfg EXCEPT !.on = on] \in Shape(s)
    BY <1>0 DEF Shape, Ons
  <2>. QED  BY <1>12, <2>1 DEF Reconfigure, Typed
<1>13. CASE Reboot
  BY <1>13 DEF Reboot, Typed
<1>. QED  BY <1>1, <1>2, <1>3, <1>4, <1>5, <1>6, <1>7, <1>8, <1>9, <1>10, <1>11, <1>12, <1>13 DEF Next, Verb

----------------------------------------------------------------------------
(* What a swap serves                                                      *)

\* A swap that sized the model m for c, and was kept: what is served once coding mode
\* is left is at most what was sized, so it fits.
LEMMA SwapIsSized ==
  ASSUME Typed, NEW s, NEW c \in Shape(s), NEW m \in Models, c.model = m, c.on = cfg.on, SwapFit(m, c).fits,
         ~(c.coding /\ c.coder = 0),
         NEW d, d = Chat(Marshal(SwapTarget(c))), ServedCtx(d) > 0
  PROVE  ServedSize(d) + Headroom(Usable(host, d.on)) <= Usable(host, d.on)
<1>. DEFINE X == SwapCtx(m, c)
            S == SwapSpec(c)
            r == Recommended(m, X, S)
            L == ServedCtx(d)
            e == Usable(host, cfg.on)
<1>1. X \in Contexts \cup {0} /\ S \in Modes
  BY SwapCtxType
<1>2. host \in Hosts /\ cfg.on \in Ons
  BY DEF Typed, Shape
<1>3. c.ctx \in Nat /\ X \in Nat /\ Catalog[m].agentCtx \in Nat /\ Catalog[m].ctx \in Nat
  <2>1. c.ctx \in Contexts \cup {0}
    BY DEF Shape
  <2>. QED  BY <1>1, <2>1, CtxType, EntryType DEF Entry
<1>4. /\ d.coding = FALSE /\ d.model = m /\ d.ctx = c.ctx /\ d.tools = c.tools /\ d.spec = c.spec
      /\ d.vision = r.vision /\ d.on = Reserved(cfg.on)
  BY DEF Chat, Marshal, SwapTarget, SwapFit, Shape
<1>5. ServedModelOf(d) = m /\ ServesProjector(d) = (r.vision /\ TRUE) /\ Usable(host, d.on) = e
  BY <1>4, SavedEnvelope DEF ServedModelOf, ServesProjector
<1>6. L = IF c.tools THEN Larger(c.ctx, Catalog[m].agentCtx) ELSE c.ctx
  BY <1>4 DEF ServedCtx, Known
<1>7. L \in Nat /\ L <= X /\ X > 0
  <2>1. c.ctx <= (IF c.ctx > 0 THEN c.ctx ELSE Catalog[m].ctx)
    BY <1>3, SMT
  <2>2. X = IF c.tools \/ c.coding THEN Larger(IF c.ctx > 0 THEN c.ctx ELSE Catalog[m].ctx, Catalog[m].agentCtx)
            ELSE IF c.ctx > 0 THEN c.ctx ELSE Catalog[m].ctx
    BY DEF SwapCtx
  <2>3. L > 0
    OBVIOUS
  <2>. HIDE DEF X, L
  <2>. QED  BY <1>3, <1>6, <2>1, <2>2, <2>3, SMT DEF Larger
<1>8. X \in Contexts
  BY <1>1, <1>7, SMT
<1>. DEFINE draft == WithDraft(m, r.ctx, WithProjector(m, BaseTotal(m, r.ctx, e), e))
<1>9. /\ r.ctx = EffectiveCtx(m, Override(m, X, S)) /\ r.vision \in BOOLEAN
      /\ r.spec = Speculation(m, S, draft <= e) /\ SpeculationOk(m, S, draft <= e)
      /\ UnitSize(m, r.ctx, r.vision, r.spec = "draft") + Headroom(e) <= e
      /\ e \in Nat
  <2>1. r = Picks[host][cfg.on][Override(m, X, S)]
    BY DEF Recommended
  <2>2. r.fits
    BY DEF SwapFit
  <2>. HIDE DEF r, X, S
  <2>3. Picks[host][cfg.on][Override(m, X, S)].fits
    BY <2>1, <2>2
  <2>. QED  BY <1>1, <1>2, <2>1, <2>3, AskedFits DEF e, draft
<1>10. r.ctx = X
  BY <1>7, <1>9 DEF EffectiveCtx, Override
<1>. HIDE DEF r, X, L, e, draft
<1>11. (ServedSpec(d) = "draft") => r.spec = "draft"
  <2>1. SUFFICES ASSUME ServedSpec(d) = "draft"
                 PROVE  r.spec = "draft"
    OBVIOUS
  <2>2. c.spec = "draft"
    BY <1>4, <2>1 DEF ServedSpec, Requested, Speculation, Shape, Modes
  <2>3. S = "draft"
    BY <2>2 DEF SwapSpec
  <2>. QED  BY <1>9, <2>3 DEF SpeculationOk
<1>12. (r.spec = "draft") => Catalog[m].draft # None
  BY <1>9 DEF Speculation, Qualified
<1>13. X <= TopInt - CellPad
  BY <1>8, ContextType
<1>14. /\ UnitSize(m, L, r.vision, ServedSpec(d) = "draft") \in Nat
       /\ UnitSize(m, X, r.vision, r.spec = "draft") \in Nat
       /\ UnitSize(m, L, r.vision, ServedSpec(d) = "draft") <= UnitSize(m, X, r.vision, r.spec = "draft")
  BY <1>3, <1>7, <1>9, <1>11, <1>12, <1>13, UnitSizeMonotone
<1>15. ServedSize(d) = UnitSize(m, L, r.vision, ServedSpec(d) = "draft")
  BY <1>5, <1>9 DEF ServedSize, L
<1>. DEFINE small == UnitSize(m, L, r.vision, ServedSpec(d) = "draft")
            large == UnitSize(m, X, r.vision, r.spec = "draft")
<1>16. large + Headroom(e) <= e
  BY <1>9, <1>10
<1>. HIDE DEF small, large
<1>17. small + Headroom(e) <= e
  <2>1. small \in Nat /\ large \in Nat /\ small <= large
    BY <1>14 DEF small, large
  <2>2. Headroom(e) \in Nat /\ e \in Nat
    BY <1>9, HeadroomType
  <2>. QED  BY <1>16, <2>1, <2>2, SMT
<1>. QED  BY <1>5, <1>15, <1>17 DEF small

\* Only a swap, and only one that was kept, is the last verb to have made the config.
LEMMA SwapStep ==
  Typed /\ SwapServesWhatFits /\ [Next]_vars => SwapServesWhatFits'
<1>. SUFFICES ASSUME Typed, SwapServesWhatFits, [Next]_vars
              PROVE  SwapServesWhatFits'
  OBVIOUS
<1>1. CASE UNCHANGED vars
  BY <1>1 DEF vars, SwapServesWhatFits, Within
<1>2. CASE \E m \in Models : ModelSwap(m)
  <2>1. PICK m \in Models : ModelSwap(m)
    BY <1>2
  <2>. DEFINE c == Sized(m, [cfg EXCEPT !.model = m])
  <2>2. CASE Refused
    BY <2>2, <1>1 DEF Refused
  <2>3. CASE SwapFit(m, c).fits /\ Transact("swap", SwapTarget(c), ~(cfg.coding /\ cfg.coder = 0)) /\ ~Refused
    <3>1. PICK s : cfg \in Shape(s)
      BY DEF Typed
    <3>2. /\ c \in Shape(s) /\ c.model = m /\ c.on = cfg.on
          /\ c.coding = cfg.coding /\ c.coder = cfg.coder
      <4>1. [cfg EXCEPT !.model = m] \in Shape(s)
        BY <3>1, SizedShape
      <4>2. c \in Shape(s)
        BY <4>1, SizedShape
      <4>. QED  BY <3>1, <4>2 DEF Sized, Shape
    <3>. HIDE DEF c
    <3>3. cfg' = Marshal(SwapTarget(c)) /\ host' = host
      BY <2>3 DEF Transact
    <3>4. c.coding /\ c.coder = 0 => cfg'.coding /\ cfg'.coder = 0
      BY <3>2, <3>3 DEF Marshal, SwapTarget, Shape
    <3>5. SUFFICES ASSUME ~(cfg'.coding /\ cfg'.coder = 0), ServedCtx(Chat(cfg')) > 0
                   PROVE  ServedSize(Chat(cfg')) + Headroom(Usable(host', cfg'.on)) <= Usable(host', cfg'.on)
      BY DEF SwapServesWhatFits, Within
    <3>6. Chat(cfg').on = cfg'.on
      BY <3>2, <3>3 DEF Chat, Marshal, SwapTarget, Shape
    <3>7. ServedSize(Chat(cfg')) + Headroom(Usable(host, Chat(cfg').on)) <= Usable(host, Chat(cfg').on)
      BY <2>3, <3>2, <3>3, <3>4, <3>5, SwapIsSized
    <3>. QED  BY <3>3, <3>6, <3>7
  <2>. QED  BY <2>1, <2>2, <2>3 DEF ModelSwap, Known
<1>3. CASE last' # "swap"
  BY <1>3 DEF SwapServesWhatFits
<1>4. ASSUME NEW v, v # "swap", NEW t, NEW w, Transact(v, t, w)
      PROVE  SwapServesWhatFits'
  BY <1>1, <1>3, <1>4 DEF Transact, Refused, Changed
<1>5. ASSUME NEW m \in Models, ResidentAdd(m) \/ ResidentRm(m)
      PROVE  SwapServesWhatFits'
  BY <1>1, <1>4, <1>5 DEF ResidentAdd, ResidentRm, Refused, NoOp
<1>6. CASE \/ \E b \in {"rocm", "vulkan"} : BackendSet(b)
           \/ \E m \in Modes \ {"unset"} : SpeculationSet(m)
           \/ \E on \in BOOLEAN : ToolsMode(on)
           \/ CodingEnter \/ CodingExit
  BY <1>1, <1>4, <1>6 DEF BackendSet, SpeculationSet, ToolsMode, CodingEnter, CodingExit, Refused, NoOp
<1>7. CASE \/ \E m \in Models \cup {0}, n \in Ctxs : RecommendSave(m, n)
           \/ ConfigSet \/ Reconfigure \/ Reboot
  BY <1>1, <1>3, <1>7 DEF RecommendSave, ConfigSet, Reconfigure, Reboot, Changed, Refused
<1>. QED  BY <1>1, <1>2, <1>5, <1>6, <1>7 DEF Next, Verb

\* cmd/villa/model.go:358: what a swap that was kept serves fits the envelope with its
\* headroom, for every catalog, host and order of the verbs.
THEOREM SwapIsFit == Spec => []SwapServesWhatFits
<1>1. Init => Typed /\ SwapServesWhatFits
  BY TypedInit DEF Init, SwapServesWhatFits
<1>2. Typed /\ SwapServesWhatFits /\ [Next]_vars => (Typed /\ SwapServesWhatFits)'
  BY TypedStep, SwapStep
<1>. QED  BY <1>1, <1>2, PTL DEF Spec


----------------------------------------------------------------------------
(* Sequences of sizes and of slots                                         *)

\* The partial sums of sizes.
Sums(s, f) == f[0] = 0 /\ \A i \in 1..Len(s) : f[i] = s[i] + f[i - 1]

LEMMA SumsExist ==
  ASSUME NEW s \in Seq(Nat)
  PROVE  \E f \in [0..Len(s) -> Nat] : Sums(s, f)
<1>. DEFINE upto(n, f) == f[0] = 0 /\ \A i \in 1..n : f[i] = s[i] + f[i - 1]
            T == {n \in 0..Len(s) : ~ \E f \in [0..n -> Nat] : upto(n, f)}
<1>0. Len(s) \in Nat /\ \A i \in 1..Len(s) : s[i] \in Nat
  BY LenProperties, ElementOfSeq
<1>. SUFFICES ASSUME T # {}
              PROVE  FALSE
  <2>1. ASSUME T = {}
        PROVE  \E f \in [0..Len(s) -> Nat] : upto(Len(s), f)
    <3>1. Len(s) \in 0..Len(s)
      BY <1>0, SMT
    <3>. QED  BY <2>1, <3>1
  <2>. QED  BY <2>1 DEF Sums
<1>2. PICK n \in T : \A k \in T : n <= k
  <2>1. T \in SUBSET Nat
    BY <1>0, SMT
  <2>. HIDE DEF T
  <2>. QED  BY <2>1, LeastNatural
<1>3. n \in Nat /\ n <= Len(s)
  BY <1>0, SMT
<1>4. CASE n = 0
  <2>. DEFINE f == [i \in 0..0 |-> 0]
  <2>1. f \in [0..n -> Nat] /\ upto(n, f)
    BY <1>4, SMT
  <2>. QED  BY <2>1
<1>5. CASE n # 0
  <2>1. n - 1 \in 0..Len(s) /\ n - 1 \in Nat /\ ~ (n <= n - 1)
    BY <1>0, <1>3, <1>5, SMT
  <2>8. n - 1 \notin T
    <3>. HIDE DEF T
    <3>. QED  BY <1>2, <2>1
  <2>2. PICK g \in [0..(n - 1) -> Nat] : upto(n - 1, g)
    BY <2>1, <2>8
  <2>. DEFINE f == [i \in 0..n |-> IF i = n THEN s[n] + g[n - 1] ELSE g[i]]
  <2>3. s[n] \in Nat /\ g[n - 1] \in Nat /\ s[n] + g[n - 1] \in Nat
    BY <1>0, <1>3, <1>5, SMT
  <2>4. f \in [0..n -> Nat]
    BY <1>3, <2>3, SMT
  <2>5. f[0] = 0
    BY <1>3, <1>5, <2>2, SMT
  <2>6. ASSUME NEW i \in 1..n
        PROVE  f[i] = s[i] + f[i - 1]
    BY <1>3, <1>5, <2>2, SMT
  <2>7. upto(n, f)
    BY <2>5, <2>6
  <2>. QED  BY <2>4, <2>7
<1>. QED  BY <1>4, <1>5

LEMMA SumIs ==
  ASSUME NEW s \in Seq(Nat)
  PROVE  \E f \in [0..Len(s) -> Nat] : Sums(s, f) /\ Sum(s) = f[Len(s)]
<1>. DEFINE g == CHOOSE f : f = [i \in 0..Len(s) |-> IF i = 0 THEN 0 ELSE s[i] + f[i - 1]]
<1>1. Sum(s) = g[Len(s)]
  BY DEF Sum
<1>0. Len(s) \in Nat
  BY LenProperties
<1>2. PICK f \in [0..Len(s) -> Nat] : Sums(s, f)
  BY SumsExist
<1>3. f = [i \in 0..Len(s) |-> IF i = 0 THEN 0 ELSE s[i] + f[i - 1]]
  <2>1. ASSUME NEW i \in 0..Len(s)
        PROVE  f[i] = IF i = 0 THEN 0 ELSE s[i] + f[i - 1]
    BY <1>0, <1>2, SMT DEF Sums
  <2>. QED  BY <2>1
<1>4. g = [i \in 0..Len(s) |-> IF i = 0 THEN 0 ELSE s[i] + g[i - 1]]
  BY <1>3, Zenon
<1>. HIDE DEF g
<1>5. Sums(s, g)
  <2>1. g[0] = 0
    BY <1>0, <1>4, SMT
  <2>2. ASSUME NEW i \in 1..Len(s)
        PROVE  g[i] = s[i] + g[i - 1]
    <3>1. i \in 0..Len(s) /\ i # 0
      BY <1>0, SMT
    <3>. QED  BY <1>4, <3>1
  <2>. QED  BY <2>1, <2>2 DEF Sums
<1>6. g \in [0..Len(s) -> Nat]
  <2>1. \A i \in 0..Len(s) : g[i] = f[i]
    <3>. DEFINE U == {i \in 0..Len(s) : g[i] # f[i]}
    <3>1. SUFFICES ASSUME U # {}
                   PROVE  FALSE
      OBVIOUS
    <3>2. U \in SUBSET Nat
      BY <1>0, SMT
    <3>3. PICK i \in U : \A j \in U : i <= j
      <4>. HIDE DEF U
      <4>. QED  BY <3>1, <3>2, LeastNatural
    <3>4. i \in 0..Len(s) /\ g[i] # f[i]
      OBVIOUS
    <3>5. i # 0
      BY <1>2, <1>5, <3>4 DEF Sums
    <3>6. i - 1 \in 0..Len(s) /\ ~ (i <= i - 1) /\ i \in 1..Len(s)
      BY <1>0, <3>4, <3>5, SMT
    <3>7. g[i - 1] = f[i - 1]
      BY <3>3, <3>6
    <3>8. g[i] = s[i] + g[i - 1] /\ f[i] = s[i] + f[i - 1]
      BY <1>2, <1>5, <3>6 DEF Sums
    <3>. QED  BY <3>4, <3>7, <3>8
  <2>2. \A i \in 0..Len(s) : g[i] \in Nat
    BY <1>2, <2>1
  <2>. QED  BY <1>4, <2>2
<1>. QED  BY <1>1, <1>5, <1>6

LEMMA SumType ==
  ASSUME NEW s \in Seq(Nat)
  PROVE  Sum(s) \in Nat
<1>1. PICK f \in [0..Len(s) -> Nat] : Sums(s, f) /\ Sum(s) = f[Len(s)]
  BY SumIs
<1>2. Len(s) \in 0..Len(s)
  BY LenProperties, SMT
<1>. QED  BY <1>1, <1>2

\* Partial sums do not depend on what comes after.
LEMMA SumsAgree ==
  ASSUME NEW s, NEW t, NEW n \in Nat, n <= Len(s), n <= Len(t), Len(s) \in Nat, Len(t) \in Nat,
         \A i \in 1..n : s[i] = t[i], NEW f, NEW g, Sums(s, f), Sums(t, g)
  PROVE  f[n] = g[n]
<1>. DEFINE T == {i \in 0..n : f[i] # g[i]}
<1>1. SUFFICES ASSUME T # {}
               PROVE  FALSE
  BY SMT
<1>2. T \in SUBSET Nat
  BY SMT
<1>3. PICK i \in T : \A j \in T : i <= j
  <2>. HIDE DEF T
  <2>. QED  BY <1>1, <1>2, LeastNatural
<1>4. i \in 0..n /\ f[i] # g[i]
  OBVIOUS
<1>5. i # 0
  BY <1>4 DEF Sums
<1>6. i - 1 \in 0..n /\ ~ (i <= i - 1) /\ i \in 1..Len(s) /\ i \in 1..Len(t) /\ i \in 1..n
  BY <1>4, <1>5, SMT
<1>7. f[i - 1] = g[i - 1]
  BY <1>3, <1>6
<1>8. f[i] = s[i] + f[i - 1] /\ g[i] = t[i] + g[i - 1] /\ s[i] = t[i]
  BY <1>6 DEF Sums
<1>. QED  BY <1>4, <1>7, <1>8

LEMMA SumAppend ==
  ASSUME NEW s \in Seq(Nat), NEW x \in Nat
  PROVE  Append(s, x) \in Seq(Nat) /\ Sum(Append(s, x)) = Sum(s) + x
<1>. DEFINE t == Append(s, x)
<1>1. /\ t \in Seq(Nat) /\ Len(s) \in Nat /\ Len(t) = Len(s) + 1
      /\ t[Len(s) + 1] = x /\ \A i \in 1..Len(s) : s[i] = t[i]
  BY AppendProperties, LenProperties
<1>. HIDE DEF t
<1>2. PICK f \in [0..Len(s) -> Nat] : Sums(s, f) /\ Sum(s) = f[Len(s)]
  BY SumIs
<1>3. PICK g \in [0..Len(t) -> Nat] : Sums(t, g) /\ Sum(t) = g[Len(t)]
  BY <1>1, SumIs
<1>4. f[Len(s)] = g[Len(s)]
  <2>1. Len(s) <= Len(s) /\ Len(s) <= Len(t) /\ Len(t) \in Nat
    BY <1>1, SMT
  <2>2. Sums(s, f) /\ Sums(t, g) /\ Len(s) \in Nat /\ \A i \in 1..Len(s) : s[i] = t[i]
    BY <1>1, <1>2, <1>3
  <2>3. \A n \in Nat : n <= Len(s) /\ n <= Len(t) /\ (\A i \in 1..n : s[i] = t[i]) => f[n] = g[n]
    BY <2>1, <2>2, SumsAgree, SMTT(30)
  <2>. QED  BY <2>1, <2>2, <2>3
<1>5. g[Len(s) + 1] = x + g[Len(s)]
  <2>1. Len(s) + 1 \in 1..Len(t) /\ Len(s) + 1 - 1 = Len(s)
    BY <1>1, SMT
  <2>2. g[Len(s) + 1] = t[Len(s) + 1] + g[Len(s) + 1 - 1]
    BY <1>3, <2>1 DEF Sums
  <2>. QED  BY <1>1, <2>1, <2>2
<1>6. f[Len(s)] \in Nat
  <2>1. Len(s) \in 0..Len(s)
    BY <1>1, SMT
  <2>. QED  BY <2>1
<1>7. Sum(t) = Sum(s) + x
  BY <1>1, <1>2, <1>3, <1>4, <1>5, <1>6, SMT
<1>. QED  BY <1>1, <1>7 DEF t

\* No size is above the sum.
LEMMA SumBounds ==
  ASSUME NEW s \in Seq(Nat), NEW i \in 1..Len(s)
  PROVE  s[i] <= Sum(s)
<1>1. PICK f \in [0..Len(s) -> Nat] : Sums(s, f) /\ Sum(s) = f[Len(s)]
  BY SumIs
<1>0. Len(s) \in Nat /\ \A k \in 1..Len(s) : s[k] \in Nat
  BY LenProperties, ElementOfSeq
<1>. DEFINE T == {j \in i..Len(s) : ~ (s[i] <= f[j])}
<1>2. SUFFICES ASSUME T # {}
               PROVE  FALSE
  <2>1. Len(s) \in i..Len(s)
    BY <1>0, SMT
  <2>. QED  BY <1>1, <2>1
<1>3. T \in SUBSET Nat
  BY <1>0, SMT
<1>4. PICK j \in T : \A k \in T : j <= k
  <2>. HIDE DEF T
  <2>. QED  BY <1>2, <1>3, LeastNatural
<1>5. j \in i..Len(s) /\ ~ (s[i] <= f[j])
  OBVIOUS
<1>6. j \in 1..Len(s) /\ f[j] = s[j] + f[j - 1] /\ s[j] \in Nat /\ s[i] \in Nat
  <2>1. j \in 1..Len(s)
    BY <1>0, <1>5, SMT
  <2>. QED  BY <1>0, <1>1, <2>1 DEF Sums
<1>7. f[j - 1] \in Nat
  <2>1. j - 1 \in 0..Len(s)
    BY <1>0, <1>6, SMT
  <2>. QED  BY <1>1, <2>1
<1>8. CASE j = i
  <2>1. s[i] <= f[j]
    BY <1>6, <1>7, <1>8, SMT
  <2>. QED  BY <1>5, <2>1
<1>9. CASE j # i
  <2>1. j - 1 \in i..Len(s) /\ ~ (j <= j - 1)
    BY <1>0, <1>5, <1>9, SMT
  <2>2. s[i] <= f[j - 1]
    BY <1>4, <2>1
  <2>3. s[i] <= f[j]
    BY <1>6, <1>7, <2>2, SMT
  <2>. QED  BY <1>5, <2>3
<1>. QED  BY <1>8, <1>9

\* The loop of `resident rm`.
Kept(s, m, f) ==
  f[0] = <<>> /\ \A i \in 1..Len(s) : f[i] = IF s[i].model = m THEN f[i - 1] ELSE Append(f[i - 1], s[i])

LEMMA KeptExist ==
  ASSUME NEW S, NEW s \in Seq(S), NEW m
  PROVE  \E f \in [0..Len(s) -> Seq(S)] : Kept(s, m, f)
<1>. DEFINE next(i, t) == IF s[i].model = m THEN t ELSE Append(t, s[i])
            upto(n, f) == f[0] = <<>> /\ \A i \in 1..n : f[i] = next(i, f[i - 1])
            T == {n \in 0..Len(s) : ~ \E f \in [0..n -> Seq(S)] : upto(n, f)}
<1>0. Len(s) \in Nat /\ \A i \in 1..Len(s) : s[i] \in S
  BY LenProperties, ElementOfSeq
<1>. SUFFICES ASSUME T # {}
              PROVE  FALSE
  <2>1. ASSUME T = {}
        PROVE  \E f \in [0..Len(s) -> Seq(S)] : upto(Len(s), f)
    <3>1. Len(s) \in 0..Len(s)
      BY <1>0, SMT
    <3>. QED  BY <2>1, <3>1
  <2>. QED  BY <2>1 DEF Kept
<1>2. PICK n \in T : \A k \in T : n <= k
  <2>1. T \in SUBSET Nat
    BY <1>0, SMT
  <2>. HIDE DEF T
  <2>. QED  BY <2>1, LeastNatural
<1>3. n \in Nat /\ n <= Len(s)
  BY <1>0, SMT
<1>4. CASE n = 0
  <2>. DEFINE f == [i \in 0..0 |-> <<>>]
  <2>1. <<>> \in Seq(S)
    BY EmptySeq
  <2>2. f \in [0..n -> Seq(S)]
    BY <1>4, <2>1
  <2>3. upto(n, f)
    BY <1>4, SMT
  <2>. QED  BY <2>2, <2>3
<1>5. CASE n # 0
  <2>1. n - 1 \in 0..Len(s) /\ n - 1 \in Nat /\ ~ (n <= n - 1)
    BY <1>0, <1>3, <1>5, SMT
  <2>8. n - 1 \notin T
    <3>. HIDE DEF T
    <3>. QED  BY <1>2, <2>1
  <2>2. PICK g \in [0..(n - 1) -> Seq(S)] : upto(n - 1, g)
    BY <2>1, <2>8
  <2>. DEFINE f == [i \in 0..n |-> IF i = n THEN next(n, g[n - 1]) ELSE g[i]]
  <2>3. s[n] \in S /\ g[n - 1] \in Seq(S) /\ next(n, g[n - 1]) \in Seq(S)
    <3>1. n \in 1..Len(s) /\ n - 1 \in 0..(n - 1)
      BY <1>0, <1>3, <1>5, SMT
    <3>2. s[n] \in S /\ g[n - 1] \in Seq(S)
      BY <1>0, <3>1
    <3>. QED  BY <3>2, AppendProperties
  <2>. HIDE DEF next
  <2>4. f \in [0..n -> Seq(S)]
    <3>1. \A i \in 0..n : i # n => i \in 0..(n - 1)
      BY <1>3, SMT
    <3>. QED  BY <2>3, <3>1
  <2>5. f[0] = <<>>
    BY <1>3, <1>5, <2>2, SMT
  <2>6. ASSUME NEW i \in 1..n
        PROVE  f[i] = next(i, f[i - 1])
    <3>1. i \in 0..n /\ i - 1 \in 0..n /\ i - 1 # n
      BY <1>3, SMT
    <3>2. f[i - 1] = g[i - 1]
      BY <3>1
    <3>3. CASE i = n
      BY <3>1, <3>2, <3>3
    <3>4. CASE i # n
      <4>1. i \in 1..(n - 1) /\ f[i] = g[i]
        BY <1>3, <3>1, <3>4, SMT
      <4>. QED  BY <2>2, <3>2, <4>1
    <3>. QED  BY <3>3, <3>4
  <2>7. upto(n, f)
    BY <2>5, <2>6
  <2>. QED  BY <2>4, <2>7
<1>. QED  BY <1>4, <1>5

LEMMA OthersType ==
  ASSUME NEW S, NEW s \in Seq(S), NEW m
  PROVE  Others(s, m) \in Seq(S)
<1>. DEFINE body(i, f) == IF i = 0 THEN <<>>
                          ELSE IF s[i].model = m THEN f[i - 1] ELSE Append(f[i - 1], s[i])
            g == CHOOSE f : f = [i \in 0..Len(s) |-> body(i, f)]
<1>1. Others(s, m) = g[Len(s)]
  BY DEF Others
<1>0. Len(s) \in Nat
  BY LenProperties
<1>2. PICK f \in [0..Len(s) -> Seq(S)] : Kept(s, m, f)
  BY KeptExist
<1>3. f = [i \in 0..Len(s) |-> body(i, f)]
  <2>1. ASSUME NEW i \in 0..Len(s)
        PROVE  f[i] = body(i, f)
    <3>1. i = 0 \/ i \in 1..Len(s)
      BY <1>0, SMT
    <3>. QED  BY <1>2, <3>1 DEF Kept
  <2>. QED  BY <2>1
<1>4. g = [i \in 0..Len(s) |-> body(i, g)]
  <2>. HIDE DEF body
  <2>. QED  BY <1>3, Zenon
<1>. HIDE DEF g
<1>5. \A i \in 0..Len(s) : g[i] = f[i]
  <2>. DEFINE U == {i \in 0..Len(s) : g[i] # f[i]}
  <2>1. SUFFICES ASSUME U # {}
                 PROVE  FALSE
    OBVIOUS
  <2>2. U \in SUBSET Nat
    BY <1>0, SMT
  <2>3. PICK i \in U : \A j \in U : i <= j
    <3>. HIDE DEF U
    <3>. QED  BY <2>1, <2>2, LeastNatural
  <2>4. i \in 0..Len(s) /\ g[i] # f[i]
    OBVIOUS
  <2>5. g[i] = body(i, g) /\ f[i] = body(i, f)
    <3>. HIDE DEF body
    <3>1. \A k \in 0..Len(s) : g[k] = body(k, g)
      BY <1>4
    <3>2. \A k \in 0..Len(s) : f[k] = body(k, f)
      BY <1>3
    <3>. QED  BY <2>4, <3>1, <3>2
  <2>6. i # 0
    BY <2>4, <2>5
  <2>7. i - 1 \in 0..Len(s) /\ ~ (i <= i - 1)
    BY <1>0, <2>4, <2>6, SMT
  <2>8. g[i - 1] = f[i - 1]
    BY <2>3, <2>7
  <2>. QED  BY <2>4, <2>5, <2>6, <2>8
<1>6. Len(s) \in 0..Len(s)
  BY <1>0, SMT
<1>. QED  BY <1>1, <1>2, <1>5, <1>6

----------------------------------------------------------------------------
(* The resident set, and what is rendered                                  *)

Slot == [model : Models, ctx : Contexts, port : Ports]
Set == cfg.resident \in Seq(Slot) /\ ResidentsRender(cfg)

\* What a chat config must be to be rendered.
SpecFits(m, spec) == spec \in {"unset", "off"} \/ SpeculationOk(m, spec, Catalog[m].draft # None)
ChatFits(c) ==
  /\ c.model \in Models /\ SpecFits(c.model, c.spec)
  /\ c.vision => Catalog[c.model].projector > 0

Sound == last \in Verbs /\ vetted \in BOOLEAN /\ verbs \in 0..MaxVerbs /\ Set /\ (vetted => ChatFits(cfg))

LEMMA ModelsPositive == \A m \in Models : m # 0 /\ m \in Nat
  BY LenType, SMT DEF Models

\* A mode a model is qualified for beside others, it is qualified for.
LEMMA SpecStaysFit ==
  ASSUME NEW m, NEW spec, NEW fit, SpeculationOk(m, spec, fit)
  PROVE  SpecFits(m, spec)
  BY DEF SpeculationOk, SpecFits, Speculation, Qualified

LEMMA ResolvedFits ==
  ASSUME NEW m, NEW spec, NEW fit
  PROVE  SpecFits(m, Speculation(m, spec, fit))
  BY DEF SpeculationOk, SpecFits, Speculation, Qualified

LEMMA ChatRenders ==
  ASSUME NEW s, NEW c \in Shape(s), ChatFits(c), ResidentsRender(c)
  PROVE  Renders(c) /\ Renders(Chat(c))
<1>1. /\ Chat(c).model = c.model /\ Chat(c).spec = c.spec /\ Chat(c).vision = c.vision
      /\ Chat(c).resident = c.resident /\ Chat(c).coding = FALSE /\ Chat(c).coder = 0
  BY DEF Chat, Shape
<1>2. c.model \in Models /\ SpecFits(c.model, c.spec)
  BY DEF ChatFits
<1>3. Renders(Chat(c))
  <2>1. Known(ServedModelOf(Chat(c))) /\ ServedModelOf(Chat(c)) = c.model
    BY <1>1, <1>2 DEF ServedModelOf, Known
  <2>2. SpecRenders(Chat(c))
    BY <1>1, <1>2, <2>1 DEF SpecRenders, SpecFits, Requested
  <2>3. ProjectorRenders(Chat(c))
    BY <1>1 DEF ChatFits, ProjectorRenders, ServesProjector
  <2>4. ResidentsRender(Chat(c))
    BY <1>1 DEF ResidentsRender
  <2>. QED  BY <2>1, <2>2, <2>3, <2>4 DEF Renders
<1>4. Renders(c)
  <2>1. Known(ServedModelOf(c))
    BY <1>2 DEF ServedModelOf, Known, Shape
  <2>2. SpecRenders(c)
    <3>1. CASE c.coding
      BY <3>1 DEF SpecRenders, Requested, SpeculationOk
    <3>2. CASE ~c.coding
      BY <1>2, <3>2 DEF SpecRenders, SpecFits, Requested, ServedModelOf
    <3>. QED  BY <3>1, <3>2
  <2>3. ProjectorRenders(c)
    BY DEF ChatFits, ProjectorRenders, ServesProjector
  <2>. QED  BY <2>1, <2>2, <2>3 DEF Renders
<1>. QED  BY <1>3, <1>4

\* A recommendation of a model can be rendered.
LEMMA RecommendationFits ==
  ASSUME NEW h \in Hosts, NEW on \in SUBSET Parts, NEW ov \in Asked, NEW r, r = Pick(h, on, ov), r.model # 0
  PROVE  r.model \in Models /\ SpecFits(r.model, r.spec) /\ (r.vision => Catalog[r.model].projector > 0)
<1>. DEFINE e == Usable(h, on)
            S == Candidates(ov, e)
<1>1. Envelope(h) # Unknown
  BY DEF Pick, NoPick, Final
<1>2. e \in Nat /\ ov.ctx \in Nat
  <2>1. ov.ctx \in Contexts \cup {0}
    BY DEF Asked
  <2>. QED  BY <1>1, <2>1, UsableType, CtxType
<1>3. Pick(h, on, ov) = Final(h, PickWithin(ov, e))
  BY <1>1 DEF Pick
<1>. HIDE DEF e
<1>4. S \in SUBSET Models
  BY DEF Candidates
<1>5. S # {} => Best(S, ov, e) \in Models
  BY <1>2, <1>4, BestType
<1>6. \/ PickWithin(ov, e) = NoPick(e)
      \/ \E m \in Models : PickWithin(ov, e) = Recommend(m, ov, e)
  BY <1>5 DEF PickWithin, Known
<1>7. PickWithin(ov, e) # NoPick(e)
  BY <1>3 DEF NoPick, Final
<1>8. PICK m \in Models : PickWithin(ov, e) = Recommend(m, ov, e)
  BY <1>6, <1>7
<1>. DEFINE q == Recommend(m, ov, e)
<1>9. r.model = q.model /\ r.spec = q.spec /\ r.vision = q.vision
  BY <1>3, <1>8, FinalRecommend
<1>10. /\ q.model = m /\ q.spec = Speculation(m, ov.spec, WithDraft(m, q.ctx, WithProjector(m, BaseTotal(m, q.ctx, e), e)) <= e)
       /\ q.vision = HasProjector(m, BaseTotal(m, q.ctx, e), e)
  BY DEF Recommend
<1>. HIDE DEF q
<1>11. SpecFits(m, q.spec)
  BY <1>10, ResolvedFits, Zenon
<1>12. q.vision => Catalog[m].projector > 0
  BY <1>10, Zenon DEF HasProjector
<1>13. r.model = m /\ SpecFits(m, r.spec) /\ (r.vision => Catalog[m].projector > 0)
  BY <1>9, <1>10, <1>11, <1>12, Zenon
<1>14. m \in Models
  OBVIOUS
<1>. QED  BY <1>13, <1>14, SMT

LEMMA RecommendedFits ==
  ASSUME Typed, NEW m \in 0..(Len(Catalog) + 1), NEW ctx \in Contexts \cup {0}, NEW spec \in Modes,
         NEW r, r = Recommended(m, ctx, spec), r.model # 0
  PROVE  r.model \in Models /\ SpecFits(r.model, r.spec) /\ (r.vision => Catalog[r.model].projector > 0)
<1>1. Override(m, ctx, spec) \in Asked
  BY DEF Override, Asked
<1>2. host \in Hosts /\ cfg.on \in Ons
  BY DEF Typed, Shape
<1>3. r = Pick(host, cfg.on, Override(m, ctx, spec))
  BY <1>1, <1>2, Tabulated DEF Recommended
<1>. QED  BY <1>1, <1>2, <1>3, OnsType, RecommendationFits

LEMMA SoundInit == Init => Sound
<1>. SUFFICES ASSUME Init
              PROVE  Sound
  OBVIOUS
<1>1. last \in Verbs /\ verbs \in 0..MaxVerbs
  BY ServedAssumption, SMT DEF Init, Verbs, ServedAssumption
<1>2. cfg.resident = <<>>
  <2>1. Fresh.resident = <<>>
    BY DEF Fresh
  <2>2. Installed(host).resident = <<>>
    <3>. DEFINE r == Pick(host, {}, Override(0, 0, "unset"))
    <3>1. Installed(host) = [Fresh EXCEPT !.model = r.model, !.ctx = r.ctx, !.backend = r.backend, !.spec = r.spec,
                                          !.vision = r.vision]
      BY DEF Installed
    <3>. HIDE DEF r
    <3>. QED  BY <3>1 DEF Fresh
  <2>. QED  BY <2>1, <2>2 DEF Init
<1>3. Set
  <2>1. <<>> \in Seq(Slot) /\ DOMAIN cfg.resident = {}
    BY <1>2, EmptySeq
  <2>. QED  BY <1>2, <2>1 DEF Set, ResidentsRender
<1>4. vetted \in BOOLEAN
  BY DEF Init
<1>5. ASSUME vetted
      PROVE  ChatFits(cfg)
  <2>. DEFINE r == Pick(host, {}, Override(0, 0, "unset"))
  <2>1. cfg = Installed(host) /\ cfg.model # 0 /\ host \in Hosts
    BY <1>5 DEF Init
  <2>2. cfg.model = r.model /\ cfg.spec = r.spec /\ cfg.vision = r.vision
    BY <2>1 DEF Installed, Fresh
  <2>3. Override(0, 0, "unset") \in Asked /\ {} \in SUBSET Parts
    BY ModelType DEF Override, Asked, Modes
  <2>4. r.model \in Models /\ SpecFits(r.model, r.spec) /\ (r.vision => Catalog[r.model].projector > 0)
    BY <2>1, <2>2, <2>3, RecommendationFits
  <2>. QED  BY <2>2, <2>4 DEF ChatFits
<1>. QED  BY <1>1, <1>3, <1>4, <1>5 DEF Sound

LEMMA BoundStep ==
  ASSUME verbs \in 0..MaxVerbs, verbs < MaxVerbs
  PROVE  verbs + 1 \in 0..MaxVerbs
  BY ServedAssumption, SMT DEF ServedAssumption

\* A verb that keeps its target has had it rendered.
LEMMA TransactSound ==
  ASSUME Sound, verbs < MaxVerbs, NEW v \in Verbs, NEW s \in Seq(Slot), NEW t \in Shape(s), NEW w \in BOOLEAN,
         w => ChatFits(t), Transact(v, t, w)
  PROVE  Sound'
<1>1. CASE Refused
  BY <1>1 DEF Refused, vars, Sound, Set
<1>2. CASE Changed(v) /\ cfg' = Marshal(t) /\ Renders(cfg') /\ vetted' = w
  <2>1. last' \in Verbs /\ verbs' \in 0..MaxVerbs /\ vetted' \in BOOLEAN
    BY <1>2, BoundStep DEF Changed, Sound
  <2>2. /\ cfg'.model = t.model /\ cfg'.spec = t.spec /\ cfg'.vision = t.vision /\ cfg'.resident = s
    BY <1>2 DEF Marshal, Shape
  <2>3. ResidentsRender(cfg')
    BY <1>2 DEF Renders
  <2>4. Set'
    BY <2>2, <2>3 DEF Set
  <2>5. vetted' => ChatFits(cfg')
    BY <1>2, <2>2 DEF ChatFits
  <2>. QED  BY <2>1, <2>4, <2>5 DEF Sound
<1>. QED  BY <1>1, <1>2 DEF Transact

\* A change of anything but the chat model, its speculation and its projector.
LEMMA OtherChange ==
  ASSUME Typed, Sound, NEW t, t.model = cfg.model, t.spec = cfg.spec, t.vision = cfg.vision
  PROVE  vetted => ChatFits(t)
  BY DEF Sound, ChatFits

LEMMA SwapSound ==
  ASSUME Typed, Sound, verbs < MaxVerbs, NEW m \in Models, ModelSwap(m)
  PROVE  Sound'
<1>0. PICK s : cfg \in Shape(s)
  BY DEF Typed
<1>. DEFINE c == Sized(m, [cfg EXCEPT !.model = m])
            w == ~(cfg.coding /\ cfg.coder = 0)
            r == SwapFit(m, c)
<1>1. CASE Refused
  BY <1>1 DEF Refused, vars, Sound, Set
<1>2. CASE r.fits /\ Transact("swap", SwapTarget(c), w)
  <2>1. [cfg EXCEPT !.model = m] \in Shape(s)
    BY <1>0, SizedShape
  <2>2. c \in Shape(s)
    BY <2>1, SizedShape
  <2>3. /\ c.model = m /\ c.on = cfg.on /\ c.coding = cfg.coding /\ c.coder = cfg.coder
        /\ c.spec = cfg.spec /\ c.resident = cfg.resident
    BY <1>0, <2>2 DEF Sized, Shape
  <2>4. s = cfg.resident /\ s \in Seq(Slot)
    BY <1>0 DEF Shape, Sound, Set
  <2>. HIDE DEF c
  <2>. DEFINE X == SwapCtx(m, c)
              S == SwapSpec(c)
  <2>5. X \in Contexts \cup {0} /\ S \in Modes
    BY <2>2, SwapCtxType
  <2>6. r = Recommended(m, X, S) /\ r = Picks[host][cfg.on][Override(m, X, S)]
    BY DEF SwapFit, Recommended
  <2>7. host \in Hosts /\ cfg.on \in Ons /\ m \in 0..(Len(Catalog) + 1)
    BY <1>0, ModelType DEF Typed, Shape
  <2>. HIDE DEF X, S, r
  <2>8. PickRec(r)
    BY <2>5, <2>6, <2>7, RecommendedType
  <2>. DEFINE t == SwapTarget(c)
  <2>9. t = [c EXCEPT !.vision = r.vision]
    BY <2>3 DEF SwapTarget, r
  <2>10. t \in Shape(s)
    BY <2>2, <2>8, <2>9, SizedShape DEF PickRec
  <2>11. t.model = m /\ t.spec = cfg.spec /\ t.vision = r.vision
    BY <2>2, <2>3, <2>9 DEF Shape
  <2>12. SpecFits(m, S)
    <3>1. Picks[host][cfg.on][Override(m, X, S)].fits
      BY <1>2, <2>6
    <3>2. PICK fit : SpeculationOk(m, S, fit)
      BY <2>5, <2>7, <3>1, AskedFits
    <3>. QED  BY <3>2, SpecStaysFit
  <2>13. w => SpecFits(m, t.spec)
    <3>1. w => S = IF cfg.spec = "unset" THEN "off" ELSE cfg.spec
      BY <2>3 DEF SwapSpec, S
    <3>. QED  BY <2>11, <2>12, <3>1 DEF SpecFits
  <2>14. r.vision => Catalog[m].projector > 0
    <3>1. r.model = m
      <4>. DEFINE ov == Override(m, X, S)
                  e  == Usable(host, cfg.on)
      <4>1. ov \in Asked /\ ov.model = m
        BY <2>5, <2>7 DEF Override, Asked
      <4>2. r = Pick(host, cfg.on, ov)
        BY <2>6, <2>7, <4>1, Tabulated
      <4>3. m # 0
        BY ModelsPositive
      <4>4. r = Final(host, Recommend(m, ov, e))
        BY <1>2, <4>1, <4>2, <4>3, FinalNoPick DEF Pick, PickWithin, Known
      <4>5. r.model = Recommend(m, ov, e).model
        BY <4>1, <4>4, FinalRecommend
      <4>. QED  BY <4>5 DEF Recommend
    <3>2. r.model # 0
      BY <3>1, ModelsPositive
    <3>. QED  BY <2>5, <2>6, <2>7, <3>1, <3>2, RecommendedFits
  <2>15. w => ChatFits(t)
    BY <2>11, <2>13, <2>14 DEF ChatFits
  <2>16. "swap" \in Verbs /\ w \in BOOLEAN
    BY DEF Verbs
  <2>. HIDE DEF t, w
  <2>. QED  BY <1>2, <2>4, <2>10, <2>15, <2>16, TransactSound DEF t
<1>. QED  BY <1>1, <1>2 DEF ModelSwap, Known

LEMMA Unchanged == UNCHANGED vars /\ Sound => Sound'
  BY DEF vars, Sound, Set

LEMMA SpeculationSound ==
  ASSUME Typed, Sound, verbs < MaxVerbs, NEW m \in Modes, SpeculationSet(m)
  PROVE  Sound'
<1>0. PICK s : cfg \in Shape(s)
  BY DEF Typed
<1>. DEFINE t == [cfg EXCEPT !.spec = m]
<1>1. CASE UNCHANGED vars
  BY <1>1, Unchanged
<1>2. CASE FitsModel(t) /\ Transact("speculation", t, vetted)
  <2>1. t \in Shape(s) /\ s = cfg.resident /\ s \in Seq(Slot)
    BY <1>0 DEF Shape, Sound, Set
  <2>2. t.model = cfg.model /\ t.spec = m /\ t.vision = cfg.vision
    BY <1>0 DEF Shape
  <2>3. ASSUME vetted
        PROVE  ChatFits(t)
    <3>1. cfg.model \in Models /\ (cfg.vision => Catalog[cfg.model].projector > 0)
      BY <2>3 DEF Sound, ChatFits
    <3>2. Picks[host][cfg.on][Override(cfg.model, 0, m)].fits
      BY <1>2, <2>2 DEF FitsModel, Recommended
    <3>3. host \in Hosts /\ cfg.on \in Ons /\ 0 \in Contexts \cup {0}
      BY <1>0 DEF Typed, Shape
    <3>4. PICK fit : SpeculationOk(cfg.model, m, fit)
      BY <3>1, <3>2, <3>3, AskedFits
    <3>5. SpecFits(cfg.model, m)
      BY <3>4, SpecStaysFit
    <3>. QED  BY <2>2, <3>1, <3>5 DEF ChatFits
  <2>4. "speculation" \in Verbs /\ vetted \in BOOLEAN
    BY DEF Verbs, Sound
  <2>. HIDE DEF t
  <2>. QED  BY <1>2, <2>1, <2>3, <2>4, TransactSound
<1>. QED  BY <1>1, <1>2 DEF SpeculationSet, Refused, NoOp

LEMMA FreePortType ==
  ASSUME NEW c, FreePorts(c) # {}
  PROVE  LowestFree(c) \in Ports
<1>1. FreePorts(c) \in SUBSET Nat /\ FreePorts(c) \subseteq Ports
  BY ServedAssumption DEF FreePorts, ServedAssumption
<1>2. \E q \in FreePorts(c) : \A r \in FreePorts(c) : q <= r
  BY <1>1, LeastNatural
<1>. QED  BY <1>1, <1>2 DEF LowestFree

LEMMA ResidentSound ==
  ASSUME Typed, Sound, verbs < MaxVerbs, NEW m \in Models, ResidentAdd(m) \/ ResidentRm(m)
  PROVE  Sound'
<1>0. PICK s : cfg \in Shape(s)
  BY DEF Typed
<1>1. CASE UNCHANGED vars
  BY <1>1, Unchanged
<1>2. ASSUME NEW z \in Seq(Slot), NEW v \in {"add", "rm"}, Transact(v, [cfg EXCEPT !.resident = z], vetted)
      PROVE  Sound'
  <2>. DEFINE t == [cfg EXCEPT !.resident = z]
  <2>1. t \in Shape(z) /\ t.model = cfg.model /\ t.spec = cfg.spec /\ t.vision = cfg.vision
    BY <1>0 DEF Shape
  <2>2. v \in Verbs /\ vetted \in BOOLEAN
    BY DEF Verbs, Sound
  <2>3. vetted => ChatFits(t)
    BY <2>1, OtherChange
  <2>. HIDE DEF t
  <2>. QED  BY <1>2, <2>1, <2>2, <2>3, TransactSound DEF t
<1>3. CASE ResidentRm(m)
  <2>1. Others(cfg.resident, m) \in Seq(Slot)
    BY OthersType DEF Sound, Set
  <2>. QED  BY <1>1, <1>2, <1>3, <2>1 DEF ResidentRm, Refused
<1>4. CASE ResidentAdd(m)
  <2>. DEFINE r == Fit(m, 0)
              z == Append(cfg.resident, [model |-> m, ctx |-> r.ctx, port |-> LowestFree(cfg)])
  <2>1. \/ UNCHANGED vars
        \/ r.model # 0 /\ FreePorts(cfg) # {} /\ Transact("add", [cfg EXCEPT !.resident = z], vetted)
    BY <1>4 DEF ResidentAdd, Refused, NoOp
  <2>2. ASSUME r.model # 0, FreePorts(cfg) # {}
        PROVE  z \in Seq(Slot)
    <3>1. PickRec(r)
      <4>1. 0 \in Contexts \cup {0} /\ "unset" \in Modes
        BY DEF Modes
      <4>. QED  BY <4>1, ModelType, RecommendedType DEF Fit
    <3>. HIDE DEF r
    <3>2. [model |-> m, ctx |-> r.ctx, port |-> LowestFree(cfg)] \in Slot
      BY <2>2, <3>1, FreePortType DEF PickRec, Slot
    <3>. QED  BY <3>2, AppendProperties DEF Sound, Set
  <2>. HIDE DEF z, r
  <2>. QED  BY <1>1, <1>2, <2>1, <2>2
<1>. QED  BY <1>3, <1>4

LEMMA SaveSound ==
  ASSUME Typed, Sound, verbs < MaxVerbs, NEW m \in Models \cup {0}, NEW n \in Ctxs, RecommendSave(m, n)
  PROVE  Sound'
<1>0. PICK s : cfg \in Shape(s)
  BY DEF Typed
<1>. DEFINE r == Recommended(m, n, cfg.spec)
            c == [cfg EXCEPT !.model = r.model, !.ctx = r.ctx, !.backend = r.backend,
                             !.spec = r.spec, !.vision = r.vision]
<1>1. CASE Refused
  BY <1>1, Unchanged DEF Refused
<1>2. CASE r.model # 0 /\ Changed("save") /\ vetted' = TRUE /\ cfg' = Marshal(c)
  <2>1. n \in Contexts \cup {0} /\ cfg.spec \in Modes /\ m \in 0..(Len(Catalog) + 1)
    BY <1>0, ModelType DEF Contexts, Shape
  <2>2. r.model \in Models /\ SpecFits(r.model, r.spec) /\ (r.vision => Catalog[r.model].projector > 0)
    BY <1>2, <2>1, RecommendedFits
  <2>. HIDE DEF r
  <2>3. /\ cfg'.model = r.model /\ cfg'.spec = r.spec /\ cfg'.vision = r.vision
        /\ cfg'.resident = cfg.resident
    BY <1>0, <1>2 DEF Marshal, Shape
  <2>4. ChatFits(cfg')
    BY <2>2, <2>3 DEF ChatFits
  <2>5. Set'
    BY <2>3 DEF Sound, Set, ResidentsRender
  <2>6. last' \in Verbs /\ verbs' \in 0..MaxVerbs
    BY <1>2, BoundStep DEF Changed, Sound, Verbs
  <2>. QED  BY <1>2, <2>4, <2>5, <2>6 DEF Sound
<1>. QED  BY <1>1, <1>2 DEF RecommendSave

\* The verbs that change neither the chat model nor what it is served with.
LEMMA OtherSound ==
  ASSUME Typed, Sound, verbs < MaxVerbs,
         \/ \E b \in {"rocm", "vulkan"} : BackendSet(b)
         \/ \E on \in BOOLEAN : ToolsMode(on)
         \/ CodingEnter \/ CodingExit
  PROVE  Sound'
<1>0. PICK s : cfg \in Shape(s)
  BY DEF Typed
<1>1. CASE UNCHANGED vars
  BY <1>1, Unchanged
<1>2. ASSUME NEW v \in {"backend", "tools", "enter", "exit"}, NEW t \in Shape(s), Transact(v, t, vetted),
             t.model = cfg.model, t.spec = cfg.spec, t.vision = cfg.vision
      PROVE  Sound'
  <2>1. s \in Seq(Slot) /\ v \in Verbs /\ vetted \in BOOLEAN
    BY <1>0 DEF Shape, Sound, Set, Verbs
  <2>2. vetted => ChatFits(t)
    BY <1>2, OtherChange
  <2>. QED  BY <1>2, <2>1, <2>2, TransactSound
<1>3. ASSUME NEW b \in {"rocm", "vulkan"}, BackendSet(b)
      PROVE  Sound'
  <2>. DEFINE t == [cfg EXCEPT !.backend = b]
  <2>1. t \in Shape(s) /\ t.model = cfg.model /\ t.spec = cfg.spec /\ t.vision = cfg.vision
    BY <1>0 DEF Shape
  <2>2. UNCHANGED vars \/ Transact("backend", t, vetted)
    BY <1>3 DEF BackendSet, Refused, NoOp
  <2>. HIDE DEF t
  <2>. QED  BY <1>1, <1>2, <2>1, <2>2
<1>4. ASSUME NEW on \in BOOLEAN, ToolsMode(on)
      PROVE  Sound'
  <2>. DEFINE t == [cfg EXCEPT !.tools = on]
  <2>1. t \in Shape(s) /\ t.model = cfg.model /\ t.spec = cfg.spec /\ t.vision = cfg.vision
    BY <1>0 DEF Shape
  <2>2. UNCHANGED vars \/ Transact("tools", t, vetted)
    BY <1>4 DEF ToolsMode, Refused, NoOp
  <2>. HIDE DEF t
  <2>. QED  BY <1>1, <1>2, <2>1, <2>2
<1>5. CASE CodingEnter
  <2>. DEFINE p == CoderPicks[host][cfg.on]
              t == [cfg EXCEPT !.coding = TRUE, !.coder = p.model, !.coderCtx = p.ctx]
  <2>1. host \in Hosts /\ cfg.on \in Ons
    BY <1>0 DEF Typed, Shape
  <2>2. p = PickCoder(host, cfg.on)
    BY <2>1 DEF CoderPicks
  <2>3. p.model \in Models \cup {0} /\ p.ctx \in Contexts \cup {0}
    BY <2>1, <2>2, OnsType, UsableType, CoderType
  <2>4. UNCHANGED vars \/ Transact("enter", t, vetted)
    BY <1>5 DEF CodingEnter, NoOp
  <2>. HIDE DEF p
  <2>5. t \in Shape(s) /\ t.model = cfg.model /\ t.spec = cfg.spec /\ t.vision = cfg.vision
    BY <1>0, <2>3 DEF Shape
  <2>. HIDE DEF t
  <2>. QED  BY <1>1, <1>2, <2>4, <2>5
<1>6. CASE CodingExit
  <2>1. Chat(cfg) \in Shape(s) /\ Chat(cfg).model = cfg.model /\ Chat(cfg).spec = cfg.spec /\ Chat(cfg).vision = cfg.vision
    BY <1>0 DEF Chat, Shape
  <2>2. UNCHANGED vars \/ Transact("exit", Chat(cfg), vetted)
    BY <1>6 DEF CodingExit, NoOp
  <2>. QED  BY <1>1, <1>2, <2>1, <2>2
<1>. QED  BY <1>3, <1>4, <1>5, <1>6

LEMMA ConfigSound ==
  ASSUME Typed, Sound, verbs < MaxVerbs, ConfigSet \/ Reconfigure \/ Reboot
  PROVE  Sound'
<1>0. PICK s : cfg \in Shape(s)
  BY DEF Typed
<1>1. last' \in Verbs /\ verbs' \in 0..MaxVerbs
  BY BoundStep DEF ConfigSet, Reconfigure, Reboot, Changed, Sound, Verbs
<1>2. /\ cfg'.resident = cfg.resident
      /\ vetted' \in BOOLEAN
      /\ vetted' => vetted /\ cfg'.model = cfg.model /\ cfg'.spec = cfg.spec /\ cfg'.vision = cfg.vision
  <2>1. CASE ConfigSet
    <3>1. ASSUME NEW m, cfg' = Marshal([cfg EXCEPT !.model = m])
          PROVE  cfg'.resident = cfg.resident
      BY <1>0, <3>1 DEF Marshal, Shape
    <3>2. ASSUME NEW n, cfg' = Marshal([cfg EXCEPT !.ctx = n])
          PROVE  /\ cfg'.resident = cfg.resident
                 /\ cfg'.model = cfg.model /\ cfg'.spec = cfg.spec /\ cfg'.vision = cfg.vision
      BY <1>0, <3>2 DEF Marshal, Shape
    <3>3. ASSUME cfg' = Marshal([cfg EXCEPT !.backend = "vulkan"])
          PROVE  /\ cfg'.resident = cfg.resident
                 /\ cfg'.model = cfg.model /\ cfg'.spec = cfg.spec /\ cfg'.vision = cfg.vision
      BY <1>0, <3>3 DEF Marshal, Shape
    <3>4. vetted \in BOOLEAN
      BY DEF Sound
    <3>5. \/ (\E m : cfg' = Marshal([cfg EXCEPT !.model = m])) /\ vetted' = FALSE
          \/ (\E n : cfg' = Marshal([cfg EXCEPT !.ctx = n])) /\ vetted' = vetted
          \/ cfg' = Marshal([cfg EXCEPT !.backend = "vulkan"]) /\ vetted' = vetted
      BY <2>1, Zenon DEF ConfigSet
    <3>6. CASE \E m : cfg' = Marshal([cfg EXCEPT !.model = m]) /\ vetted' = FALSE
      BY <3>1, <3>6, Zenon
    <3>7. CASE (\E n : cfg' = Marshal([cfg EXCEPT !.ctx = n])) /\ vetted' = vetted
      BY <3>2, <3>4, <3>7, Zenon
    <3>8. CASE cfg' = Marshal([cfg EXCEPT !.backend = "vulkan"]) /\ vetted' = vetted
      BY <3>3, <3>4, <3>8, Zenon
    <3>. QED  BY <3>5, <3>6, <3>7, <3>8
  <2>2. CASE Reconfigure
    BY <1>0, <2>2 DEF Reconfigure, Shape, Sound
  <2>3. CASE Reboot
    BY <2>3 DEF Reboot, Sound
  <2>. QED  BY <2>1, <2>2, <2>3
<1>3. Set'
  BY <1>2 DEF Sound, Set, ResidentsRender
<1>4. vetted' => ChatFits(cfg')
  BY <1>2 DEF Sound, ChatFits
<1>. QED  BY <1>1, <1>2, <1>3, <1>4 DEF Sound

LEMMA SoundStep == Typed /\ Sound /\ [Next]_vars => Sound'
<1>. SUFFICES ASSUME Typed, Sound, [Next]_vars
              PROVE  Sound'
  OBVIOUS
<1>1. CASE UNCHANGED vars
  BY <1>1, Unchanged
<1>2. CASE verbs < MaxVerbs /\ Verb
  <2>1. \A m \in Modes \ {"unset"} : m \in Modes
    OBVIOUS
  <2>. QED  BY <1>2, <2>1, SwapSound, SpeculationSound, ResidentSound, SaveSound, OtherSound, ConfigSound DEF Verb
<1>. QED  BY <1>1, <1>2 DEF Next

LEMMA TypesHold == Typed /\ Sound => TypeOK
<1>. SUFFICES ASSUME Typed, Sound
              PROVE  TypeOK
  OBVIOUS
<1>1. PICK s : cfg \in Shape(s)
  BY DEF Typed
<1>2. s = cfg.resident /\ s \in Seq(Slot)
  BY <1>1 DEF Shape, Sound, Set
<1>3. cfg \in Config
  BY <1>1, <1>2 DEF Shape, Config, Slot
<1>. QED  BY <1>3 DEF TypeOK, Typed, Sound

\* Every config, slot and history has its type, in every order of the verbs.
THEOREM ServedTypes == Spec => []TypeOK
<1>1. Init => Typed /\ Sound
  BY TypedInit, SoundInit
<1>2. Typed /\ Sound /\ [Next]_vars => (Typed /\ Sound)'
  BY TypedStep, SoundStep
<1>3. Typed /\ Sound => TypeOK
  BY TypesHold
<1>. QED  BY <1>1, <1>2, <1>3, PTL DEF Spec

----------------------------------------------------------------------------
(* The resident set that was admitted                                      *)

Server == [model : Models, ctx : Contexts \cup {0}, port : Ports \cup {PrimaryPort}]
CtxOf(s) == IF s.ctx > 0 THEN s.ctx ELSE Catalog[s.model].ctx
SlotSize(s) == UnitSize(s.model, CtxOf(s), FALSE, FALSE)
Sizes(slots) == [i \in DOMAIN slots |-> SlotSize(slots[i])]

LEMMA SlotSizeType ==
  ASSUME NEW s \in Server
  PROVE  /\ CtxOf(s) \in Nat /\ SlotSize(s) \in Nat
         /\ SlotSize(s) = Catalog[s.model].weight + CacheSize(s.model, CtxOf(s)) + PromptCache
<1>1. s.model \in Models /\ CtxOf(s) \in Nat
  <2>1. s.model \in Models /\ s.ctx \in Contexts \cup {0}
    BY DEF Server
  <2>2. s.ctx \in Nat /\ Catalog[s.model].ctx \in Nat
    BY <2>1, CtxType, EntryType DEF Entry
  <2>. QED  BY <2>1, <2>2 DEF CtxOf
<1>2. Catalog[s.model].weight \in Nat /\ PromptCache \in Nat /\ CacheSize(s.model, CtxOf(s)) \in Nat
  <2>1. Catalog[s.model].weight \in Nat
    BY <1>1, EntryType, FitAssumption, SMT DEF Entry, FitAssumption
  <2>2. PromptCache \in Nat
    BY FitAssumption DEF FitAssumption
  <2>. QED  BY <1>1, <2>1, <2>2, CacheSizeType
<1>3. SlotSize(s) = Catalog[s.model].weight + CacheSize(s.model, CtxOf(s)) + PromptCache + 0 + 0
  BY DEF SlotSize, UnitSize
<1>. QED  BY <1>1, <1>2, <1>3, SMT

LEMMA HeadroomBelow ==
  ASSUME NEW e \in Nat
  PROVE  Headroom(e) <= e
  BY SMT DEF Headroom

\* What the sizing of one server says, when there is an envelope.
LEMMA FitIs ==
  ASSUME Typed, NEW m \in Models, NEW ctx \in Contexts \cup {0}, NEW r, r = Fit(m, ctx), r.model # 0,
         NEW e, e = Usable(host, cfg.on)
  PROVE  /\ e \in Nat /\ e < Top /\ r.usable = e /\ r.headroom = Headroom(e) /\ r.ctx \in Contexts
         /\ r.ctx = IF ctx > 0 THEN ctx ELSE Catalog[m].ctx
         /\ r.slot = Wrapped(Catalog[m].weight + KVBytes(m, r.ctx) + PromptCache)
<1>. DEFINE ov == Override(m, ctx, "unset")
            q  == Recommend(m, ov, e)
<1>1. ov \in Asked /\ ov.model = m /\ ov.ctx = ctx
  BY ModelType DEF Override, Asked, Modes
<1>2. host \in Hosts /\ cfg.on \in Ons
  BY DEF Typed, Shape
<1>3. r = Pick(host, cfg.on, ov)
  BY <1>1, <1>2, Tabulated DEF Fit, Recommended
<1>. HIDE DEF ov
<1>4. Envelope(host) # Unknown
  BY <1>3 DEF Pick, NoPick, Final
<1>5. e \in Nat /\ e < Top
  BY <1>2, <1>4, OnsType, UsableType
<1>6. m # 0
  BY ModelsPositive
<1>7. r = Final(host, q)
  BY <1>1, <1>3, <1>4, <1>6 DEF Pick, PickWithin, Known
<1>8. /\ q.usable = e /\ q.headroom = Headroom(e) /\ q.ctx = EffectiveCtx(m, ov)
      /\ q.slot = Wrapped(Catalog[m].weight + KVBytes(m, q.ctx) + PromptCache)
  BY DEF Recommend
<1>9. r.usable = q.usable /\ r.headroom = q.headroom /\ r.ctx = q.ctx /\ r.slot = q.slot
  BY <1>7 DEF Final, Recommend
<1>10. r.ctx \in Contexts
  BY <1>1, <1>8, <1>9, EffectiveCtxType
<1>. HIDE DEF q
<1>11. r.ctx = IF ctx > 0 THEN ctx ELSE Catalog[m].ctx
  <2>1. r.ctx = EffectiveCtx(m, ov)
    BY <1>8, <1>9
  <2>. QED  BY <1>1, <2>1 DEF EffectiveCtx
<1>12. r.slot = Wrapped(Catalog[m].weight + KVBytes(m, r.ctx) + PromptCache)
  BY <1>8, <1>9, Zenon
<1>13. r.usable = e /\ r.headroom = Headroom(e)
  BY <1>8, <1>9, Zenon
<1>. QED  BY <1>5, <1>10, <1>11, <1>12, <1>13, Zenon

LEMMA ModuloSmall ==
  ASSUME NEW n \in Nat, NEW k \in Nat, n < k
  PROVE  n % k = n
  BY SMT

LEMMA ModuloBelow ==
  ASSUME NEW n \in Nat, NEW k \in Nat \ {0}
  PROVE  n % k \in Nat /\ n % k <= n
  BY SMT

LEMMA WrappedExact ==
  ASSUME NEW n \in Nat, n <= Top
  PROVE  Wrapped(n) = n
<1>. DEFINE k == Top + 1
<1>1. k \in Nat /\ n < k
  BY FitAssumption, SMT DEF FitAssumption
<1>. HIDE DEF k
<1>2. n % k = n
  BY <1>1, ModuloSmall
<1>. QED  BY <1>2 DEF Wrapped, k

LEMMA WrappedBelow ==
  ASSUME NEW n \in Nat
  PROVE  Wrapped(n) \in Nat /\ Wrapped(n) <= n
<1>. DEFINE k == Top + 1
<1>1. k \in Nat \ {0}
  BY FitAssumption, SMT DEF FitAssumption
<1>. HIDE DEF k
<1>2. n % k \in Nat /\ n % k <= n
  BY <1>1, ModuloBelow
<1>. QED  BY <1>2 DEF Wrapped, k

\* A server whose bytes a word can count is counted as it is.
LEMMA SlotExact ==
  ASSUME Typed, NEW s \in Server, NEW r, r = Fit(s.model, s.ctx), r.model # 0, SlotSize(s) <= Top
  PROVE  r.slot = SlotSize(s)
<1>1. s.model \in Models /\ s.ctx \in Contexts \cup {0}
  BY DEF Server
<1>2. r.ctx = CtxOf(s) /\ r.slot = Wrapped(Catalog[s.model].weight + KVBytes(s.model, r.ctx) + PromptCache)
  BY <1>1, FitIs DEF CtxOf
<1>3. /\ CtxOf(s) \in Nat /\ SlotSize(s) \in Nat
      /\ SlotSize(s) = Catalog[s.model].weight + CacheSize(s.model, CtxOf(s)) + PromptCache
  BY SlotSizeType
<1>4. Catalog[s.model].weight \in Nat /\ PromptCache \in Nat /\ Top \in Nat
  <2>1. PromptCache \in Nat /\ Top \in Nat
    BY FitAssumption DEF FitAssumption
  <2>. QED  BY <1>1, <2>1, EntryType, SMT DEF Entry
<1>5. CacheSize(s.model, CtxOf(s)) \in Nat
  BY <1>1, <1>3, CacheSizeType
<1>6. CacheSize(s.model, CtxOf(s)) <= Top
  BY <1>3, <1>4, <1>5, SMT
<1>7. KVBytes(s.model, CtxOf(s)) = CacheSize(s.model, CtxOf(s))
  BY <1>4, <1>5, <1>6, SMT DEF KVBytes, Sat
<1>. QED  BY <1>2, <1>3, <1>7, WrappedExact

LEMMA SizesType ==
  ASSUME NEW slots \in Seq(Server)
  PROVE  Sizes(slots) \in Seq(Nat) /\ Len(Sizes(slots)) = Len(slots)
<1>1. Len(slots) \in Nat /\ DOMAIN slots = 1..Len(slots)
  BY LenProperties
<1>2. \A i \in 1..Len(slots) : slots[i] \in Server
  BY ElementOfSeq
<1>3. Sizes(slots) \in [1..Len(slots) -> Nat]
  BY <1>1, <1>2, SlotSizeType DEF Sizes
<1>4. Sizes(slots) \in Seq(Nat)
  BY <1>1, <1>3, SeqDef
<1>5. DOMAIN Sizes(slots) = 1..Len(slots)
  BY <1>3
<1>. QED  BY <1>1, <1>4, <1>5, LenProperties, SMT

LEMMA SizesAppend ==
  ASSUME NEW slots \in Seq(Server), NEW x \in Server
  PROVE  Sizes(Append(slots, x)) = Append(Sizes(slots), SlotSize(x))
<1>. DEFINE t == Append(slots, x)
            u == Append(Sizes(slots), SlotSize(x))
<1>1. t \in Seq(Server) /\ Len(t) = Len(slots) + 1 /\ t[Len(slots) + 1] = x /\ \A i \in 1..Len(slots) : t[i] = slots[i]
  BY AppendProperties
<1>2. Sizes(slots) \in Seq(Nat) /\ Len(Sizes(slots)) = Len(slots) /\ SlotSize(x) \in Nat
  BY SizesType, SlotSizeType
<1>3. /\ u \in Seq(Nat) /\ Len(u) = Len(slots) + 1 /\ u[Len(slots) + 1] = SlotSize(x)
      /\ \A i \in 1..Len(slots) : u[i] = Sizes(slots)[i]
  BY <1>2, AppendProperties
<1>4. Sizes(t) \in Seq(Nat) /\ Len(Sizes(t)) = Len(t)
  BY <1>1, SizesType
<1>. HIDE DEF t, u
<1>0. Len(slots) \in Nat /\ DOMAIN slots = 1..Len(slots) /\ DOMAIN t = 1..Len(t)
  BY <1>1, LenProperties
<1>5. ASSUME NEW i \in 1..Len(u)
      PROVE  Sizes(t)[i] = u[i]
  <2>1. CASE i = Len(slots) + 1
    BY <1>0, <1>1, <1>3, <2>1 DEF Sizes
  <2>2. CASE i # Len(slots) + 1
    <3>1. i \in 1..Len(slots) /\ i \in 1..Len(t)
      BY <1>0, <1>1, <1>3, <2>2, SMT
    <3>. QED  BY <1>0, <1>1, <1>3, <3>1 DEF Sizes
  <2>. QED  BY <2>1, <2>2
<1>6. Sizes(t) = u
  BY <1>1, <1>3, <1>4, <1>5, SeqEqual
<1>. QED  BY <1>6 DEF t, u

\* The set is the primary, then the slots, and those are servers.
LEMMA SlotsAre ==
  ASSUME Typed, Set
  PROVE  LET p == [model |-> cfg.model, ctx |-> cfg.ctx, port |-> PrimaryPort] IN
         /\ 1 \in DOMAIN Slots(cfg) /\ Slots(cfg)[1] = p
         /\ Slots(cfg) = <<p>> \o cfg.resident
         /\ cfg.resident \in Seq(Server)
         /\ cfg.model \in Models => p \in Server
<1>. DEFINE p == [model |-> cfg.model, ctx |-> cfg.ctx, port |-> PrimaryPort]
<1>1. PICK s : cfg \in Shape(s)
  BY DEF Typed
<1>2. cfg.resident \in Seq(Server)
  <2>1. \A x \in Slot : x \in Server
    BY DEF Slot, Server
  <2>2. \A i \in 1..Len(cfg.resident) : cfg.resident[i] \in Server
    BY <2>1, ElementOfSeq DEF Set
  <2>. QED  BY <2>2, LenProperties, IsASeq DEF Set
<1>3. cfg.model \in Models => p \in Server
  BY <1>1 DEF Shape, Server
<1>4. Slots(cfg) = <<p>> \o cfg.resident
  BY DEF Slots
<1>5. cfg.resident \in Seq(Server) /\ <<p>> \in Seq({p}) /\ Len(<<p>>) = 1 /\ <<p>>[1] = p
  BY <1>2
<1>6. cfg.resident \in Seq(Server \cup {p}) /\ <<p>> \in Seq(Server \cup {p})
  BY <1>5, SeqDef, LenProperties
<1>. HIDE DEF p
<1>7. /\ Len(<<p>> \o cfg.resident) = 1 + Len(cfg.resident)
      /\ (<<p>> \o cfg.resident)[1] = p
      /\ <<p>> \o cfg.resident \in Seq(Server \cup {p})
  BY <1>5, <1>6, ConcatProperties, LenProperties, SMT
<1>8. 1 \in DOMAIN (<<p>> \o cfg.resident)
  BY <1>5, <1>7, LenProperties, SMT
<1>. QED  BY <1>2, <1>3, <1>4, <1>7, <1>8 DEF p

LEMMA ConsAppend ==
  ASSUME NEW S, NEW p \in S, NEW x \in S, NEW s \in Seq(S)
  PROVE  <<p>> \o Append(s, x) = Append(<<p>> \o s, x)
<1>1. <<p>> \in Seq(S) /\ <<x>> \in Seq(S)
  OBVIOUS
<1>. DEFINE u == <<p>>
            v == <<x>>
<1>. HIDE DEF u, v
<1>2. u \in Seq(S) /\ v \in Seq(S) /\ u \o s \in Seq(S)
  BY <1>1, ConcatProperties DEF u, v
<1>3. (u \o s) \o v = u \o (s \o v)
  BY <1>2, ConcatAssociative
<1>4. Append(s, x) = s \o v /\ Append(u \o s, x) = (u \o s) \o v
  BY <1>2, AppendIsConcat DEF v
<1>. QED  BY <1>3, <1>4 DEF u

LEMMA SlotsType ==
  ASSUME Typed, Set, cfg.model \in Models
  PROVE  Slots(cfg) \in Seq(Server)
<1>. DEFINE p == [model |-> cfg.model, ctx |-> cfg.ctx, port |-> PrimaryPort]
<1>1. p \in Server /\ cfg.resident \in Seq(Server) /\ Slots(cfg) = <<p>> \o cfg.resident
  BY SlotsAre
<1>. HIDE DEF p
<1>2. <<p>> \in Seq(Server)
  BY <1>1
<1>. QED  BY <1>1, <1>2, ConcatProperties

LEMMA PrimaryKnown ==
  ASSUME Typed, Set, Sizeable(cfg)
  PROVE  cfg.model \in Models
<1>1. 1 \in DOMAIN Slots(cfg) /\ Slots(cfg)[1].model = cfg.model
  BY SlotsAre
<1>. QED  BY <1>1 DEF Sizeable, Known

LEMMA AdmittedSizeIs == AdmittedSize = Sum(Sizes(Slots(cfg)))
  BY DEF AdmittedSize, Sizes, SlotSize, CtxOf

\* The bytes the set is admitted with are its own, while a word can count them.
LEMMA BytesAreSizes ==
  ASSUME Typed, Set, Sizeable(cfg), Sum(Sizes(Slots(cfg))) <= Top
  PROVE  Used(cfg) = Sum(Sizes(Slots(cfg)))
<1>. DEFINE A == Slots(cfg)
            Y == Sizes(A)
<1>1. cfg.model \in Models
  BY PrimaryKnown
<1>2. A \in Seq(Server)
  BY <1>1, SlotsType
<1>3. Y \in Seq(Nat) /\ Len(Y) = Len(A) /\ DOMAIN Y = DOMAIN A
  BY <1>2, SizesType DEF Sizes
<1>4. ASSUME NEW i \in DOMAIN A
      PROVE  Fit(A[i].model, A[i].ctx).slot = Y[i]
  <2>1. A[i] \in Server /\ i \in 1..Len(Y)
    BY <1>2, <1>3, ElementOfSeq, LenProperties
  <2>2. Y[i] = SlotSize(A[i]) /\ Y[i] \in Nat /\ Y[i] <= Sum(Y) /\ Sum(Y) \in Nat /\ Sum(Y) <= Top
    <3>1. Y[i] = SlotSize(A[i])
      BY DEF Sizes
    <3>. HIDE DEF Y
    <3>. QED  BY <1>3, <2>1, <3>1, SumBounds, SumType, ElementOfSeq DEF Y
  <2>3. SlotSize(A[i]) <= Top
    BY <2>2, FitAssumption, SMT DEF FitAssumption
  <2>4. Fit(A[i].model, A[i].ctx).model # 0
    BY DEF Sizeable
  <2>. QED  BY <2>1, <2>2, <2>3, <2>4, SlotExact
<1>5. SlotBytes(A) = Y
  BY <1>4 DEF SlotBytes, Sizes
<1>6. Sum(Y) \in Nat
  BY <1>3, SumType
<1>. QED  BY <1>5, <1>6, WrappedExact DEF Used

\* A resident that was kept: with what is already there it leaves the headroom.
LEMMA AdmittedFits ==
  ASSUME NEW y \in Nat, NEW z \in Nat, NEW e \in Nat,
         y + z <= (IF Headroom(e) >= e THEN 0 ELSE e - Headroom(e))
  PROVE  y + z + Headroom(e) <= e
<1>1. Headroom(e) \in Nat /\ Headroom(e) <= e
  BY HeadroomType, HeadroomBelow
<1>. QED  BY <1>1, SMT

LEMMA KeptAddFits ==
  ASSUME Typed, Set, NEW m \in Models, NEW r, r = Fit(m, 0), NEW q, q \in Ports,
         r.model # 0, cfg.model # 0, Sizeable(cfg), Admit(cfg, r), host' = host,
         cfg' = Marshal([cfg EXCEPT !.resident = Append(@, [model |-> m, ctx |-> r.ctx, port |-> q])])
  PROVE  AdmittedSetFits'
<1>. DEFINE x == [model |-> m, ctx |-> r.ctx, port |-> q]
            o == [model |-> m, ctx |-> 0, port |-> q]
            A == Slots(cfg)
            Y == Sizes(A)
            e == Usable(host, cfg.on)
            p == [model |-> cfg.model, ctx |-> cfg.ctx, port |-> PrimaryPort]
<1>1. PICK s : cfg \in Shape(s)
  BY DEF Typed
<1>2. /\ cfg'.model = cfg.model /\ cfg'.ctx = cfg.ctx /\ cfg'.on = Reserved(cfg.on)
      /\ cfg'.resident = Append(cfg.resident, x)
  BY <1>1 DEF Marshal, Shape
<1>3. Usable(host', cfg'.on) = e
  BY <1>2, SavedEnvelope
<1>4. /\ e \in Nat /\ r.usable = e /\ r.headroom = Headroom(e) /\ r.ctx \in Contexts
      /\ r.ctx = Catalog[m].ctx
      /\ r.slot = Wrapped(Catalog[m].weight + KVBytes(m, r.ctx) + PromptCache)
  BY FitIs, SMT
<1>5. x \in Server /\ o \in Server /\ SlotSize(o) = SlotSize(x)
  <2>1. x \in Server /\ o \in Server
    BY <1>4 DEF Server
  <2>2. CtxOf(x) = CtxOf(o)
    BY <1>4 DEF CtxOf
  <2>. QED  BY <2>1, <2>2 DEF SlotSize
<1>7. cfg.model \in Models
  BY PrimaryKnown
<1>8. A \in Seq(Server)
  BY <1>7, SlotsType
<1>9. Slots(cfg)' = Append(A, x)
  <2>1. p \in Server /\ cfg.resident \in Seq(Server) /\ A = <<p>> \o cfg.resident
    BY <1>7, SlotsAre
  <2>2. Slots(cfg)' = <<p>> \o Append(cfg.resident, x)
    BY <1>2 DEF Slots
  <2>. HIDE DEF p, x
  <2>3. <<p>> \o Append(cfg.resident, x) = Append(<<p>> \o cfg.resident, x)
    BY <1>5, <2>1, ConsAppend
  <2>. QED  BY <2>1, <2>2, <2>3
<1>. HIDE DEF x, o, p
<1>10. /\ Y \in Seq(Nat) /\ Sum(Y) \in Nat /\ SlotSize(x) \in Nat
       /\ Sizes(Append(A, x)) = Append(Y, SlotSize(x))
       /\ Sum(Append(Y, SlotSize(x))) = Sum(Y) + SlotSize(x)
  BY <1>5, <1>8, SizesType, SlotSizeType, SizesAppend, SumType, SumAppend
<1>11. AdmittedSize' = Sum(Y) + SlotSize(x)
  <2>1. AdmittedSize' = Sum(Sizes(Slots(cfg)'))
    BY DEF AdmittedSize, Sizes, SlotSize, CtxOf
  <2>. QED  BY <1>9, <1>10, <2>1
<1>. DEFINE y == Sum(Y)
            z == SlotSize(x)
<1>. HIDE DEF Y, A, e
<1>12. ASSUME y + z <= Top
       PROVE  y + z + Headroom(e) <= e
  <2>0. y \in Nat /\ z \in Nat /\ Top \in Nat
    BY <1>10, FitAssumption DEF FitAssumption
  <2>. HIDE DEF y, z
  <2>1. y <= Top /\ z <= Top /\ y + z \in Nat
    BY <1>12, <2>0, SMT
  <2>2. Used(cfg) = y
    BY <2>1, BytesAreSizes DEF y, Y, A
  <2>3. r.slot = z
    <3>1. o.model = m /\ o.ctx = 0
      BY DEF o
    <3>2. SlotSize(o) <= Top /\ SlotSize(o) = z
      BY <1>5, <2>1 DEF z
    <3>. QED  BY <1>5, <3>1, <3>2, SlotExact
  <2>4. Wrapped(y + z) = y + z
    BY <1>12, <2>1, WrappedExact
  <2>5. y + z <= (IF Headroom(e) >= e THEN 0 ELSE e - Headroom(e))
    BY <1>4, <2>2, <2>3, <2>4, Zenon DEF Admit
  <2>. QED  BY <1>4, <2>0, <2>5, AdmittedFits
<1>. QED  BY <1>3, <1>11, <1>12 DEF AdmittedSetFits, Within, y, z

LEMMA AddFits ==
  ASSUME Typed, Sound, AdmittedSetFits, NEW m \in Models, ResidentAdd(m)
  PROVE  AdmittedSetFits'
<1>. DEFINE r == Fit(m, 0)
            q == LowestFree(cfg)
            x == [model |-> m, ctx |-> r.ctx, port |-> q]
            t == [cfg EXCEPT !.resident = Append(@, x)]
<1>1. CASE UNCHANGED vars
  BY <1>1 DEF vars, AdmittedSetFits, AdmittedSize, Within, Slots
<1>2. CASE /\ r.model # 0 /\ cfg.model # 0 /\ Sizeable(cfg) /\ FreePorts(cfg) # {} /\ Admit(cfg, r)
           /\ cfg' = Marshal(t) /\ host' = host
  <2>1. q \in Ports
    BY <1>2, FreePortType
  <2>2. Set
    BY DEF Sound
  <2>3. cfg' = Marshal([cfg EXCEPT !.resident = Append(@, [model |-> m, ctx |-> r.ctx, port |-> q])])
    BY <1>2
  <2>. HIDE DEF q, r, x, t
  <2>4. r = Fit(m, 0)
    BY DEF r
  <2>. QED  BY <1>2, <2>1, <2>2, <2>3, <2>4, KeptAddFits
<1>3. \/ UNCHANGED vars
      \/ /\ r.model # 0 /\ cfg.model # 0 /\ Sizeable(cfg) /\ FreePorts(cfg) # {} /\ Admit(cfg, r)
         /\ Transact("add", t, vetted)
  BY DEF ResidentAdd, Refused, NoOp
<1>. HIDE DEF t, r
<1>. QED  BY <1>1, <1>2, <1>3 DEF Transact, Refused

LEMMA OtherFits ==
  ASSUME AdmittedSetFits, NEW v, v # "add", UNCHANGED vars \/ last' = v
  PROVE  AdmittedSetFits'
  BY DEF vars, AdmittedSetFits, AdmittedSize, Within, Slots

LEMMA FitsStep == Typed /\ Sound /\ AdmittedSetFits /\ [Next]_vars => AdmittedSetFits'
<1>. SUFFICES ASSUME Typed, Sound, AdmittedSetFits, [Next]_vars
              PROVE  AdmittedSetFits'
  OBVIOUS
<1>1. ASSUME NEW v, v # "add", NEW t, NEW w, Transact(v, t, w)
      PROVE  UNCHANGED vars \/ last' = v
  BY <1>1 DEF Transact, Refused, Changed
<1>2. CASE UNCHANGED vars
  BY <1>2 DEF vars, AdmittedSetFits, AdmittedSize, Within, Slots
<1>3. ASSUME NEW m \in Models, ModelSwap(m)
      PROVE  UNCHANGED vars \/ last' = "swap"
  <2>1. PICK c : Refused \/ Transact("swap", SwapTarget(c), ~(cfg.coding /\ cfg.coder = 0))
    BY <1>3, Zenon DEF ModelSwap
  <2>. QED  BY <1>1, <2>1 DEF Refused
<1>4. ASSUME NEW m \in Models, ResidentRm(m)
      PROVE  UNCHANGED vars \/ last' = "rm"
  BY <1>1, <1>4 DEF ResidentRm, Refused
<1>5. ASSUME NEW m, NEW n, RecommendSave(m, n)
      PROVE  UNCHANGED vars \/ last' = "save"
  BY <1>5, Zenon DEF RecommendSave, Refused, Changed
<1>6. ASSUME NEW b, BackendSet(b)
      PROVE  UNCHANGED vars \/ last' = "backend"
  BY <1>1, <1>6 DEF BackendSet, Refused, NoOp
<1>7. ASSUME NEW m, SpeculationSet(m)
      PROVE  UNCHANGED vars \/ last' = "speculation"
  BY <1>1, <1>7 DEF SpeculationSet, Refused, NoOp
<1>8. ASSUME NEW on, ToolsMode(on)
      PROVE  UNCHANGED vars \/ last' = "tools"
  BY <1>1, <1>8 DEF ToolsMode, Refused, NoOp
<1>9. ASSUME CodingEnter
      PROVE  UNCHANGED vars \/ last' = "enter"
  BY <1>1, <1>9 DEF CodingEnter, NoOp
<1>10. ASSUME CodingExit
       PROVE  UNCHANGED vars \/ last' = "exit"
  BY <1>1, <1>10 DEF CodingExit, NoOp
<1>11. ConfigSet => last' = "set"
  BY Zenon DEF ConfigSet, Changed
<1>12. Reconfigure => last' = "install"
  BY Zenon DEF Reconfigure, Changed
<1>13. Reboot => last' = "reboot"
  BY Zenon DEF Reboot, Changed
<1>14. CASE \E m \in Models : ModelSwap(m) \/ ResidentAdd(m) \/ ResidentRm(m)
  BY <1>3, <1>4, <1>14, AddFits, OtherFits
<1>15. CASE \E m \in Models \cup {0}, n \in Ctxs : RecommendSave(m, n)
  BY <1>5, <1>15, OtherFits
<1>16. CASE \E b \in {"rocm", "vulkan"} : BackendSet(b)
  BY <1>6, <1>16, OtherFits
<1>17. CASE \E m \in Modes \ {"unset"} : SpeculationSet(m)
  BY <1>7, <1>17, OtherFits
<1>18. CASE \E on \in BOOLEAN : ToolsMode(on)
  BY <1>8, <1>18, OtherFits
<1>19. CASE CodingEnter \/ CodingExit \/ ConfigSet \/ Reconfigure \/ Reboot
  BY <1>9, <1>10, <1>11, <1>12, <1>13, <1>19, OtherFits
<1>. QED  BY <1>2, <1>14, <1>15, <1>16, <1>17, <1>18, <1>19, Zenon DEF Next, Verb

\* What the verbs admit can be rendered, now and behind coding mode, and the resident
\* set that was admitted fits together, in every order of the verbs and on every host.
THEOREM WhatIsAdmittedIsServable == Spec => []StackStaysServable
<1>1. Init => Typed /\ Sound /\ AdmittedSetFits
  <2>1. Init => AdmittedSetFits
    BY DEF Init, AdmittedSetFits
  <2>. QED  BY <2>1, TypedInit, SoundInit
<1>2. Typed /\ Sound /\ AdmittedSetFits /\ [Next]_vars => (Typed /\ Sound /\ AdmittedSetFits)'
  BY TypedStep, SoundStep, FitsStep
<1>3. Typed /\ Sound /\ AdmittedSetFits => StackStaysServable
  BY ChatRenders DEF StackStaysServable, ChatStillRenders, Typed, Sound, Set
<1>. QED  BY <1>1, <1>2, <1>3, PTL DEF Spec

----------------------------------------------------------------------------
(* The pick made with no override                                          *)

LEMMA ModuloIs ==
  ASSUME NEW a \in Nat, NEW k \in Nat \ {0}
  PROVE  a \div k \in Nat /\ a % k \in 0..(k - 1) /\ a = (a \div k) * k + (a % k)
<1>1. a \div k \in Nat /\ a % k \in 0..(k - 1)
  BY SMT
<1>2. a % k = a - k * (a \div k)
  BY SMTT(30)
<1>. DEFINE q == a \div k
            r == a % k
<1>3. k * q = q * k /\ k * q \in Nat
  <2>1. q \in Nat
    BY <1>1
  <2>. HIDE DEF q
  <2>. QED  BY <2>1, SMT
<1>4. r = a - k * q /\ r \in Nat
  BY <1>1, <1>2, SMT
<1>. DEFINE p == k * q
<1>. HIDE DEF q, r, p
<1>5. r = a - p /\ p \in Nat /\ r \in Nat
  BY <1>3, <1>4 DEF p
<1>6. a = p + r
  BY <1>5, SMT
<1>7. a = q * k + r
  BY <1>3, <1>6, Zenon DEF p
<1>. QED  BY <1>1, <1>7, Zenon DEF q, r

LEMMA ModuloOf ==
  ASSUME NEW a \in Nat, NEW k \in Nat \ {0}, NEW q \in Nat, NEW r \in Nat, r < k, a = q * k + r
  PROVE  a % k = r
  BY SMTT(30)

LEMMA ModuloPlus ==
  ASSUME NEW a \in Nat, NEW d \in Nat, NEW k \in Nat \ {0}
  PROVE  (a + d) % k <= (a % k) + d
<1>. DEFINE q == a \div k
            r == a % k
            p == q * k
<1>1. q \in Nat /\ r \in 0..(k - 1) /\ a = p + r
  BY ModuloIs
<1>2. p \in Nat
  BY <1>1, TimesType
<1>3. (a + d) % k \in 0..(k - 1)
  BY PlusType, ModuloIs
<1>. HIDE DEF q, r
<1>4. CASE r + d < k
  <2>1. a + d = q * k + (r + d) /\ r + d \in Nat /\ a + d \in Nat
    <3>. HIDE DEF p
    <3>1. a + d = p + (r + d) /\ r + d \in Nat /\ a + d \in Nat
      BY <1>1, <1>2, SMT
    <3>. QED  BY <3>1 DEF p
  <2>. HIDE DEF p
  <2>2. (a + d) % k = r + d
    BY <1>1, <1>4, <2>1, ModuloOf
  <2>. QED  BY <1>1, <2>1, <2>2, SMT DEF r
<1>. HIDE DEF p
<1>5. CASE ~ (r + d < k)
  <2>. DEFINE w == (a + d) % k
  <2>1. w \in 0..(k - 1)
    BY <1>3
  <2>. HIDE DEF w
  <2>2. w <= r + d
    BY <1>1, <1>5, <2>1, SMT
  <2>. QED  BY <2>2 DEF w, r
<1>. QED  BY <1>4, <1>5

LEMMA WrappedPlus ==
  ASSUME NEW a \in Nat, NEW d \in Nat
  PROVE  Wrapped(a + d) <= Wrapped(a) + d
<1>. DEFINE k == Top + 1
<1>1. k \in Nat \ {0}
  BY FitAssumption, SMT DEF FitAssumption
<1>. HIDE DEF k
<1>2. (a + d) % k <= (a % k) + d
  BY <1>1, ModuloPlus
<1>. QED  BY <1>2 DEF Wrapped, k

\* More memory holds back more headroom, by less than what there is more.
LEMMA HeadroomGrows ==
  ASSUME NEW e \in Nat, NEW f \in Nat, e <= f
  PROVE  Headroom(e) <= Headroom(f) /\ Headroom(f) - Headroom(e) <= f - e
  BY SMT DEF Headroom

\* The bytes of a chat model beside the headroom.
Bare(m, ov) == Catalog[m].weight + KVBytes(m, EffectiveCtx(m, ov)) + PromptCache

LEMMA WeightType ==
  ASSUME NEW m \in Models
  PROVE  Catalog[m].weight \in Nat /\ PromptCache \in Nat /\ Top \in Nat
<1>1. Catalog[m].weight \in 0..Top
  BY EntryType DEF Entry
<1>2. PromptCache \in Nat /\ Top \in Nat
  BY FitAssumption DEF FitAssumption
<1>. QED  BY <1>1, <1>2, SMT

LEMMA ChatTotalIs ==
  ASSUME NEW m \in Models, NEW ov, ov.ctx \in Nat, NEW e \in Nat
  PROVE  /\ EffectiveCtx(m, ov) \in Nat /\ Bare(m, ov) \in Nat /\ Headroom(e) \in Nat
         /\ ChatTotal(m, ov, e) = Wrapped(Bare(m, ov) + Headroom(e))
         /\ BaseTotal(m, EffectiveCtx(m, ov), e) = Sat(Bare(m, ov) + Headroom(e))
<1>. DEFINE c == EffectiveCtx(m, ov)
            w == Catalog[m].weight
            v == KVBytes(m, c)
            h == Headroom(e)
<1>1. c \in Nat
  BY EntryType DEF EffectiveCtx, Entry
<1>2. w \in Nat /\ v \in Nat /\ h \in Nat /\ PromptCache \in Nat
  BY <1>1, WeightType, KVBytesType, HeadroomType
<1>3. ChatTotal(m, ov, e) = Wrapped(w + v + h + PromptCache) /\ BaseTotal(m, c, e) = Sat(w + v + h + PromptCache)
  BY DEF ChatTotal, BaseTotal
<1>4. Bare(m, ov) = w + v + PromptCache
  BY DEF Bare
<1>. HIDE DEF w, v, h, c
<1>5. w + v + h + PromptCache = (w + v + PromptCache) + h /\ w + v + PromptCache \in Nat
  BY <1>2, SMT
<1>. QED  BY <1>1, <1>2, <1>3, <1>4, <1>5 DEF c, h

\* A word counts no more than there is, and what there is when it can.
LEMMA ChatSizeIs ==
  ASSUME NEW m \in Models, NEW ov, ov.ctx \in Nat, NEW e \in Nat
  PROVE  /\ ChatSize(m, ov, e) \in Nat
         /\ ChatTotal(m, ov, e) <= ChatSize(m, ov, e)
         /\ ChatSize(m, ov, e) <= Top => ChatSize(m, ov, e) = Bare(m, ov) + Headroom(e)
<1>. DEFINE c == EffectiveCtx(m, ov)
            w == Catalog[m].weight
            v == KVBytes(m, c)
            s == CacheSize(m, c)
            h == Headroom(e)
<1>1. c \in Nat /\ Bare(m, ov) \in Nat /\ h \in Nat /\ ChatTotal(m, ov, e) = Wrapped(Bare(m, ov) + h)
  BY ChatTotalIs
<1>2. w \in Nat /\ s \in Nat /\ PromptCache \in Nat /\ Top \in Nat
  BY <1>1, WeightType, CacheSizeType
<1>3. ChatSize(m, ov, e) = w + s + PromptCache + 0 + 0 + h
  BY DEF ChatSize, UnitSize
<1>4. Bare(m, ov) = w + v + PromptCache
  BY DEF Bare
<1>5. v = IF s > Top THEN Top ELSE s
  BY DEF KVBytes, Sat
<1>. DEFINE b == Bare(m, ov)
<1>6. Wrapped(b + h) <= b + h
  BY <1>1, PlusType, WrappedBelow
<1>7. Wrapped(b + h) \in Nat
  BY <1>1, PlusType, WrappedBelow
<1>. HIDE DEF b, w, v, s, h, c
<1>8. b = w + v + PromptCache
  BY <1>4 DEF b
<1>. DEFINE z == ChatSize(m, ov, e)
            t == ChatTotal(m, ov, e)
<1>9. z = w + s + PromptCache + 0 + 0 + h /\ t <= b + h /\ t \in Nat /\ b \in Nat
  BY <1>1, <1>3, <1>6, <1>7 DEF b
<1>. HIDE DEF z, t
<1>10. z \in Nat /\ t <= z /\ (z <= Top => z = b + h)
  BY <1>1, <1>2, <1>5, <1>8, <1>9, SMT
<1>. QED  BY <1>10 DEF z, t, b, h

\* What fits on a host fits on one with more memory.
LEMMA CandidatesGrow ==
  ASSUME NEW ov, ov.ctx \in Nat, NEW e \in Nat, NEW f \in Nat, e <= f
  PROVE  Candidates(ov, e) \subseteq Candidates(ov, f)
<1>. SUFFICES ASSUME NEW m \in Candidates(ov, e)
              PROVE  m \in Candidates(ov, f)
  OBVIOUS
<1>1. m \in Models /\ Eligible(m, e) /\ ChatTotal(m, ov, e) <= e
  BY DEF Candidates
<1>2. Eligible(m, f)
  <2>1. Catalog[m].floor \in Nat
    BY <1>1, EntryType DEF Entry
  <2>2. Catalog[m].floor = 0 \/ e >= Catalog[m].floor
    BY <1>1 DEF Eligible
  <2>3. Catalog[m].floor = 0 \/ f >= Catalog[m].floor
    BY <2>1, <2>2, SMT
  <2>. QED  BY <1>1, <2>3 DEF Eligible
<1>. DEFINE b == Bare(m, ov)
            h == Headroom(e)
            d == Headroom(f) - h
<1>3. b \in Nat /\ h \in Nat /\ ChatTotal(m, ov, e) = Wrapped(b + h)
  BY <1>1, ChatTotalIs
<1>4. Headroom(f) \in Nat /\ ChatTotal(m, ov, f) = Wrapped(b + Headroom(f))
  BY <1>1, ChatTotalIs
<1>5. d \in Nat /\ d <= f - e /\ Headroom(f) = h + d
  <2>1. h <= Headroom(f) /\ Headroom(f) - h <= f - e
    BY HeadroomGrows
  <2>. HIDE DEF h
  <2>. QED  BY <1>3, <1>4, <2>1, SMT
<1>. HIDE DEF b, h, d
<1>6. b + Headroom(f) = (b + h) + d /\ b + h \in Nat
  BY <1>3, <1>5, SMT
<1>7. Wrapped((b + h) + d) <= Wrapped(b + h) + d
  BY <1>5, <1>6, WrappedPlus
<1>8. Wrapped(b + h) \in Nat /\ Wrapped((b + h) + d) \in Nat
  BY <1>5, <1>6, PlusType, WrappedBelow
<1>. DEFINE u == Wrapped(b + h)
            v == Wrapped((b + h) + d)
<1>. HIDE DEF u, v
<1>9. u \in Nat /\ v \in Nat /\ v <= u + d /\ u <= e
  BY <1>1, <1>3, <1>7, <1>8 DEF u, v
<1>10. v <= f
  BY <1>5, <1>9, SMT
<1>. QED  BY <1>1, <1>2, <1>4, <1>6, <1>10 DEF Candidates, v

\* A model that no mode was asked for is sized with what it turns on, and fits when a
\* word can count it.
LEMMA CandidateFits ==
  ASSUME NEW ov, ov.ctx \in Nat, ov.spec \in {"unset", "off"}, NEW e \in Nat, NEW m \in Candidates(ov, e),
         ChatSize(m, ov, e) <= Top
  PROVE  Recommend(m, ov, e).fits
<1>. DEFINE ctx    == EffectiveCtx(m, ov)
            base   == BaseTotal(m, ctx, e)
            beside == WithProjector(m, base, e)
            draft  == WithDraft(m, ctx, beside)
            mode   == Speculation(m, ov.spec, draft <= e)
            n      == Bare(m, ov) + Headroom(e)
<1>1. m \in Models /\ ChatTotal(m, ov, e) <= e
  BY DEF Candidates
<1>2. n \in Nat /\ ChatTotal(m, ov, e) = Wrapped(n) /\ base = Sat(n)
  BY <1>1, ChatTotalIs, PlusType
<1>3. n <= Top
  BY <1>1, ChatSizeIs
<1>. HIDE DEF base, n
<1>4. base = n /\ base <= e
  <2>1. Top \in Nat
    BY FitAssumption DEF FitAssumption
  <2>2. Sat(n) = n
    BY <1>2, <1>3, <2>1, SMT DEF Sat
  <2>3. Wrapped(n) = n
    BY <1>2, <1>3, WrappedExact
  <2>. QED  BY <1>1, <1>2, <2>2, <2>3
<1>5. beside <= e
  <2>1. CASE HasProjector(m, base, e)
    BY <2>1 DEF WithProjector, HasProjector
  <2>2. CASE ~HasProjector(m, base, e)
    <3>1. beside = Sat(base + 0)
      BY <2>2 DEF WithProjector
    <3>2. Top \in Nat
      BY FitAssumption DEF FitAssumption
    <3>3. base + 0 = base /\ Sat(base) = base
      BY <1>2, <1>3, <1>4, <3>2, SMT DEF Sat
    <3>. QED  BY <1>4, <3>1, <3>3
  <2>. QED  BY <2>1, <2>2
<1>6. mode = "draft" => draft <= e
  BY DEF Speculation, Qualified
<1>7. SpeculationOk(m, ov.spec, draft <= e)
  BY DEF SpeculationOk
<1>8. Recommend(m, ov, e).fits =
        ((IF mode = "draft" THEN draft ELSE beside) <= e /\ SpeculationOk(m, ov.spec, draft <= e))
  BY DEF Recommend, base
<1>. HIDE DEF mode, draft, beside
<1>. QED  BY <1>5, <1>6, <1>7, <1>8

\* What Pick returns where there is an envelope, with no model asked for.
LEMMA PickIs ==
  ASSUME NEW h \in Hosts, NEW on \in Subsystems, NEW ov \in Asked, ov.model = 0, Envelope(h) # Unknown,
         NEW e, e = Usable(h, on), NEW S, S = Candidates(ov, e), NEW pick, pick = Picks[h][on][ov]
  PROVE  /\ e \in Nat /\ e < Top
         /\ ov.ctx \in Nat /\ S \subseteq Models
         /\ S = {} => pick.model = 0
         /\ S # {} => /\ pick.model \in S /\ \A n \in S : ~Outranks(n, pick.model, ov, e)
                      /\ pick.fits = Recommend(pick.model, ov, e).fits
<1>1. on \in Ons /\ on \in SUBSET Parts
  BY OnsType DEF Ons
<1>2. e \in Nat /\ e < Top
  BY <1>1, UsableType
<1>3. ov.ctx \in Nat
  <2>1. ov.ctx \in Contexts \cup {0}
    BY DEF Asked
  <2>. QED  BY <2>1, CtxType
<1>4. S \subseteq Models
  BY DEF Candidates
<1>5. pick = Final(h, PickWithin(ov, e))
  BY <1>1, Tabulated DEF Pick
<1>6. CASE S = {}
  <2>1. pick = Final(h, NoPick(e))
    BY <1>5, <1>6 DEF PickWithin
  <2>2. pick.model = 0
    BY <2>1 DEF Final, NoPick
  <2>. QED  BY <1>2, <1>3, <1>4, <1>6, <2>2
<1>7. CASE S # {}
  <2>. DEFINE b == Best(S, ov, e)
  <2>1. b \in S /\ \A n \in S : ~Outranks(n, b, ov, e)
    BY <1>2, <1>3, <1>4, <1>7, BestType
  <2>2. pick = Final(h, Recommend(b, ov, e))
    BY <1>5, <1>7 DEF PickWithin
  <2>. HIDE DEF b
  <2>3. pick.model = b /\ pick.fits = Recommend(b, ov, e).fits
    <3>1. b \in Models
      BY <1>4, <2>1
    <3>2. pick.model = Recommend(b, ov, e).model /\ pick.fits = Recommend(b, ov, e).fits
      BY <2>2, <3>1, FinalRecommend
    <3>. QED  BY <3>2 DEF Recommend
  <2>. QED  BY <1>2, <1>3, <1>4, <1>7, <2>1, <2>3
<1>. QED  BY <1>6, <1>7

\* No pick for a host with no envelope.
LEMMA PickOfNone ==
  ASSUME NEW h \in Hosts, NEW on \in Subsystems, NEW ov \in Asked, Envelope(h) = Unknown
  PROVE  Picks[h][on][ov].model = 0
<1>1. on \in Ons
  BY DEF Ons
<1>2. Picks[h][on][ov] = Final(h, NoPick(0))
  BY <1>1, Tabulated DEF Pick
<1>. QED  BY <1>2 DEF Final, NoPick

LEMMA PickModelType ==
  ASSUME NEW h \in Hosts, NEW on \in Subsystems, NEW ov \in Asked
  PROVE  /\ Picks[h][on][ov].model \in Models \cup {0}
         /\ Weight(Picks[h][on][ov].model) \in Nat
<1>1. on \in Ons /\ on \in SUBSET Parts
  BY OnsType DEF Ons
<1>2. Picks[h][on][ov].model \in Models \cup {0}
  BY <1>1, Tabulated, PickType DEF PickRec
<1>3. ASSUME NEW m \in Models \cup {0}
      PROVE  Weight(m) \in Nat
  <2>1. CASE m = 0
    BY <2>1 DEF Weight
  <2>2. CASE m # 0
    BY <2>2, WeightType DEF Weight
  <2>. QED  BY <2>1, <2>2
<1>. QED  BY <1>2, <1>3

\* A model that is not a candidate does not fit.
LEMMA NotCandidate ==
  ASSUME NEW ov, ov.ctx \in Nat, NEW e \in Nat, NEW m \in Models, Eligible(m, e), m \notin Candidates(ov, e)
  PROVE  ChatSize(m, ov, e) > e
<1>1. ~ (ChatTotal(m, ov, e) <= e)
  BY DEF Candidates
<1>2. ChatTotal(m, ov, e) \in Nat
  BY ChatTotalIs, PlusType, WrappedBelow
<1>3. ChatSize(m, ov, e) \in Nat /\ ChatTotal(m, ov, e) <= ChatSize(m, ov, e)
  BY ChatSizeIs
<1>. QED  BY <1>1, <1>2, <1>3, SMT

LEMMA BestPick ==
  ASSUME NEW h \in Hosts, h = host, NEW on \in Subsystems, NEW ov \in Asked, ov.model = 0,
         NEW pick, pick = Picks[h][on][ov]
  PROVE  PickIsBest(pick, on, ov)
<1>. DEFINE e == Usable(host, on)
            S == Candidates(ov, e)
            b == pick.model
<1>1. ASSUME b # 0
      PROVE  /\ Eligible(b, e)
             /\ ov.spec \in {"unset", "off"} /\ ChatSize(b, ov, e) <= Top => pick.fits
  <2>1. Envelope(h) # Unknown
    BY <1>1, PickOfNone
  <2>2. e \in Nat /\ ov.ctx \in Nat /\ b \in S /\ pick.fits = Recommend(b, ov, e).fits
    BY <1>1, <2>1, PickIs
  <2>3. Eligible(b, e)
    BY <2>2 DEF Candidates
  <2>. HIDE DEF e, b
  <2>4. ov.spec \in {"unset", "off"} /\ ChatSize(b, ov, e) <= Top => pick.fits
    BY <2>2, CandidateFits
  <2>. QED  BY <2>3, <2>4
<1>2. ASSUME NEW m \in Models, Envelope(host) # Unknown, Eligible(m, e), Catalog[m].weight > Weight(b)
      PROVE  ChatSize(m, ov, e) > e
  <2>1. /\ e \in Nat /\ ov.ctx \in Nat
        /\ S = {} => b = 0
        /\ S # {} => b \in S /\ S \subseteq Models /\ \A n \in S : ~Outranks(n, b, ov, e)
    BY <1>2, PickIs
  <2>2. m \notin S
    <3>1. SUFFICES ASSUME m \in S
                   PROVE  FALSE
      OBVIOUS
    <3>2. b \in Models /\ b # 0 /\ ~Outranks(m, b, ov, e)
      BY <2>1, <3>1, ModelsPositive
    <3>3. Weight(b) = Catalog[b].weight
      BY <3>2 DEF Weight
    <3>. QED  BY <1>2, <3>2, <3>3 DEF Outranks
  <2>. QED  BY <1>2, <2>1, <2>2, NotCandidate
<1>3. ASSUME NEW g \in Hosts, NEW off \in Subsystems, Envelope(g) # Unknown,
             Envelope(host) = Unknown \/ Usable(g, off) >= e
      PROVE  Weight(Picks[g][off][ov].model) >= Weight(b)
  <2>. DEFINE f == Usable(g, off)
              T == Candidates(ov, f)
              c == Picks[g][off][ov].model
  <2>0. Weight(c) \in Nat /\ Weight(b) \in Nat
    BY PickModelType
  <2>1. CASE b = 0
    <3>1. Weight(b) = 0
      BY <2>1 DEF Weight
    <3>. HIDE DEF b, c
    <3>2. Weight(c) >= Weight(b)
      BY <2>0, <3>1, SMT
    <3>. QED  BY <3>2 DEF c
  <2>2. CASE b # 0
    <3>1. Envelope(h) # Unknown
      BY <2>2, PickOfNone
    <3>2. e \in Nat /\ ov.ctx \in Nat /\ b \in S /\ b \in Models
      BY <2>2, <3>1, PickIs
    <3>3. /\ f \in Nat
          /\ T # {} => c \in T /\ T \subseteq Models /\ \A n \in T : ~Outranks(n, c, ov, f)
      BY <1>3, PickIs
    <3>4. e <= f
      <4>1. f >= e
        BY <1>3, <3>1
      <4>. HIDE DEF e, f
      <4>. QED  BY <3>2, <3>3, <4>1, SMT
    <3>5. b \in T
      BY <3>2, <3>3, <3>4, CandidatesGrow
    <3>6. c \in Models /\ c # 0 /\ ~ (Catalog[b].weight > Catalog[c].weight)
      BY <3>3, <3>5, ModelsPositive DEF Outranks
    <3>7. Weight(b) = Catalog[b].weight /\ Weight(c) = Catalog[c].weight
      BY <2>2, <3>6 DEF Weight
    <3>. HIDE DEF b, c
    <3>8. Weight(c) >= Weight(b)
      BY <2>0, <3>6, <3>7, SMT
    <3>. QED  BY <3>8 DEF c
  <2>. QED  BY <2>1, <2>2
<1>. QED  BY <1>1, <1>2, <1>3 DEF PickIsBest

LEMMA PickFits ==
  ASSUME NEW h \in Hosts, NEW on \in SUBSET Parts, NEW ov \in Asked, NEW r, r = Pick(h, on, ov), r.fits
  PROVE  UnitSize(r.model, r.ctx, r.vision, r.spec = "draft") + r.headroom <= Usable(h, on)
<1>. DEFINE e == Usable(h, on)
            S == Candidates(ov, e)
<1>1. Envelope(h) # Unknown
  BY FinalNoPick DEF Pick
<1>2. e \in Nat /\ e < Top
  BY <1>1, UsableType
<1>3. ov.ctx \in Nat /\ ov.spec \in Modes
  <2>1. ov.ctx \in Contexts \cup {0} /\ ov.spec \in Modes
    BY DEF Asked
  <2>. QED  BY <2>1, CtxType
<1>4. S \in SUBSET Models
  BY DEF Candidates
<1>5. S # {} => Best(S, ov, e) \in Models
  BY <1>2, <1>3, <1>4, BestType
<1>6. r = Final(h, PickWithin(ov, e))
  BY <1>1 DEF Pick
<1>7. \/ PickWithin(ov, e) = NoPick(e)
      \/ \E m \in Models : PickWithin(ov, e) = Recommend(m, ov, e)
  BY <1>5 DEF PickWithin, Known
<1>8. PICK m \in Models : r = Final(h, Recommend(m, ov, e))
  BY <1>6, <1>7, FinalNoPick
<1>. HIDE DEF e
<1>. DEFINE q == Recommend(m, ov, e)
            f == Final(h, q)
<1>9. /\ r.model = q.model /\ r.ctx = q.ctx /\ r.spec = q.spec /\ r.vision = q.vision
      /\ r.fits = q.fits /\ r.headroom = q.headroom
  <2>1. /\ f.model = q.model /\ f.ctx = q.ctx /\ f.spec = q.spec /\ f.vision = q.vision
        /\ f.fits = q.fits /\ f.headroom = q.headroom
    BY FinalRecommend, Zenon
  <2>2. r = f
    BY <1>8
  <2>. QED  BY <2>1, <2>2, Zenon
<1>10. q.model = m
  BY DEF Recommend
<1>11. q.fits
  BY <1>9
<1>12. UnitSize(m, q.ctx, q.vision, q.spec = "draft") + q.headroom <= e
  BY <1>2, <1>3, <1>11, RecommendFits
<1>. HIDE DEF q, f
<1>. QED  BY <1>9, <1>10, <1>12 DEF e

LEMMA PicksAreSound == Typed => PickIsSound
<1>. SUFFICES ASSUME Typed
              PROVE  PickIsSound
  OBVIOUS
<1>1. host \in Hosts
  BY DEF Typed
<1>2. ASSUME NEW on \in Subsystems
      PROVE  FitIsReal(on)
  <2>1. on \in Ons /\ on \in SUBSET Parts
    BY OnsType DEF Ons
  <2>2. ASSUME NEW ov \in Asked, Picks[host][on][ov].fits
        PROVE  LET r == Picks[host][on][ov] IN
               UnitSize(r.model, r.ctx, r.vision, r.spec = "draft") + r.headroom <= Usable(host, on)
    BY <1>1, <2>1, <2>2, Tabulated, PickFits
  <2>. QED  BY <2>2 DEF FitIsReal
<1>3. ASSUME NEW on \in Subsystems, NEW n \in Ctxs, NEW s \in Modes
      PROVE  PickIsBest(Picks[host][on][Override(0, n, s)], on, Override(0, n, s))
  <2>1. Override(0, n, s) \in Asked /\ Override(0, n, s).model = 0
    BY ModelType DEF Override, Asked, Contexts
  <2>. QED  BY <1>1, <2>1, BestPick
<1>. QED  BY <1>2, <1>3 DEF PickIsSound

\* kv.go:123, "overflow must never wrap to fits": what fits does so in whole numbers;
\* the automatic pick is the heaviest eligible model that fits, and never a lighter one
\* for more memory.
THEOREM PicksSound == Spec => []PickIsSound
<1>1. Init => Typed
  BY TypedInit
<1>2. Typed /\ [Next]_vars => Typed'
  BY TypedStep
<1>3. Typed => PickIsSound
  BY PicksAreSound
<1>. QED  BY <1>1, <1>2, <1>3, PTL DEF Spec
=============================================================================

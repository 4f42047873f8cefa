----------------------------- MODULE GgufGeometry -----------------------------
(***************************************************************************)
(* The fit dimensions of a model, as internal/gguf reads them off the      *)
(* metadata of its first file, and what they should be: a count over the   *)
(* layers.  A layer's cache grows with the context, is bounded by the      *)
(* window, or is a state of fixed size.                                    *)
(*                                                                         *)
(* An extraction that ends in an error yields the empty set.               *)
(***************************************************************************)
EXTENDS Naturals, Sequences, FiniteSets

CONSTANT NoKey   \* a metadata key that is absent

ASSUME HeaderAssumption == NoKey \notin Nat /\ NoKey \notin Seq(BOOLEAN)

----------------------------------------------------------------------------
(* What the model is, and what a converter writes about it                  *)

LayersOf(a, k) == {i \in DOMAIN a.kind : a.kind[i] = k}
HeadsOf(a, S) == {a.heads[i] : i \in S}

\* The models there are: a growing cache somewhere, and windows or, at all but every
\* k-th layer, states.
Regular(a) ==
  /\ a.kind \in Seq({"grows", "window", "state"}) /\ LayersOf(a, "grows") # {}
  /\ a.heads \in Seq(Nat) /\ Len(a.heads) = Len(a.kind)
  /\ a.key \in Nat /\ a.swaKey \in Nat /\ a.window \in Nat /\ a.attn \in Nat \ {0} /\ a.derived \in BOOLEAN
  /\ LayersOf(a, "state") # {} =>
       /\ LayersOf(a, "window") = {}
       /\ \E k \in 1 .. Len(a.kind) : LayersOf(a, "grows") = {i \in DOMAIN a.kind : i % k = 0}

\* The keys of the header.  A head count that is the same for all layers is one
\* number, a period of growing layers is an interval, and key_length may be left
\* to be derived.
HeaderOf(a) ==
  [blocks   |-> Len(a.kind),
   pattern  |-> IF LayersOf(a, "window") = {} THEN NoKey ELSE [i \in DOMAIN a.kind |-> a.kind[i] = "window"],
   interval |-> IF LayersOf(a, "state") = {} THEN NoKey ELSE Len(a.kind) \div Cardinality(LayersOf(a, "grows")),
   heads    |-> IF Cardinality(HeadsOf(a, DOMAIN a.kind)) = 1 THEN <<a.heads[1]>> ELSE a.heads,
   keyLen   |-> IF a.derived THEN NoKey ELSE a.key,
   embed    |-> a.key * a.attn,
   attn     |-> a.attn,
   swaKey   |-> IF a.swaKey = a.key THEN NoKey ELSE a.swaKey,
   window   |-> IF LayersOf(a, "window") = {} THEN NoKey ELSE a.window]

\* The catalog's entry of no dimensions: nothing to cross-check.
NoGeometry ==
  [KVLayers |-> 0, HeadCountKV |-> 0, KeyLength |-> 0,
   SWALayers |-> 0, SWAHeadCountKV |-> 0, SWAKeyLength |-> 0, SWAWindow |-> 0]

\* The reference: the layers counted by what their cache does, when the layers of
\* a kind agree on their heads.
TrueGeometry(a) ==
  {[KVLayers |-> Cardinality(LayersOf(a, "grows")), HeadCountKV |-> g, KeyLength |-> a.key,
    SWALayers |-> Cardinality(LayersOf(a, "window")), SWAHeadCountKV |-> w,
    SWAKeyLength |-> IF LayersOf(a, "window") = {} THEN 0 ELSE a.swaKey,
    SWAWindow |-> IF LayersOf(a, "window") = {} THEN 0 ELSE a.window] :
      g \in {h \in HeadsOf(a, LayersOf(a, "grows")) : HeadsOf(a, LayersOf(a, "grows")) = {h}},
      w \in IF LayersOf(a, "window") = {} THEN {0}
            ELSE {h \in HeadsOf(a, LayersOf(a, "window")) : HeadsOf(a, LayersOf(a, "window")) = {h}}}

----------------------------------------------------------------------------
(* What gguf reads                                                          *)

Blocks(h) == 1 .. h.blocks
Sliding(h) == IF h.pattern = NoKey THEN {} ELSE {i \in DOMAIN h.pattern : h.pattern[i]}

\* Every block of a hybrid counts as bearing when the heads are read.
Bearing(h) == Blocks(h) \ Sliding(h)

EveryBlock(h) == h.blocks          \* mutant: blocks are counted, not caches
KVLayerSet(h) ==
  CASE h.pattern # NoKey -> Cardinality(Bearing(h))
    [] h.pattern = NoKey /\ h.interval \notin {NoKey, 0} -> h.blocks \div h.interval
    [] OTHER -> h.blocks

KVHeadCount(h, S) ==
  CASE Len(h.heads) = 1 /\ h.blocks # 1 -> {h.heads[1]}
    [] S = {} -> {0}
    [] OTHER -> {n \in {h.heads[i] : i \in S} : \A i \in S : h.heads[i] = n}

KeyLength(h) ==
  CASE h.keyLen # NoKey -> {h.keyLen}
    [] h.keyLen = NoKey /\ h.attn = 0 -> {}
    [] OTHER -> {h.embed \div h.attn}

SlidingWindow(h, key) ==
  IF Sliding(h) = {} THEN {[layers |-> 0, heads |-> 0, key |-> 0, window |-> 0]}
  ELSE {[layers |-> Cardinality(Sliding(h)), heads |-> n,
         key |-> IF h.swaKey = NoKey THEN key ELSE h.swaKey, window |-> h.window] :
           n \in {n \in KVHeadCount(h, Sliding(h)) : h.window # NoKey}}

Geometry(h) ==
  UNION {{[KVLayers |-> KVLayerSet(h), HeadCountKV |-> n, KeyLength |-> k,
           SWALayers |-> s.layers, SWAHeadCountKV |-> s.heads, SWAKeyLength |-> s.key, SWAWindow |-> s.window] :
             s \in SlidingWindow(h, k)} :
           n \in KVHeadCount(h, Bearing(h)), k \in KeyLength(h)}

=============================================================================

----------------------------- MODULE MCModelPull ------------------------------
(***************************************************************************)
(* A model of one file and a sidecar, and three revisions of them: a       *)
(* hybrid, a dense model of the same size, and a smaller one with sliding  *)
(* windows.  The reader of headers is checked over every architecture of   *)
(* up to four layers: each a growing cache or a state by a period, or a    *)
(* growing cache or a window, with up to two heads each.                   *)
(***************************************************************************)
EXTENDS ModelPull

CONSTANT p1

MCShards == <<"weights", "sidecar">>
MCSize == <<2, 2, 1>>

Layers(kind, heads, derived) ==
  [kind |-> kind, heads |-> heads, key |-> 2, swaKey |-> 1, window |-> 3, attn |-> 4, derived |-> derived]
Periodic == UNION {{[i \in 1 .. n |-> IF i % k = 0 THEN "grows" ELSE "state"] : k \in 1 .. n} : n \in 1 .. 4}
Windowed == UNION {{f \in [1 .. n -> {"grows", "window"}] : \E i \in 1 .. n : f[i] = "grows"} : n \in 1 .. 4}
MCArchitectures ==
  UNION {{Layers(kind, heads, derived) : heads \in [DOMAIN kind -> 0 .. 2], derived \in BOOLEAN} :
           kind \in Periodic \cup Windowed}

MCArch == <<Layers(<<"state", "grows">>, <<2, 2>>, FALSE), Layers(<<"grows", "grows">>, <<2, 2>>, TRUE),
            Layers(<<"window", "grows", "window">>, <<4, 1, 4>>, FALSE)>>

\* The dimensions an entry may declare: the true ones, a count of blocks, or none.
Blocky(a) == [NoGeometry EXCEPT !.KVLayers = Len(a.kind), !.HeadCountKV = a.heads[1], !.KeyLength = a.key]
Dimensions(a) == TrueGeometry(a) \cup {Blocky(a), NoGeometry}

\* A sidecar that is declared, declared without shards, or not declared: one entry of
\* each revision for the latter two, and one for each of its dimensions for the first.
EntryOf(r, g, s) == [rev |-> r, geometry |-> g, sidecar |-> s # "none", listed |-> s = "listed"]
True(r) == CHOOSE g \in TrueGeometry(MCArch[r]) : TRUE
MCSeed == EntryOf(1, True(1), "listed")
MCEntries ==
  {EntryOf(r, True(r), s) : r \in Revs, s \in {"none", "unlisted"}}
    \cup UNION {{EntryOf(r, g, "listed") : g \in Dimensions(MCArch[r])} : r \in Revs}
=============================================================================

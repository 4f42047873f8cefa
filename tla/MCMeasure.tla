----------------------------- MODULE MCMeasure -----------------------------
(***************************************************************************)
(* Three builds, two of which share a device token, and two models.        *)
(***************************************************************************)
EXTENDS Measure, TLC

CONSTANTS vulkan, r1, r2, m1, m2, gpu1, gpu2

MCTokenOf == (vulkan :> gpu1) @@ (r1 :> gpu2) @@ (r2 :> gpu2)
MCLoads ==
  {[rounds |-> 3, warmup |-> 1, settle |-> FALSE, all |-> TRUE, faltered |-> TRUE],
   [rounds |-> 2, warmup |-> 0, settle |-> TRUE, all |-> FALSE, faltered |-> FALSE]}

(* A measurement meets a crash or a swap, and with a draft configured a     *)
(* crash; a bench, the longest, has none.  An earlier report lies there on  *)
(* a quiet host: comparable, and met by a swap, or off by one thing.        *)
Off(r) ==
  {x \in {"model", "host", "drafts", "version"} :
     CASE x = "model" -> r.fp.model # m1 [] x = "host" -> r.fp.host = ""
       [] x = "drafts" -> r.fp.speculation [] OTHER -> r.version > SchemaVersion}
MetBySwap == store # <<>> => Off(store[1]) = {}
StartInit ==
  /\ Init /\ cfg.model = m1 /\ cfg.backend = r2
  /\ crashes + swap.made = IF MetBySwap THEN 1 ELSE 2
  /\ cfg.draft => job # "bench" /\ crashes = 0
  /\ store # <<>> =>
       /\ others = 0 /\ server.target = "gpu" /\ crashes = MaxCrashes
       /\ Cardinality(Off(store[1])) <= 1
StartSpec == StartInit /\ [][Next]_vars
=============================================================================

------------------------- MODULE MCSwapTransaction -------------------------
(***************************************************************************)
(* Three units: the proven service, an optional registry unit (an orphan   *)
(* of the configs that turn it off) and a resident slot that shares the    *)
(* backend with the proven service.  Three configs: two backends, one of   *)
(* them without the optional unit, and one the renderer refuses.           *)
(***************************************************************************)
EXTENDS SwapTransaction

CONSTANTS c1, c2, c3, k1, k2, swap1, post1

MCUnits    == {"llama", "memory", "resident"}
MCRegistry == {"llama", "memory"}
MCTexts    == {"L1", "L2", "M", "R1", "R2"}
MCConfigs  == {c1, c2, c3}

MCRendered ==
  [c \in MCConfigs |->
     CASE c = c1 -> [llama |-> "L1", memory |-> "M",  resident |-> "R1"]
       [] c = c2 -> [llama |-> "L2", memory |-> None, resident |-> "R2"]
       [] c = c3 -> [llama |-> "L2", memory |-> "M",  resident |-> "R1"]]

\* Nothing tells the keys apart, so a host that has one has the first.
StartInit == Init /\ cfg.key # k2
StartSpec == StartInit /\ [][Next]_vars /\ Fairness
=============================================================================

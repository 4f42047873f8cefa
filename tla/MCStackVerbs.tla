---------------------------- MODULE MCStackVerbs ----------------------------
(***************************************************************************)
(* The units of MCSwapTransaction.  Four configs: two that config set can  *)
(* move between, one without the optional unit, which only an edit or a    *)
(* swap gives, and one the renderer refuses.                               *)
(***************************************************************************)
EXTENDS StackVerbs

CONSTANTS c1, c2, c3, c4, k1, k2, swap1, verb1, verb2

MCUnits    == {"llama", "memory", "resident"}
MCRegistry == {"llama", "memory"}
MCTexts    == {"L1", "L2", "M", "R1"}
MCConfigs  == {c1, c2, c3, c4}
MCRendered ==
  [c \in MCConfigs |->
     [llama    |-> IF c = c1 THEN "L1" ELSE "L2",
      memory   |-> IF c = c2 THEN None ELSE "M",
      resident |-> "R1"]]

\* Nothing tells the keys apart, so a host that has one has the first.
StartInit == VerbsInit /\ cfg.key # k2
StartSpec == StartInit /\ [][VerbsNext]_allVars
=============================================================================

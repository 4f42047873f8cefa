---------------------------- MODULE MCUpdateFlow -----------------------------
(***************************************************************************)
(* Inference, which is stateless, and memory, which is not, and which      *)
(* shares an image with it; three releases.  Nothing tells the runs apart. *)
(***************************************************************************)
EXTENDS UpdateFlow, TLC

CONSTANTS r1, r2

RunSymmetry == Permutations(Runs)

MCOrder == [inference |-> 1, memory |-> 2]
MCTable ==
  <<[inference |-> 1, memory |-> 1], [inference |-> 2, memory |-> 2], [inference |-> 3, memory |-> 3]>>
=============================================================================

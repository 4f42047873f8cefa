---------------------------- MODULE MCRecallIndex -----------------------------
(***************************************************************************)
(* Two chats, two chat models and two embedding models, with two humans.   *)
(* Nothing tells the models apart, so a behaviour may start from the       *)
(* first of each; the second chat is there at the start, or opened later.  *)
(***************************************************************************)
EXTENDS RecallIndex

CONSTANTS m1, m2, e1, e2

StartInit == Init /\ served = m1 /\ config = e1 /\ chats[1].is = "live"
StartSpec == StartInit /\ [][Next]_vars /\ Fairness
=============================================================================

----------------------------- MODULE Residency -----------------------------
(***************************************************************************)
(* The two protocols by which villa proves where a model runs              *)
(* (internal/residency).  Prove drives a generation of its own and samples *)
(* the GPU while it runs; UnderLoad drives rounds of the caller's workload *)
(* and judges while one of them is in flight.  A proof reads; it never     *)
(* starts a service.  Time is a choice: a deadline may pass at any wait.   *)
(***************************************************************************)
EXTENDS MeasuredHost

CONSTANTS Loads      \* doctor's drives: [rounds, warmup, settle, all, faltered]

ASSUME LoadsAssumption ==
  Loads \subseteq [rounds : Nat, warmup : Nat, settle : BOOLEAN, all : BOOLEAN, faltered : BOOLEAN]

VARIABLES p          \* the proof

Idle == [at |-> "idle", cfg |-> Unread, load |-> Unread,
         gen |-> "none", busy |-> Unread, done |-> 0, errs |-> 0,
         over |-> FALSE, sampled |-> FALSE, verdict |-> "none"]

MaxBusy(a, b) == IF Known(b) /\ (~Known(a) \/ b > a) THEN b ELSE a

(* The fold over what is read now, for the target the proof resolved. *)
Fold(log, busy, draft, props) ==
  RunningOffloadVerdict(
    [log |-> log, markers |-> markersOf(p.cfg.backend), draft |-> draft,
     gtt |-> GTTUsed, weight |-> weightBytes(p.cfg), busy |-> busy,
     props |-> props, model |-> p.cfg.model, ctx |-> 0])

Conclude(v) == p' = [p EXCEPT !.at = "done", !.verdict = v]

---------------------------------------------------------------------------
(* Prove. *)

(* The target is resolved from the config before the protocol runs. *)
StartProve ==
  /\ p.at = "idle"
  /\ p' = [p EXCEPT !.at = "poll", !.cfg = cfg]
  /\ fresh' = TRUE /\ touched' = (swap.at # "none")
  /\ UNCHANGED <<cfg, server, past, others, lock, swap, crashes>>

PollHealth ==
  /\ p.at = "poll"
  /\ \/ server.up /\ p' = [p EXCEPT !.at = "sample", !.gen = "running"] /\ fresh' = TRUE
     \/ Conclude("fail") /\ UNCHANGED fresh
  /\ UNCHANGED <<cfg, server, past, others, lock, swap, crashes, touched>>

(* The generation goes on in its own goroutine: it streams tokens from the *)
(* server it began with, or fails.                                         *)
Generate ==
  /\ p.gen = "running" /\ p.at \in {"sample", "select", "done"}
  /\ \/ server.up /\ fresh /\ p' = [p EXCEPT !.gen = "ok"]
     \/ p' = [p EXCEPT !.gen = "bad"]
  /\ UNCHANGED hostVars

Sample ==
  /\ p.at = "sample"
  /\ \E b \in GPUBusyPercent(p.gen = "running") :
       p' = [p EXCEPT !.at = "select", !.busy = MaxBusy(@, b)]
  /\ UNCHANGED hostVars

Tick ==
  /\ p.at = "select" /\ p.gen = "running"
  /\ p' = [p EXCEPT !.at = "sample"]
  /\ UNCHANGED hostVars

ReceiveAnyway ==          \* mutant: a generation that failed is judged all the same
  /\ p.at = "select" /\ p.gen \in {"ok", "bad"}
  /\ \E b \in GPUBusyPercent(FALSE) : p' = [p EXCEPT !.at = "fold", !.busy = MaxBusy(@, b)]
  /\ UNCHANGED hostVars

Receive ==
  /\ p.at = "select" /\ p.gen \in {"ok", "bad"}
  /\ \E b \in GPUBusyPercent(FALSE) :
       IF p.gen = "bad" THEN Conclude("fail")
       ELSE p' = [p EXCEPT !.at = "fold", !.busy = MaxBusy(@, b)]
  /\ UNCHANGED hostVars

Deadline ==
  /\ p.at = "select"
  /\ Conclude("fail")
  /\ UNCHANGED hostVars

Judge ==
  /\ p.at = "fold"
  /\ \E log \in ResidencyJournal : Conclude(Fold(log, p.busy, p.cfg.draft, Unread))
  /\ UNCHANGED hostVars

---------------------------------------------------------------------------
(* ProveUnderLoad and UnderLoad. *)

(* The services must be active, then the target is resolved; either can    *)
(* only make the proof unevaluable.  The drive's target has no draft.      *)
StartUnderLoad ==
  /\ p.at = "idle"
  /\ \E l \in Loads :
       \/ server.up /\ p' = [p EXCEPT !.at = "loop", !.cfg = cfg, !.load = l]
       \/ p' = [p EXCEPT !.at = "done", !.verdict = "unevaluable"]
  /\ fresh' = TRUE /\ touched' = (swap.at # "none")
  /\ UNCHANGED <<cfg, server, past, others, lock, swap, crashes>>

NextRound ==
  /\ p.at = "loop"
  /\ IF p.done = p.load.rounds \/ p.over \/ (p.sampled /\ ~p.load.all)
     THEN p' = [p EXCEPT !.at = "judge"]
     ELSE p' = [p EXCEPT !.gen = "running",
                         !.at = IF p.sampled \/ p.done < p.load.warmup THEN "join"
                                ELSE IF p.load.settle THEN "settle" ELSE "sampleload"]
  /\ UNCHANGED hostVars

RoundEnds ==
  /\ p.gen = "running" /\ p.at \in {"settle", "sampleload", "join"}
  /\ \E e \in {"ok", "bad"} : p' = [p EXCEPT !.gen = e]
  /\ UNCHANGED hostVars

Budget ==
  /\ ~p.over /\ p.at \in {"loop", "settle", "join", "sampleload"}
  /\ p' = [p EXCEPT !.over = TRUE]
  /\ UNCHANGED hostVars

(* The round ended first, the budget ran out, or the timer fired: of those *)
(* that are ready Go takes any.                                            *)
Settle ==
  /\ p.at = "settle"
  /\ \/ (p.gen # "running" \/ p.over) /\ p' = [p EXCEPT !.at = "join"]
     \/ p' = [p EXCEPT !.at = "sampleload"]
  /\ UNCHANGED hostVars

Props == {Unread} \cup (IF server.up THEN {[model |-> server.model, ctx |-> 0]} ELSE {})

SampleFold ==
  /\ p.at = "sampleload"
  /\ \E log \in ResidencyJournal, props \in Props :
       p' = [p EXCEPT !.at = "join", !.sampled = TRUE, !.verdict = Fold(log, Unread, FALSE, props)]
  /\ UNCHANGED hostVars

Join ==
  /\ p.at = "join" /\ p.gen # "running"
  /\ p' = [p EXCEPT !.at = "loop", !.gen = "none", !.done = @ + 1,
                    !.errs = @ + (IF p.gen = "bad" THEN 1 ELSE 0)]
  /\ UNCHANGED hostVars

DriveFaltered == p.errs > 0 /\ p.verdict = "pass"

JudgeLoad ==
  /\ p.at = "judge"
  /\ Conclude(IF ~p.sampled \/ (p.load.faltered /\ DriveFaltered)
              THEN "unevaluable" ELSE p.verdict)
  /\ UNCHANGED hostVars

ProveStep == PollHealth \/ Generate \/ Sample \/ Tick \/ Receive \/ Deadline \/ Judge
LoadStep == NextRound \/ RoundEnds \/ Budget \/ Settle \/ SampleFold \/ Join \/ JudgeLoad
============================================================================

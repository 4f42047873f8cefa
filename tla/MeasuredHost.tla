---------------------------- MODULE MeasuredHost ----------------------------
(***************************************************************************)
(* What a measurement reads and what can change under it: the config, the  *)
(* inference server with the placement its last start got, its journal and *)
(* the host's memory counter, and the processes that restart it.  A swap   *)
(* of another process is the transaction SwapTransaction models, here with *)
(* the three moments a reader can tell apart: the config is saved, the     *)
(* server is restarted, the change is kept or taken back.                  *)
(***************************************************************************)
EXTENDS Offload

CONSTANTS
  Backends,      \* the backends a config may name
  Models,        \* the models it may name
  TokenOf,       \* the device token of each backend; two builds may share one
  FaultScanned,  \* backends whose markers carry a fault string
  Rejecting,     \* backends for which a software renderer can be enumerated
  Weight,        \* what a model weighs; every model weighs the same
  DraftWeight,   \* what a draft weighs
  MaxSwaps,      \* bound: swaps by another process
  MaxCrashes     \* bound: restarts by systemd after a crash

ASSUME HostAssumption ==
  /\ Weight \in Nat \ {0, 1} /\ DraftWeight \in 1..(Weight - 1)
  /\ MaxSwaps \in Nat /\ MaxCrashes \in Nat
  /\ FaultScanned \subseteq Backends /\ Rejecting \subseteq Backends
  /\ \A x \in Backends : TokenOf[x] # Host

VARIABLES
  cfg,        \* config.toml: backend, model, whether a draft is configured
  server,     \* the running server: what it was started with, where it loaded
  past,       \* the loads its previous invocation logged
  others,     \* GTT that others on this host hold
  lock,       \* the stack lock: "free" or "other"
  swap,       \* the other process's swap
  crashes,    \* crashes so far
  fresh,      \* history: the server was not restarted since the measurement began
  touched     \* history: another process's swap was under way since it began

hostVars == <<cfg, server, past, others, lock, swap, crashes, fresh, touched>>

Placements == {"gpu", "part", "cpu"}
Resident == server.target = "gpu"

markersOf(b) == [token |-> TokenOf[b], faults |-> b \in FaultScanned,
                 rejects |-> b \in Rejecting]

(* The buffer lines of one load: a first estimate of zero for the device,  *)
(* then what was placed on it and what stayed on the host.                 *)
LinesOf(s, place) ==
  {Line(TokenOf[s.backend], FALSE), Line(Host, TRUE)}
    \cup (IF place = "cpu" THEN {} ELSE {Line(TokenOf[s.backend], TRUE)})

LoadsOf(s) == IF s.draft = "none" THEN <<LinesOf(s, s.target)>>
              ELSE <<LinesOf(s, s.target), LinesOf(s, s.draft)>>

LogOf(s) == [fault |-> FALSE, software |-> FALSE, blocks |-> LoadsOf(s)]

OnGpu(place, w) == CASE place = "gpu" -> w [] place = "part" -> w \div 2 [] OTHER -> 0
GTTUsed == others + OnGpu(server.target, Weight) + OnGpu(server.draft, DraftWeight)
weightBytes(c) == Weight + (IF c.draft THEN DraftWeight ELSE 0)

(* ResidencyJournal: this invocation's log; the whole unit's, oldest first, *)
(* when the invocation could not be named; or nothing.                      *)
ResidencyJournal ==
  IF ~server.up THEN {Unread}
  ELSE {Unread, LogOf(server), [LogOf(server) EXCEPT !.blocks = past \o @]}

GPUBusyPercent(working) ==
  {Unread, 0} \cup (IF others > 0 \/ (working /\ (server.target # "cpu" \/ server.draft = "gpu"))
                    THEN {1} ELSE {})

(* Evidence that is not the target's own: the counter is covered by what    *)
(* others hold, and a line of the device was printed by the part that is on *)
(* it, by the draft, or by an earlier invocation.                           *)
Vouched ==
  /\ others > 0
  /\ \/ server.target = "part" \/ server.draft = "gpu"
     \/ \E i \in DOMAIN past : \E l \in past[i] : l.device # Host /\ l.some

---------------------------------------------------------------------------
(* A start of the server under config c: it may load anywhere, or not come up. *)
Starts(c) ==
  [backend : {c.backend}, model : {c.model}, target : Placements,
   draft : IF c.draft THEN {"gpu", "cpu"} ELSE {"none"}, up : BOOLEAN]

StartAs(s) ==
  /\ server' = s
  /\ past' = LoadsOf(server)
  /\ fresh' = FALSE

(* What a cutover proof can have passed: the shared residency fold. *)
ProvenAs(s, c) ==
  /\ s.up
  /\ RunningOffloadVerdict(
       [log |-> LogOf(s), markers |-> markersOf(c.backend), draft |-> c.draft,
        gtt |-> others + OnGpu(s.target, Weight) + OnGpu(s.draft, DraftWeight),
        weight |-> weightBytes(c), busy |-> Unread, props |-> Unread,
        model |-> c.model, ctx |-> 0]) = "pass"

HostInit ==
  /\ cfg \in [backend : Backends, model : Models, draft : BOOLEAN]
  /\ server \in {s \in Starts(cfg) : s.up}
  /\ past = <<>>
  /\ others \in {0, Weight + DraftWeight}
  /\ lock = "free"
  /\ swap \in [at : {"none"}, prior : {Unread}, made : 0..MaxSwaps]
  /\ crashes \in 0..MaxCrashes /\ fresh = TRUE /\ touched = FALSE

(* The server dies and systemd starts it again. *)
Crash ==
  /\ crashes < MaxCrashes /\ server.up
  /\ crashes' = crashes + 1
  /\ \E s \in Starts([backend |-> server.backend, model |-> server.model, draft |-> cfg.draft]) : StartAs(s)
  /\ UNCHANGED <<cfg, others, lock, swap, touched>>

(* `backend set` or `model swap`: each changes one of the two. *)
SwapSave ==
  /\ lock = "free" /\ swap.made < MaxSwaps
  /\ \E c \in [backend : Backends, model : Models, draft : {cfg.draft}] :
       /\ (c.backend = cfg.backend) # (c.model = cfg.model)
       /\ cfg' = c
  /\ lock' = "other"
  /\ swap' = [at |-> "saved", prior |-> cfg, made |-> swap.made + 1]
  /\ touched' = TRUE
  /\ UNCHANGED <<server, past, others, crashes, fresh>>

SwapRestart ==
  /\ swap.at = "saved"
  /\ \E s \in Starts(cfg) : StartAs(s)
  /\ swap' = [swap EXCEPT !.at = "started"]
  /\ UNCHANGED <<cfg, others, lock, crashes, touched>>

SwapKeep ==
  /\ swap.at = "started" /\ ProvenAs(server, cfg)
  /\ swap' = [swap EXCEPT !.at = "none", !.prior = Unread] /\ lock' = "free"
  /\ UNCHANGED <<cfg, server, past, others, crashes, fresh, touched>>

SwapBack ==
  /\ swap.at = "started"
  /\ cfg' = swap.prior
  /\ \E s \in Starts(swap.prior) : StartAs(s)
  /\ swap' = [swap EXCEPT !.at = "none", !.prior = Unread] /\ lock' = "free"
  /\ UNCHANGED <<others, crashes, touched>>

(* Another model, an image or a voice server comes or goes. *)
OthersChange ==
  /\ others' \in {0, Weight + DraftWeight} \ {others}
  /\ UNCHANGED <<cfg, server, past, lock, swap, crashes, fresh, touched>>

OtherFinishes == SwapRestart \/ SwapKeep \/ SwapBack
HostNext == Crash \/ SwapSave \/ OtherFinishes \/ OthersChange
============================================================================

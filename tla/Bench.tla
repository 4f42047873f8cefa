------------------------------- MODULE Bench -------------------------------
(***************************************************************************)
(* `villa bench` (internal/bench, internal/benchstore, cmd/villa/bench.go): *)
(* warmup runs, measured runs that count only when the server is proven on *)
(* the GPU, for --ab the same on a second backend with the first put back, *)
(* and the report that is saved and later compared.                        *)
(*                                                                         *)
(* The verb holds the stack lock only inside each of its two swaps.  A run *)
(* is three moments: the config is read and the completion sent, the       *)
(* completion ends, the residency signals are read.  Rates are left out: a *)
(* kept run is the backend and model that served it; the runs that do not  *)
(* count are the tries that were not kept.                                 *)
(***************************************************************************)
EXTENDS MeasuredHost, FiniteSets

CONSTANTS
  Reps, Warmup,   \* the spec of a side
  NoBackend,      \* no --ab-target
  Vulkan, Rocm,   \* the two builds the default flip knows
  Hosts,          \* what the probe may name this host; "" is unknown
  SchemaVersion   \* of the records this villa writes

ASSUME BenchAssumption ==
  /\ Reps \in Nat \ {0} /\ Warmup \in Nat /\ SchemaVersion \in Nat \ {0}
  /\ {Vulkan, Rocm} \subseteq Backends /\ NoBackend \notin Backends

VARIABLES b, store

benchMinResident == IF Reps <= 1 THEN 1 ELSE (Reps + 1) \div 2
attemptBudget == 2 * Reps

(* The two-valued default of the flip. *)
other(orig) == IF orig = Vulkan THEN Rocm ELSE Vulkan

NoSide == [kept |-> 0, by |-> {}]
BenchIdle == [at |-> "idle", ab |-> FALSE, target |-> NoBackend, orig |-> NoBackend,
              side |-> "A", warm |-> 0, tries |-> 0, run |-> Unread, served |-> Unread,
              a |-> NoSide, b |-> NoSide, err |-> FALSE, cancelled |-> FALSE,
              warned |-> FALSE, exit |-> "none"]

benchVars == <<b, store>>

Now == IF b.side = "A" THEN b.a ELSE b.b
SetSide(s) == IF b.side = "A" THEN [b EXCEPT !.a = s] ELSE [b EXCEPT !.b = s]
Enough(s) == s.kept >= benchMinResident

---------------------------------------------------------------------------
(* The invocation. *)

(* --ab-target must be another build than the configured backend's. *)
Invoke ==
  /\ b.at = "idle"
  /\ \E ab \in BOOLEAN, t \in Backends \cup {NoBackend} :
       /\ ab \/ t = NoBackend
       /\ t # cfg.backend
       /\ b' = [b EXCEPT !.at = "check", !.ab = ab, !.target = t]
  /\ fresh' = TRUE /\ touched' = (swap.at # "none")
  /\ UNCHANGED <<cfg, server, past, others, lock, swap, crashes, store>>

Ctrl_C ==
  /\ b.at \notin {"idle", "done"} /\ ~b.cancelled
  /\ b' = [b EXCEPT !.cancelled = TRUE]
  /\ UNCHANGED <<hostVars, store>>

(* SIGKILL, or the second Ctrl-C: no deferred call runs. *)
Kill ==
  /\ b.at \notin {"idle", "done"}
  /\ b' = [BenchIdle EXCEPT !.at = "done", !.exit = "killed"]
  /\ UNCHANGED <<hostVars, store>>

(* No endpoint, no bench. *)
benchEndpointReachable ==
  /\ b.at = "check"
  /\ \/ server.up /\ b' = [b EXCEPT !.at = "load"]
     \/ b' = [b EXCEPT !.at = "done", !.exit = "blocked"]
  /\ UNCHANGED <<hostVars, store>>

(* The backend to put back, and the flip's, both from the config as it is now. *)
LoadOriginal ==
  /\ b.at = "load"
  /\ b' = [b EXCEPT !.at = "side",
                    !.orig = IF b.ab THEN cfg.backend ELSE NoBackend,
                    !.target = IF b.ab /\ @ = NoBackend THEN other(cfg.backend) ELSE @]
  /\ UNCHANGED <<hostVars, store>>

---------------------------------------------------------------------------
(* benchN: one side. *)

Discard ==
  /\ b.at = "side" /\ b.warm < Warmup /\ ~b.cancelled
  /\ b' = [b EXCEPT !.warm = @ + 1]
  /\ UNCHANGED <<hostVars, store>>

(* liveMeasure: the markers are those of the backend configured now. *)
MeasureBegins ==
  /\ b.at = "side" /\ b.warm = Warmup /\ ~b.cancelled
  /\ Now.kept < Reps /\ b.tries < attemptBudget
  /\ b' = [b EXCEPT !.at = "run", !.tries = @ + 1, !.run = cfg,
                      !.served = [backend |-> server.backend, model |-> server.model]]
  /\ fresh' = TRUE
  /\ UNCHANGED <<cfg, server, past, others, lock, swap, crashes, touched, store>>

Over(s) == [SetSide(s) EXCEPT !.at = "side", !.run = Unread, !.served = Unread]
Void == Over(Now)

(* The completion ends: with timings from the server it was sent to, or     *)
(* not, after the timeout, a cancel or a dead server.                       *)
Completes ==
  /\ b.at = "run"
  /\ \/ server.up /\ fresh /\ ~b.cancelled /\ b' = [b EXCEPT !.at = "proof"]
     \/ b' = Void
  /\ UNCHANGED <<hostVars, store>>

(* The residency of whatever runs now decides whether the run counts. *)
MeasureProof ==
  /\ b.at = "proof"
  /\ \E log \in ResidencyJournal, busy \in GPUBusyPercent(TRUE) :
       b' = IF RunningOffloadVerdict(
                 [log |-> log, markers |-> markersOf(b.run.backend), draft |-> b.run.draft,
                  gtt |-> GTTUsed, weight |-> weightBytes(b.run), busy |-> busy,
                  props |-> Unread, model |-> b.run.model, ctx |-> 0]) = "pass"
            THEN Over([Now EXCEPT !.kept = @ + 1, !.by = IF touched THEN @ ELSE @ \cup {b.served}])
            ELSE Void
  /\ UNCHANGED <<hostVars, store>>

SideEndsAtOnce ==          \* mutant: a cancelled bench goes straight to its report
  /\ b.at = "side"
  /\ b.cancelled \/ (b.warm = Warmup /\ (Now.kept = Reps \/ b.tries = attemptBudget))
  /\ b' = IF ~b.ab \/ b.cancelled THEN [b EXCEPT !.at = "report"]
          ELSE IF b.side = "A" THEN [b EXCEPT !.at = "flip"] ELSE [b EXCEPT !.at = "restore"]
  /\ UNCHANGED <<hostVars, store>>

SideEnds ==
  /\ b.at = "side"
  /\ b.cancelled \/ (b.warm = Warmup /\ (Now.kept = Reps \/ b.tries = attemptBudget))
  /\ b' = IF ~b.ab THEN [b EXCEPT !.at = "report"]
          ELSE IF b.side = "A" THEN [b EXCEPT !.at = "flip"] ELSE [b EXCEPT !.at = "restore"]
  /\ UNCHANGED <<hostVars, store>>

---------------------------------------------------------------------------
(* runBackendSwap: `backend set` under the lock.  It waits for the lock and *)
(* does not look at the cancel.  ok and failed are what follows each.       *)
runBackendSwap(to, ok, failed) ==
  /\ lock = "free"
  /\ LET new == [cfg EXCEPT !.backend = to]
     IN \/ (* already there *)
           /\ cfg.backend = to /\ b' = ok
           /\ UNCHANGED <<cfg, server, past, fresh>>
        \/ (* refused, or failed before the host was changed *)
           /\ cfg.backend # to /\ b' = failed
           /\ UNCHANGED <<cfg, server, past, fresh>>
        \/ (* switched, and proven *)
           /\ cfg.backend # to /\ b' = ok /\ cfg' = new
           /\ \E s \in Starts(new) : ProvenAs(s, new) /\ StartAs(s)
        \/ (* not proven: the prior config is applied again, or cannot be; *)
           (* what comes up is not proven                                  *)
           /\ cfg.backend # to /\ b' = failed
           /\ cfg' \in {cfg, new}
           /\ \E s \in Starts(cfg') : StartAs(s)
  /\ UNCHANGED <<others, lock, swap, crashes, touched>>

Switch ==
  /\ b.at = "flip"
  /\ runBackendSwap(b.target,
       [b EXCEPT !.at = "side", !.side = "B", !.warm = 0, !.tries = 0],
       [b EXCEPT !.at = "restore", !.err = TRUE])
  /\ UNCHANGED store

(* Deferred, so it comes after every way out; its failure is a warning. *)
Restore ==
  /\ b.at = "restore"
  /\ runBackendSwap(b.orig, [b EXCEPT !.at = "report"],
                    [b EXCEPT !.at = "report", !.warned = TRUE])
  /\ UNCHANGED store

---------------------------------------------------------------------------
(* The report. *)

VoidExhausted == ~Enough(b.a) \/ (b.ab /\ ~Enough(b.b))

captureBenchFingerprint(c, backend, host) ==
  [model |-> c.model, backend |-> backend, host |-> host, speculation |-> c.draft]

savedReportFromResult(fp) ==
  [mode |-> IF b.ab THEN "ab" ELSE "single", fp |-> fp,
   labels |-> IF b.ab THEN <<b.orig, b.target>> ELSE <<fp.backend>>,
   sides |-> IF b.ab THEN <<b.a, b.b>> ELSE <<b.a>>,
   void |-> VoidExhausted, version |-> SchemaVersion, alone |-> ~touched]

(* A run that failed is not saved.  Otherwise the label and the fingerprint *)
(* are of the config as it is now; a config that cannot be read, or a write *)
(* that fails, costs the record and not the result.                         *)
Report ==
  /\ b.at = "report"
  /\ b' = [BenchIdle EXCEPT !.at = "done", !.orig = b.orig, !.warned = b.warned,
             !.exit = IF b.err THEN "blocked" ELSE IF VoidExhausted THEN "warn" ELSE "pass"]
  /\ \/ ~b.err
        /\ \E h \in Hosts :
             LET fp == captureBenchFingerprint(cfg, IF b.ab THEN b.orig ELSE cfg.backend, h)
             IN store' = Append(store, savedReportFromResult(fp))
     \/ UNCHANGED store
  /\ UNCHANGED hostVars

---------------------------------------------------------------------------
(* Reading the reports back. *)

(* The records this villa can read, by their places in the store. *)
Load == {i \in DOMAIN store : store[i].version \in 1..SchemaVersion}

Newest(S) == CHOOSE i \in S : \A j \in S : j <= i

Comparable(x, y) ==
  /\ x.model = y.model /\ x.speculation = y.speculation
  /\ x.host = y.host /\ x.host # ""

(* The newest record that has a comparable older one, with the newest such; *)
(* failing that the last two, which Compare then refuses.                   *)
Olders(i) == {j \in Load : j < i /\ Comparable(store[i].fp, store[j].fp)}
selectComparePair ==
  LET paired == {i \in Load : Olders(i) # {}}
      i == Newest(IF paired = {} THEN Load ELSE paired)
      j == Newest(IF paired = {} THEN Load \ {i} ELSE Olders(i))
  IN <<store[j], store[i]>>

BenchStep == benchEndpointReachable \/ LoadOriginal \/ Discard \/ MeasureBegins
               \/ Completes \/ MeasureProof \/ SideEnds \/ Switch \/ Restore \/ Report
============================================================================

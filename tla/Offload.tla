------------------------------ MODULE Offload ------------------------------
(***************************************************************************)
(* Whether a model runs on the GPU, as villa decides it                    *)
(* (internal/inference).  Signals are read from the server's log and from  *)
(* sysfs, each judged pass, warn (could not be evaluated) or fail, and     *)
(* folded.  Nothing here reads the host: the operators take what was read. *)
(*                                                                         *)
(* A log is its model loads in order, each the set of buffer lines it      *)
(* printed.  A line names a device, or Host for the CPU's buffers, and     *)
(* `some` says whether its size is above zero.  A counter of sysfs is a    *)
(* number, or Unread.                                                      *)
(***************************************************************************)
EXTENDS Naturals, Sequences

CONSTANTS
  Host,          \* the device of a CPU or host buffer line
  NoToken,       \* markers without a device token
  Unread         \* a signal that could not be read

Known(x) == x # Unread

Line(d, s) == [device |-> d, some |-> s]

(* FAIL dominates, then WARN; a pass needs both. *)
combineOffload(a, b) ==
  IF "fail" \in {a, b} THEN "fail"
  ELSE IF "warn" \in {a, b} THEN "warn" ELSE "pass"

---------------------------------------------------------------------------
(* The log.  m is the backend's markers: its token, whether it has a fault *)
(* string to look for, whether a software renderer can stand in for it.    *)

AllLines(log) == UNION {log.blocks[i] : i \in DOMAIN log.blocks}

OnDevice(lines, m) == \E l \in lines : l.device = m.token /\ l.some

(* The rule over one set of buffer lines: the largest size of the device   *)
(* counts, so a first estimate of zero does no harm; any other line alone  *)
(* is a load on the CPU.                                                   *)
bufferRule(lines, m) ==
  IF OnDevice(lines, m) THEN "pass"
  ELSE IF lines # {} THEN "fail" ELSE "warn"

scrapeBufferResidency(log, m) ==
  IF log = Unread \/ m.token = NoToken THEN "warn"
  ELSE IF m.faults /\ log.fault THEN "fail"
  ELSE bufferRule(AllLines(log), m)

(* The draft is the second load.  A device line of size zero and no other  *)
(* says nothing of it.                                                     *)
judgeDraftBlock(log, m) ==
  IF log = Unread \/ m.token = NoToken THEN "warn"
  ELSE IF Len(log.blocks) < 2 THEN "warn"
  ELSE IF OnDevice(log.blocks[2], m) THEN "pass"
  ELSE IF \E l \in log.blocks[2] : l.device # m.token THEN "fail" ELSE "warn"

foldDraft(target, draft) ==
  IF draft = "fail" THEN "fail"
  ELSE IF draft = "warn" /\ target = "pass" THEN "warn" ELSE target

scrapeLoadTensorsResidency(log, m, draftExpected) ==
  LET target == scrapeBufferResidency(log, m)
  IN IF draftExpected THEN foldDraft(target, judgeDraftBlock(log, m)) ELSE target

(* A software renderer in the device list. *)
softwareRenderer(log, m) == m.rejects /\ log # Unread /\ log.software

(* The log of a start: a device that was enumerated, and the count of      *)
(* layers when this build prints one.                                      *)
scrapeOffloadLogTarget(log, m) ==
  IF log = Unread THEN "warn"
  ELSE IF softwareRenderer(log, m) THEN "fail"
  ELSE IF log.layers # Unread /\ (log.layers.on = 0 \/ log.layers.on < log.layers.of) THEN "fail"
  ELSE IF m.token # NoToken /\ m.token \in log.devices THEN "pass" ELSE "warn"

scrapeOffloadLog(log, m, draftExpected) ==
  LET target == scrapeOffloadLogTarget(log, m)
  IN IF draftExpected THEN foldDraft(target, judgeDraftBlock(log, m)) ELSE target

scrapeProjectorLog(log, m) ==
  IF log # Unread /\ m.token # NoToken /\ log.clip = m.token THEN "pass" ELSE "warn"

(* The image server prints one placement line, of what is on the device    *)
(* and what is in RAM.                                                     *)
scrapeImagePlacement(log, m) ==
  IF log = Unread THEN "warn"
  ELSE IF (m.faults /\ log.fault) \/ softwareRenderer(log, m) THEN "fail"
  ELSE IF log.params = Unread THEN "warn"
  ELSE IF log.params.ram > 0 \/ log.params.vram = 0 THEN "fail" ELSE "pass"

---------------------------------------------------------------------------
(* The counters.  mem_info_gtt_used is the whole host's.                   *)

gttFloorHalf(used, weight) ==          \* mutant: half the weight will do
  IF ~Known(used) \/ weight = 0 THEN "warn"
  ELSE IF 2 * used >= weight THEN "pass" ELSE "fail"

gttFloor(used, weight) ==
  IF ~Known(used) \/ weight = 0 THEN "warn"
  ELSE IF used >= weight THEN "pass" ELSE "fail"

(* The growth over a start, against a half and a tenth of the weight. *)
offloadSysfsDelta(before, after, weight) ==
  LET delta == IF after > before THEN after - before ELSE 0
  IN IF ~Known(before) \/ ~Known(after) \/ weight = 0 THEN "warn"
     ELSE IF 2 * delta >= weight THEN "pass"
     ELSE IF 10 * delta < weight THEN "fail" ELSE "warn"

gpuBusyFloor(busy) == IF busy > 0 THEN "pass" ELSE "fail"

(* A busy counter that was not read changes nothing. *)
foldFloors(residency, in) ==
  LET v == combineOffload(residency, gttFloor(in.gtt, in.weight))
  IN IF Known(in.busy) THEN combineOffload(v, gpuBusyFloor(in.busy)) ELSE v

(* The server's own word on what it loaded: a contradiction of the config. *)
propsDrift(props, model, ctx) ==
  /\ Known(props)
  /\ \/ props.model # model
     \/ ctx > 0 /\ props.ctx > 0 /\ props.ctx # ctx

RunningOffloadVerdict(in) ==
  LET v == foldFloors(scrapeLoadTensorsResidency(in.log, in.markers, in.draft), in)
  IN IF v = "pass" /\ propsDrift(in.props, in.model, in.ctx) THEN "warn" ELSE v

WhisperOffloadVerdict(in) ==
  foldFloors(IF softwareRenderer(in.log, in.markers) THEN "fail"
             ELSE scrapeBufferResidency(in.log, in.markers), in)

(* The figure the server prints must be within a twentieth of the table's. *)
Witnessed(log, weight) ==
  LET vram == log.params.vram
  IN 20 * (IF vram > weight THEN vram - weight ELSE weight - vram) <= weight

ImageOffloadVerdict(in) ==
  LET v == foldFloors(scrapeImagePlacement(in.log, in.markers), in)
  IN IF v = "pass" /\ ~Witnessed(in.log, in.weight) THEN "warn" ELSE v

---------------------------------------------------------------------------
(* `inference validate` starts a server of its own, so it reads the counter *)
(* before and after; a run that never gets ready was not judged.           *)

foldVerdict(offload, chat, cliff) ==
  IF offload # "pass" THEN offload
  ELSE IF ~chat \/ cliff THEN "warn" ELSE "pass"

foldProjector(v, projector) ==
  IF v = "pass" /\ projector = "warn" THEN "warn" ELSE v

Validate(in) ==
  IF ~in.started THEN "fail"
  ELSE IF ~in.ready THEN "warn"
  ELSE LET log == scrapeOffloadLog(in.log, in.markers, in.draft)
           delta == offloadSysfsDelta(in.before, in.after, in.weight)
           v == foldVerdict(combineOffload(log, delta), in.chat, in.cliff)
       IN IF in.vision THEN foldProjector(v, scrapeProjectorLog(in.log, in.markers)) ELSE v
============================================================================

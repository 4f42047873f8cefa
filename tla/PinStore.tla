------------------------------- MODULE PinStore -------------------------------
(***************************************************************************)
(* internal/pinstate, pinresolve, manifestverify's floor, updatecheck's    *)
(* comparison, prune and snapshotprune: what the record of pins says, and  *)
(* what it allows.                                                          *)
(*                                                                         *)
(* A subsystem has one pin: its components move together.  A pin is an     *)
(* image number; two subsystems with one number share the image, and a     *)
(* higher number is a newer image.  Table[n] is the table of pins of       *)
(* release n, which is also what the manifest with serial n offers.        *)
(***************************************************************************)
EXTENDS Naturals, FiniteSets, FiniteSetsExt

CONSTANTS
  Kinds,        \* the subsystems
  MaxSerial,    \* bound on releases and manifests
  Table,        \* the pins of each release
  Unpinned,     \* no pin is recorded
  NoTuple       \* no previous is retained, or no snapshot was taken

Image == {Table[n][k] : n \in 1 .. MaxSerial, k \in Kinds}

ASSUME PinAssumption ==
  /\ IsFiniteSet(Kinds)
  /\ MaxSerial \in Nat \ {0}
  /\ Table \in [1 .. MaxSerial -> [Kinds -> Nat \ {0}]]
  /\ \A n, m \in 1 .. MaxSerial, k \in Kinds : n <= m => Table[n][k] <= Table[m][k]
  /\ Unpinned \notin Nat

\* pin-state.json: the effective pin of each subsystem, its one retained previous
\* (a pin, and the snapshot of the data it was proven against), and the highest
\* serial accepted.
Fresh == [pins |-> [k \in Kinds |-> Unpinned], prev |-> [k \in Kinds |-> NoTuple], serial |-> 0]

\* Effective if recorded, vetted otherwise.
Resolve(st, villa, k) == IF st.pins[k] = Unpinned THEN Table[villa][k] ELSE st.pins[k]

\* The higher of the recorded serial and the one this binary was built with.
SerialFloor(st, villa) == Max({st.serial, villa})

Accept(st, serial) == [st EXCEPT !.serial = Max({@, serial})]
Record(st, k, image) == [st EXCEPT !.pins[k] = image]
Retain(st, k, tuple) == [st EXCEPT !.prev[k] = tuple]

\* What a report says can be updated: whatever differs from the offer.
Offered(st, villa, serial) == {k \in Kinds : Table[serial][k] # Resolve(st, villa, k)}

\* prune: the images that a pin or a retained previous names, ...
Referenced(st) ==
  ({st.pins[k] : k \in Kinds} \ {Unpinned}) \cup {st.prev[k].ref : k \in {j \in Kinds : st.prev[j] # NoTuple}}
\* ... and snapshotprune: the snapshots that a retained previous names.
LiveTargets(st) == {st.prev[k].snap : k \in {j \in Kinds : st.prev[j] # NoTuple}} \ {NoTuple}
=============================================================================

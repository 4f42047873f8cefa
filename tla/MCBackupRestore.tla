--------------------------- MODULE MCBackupRestore ---------------------------
(***************************************************************************)
(* Inference, Open WebUI and Qdrant; a config with memory and the agent    *)
(* on, and one with both off and another model; an archive of each, with   *)
(* another inference key and with none, a blocked and a corrupt one.       *)
(***************************************************************************)
EXTENDS BackupRestore

CONSTANTS c1, c2, k1, k2, b1, r1

MCUnits   == {"llama", "openwebui", "qdrant"}
MCTexts   == {"L1", "L2", "O1", "O2", "Q"}
MCConfigs == {c1, c2}
MCRendered ==
  [c \in MCConfigs |->
     IF c = c1 THEN [llama |-> "L1", openwebui |-> "O1", qdrant |-> "Q"]
               ELSE [llama |-> "L2", openwebui |-> "O2", qdrant |-> None]]

MCRows == {"usage", "crush"}
MCGate == [row \in MCRows |-> IF row = "crush" THEN {c1} ELSE MCConfigs]

Archived == [of |-> "archive", n |-> 0]
WithMemory(key, trust) ==
  [cfg |-> [id |-> c1, key |-> key], vols |-> [v \in Volumes |-> Archived],
   files |-> [row \in MCRows |-> "theirs"], trust |-> trust]
Without(key, trust) ==
  [cfg |-> [id |-> c2, key |-> key], vols |-> [v \in Volumes |-> IF v = Chat THEN Archived ELSE Absent],
   files |-> [row \in MCRows |-> IF row = "usage" THEN "theirs" ELSE None], trust |-> trust]
MCArchives ==
  {WithMemory(k2, "matching"), Without(NoKey, "skewed"), Without(k1, "blocked"), WithMemory(k1, "corrupt")}

\* The hosts the runs start from: both volumes' services up or both down, both files
\* there or neither, and there when there is a memory volume; inference is up on a
\* host with no key, and a host whose config was edited since has a key and inference
\* and the chat up.
SmallInit ==
  /\ Init
  /\ cfg.key # k2 /\ (cfg.key = NoKey => run["llama"] # Down)
  /\ run["openwebui"] = Down <=> run["qdrant"] = Down
  /\ disk # Rendered[cfg.id] => cfg.key # NoKey /\ \A s \in {"llama", "openwebui"} : run[s] # Down
  /\ file["usage"] = file["crush"] /\ (file["usage"] = None <=> vol["qdrant"] = Absent)
SmallSpec == SmallInit /\ [][Next]_vars
=============================================================================

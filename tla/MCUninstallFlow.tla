-------------------------- MODULE MCUninstallFlow --------------------------
(* A fresh host, a current one, one of the previous release and one whose   *)
(* config has a feature turned off since.                                   *)
EXTENDS Verdicts, TLC

CONSTANTS oldKey

MCRecs == {[model |-> "a", backend |-> "vulkan", coder |-> "swap"],
           [model |-> "", backend |-> "", coder |-> "none"]}

Installed(c, down, old) ==
  LET on   == Renders(c) \cup {"dashboard"} \cup (IF "image" \in c.on THEN {} ELSE {"image"} \cap old)
      T(u) == [Text(u, c) EXCEPT !.rel = IF u \in old THEN "old" ELSE "new"]
      files == [u \in Units |-> IF u \in on THEN T(u) ELSE NoText]
  IN [cfg |-> c, disk |-> files, loaded |-> files, boot |-> {"dashboard"},
      run |-> [s \in Services |-> IF s \in on \ down THEN [text |-> files[s], key |-> c.key] ELSE Down],
      env |-> [key |-> c.key, files |-> c.minted],
      vols |-> {"openwebui", "qdrant"}, store |-> {"model"}, gaps |-> {}]

Nothing == [u \in Units |-> NoText]
FreshHost(g) ==
  [cfg |-> Absent, disk |-> Nothing, loaded |-> Nothing, run |-> [s \in Services |-> Down], boot |-> {},
   env |-> [key |-> NoKey, files |-> {}], vols |-> {}, store |-> {}, gaps |-> g]

Base == [on |-> {}, model |-> "a", backend |-> "rocm", key |-> oldKey, minted |-> {}]
MCHosts == {FreshHost({"selinux", "linger"}),
            Installed([Base EXCEPT !.on = {"image"}], {}, {"llama", "image", "dashboard"}),
            [Installed([Base EXCEPT !.on = {"memory"}, !.model = "b"], {"openwebui", "qdrant"}, {"image"}) EXCEPT !.gaps = {"floor"}]}

Plain == [ask |-> {}, dry |-> FALSE, force |-> FALSE, tty |-> FALSE, wizard |-> FALSE]
MCRequests == {[Plain EXCEPT !.dry = TRUE, !.tty = TRUE], [Plain EXCEPT !.tty = TRUE, !.wizard = TRUE],
               [Plain EXCEPT !.ask = {"websearch"}, !.force = TRUE, !.tty = TRUE], [Plain EXCEPT !.ask = {"agent"}]}
MCTeardowns == {[flag |-> "remove", tty |-> TRUE], [flag |-> "", tty |-> TRUE]}

=============================================================================

---------------------------- MODULE MCServedModel ----------------------------
(***************************************************************************)
(* A catalog of five: a large model with a projector and a draft, a medium *)
(* one with n-gram speculation and a sliding window, a medium one with a   *)
(* projector, the bootstrap model, whose unit name is that of the second,  *)
(* and a coder.  A word of bytes has 9 bits.                               *)
(***************************************************************************)
EXTENDS ServedModel

Entry == [weight |-> 20, perTok |-> 1, ctx |-> 8, agentCtx |-> 8, floor |-> 0, projector |-> 0, draft |-> None,
          swa |-> None, coder |-> FALSE, bootstrap |-> FALSE, safe |-> TRUE, ngram |-> FALSE, backend |-> "rocm"]
MCCatalog ==
  <<[Entry EXCEPT !.weight = 34, !.agentCtx = 16, !.projector = 5, !.draft = [weight |-> 3, perTok |-> 1], !.floor = 60],
    [Entry EXCEPT !.weight = 24, !.ngram = TRUE, !.swa = [window |-> 1, perTok |-> 1]],
    [Entry EXCEPT !.weight = 24, !.ctx = 4, !.agentCtx = 12, !.projector = 4],
    [Entry EXCEPT !.weight = 6, !.perTok = 2, !.ctx = 4, !.agentCtx = 4, !.bootstrap = TRUE, !.backend = "vulkan"],
    [Entry EXCEPT !.weight = 30, !.agentCtx = 20, !.coder = TRUE]>>
MCFootprint == [p \in {"memory", "rerank", "extract", "web", "voice", "image"} |->
  CASE p = "memory" -> 6 [] p = "rerank" -> 3 [] p = "image" -> 90 [] OTHER -> 2]
MCSlug == <<"one", "two", "three", "two", "five">>
MCHosts ==
  {[gtt |-> 120, ram |-> 128, signals |-> {"good"}],
   [gtt |-> 72, ram |-> 128, signals |-> {"good"}],
   [gtt |-> Unknown, ram |-> 110, signals |-> {"good", "bad"}],
   [gtt |-> Unknown, ram |-> Unknown, signals |-> {"unknown"}]}
MCSubsystems == {{}, {"memory", "rerank"}, {"rerank", "image"}}
MCCtxs == {0, 12, 253}
=============================================================================

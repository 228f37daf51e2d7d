--------------------------- MODULE MCLlamaServer ---------------------------
(* Small instances of LlamaServer.                                         *)
EXTENDS LlamaServer

\* On short sequences KeepAt is SelectSeq.
ASSUME KeepAtSelects ==
    \A n \in 0..4 : \A s \in [1..n -> 0..2] : \A drop \in SUBSET (0..2) :
        LET kept(x) == x \notin drop
        IN  KeepAt(s, {i \in DOMAIN s : s[i] \notin drop}) = SelectSeq(s, kept)

\* Two completions of a multi-prompt request, a streaming completion and a
\* METRICS query, on two slots.
MCTasks    == 0..3
MCRequests == {"multi", "stream", "metrics"}
MCReqTasks == [r \in MCRequests |->
    CASE r = "multi" -> <<0, 1>> [] r = "stream" -> <<2>> [] r = "metrics" -> <<3>>]
MCTypeOf   == [t \in MCTasks |-> IF t = 3 THEN "METRICS" ELSE "COMPLETION"]
MCMode     == [r \in MCRequests |->
    CASE r = "multi" -> "multi" [] r = "stream" -> "stream" [] r = "metrics" -> "single"]
MCSlotOf   == [t \in MCTasks |-> -1]
MCNPrompt  == [t \in MCTasks |-> IF t = 0 THEN 3 ELSE 1]
MCNPredict == [t \in MCTasks |-> 2]
MCLora     == [t \in MCTasks |-> "none"]

\* Core: a streaming request of two prompts, whose client may leave, and, with
\* an adapter of its own, which excludes it from their batches, a request of
\* which one prompt is too large.
CoreTasks    == 0..3
CoreRequests == {"stream", "multi"}
CoreReqTasks == [r \in CoreRequests |-> IF r = "stream" THEN <<0, 1>> ELSE <<2, 3>>]
CoreTypeOf   == [t \in CoreTasks |-> "COMPLETION"]
CoreMode     == [r \in CoreRequests |-> r]
CoreSlotOf   == [t \in CoreTasks |-> -1]
CoreNPrompt  == [t \in CoreTasks |-> IF t = 0 THEN 2 ELSE 1]
CoreNPredict == [t \in CoreTasks |-> IF t = 1 THEN 2 ELSE 1]
CoreLora     == [t \in CoreTasks |-> IF t \in {2, 3} THEN "adapter" ELSE "none"]

\* Faults: a rerank request, a streaming request of which one prompt is invalid,
\* actions on a slot that exists and on one that does not, and a query.
FaultTasks    == 0..5
FaultRequests == {"rerank", "stream", "restore", "save", "metrics"}
FaultReqTasks == [r \in FaultRequests |->
    CASE r = "rerank" -> <<0>> [] r = "stream" -> <<1, 2>>
      [] r = "restore" -> <<3>> [] r = "save" -> <<4>> [] r = "metrics" -> <<5>>]
FaultTypeOf   == [t \in FaultTasks |->
    CASE t = 0 -> "RERANK" [] t = 3 -> "SLOT_RESTORE" [] t = 4 -> "SLOT_SAVE"
      [] t = 5 -> "METRICS" [] OTHER -> "COMPLETION"]
FaultMode     == [r \in FaultRequests |->
    CASE r = "rerank" -> "multi" [] r = "stream" -> "stream" [] OTHER -> "single"]
FaultSlotOf   == [t \in FaultTasks |-> CASE t = 3 -> 0 [] t = 4 -> 7 [] OTHER -> -1]
FaultNPrompt  == [t \in FaultTasks |-> IF t = 0 THEN 2 ELSE 1]
FaultNPredict == [t \in FaultTasks |-> 2]
FaultLora     == [t \in FaultTasks |-> IF t \in {1, 2} THEN "adapter" ELSE "none"]

\* The two others are accompanied by one of the last three at most.
MaxSingle == 1
FewSingle == Cardinality({r \in Requests : Mode[r] = "single" /\ http[r] # "new"}) <= MaxSingle
=============================================================================

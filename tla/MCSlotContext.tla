--------------------------- MODULE MCSlotContext ---------------------------
(* Small instances of SlotContext.  A context of six positions, two letters and *)
(* an end-of-generation token; z never occurs in a prompt.                      *)
EXTENDS SlotContext

MCToken == {"a", "b", "z"}
MCEOG == {"z"}
Ask(prompt, n_predict, n_keep, cache) ==
    [prompt |-> prompt, n_predict |-> n_predict, n_keep |-> n_keep, n_discard |-> 0,
     cache_prompt |-> cache, n_max |-> 0, n_min |-> 0, lora |-> 0]

\* Prompts with a common beginning, with a common middle, and longer than the context.
ContextRequests == {
    Ask(<<"a", "b", "b">>, 5, 1, TRUE),
    Ask(<<"b", "b">>, 2, 0, FALSE),
    Ask(<<"a", "b", "a", "b", "b", "a", "b", "b">>, -1, 1, TRUE),
    [Ask(<<"a", "b", "b", "a">>, -1, -1, TRUE) EXCEPT !.n_discard = 1, !.lora = 1]}

\* Short prompts, with drafts of up to two tokens, the second of at least one.
DraftRequests == {
    [Ask(<<"a", "b">>, -1, 1, TRUE) EXCEPT !.n_max = 2],
    [Ask(<<"a", "b", "a">>, 4, 0, TRUE) EXCEPT !.n_max = 2, !.n_min = 1],
    [Ask(<<"a">>, 3, 0, TRUE) EXCEPT !.n_max = 2]}

\* Prompts that fit, just fit, do not fit and are empty.
PlainRequests == {
    Ask(<<"a", "b", "a">>, 3, 0, TRUE),
    Ask(<<"a", "b", "b", "a", "b">>, -1, 0, TRUE),
    Ask(<<"a", "b", "b", "a", "b", "a">>, 3, 0, TRUE),
    Ask(<<>>, 3, 0, TRUE)}

EndlessRequests == {
    [Ask(<<"a", "b">>, -1, 0, TRUE) EXCEPT !.n_max = 1],
    Ask(<<"b", "b", "a", "b">>, -1, 1, TRUE),
    Ask(<<>>, 3, 0, TRUE)}

\* A server with nothing special about it.
Server(requests) ==
    [n_predict |-> -1, ctx_shift |-> TRUE, n_cache_reuse |-> 0, n_batch |-> 3,
     n_ctx_train |-> 100, add_bos |-> 0, draft_model |-> FALSE, partial_rm |-> TRUE,
     requests |-> requests, max_tasks |-> 2, other_slots |-> FALSE, many_views |-> FALSE,
     decode_may_fail |-> FALSE, early_requests |-> FALSE, slot_actions |-> FALSE]

\* Chunk reuse and batches shared with other slots and cut into views; and a model
\* whose cache can neither be shifted nor cut.
ContextServers == {
    [Server(ContextRequests) EXCEPT !.n_ctx_train = 9, !.n_cache_reuse = 1,
        !.other_slots = TRUE, !.many_views = TRUE, !.max_tasks = 3],
    [Server(PlainRequests) EXCEPT !.n_predict = 3, !.n_batch = 4, !.add_bos = 1,
        !.ctx_shift = FALSE, !.partial_rm = FALSE, !.other_slots = TRUE,
        !.slot_actions = TRUE]}

\* Draft models: with a BOS token; and with chunk reuse, decodes that fail, and
\* nothing but the training context to end a generation.
DraftServers == {
    [Server(DraftRequests) EXCEPT !.n_ctx_train = 7, !.add_bos = 1, !.draft_model = TRUE,
        !.other_slots = TRUE, !.max_tasks = 3],
    [Server(EndlessRequests) EXCEPT !.n_ctx_train = 8, !.n_cache_reuse = 2,
        !.draft_model = TRUE, !.decode_may_fail = TRUE]}

AllServers == ContextServers \cup DraftServers
=============================================================================

---------------------------- MODULE SlotContext ----------------------------
(***************************************************************************)
(* The tokens of one slot: what launch_slot_with_task, update_slots and    *)
(* process_token do to the prompt, to n_past and the other counters, to    *)
(* the list cache_tokens of what the server believes is in the KV cache,   *)
(* and to the cells of the KV cache itself.  LlamaServer leaves all of     *)
(* this out; here the queues and the other slots are left out.  Other      *)
(* slots show only in how much room they leave in a batch, in how a batch  *)
(* is cut into views, and in when all slots are idle.                      *)
(*                                                                         *)
(* Text completions: no images (mctx), no embeddings, and none of the      *)
(* limits on time and indentation that a request may ask for.  What a      *)
(* model generates, and whether the text ends in a stop word, is a choice. *)
(***************************************************************************)
EXTENDS Integers, Sequences

CONSTANTS
    Token,           \* the vocabulary
    EOG,             \* its end-of-generation tokens
    N_CTX,           \* n_ctx of the slot
    Servers          \* the servers to consider, see ServerShape

\* What a request asks for; lora stands for its list of adapters, 0 for none.
RequestShape ==
    [prompt : Seq(Token), n_predict : Int, n_keep : Int, n_discard : Nat,
     cache_prompt : BOOLEAN, n_max : Nat, n_min : Nat, lora : Nat]

\* How a server was started: n_predict (-1 for no limit), ctx_shift and n_cache_reuse
\* (0 for none) of params_base, llama_n_batch, the model's training context and
\* add_bos_token; whether there is a draft model and whether the KV cache can drop a
\* suffix of a sequence.  And what may happen to it: what clients ask for, and how
\* many tasks (a bound); whether other slots take room in a batch, a batch is decoded
\* in several views, llama_decode fails, a task is posted before the first
\* update_slots, and clients save, restore and erase the slot.
ServerShape ==
    [n_predict : Int, ctx_shift : BOOLEAN, n_cache_reuse : Nat, n_batch : Nat \ {0},
     n_ctx_train : Nat, add_bos : {0, 1}, draft_model : BOOLEAN, partial_rm : BOOLEAN,
     requests : SUBSET RequestShape, max_tasks : Nat, other_slots : BOOLEAN,
     many_views : BOOLEAN, decode_may_fail : BOOLEAN, early_requests : BOOLEAN,
     slot_actions : BOOLEAN]

Smaller(a, b) == IF a <= b THEN a ELSE b

\* How much of a prompt of n tokens is to be kept when tokens must go.
Kept(n_keep, n) == Smaller(N_CTX - 4, IF n_keep < 0 THEN n ELSE n_keep)

ASSUME ContextAssumption ==
    /\ EOG \subseteq Token /\ Token # {}
    /\ N_CTX \in Nat /\ N_CTX > 4
    /\ Servers \subseteq ServerShape
    /\ \A p \in Servers :
          \* a cache that cannot be cut cannot be shifted: common_init_from_params
          /\ ~p.partial_rm => ~p.ctx_shift /\ ~p.draft_model /\ p.n_cache_reuse = 0
          /\ \A r \in p.requests : r.n_min <= r.n_max

\* What requests ask to discard lies behind what they keep.  Nothing in the code
\* checks it: with a larger n_discard a context shift gives up kept tokens too.
DiscardsFit ==
    \A p \in Servers : \A r \in p.requests :
        Kept(r.n_keep, Len(r.prompt)) + r.n_discard <= N_CTX - 2

VARIABLES
    params_base,     \* the server, chosen at the start
    slot,            \* the slot's fields
    prompt_tokens,   \* its prompt, once started the truncated one
    cache_tokens,    \* the tokens it believes to be in the KV cache
    kv,              \* the cells of its sequence in the KV cache
    batch,           \* its tokens in the batch that are not decoded yet
    draft,           \* the drafted tokens that are decoded and not yet judged
    head,            \* head_c and head_p, the positions chunk reuse has reached
    phase,           \* where update_slots is
    clean_kv_cache,  \* the KV cache is to be cleared once all slots are idle
    outcome,         \* how the last task ended: "none", "final", "error", "rejected"
    saved,           \* the slot save file: the tokens and the cells
    n_tasks          \* tasks launched so far

vars == <<params_base, slot, prompt_tokens, cache_tokens, kv, batch, draft, head, phase,
          clean_kv_cache, outcome, saved, n_tasks>>
serverVars == <<params_base, clean_kv_cache, saved, n_tasks>>

CtxShift   == params_base.ctx_shift
PartialRm  == params_base.partial_rm
N_PREDICT  == params_base.n_predict
AddBos     == params_base.add_bos
OtherSlots == params_base.other_slots
-----------------------------------------------------------------------------
\* The cells of the tokens s from position p on.
CellsFrom(p, s) == {[pos |-> p + i - 1, tok |-> s[i]] : i \in DOMAIN s}
Cells(s) == CellsFrom(0, s)

(* The KV cache, as the server uses it.                                    *)
llama_kv_self_seq_rm(cells, p0, p1) ==
    {c \in cells : c.pos < p0 \/ c.pos >= p1}
RmFrom(cells, p0) == {c \in cells : c.pos < p0}
llama_kv_self_seq_add(cells, p0, p1, delta) ==
    {IF c.pos >= p0 /\ c.pos < p1 THEN [c EXCEPT !.pos = @ + delta] ELSE c : c \in cells}

keep_first(s, n) == SubSeq(s, 1, n)

\* n tokens are common to a from position i and b from position j, and no more.
Matching(a, i, b, j, n) ==
    /\ i + n <= Len(a) /\ j + n <= Len(b)
    /\ \A k \in 1..n : a[i + k] = b[j + k]
    /\ i + n < Len(a) /\ j + n < Len(b) => a[i + n + 1] # b[j + n + 1]

get_common_prefix(a, b, n) == Matching(a, 0, b, 0, n)

-----------------------------------------------------------------------------
(* Launching a task and releasing the slot.                                *)

NoParams == [prompt |-> <<>>, n_predict |-> -1, n_keep |-> 0, n_discard |-> 0,
             cache_prompt |-> TRUE, n_max |-> 0, n_min |-> 0, lora |-> 0]

\* row: i_batch is set, that is the slot will sample from the batch.
\* generated: every token that process_token was given.
FreshSlot == [state |-> "IDLE", params |-> NoParams, n_past |-> 0, n_decoded |-> 0,
              n_remaining |-> -1, row |-> FALSE, sampled |-> CHOOSE t \in Token : TRUE,
              truncated |-> FALSE, stop |-> "none", generated |-> <<>>]

is_processing == slot.state # "IDLE"

\* reset() of the slot: n_decoded and n_remaining keep their values.
reset(s) == [s EXCEPT !.n_past = 0, !.truncated = FALSE, !.stop = "none",
                      !.generated = <<>>]

\* The request's n_predict, limited by the server's.
LimitedBy(r) ==
    IF N_PREDICT > 0 /\ r.n_predict > N_PREDICT THEN [r EXCEPT !.n_predict = N_PREDICT] ELSE r

\* A task is launched, or rejected (invalid tokens, bad grammar) after the slot
\* was reset.  Other adapters than before make the cached tokens useless.
launch_slot_with_task(r) ==
    LET s == [reset(slot) EXCEPT !.params = r]
    IN  /\ phase = "top"
        /\ ~is_processing
        /\ n_tasks < params_base.max_tasks
        /\ ~params_base.early_requests => ~clean_kv_cache
        /\ prompt_tokens' = r.prompt
        /\ cache_tokens' = IF r.lora # slot.params.lora THEN <<>> ELSE cache_tokens
        /\ \/ /\ slot' = [s EXCEPT !.state = "STARTED", !.params = LimitedBy(r)]
              /\ outcome' = "none"
           \/ /\ slot' = s
              /\ outcome' = "rejected"
        /\ n_tasks' = n_tasks + 1
        /\ UNCHANGED <<params_base, kv, batch, draft, head, phase, clean_kv_cache, saved>>

\* The slot, its fields now those of s, is released and its task has ended.
release(s, how) ==
    /\ slot' = [s EXCEPT !.state = "IDLE"]
    /\ outcome' = how

\* A CANCEL of the task, between two updates.
Cancel ==
    /\ phase = "top"
    /\ is_processing
    /\ release(slot, "cancelled")
    /\ UNCHANGED <<prompt_tokens, cache_tokens, kv, batch, draft, head, phase, serverVars>>

\* update_slots finds all slots idle.
AllIdle ==
    /\ phase = "top"
    /\ ~is_processing
    /\ kv' = IF clean_kv_cache THEN {} ELSE kv
    /\ clean_kv_cache' = FALSE
    /\ UNCHANGED <<params_base, slot, prompt_tokens, cache_tokens, batch, draft, head, phase, outcome,
                   saved, n_tasks>>

-----------------------------------------------------------------------------
(* SLOT_SAVE, SLOT_RESTORE and SLOT_ERASE, deferred until the slot is idle. *)

ActionOnSlot == params_base.slot_actions /\ phase = "top" /\ ~is_processing

SaveSlot ==
    /\ ActionOnSlot
    /\ saved' = [tokens |-> cache_tokens, cells |-> kv]
    /\ UNCHANGED <<params_base, slot, prompt_tokens, cache_tokens, kv, batch, draft, head, phase,
                   clean_kv_cache, outcome, n_tasks>>

\* A load that fails, before or after it has dropped the old cells, leaves nothing.
RestoreSlot ==
    /\ ActionOnSlot
    /\ \/ cache_tokens' = saved.tokens /\ kv' = saved.cells
       \/ cache_tokens' = <<>> /\ kv' \in {kv, {}}
    /\ UNCHANGED <<slot, prompt_tokens, batch, draft, head, phase, outcome, serverVars>>

EraseSlot ==
    /\ ActionOnSlot
    /\ kv' = {}
    /\ cache_tokens' = <<>>
    /\ UNCHANGED <<slot, prompt_tokens, batch, draft, head, phase, outcome, serverVars>>

-----------------------------------------------------------------------------
(* update_slots: the context is made room in, if it is full.               *)

Full == is_processing /\ slot.n_past + 1 >= N_CTX

\* ctx_shift is off: the generation ends with an error.
ContextFull ==
    /\ phase = "top"
    /\ Full
    /\ ~CtxShift
    /\ release(slot, "error")
    /\ UNCHANGED <<prompt_tokens, cache_tokens, kv, batch, draft, head, phase, serverVars>>

\* Plausible bug: the BOS token is not counted.
ShiftKeepWithoutBos == slot.params.n_keep

\* The tokens after the first n_keep are discarded, by default half of them, and
\* the rest moves down, in the KV cache as in cache_tokens.  The list gets n_discard
\* shorter: with fewer behind the kept ones it loses kept ones, and with fewer in all
\* resize throws and the server ends.
ShiftKeep == slot.params.n_keep + AddBos
Shifted(tokens, n_keep, n_discard) ==
    keep_first(tokens, Smaller(n_keep, Len(tokens) - n_discard))
    \o SubSeq(tokens, n_keep + n_discard + 1, Len(tokens))
ShiftContext ==
    LET n_keep == ShiftKeep
        n_left == slot.n_past - n_keep
        n_discard == IF slot.params.n_discard # 0 THEN slot.params.n_discard ELSE n_left \div 2
    IN  /\ phase = "top"
        /\ Full
        /\ CtxShift
        /\ n_discard <= Len(cache_tokens)
        /\ kv' = llama_kv_self_seq_add(
                     llama_kv_self_seq_rm(kv, n_keep, n_keep + n_discard),
                     n_keep + n_discard, slot.n_past, -n_discard)
        /\ cache_tokens' = Shifted(cache_tokens, n_keep, n_discard)
        /\ slot' = [slot EXCEPT !.n_past = @ - n_discard, !.truncated = TRUE]
        /\ phase' = "batch"
        /\ UNCHANGED <<prompt_tokens, batch, draft, head, outcome, serverVars>>

\* The context is seen to, and the batch is being made.
Batching == phase = "batch" \/ (phase = "top" /\ ~Full)

\* The token sampled last goes into the batch.
BatchSampled ==
    /\ Batching
    /\ slot.state = "GENERATING"
    /\ batch' = <<[pos |-> slot.n_past, tok |-> slot.sampled]>>
    /\ cache_tokens' = Append(cache_tokens, slot.sampled)
    /\ slot' = [slot EXCEPT !.n_past = @ + 1, !.row = TRUE]
    /\ phase' = "decode"
    /\ UNCHANGED <<prompt_tokens, kv, draft, head, outcome, serverVars>>

\* The batch is full, or its slots have other adapters: it is made without this one.
NotBatched ==
    /\ OtherSlots
    /\ Batching
    /\ is_processing
    /\ phase' = "decode"
    /\ UNCHANGED <<slot, prompt_tokens, cache_tokens, kv, batch, draft, head, outcome, serverVars>>

-----------------------------------------------------------------------------
(* update_slots: a new prompt.                                             *)

EmptyPrompt ==
    /\ Batching
    /\ slot.state = "STARTED"
    /\ prompt_tokens = <<>>
    /\ release(slot, "final")
    /\ UNCHANGED <<prompt_tokens, cache_tokens, kv, batch, draft, head, phase, serverVars>>

PromptTooLarge ==
    /\ Batching
    /\ slot.state = "STARTED"
    /\ ~CtxShift
    /\ Len(prompt_tokens) >= N_CTX
    /\ release(slot, "error")
    /\ UNCHANGED <<prompt_tokens, cache_tokens, kv, batch, draft, head, phase, serverVars>>

\* A prompt that does not fit loses whole blocks of half the context (less what
\* is kept), so many that less than two blocks remain after the kept tokens.
n_block_size(keep) == (N_CTX - keep) \div 2
\* Mutant: one block too few.
erased_blocks_short(keep, n) == (n - keep - 2 * n_block_size(keep)) \div n_block_size(keep)
erased_blocks(keep, n) == (n - keep - n_block_size(keep)) \div n_block_size(keep)
Truncate(p, keep) ==
    keep_first(p, keep)
    \o SubSeq(p, keep + erased_blocks(keep, Len(p)) * n_block_size(keep) + 1, Len(p))

\* The prompt is cut to size, and what the cache has of its beginning is reused.
StartPrompt ==
    LET keep == Kept(slot.params.n_keep, Len(prompt_tokens))
        long == Len(prompt_tokens) >= N_CTX
        p == IF long THEN Truncate(prompt_tokens, keep) ELSE prompt_tokens
        s == [slot EXCEPT !.state = "PROCESSING_PROMPT", !.params.n_keep = keep,
                          !.truncated = long]
    IN  /\ Batching
        /\ slot.state = "STARTED"
        /\ prompt_tokens # <<>>
        /\ long => CtxShift
        /\ prompt_tokens' = p
        /\ \/ /\ slot.params.cache_prompt
              /\ \E n \in 0..Len(cache_tokens) :
                    /\ get_common_prefix(cache_tokens, p, n)
                    /\ slot' = [s EXCEPT !.n_past = n]
                    /\ head' = [c |-> n, p |-> n]
              /\ UNCHANGED <<cache_tokens, kv>>
           \/ /\ ~slot.params.cache_prompt
              /\ slot' = [s EXCEPT !.n_past = 0]
              /\ kv' = {}
              /\ cache_tokens' = <<>>
              /\ head' = [c |-> 0, p |-> 0]
        /\ phase' = "reuse"
        /\ UNCHANGED <<batch, draft, outcome, serverVars>>

CanReuse ==
    /\ slot.params.cache_prompt
    /\ params_base.n_cache_reuse > 0
    /\ head.c < Len(cache_tokens)
    /\ head.p < Len(prompt_tokens)

\* The cells of a chunk of n_match tokens move down, over those that are dropped.
\* Mutant: the cells it moves over are not dropped.
ChunkMovedOver(n_match) ==
    llama_kv_self_seq_add(kv, head.c, head.c + n_match, head.p - head.c)
ChunkMoved(n_match) ==
    llama_kv_self_seq_add(llama_kv_self_seq_rm(kv, head.p, head.c),
                          head.c, head.c + n_match, head.p - head.c)

\* n_match tokens of the cache, further on, are the next of the prompt: they are
\* moved down to where the prompt needs them.
ReuseChunk ==
    /\ phase = "reuse"
    /\ CanReuse
    /\ \E n_match \in 1..Len(cache_tokens) :
          /\ Matching(cache_tokens, head.c, prompt_tokens, head.p, n_match)
          /\ n_match >= params_base.n_cache_reuse
          /\ kv' = ChunkMoved(n_match)
          /\ cache_tokens' = [i \in DOMAIN cache_tokens |->
                                 IF i > head.p /\ i <= head.p + n_match
                                 THEN cache_tokens[i - head.p + head.c]
                                 ELSE cache_tokens[i]]
          /\ slot' = [slot EXCEPT !.n_past = @ + n_match]
          /\ head' = [c |-> head.c + n_match, p |-> head.p + n_match]
    /\ UNCHANGED <<prompt_tokens, batch, draft, phase, outcome, serverVars>>

\* The cache has too little of what the prompt needs next: on to its next token.
\* Mutant: the same place is tried again.
SkipCachedStays ==
    /\ phase = "reuse"
    /\ CanReuse
    /\ UNCHANGED vars
SkipCached ==
    /\ phase = "reuse"
    /\ CanReuse
    /\ \E n_match \in 0..Len(cache_tokens) :
          /\ Matching(cache_tokens, head.c, prompt_tokens, head.p, n_match)
          /\ n_match < params_base.n_cache_reuse
    /\ head' = [head EXCEPT !.c = @ + 1]
    /\ UNCHANGED <<slot, prompt_tokens, cache_tokens, kv, batch, draft, phase, outcome, serverVars>>

\* Nothing more can be reused; at least one token must be evaluated.
ReuseDone ==
    /\ phase = "reuse"
    /\ ~CanReuse
    /\ slot' = [slot EXCEPT !.n_past =
                   IF @ = Len(prompt_tokens) /\ @ > 0 THEN @ - 1 ELSE @]
    /\ phase' = "fill"
    /\ UNCHANGED <<prompt_tokens, cache_tokens, kv, batch, draft, head, outcome, serverVars>>

\* Everything but the common part is dropped; if that is not possible, all is.
CanKeepCommon == PartialRm \/ RmFrom(kv, slot.n_past) = kv
\* Mutant: n_past still claims a common part.
CommonPartKept == slot.n_past
CommonPart == IF CanKeepCommon THEN slot.n_past ELSE 0

\* As many prompt tokens as the others leave room for go into the batch.
FillBatch ==
    LET base == CommonPart
    IN  /\ phase = "fill" \/ (Batching /\ slot.state = "PROCESSING_PROMPT")
        /\ kv' = IF CanKeepCommon THEN RmFrom(kv, slot.n_past) ELSE {}
        /\ \E room \in IF OtherSlots THEN 0..params_base.n_batch ELSE {params_base.n_batch} :
              LET n == Smaller(room, Len(prompt_tokens) - base)
                  new == SubSeq(prompt_tokens, base + 1, base + n)
                  s == [slot EXCEPT !.n_past = base + n]
              IN  /\ cache_tokens' = keep_first(cache_tokens, base) \o new
                  /\ batch' = [i \in DOMAIN new |-> [pos |-> base + i - 1, tok |-> new[i]]]
                  /\ slot' = IF s.n_past = Len(prompt_tokens)
                             THEN [s EXCEPT !.state = "DONE_PROMPT", !.n_decoded = 0,
                                            !.row = TRUE]
                             ELSE s
        /\ phase' = "decode"
        /\ UNCHANGED <<prompt_tokens, draft, head, outcome, serverVars>>

-----------------------------------------------------------------------------
(* update_slots: the batch is decoded view by view.                        *)

\* A view with the next k tokens of the slot (all, if there is one view only).
DecodeView ==
    /\ phase = "decode"
    /\ \E k \in 0..Len(batch) :
          /\ k = Len(batch) \/ params_base.many_views
          /\ kv' = kv \cup {batch[i] : i \in 1..k}
          /\ batch' = SubSeq(batch, k + 1, Len(batch))
    /\ phase' = "results"
    /\ UNCHANGED <<slot, prompt_tokens, cache_tokens, draft, head, outcome, serverVars>>

\* The whole batch is given up and the slot, if it is at work, released.
DecodeFails ==
    /\ phase = "decode"
    /\ params_base.decode_may_fail
    /\ IF is_processing THEN release(slot, "error") ELSE UNCHANGED <<slot, outcome>>
    /\ batch' = <<>>
    /\ phase' = "top"
    /\ UNCHANGED <<prompt_tokens, cache_tokens, kv, draft, head, serverVars>>

\* has_budget leaves n_remaining alone when there is no limit at all.
Limitless(s) == s.params.n_predict = -1 /\ N_PREDICT = -1
Remaining(s) ==
    (IF s.params.n_predict # -1 THEN s.params.n_predict ELSE N_PREDICT) - s.n_decoded
\* Mutant: one token more.
has_budget_late(s) == Limitless(s) \/ Remaining(s) >= 0
has_budget(s) == Limitless(s) \/ Remaining(s) > 0

\* process_token: what ends the generation at token tok, word saying whether its
\* text completes a stop word, ...
OutOfBudget(s, word)  == s.n_decoded > 0 /\ ~word /\ ~has_budget(s)
OutOfContext(s)       == s.n_past >= N_CTX
OutOfTraining(s)      == /\ s.params.n_predict < 1 /\ N_PREDICT < 1
                         /\ Len(prompt_tokens) + s.n_decoded >= params_base.n_ctx_train
Stops(s, tok, word) ==
    word \/ OutOfBudget(s, word) \/ OutOfContext(s) \/ tok \in EOG \/ OutOfTraining(s)

\* ... and what it makes of the slot; a later reason overrides an earlier one.
process_token(s, tok, word) ==
    [s EXCEPT
        !.sampled = tok,
        !.generated = Append(@, tok),
        !.n_remaining = IF s.n_decoded > 0 /\ ~word /\ ~Limitless(s) THEN Remaining(s) ELSE @,
        !.truncated = @ \/ OutOfContext(s) \/ OutOfTraining(s),
        !.stop = CASE OutOfTraining(s) -> "limit"
                   [] ~OutOfTraining(s) /\ tok \in EOG -> "eos"
                   [] ~OutOfTraining(s) /\ tok \notin EOG
                         /\ (OutOfContext(s) \/ OutOfBudget(s, word)) -> "limit"
                   [] OTHER -> IF word THEN "word" ELSE @]

\* The slot goes on generating as s, or is released with its final response.
GoOnOrEnd(s, ends) ==
    IF ends THEN release(s, "final")
    ELSE slot' = [s EXCEPT !.state = "GENERATING"] /\ UNCHANGED outcome

\* The view holds the slot's row: a token is sampled.
HasRow == /\ slot.row /\ batch = <<>>
          /\ slot.state \in {"DONE_PROMPT", "GENERATING"}
Sample ==
    LET s == [slot EXCEPT !.row = FALSE, !.n_decoded = @ + 1]
    IN  /\ phase = "results"
        /\ HasRow
        /\ \E tok \in Token, word \in BOOLEAN :
              GoOnOrEnd(process_token(s, tok, word), Stops(s, tok, word))
        /\ phase' = "speculate"
        /\ UNCHANGED <<prompt_tokens, cache_tokens, kv, batch, draft, head, serverVars>>

NoRow ==
    /\ phase = "results"
    /\ ~HasRow
    /\ phase' = "speculate"
    /\ UNCHANGED <<slot, prompt_tokens, cache_tokens, kv, batch, draft, head, outcome, serverVars>>

can_speculate == params_base.draft_model /\ slot.params.n_max > 0 /\ slot.params.cache_prompt

\* Mutant: only what the request allows counts.
n_draft_max_unfit == slot.params.n_max
n_draft_max ==
    LET fits == Smaller(slot.params.n_max, N_CTX - slot.n_past - 2)
    IN  IF slot.n_remaining > 0 THEN Smaller(fits, slot.n_remaining - 1) ELSE fits

\* common_speculative_gen_draft keeps to n_draft, except that a draft it has kept
\* from before is passed back with one token at least.
DraftSizes == 0..n_draft_max \cup (IF n_draft_max = 0 THEN {1} ELSE {})

WillDraft == /\ slot.state = "GENERATING"
             /\ can_speculate
             /\ n_draft_max >= slot.params.n_min

\* A draft is decoded behind the sampled token.
DecodeDraft ==
    /\ phase = "speculate"
    /\ WillDraft
    /\ \E d \in DraftSizes :
          /\ d >= slot.params.n_min
          /\ draft' \in [1..d -> Token]
    /\ kv' = kv \cup CellsFrom(slot.n_past, <<slot.sampled>> \o draft')
    /\ phase' = "drafted"
    /\ UNCHANGED <<slot, prompt_tokens, cache_tokens, batch, head, outcome, serverVars>>

\* The model's tokens ids agree with the draft up to the last one, which the model
\* has sampled in its place or after it.
common_sampler_sample_and_accept_n(ids) ==
    LET m == Len(ids)
    IN  /\ \A i \in 1..(m - 1) : ids[i] = draft[i]
        /\ m <= Len(draft) => ids[m] # draft[m]

\* The tokens that are now in the context: the last of ids is not.
\* Mutant: it is taken to be, in place of the token the draft began with.
AcceptedAll(ids) == ids
Accepted(ids) == <<slot.sampled>> \o SubSeq(ids, 1, Len(ids) - 1)

\* The rest of the draft is dropped from the KV cache, and ids are processed until
\* the i-th ends the generation, with all of them counted before the first is.
AcceptDraft ==
    /\ phase = "drafted"
    /\ \E m \in 1..(Len(draft) + 1) : \E ids \in [1..m -> Token] :
          LET s == [slot EXCEPT !.n_past = @ + m, !.n_decoded = @ + m]
          IN  /\ common_sampler_sample_and_accept_n(ids)
              /\ cache_tokens' = cache_tokens \o Accepted(ids)
              /\ kv' = RmFrom(kv, slot.n_past + m)
              /\ \E i \in 1..m, word \in BOOLEAN :
                    /\ \A j \in 1..(i - 1) : ~Stops(s, ids[j], FALSE)
                    /\ Stops(s, ids[i], word) \/ i = m
                    /\ GoOnOrEnd(
                          process_token([s EXCEPT !.generated = @ \o SubSeq(ids, 1, i - 1)],
                                        ids[i], word),
                          Stops(s, ids[i], word))
    /\ draft' = <<>>
    /\ phase' = "viewed"
    /\ UNCHANGED <<prompt_tokens, batch, head, serverVars>>

\* No draft model, no room for a draft, or the draft is too small.
SkipSpeculation ==
    /\ phase = "speculate"
    /\ WillDraft => slot.params.n_min > 0
    /\ phase' = "viewed"
    /\ UNCHANGED <<slot, prompt_tokens, cache_tokens, kv, batch, draft, head, outcome, serverVars>>

\* The next view, with more tokens of the slot or with others' only, or the end.
NextView ==
    /\ phase = "viewed"
    /\ \/ batch = <<>> /\ phase' = "top"
       \/ (batch # <<>> \/ params_base.many_views) /\ phase' = "decode"
    /\ UNCHANGED <<slot, prompt_tokens, cache_tokens, kv, batch, draft, head, outcome, serverVars>>

-----------------------------------------------------------------------------
Init ==
    /\ params_base \in Servers
    /\ slot = FreshSlot
    /\ prompt_tokens = <<>> /\ cache_tokens = <<>>
    /\ kv = {} /\ batch = <<>> /\ draft = <<>>
    /\ head = [c |-> 0, p |-> 0]
    /\ phase = "top"
    /\ clean_kv_cache = TRUE
    /\ outcome = "none"
    /\ saved = [tokens |-> <<>>, cells |-> {}]
    /\ n_tasks = 0

Client ==
    \/ \E r \in params_base.requests : launch_slot_with_task(r)
    \/ Cancel
    \/ SaveSlot \/ RestoreSlot \/ EraseSlot

update_slots ==
    \/ AllIdle
    \/ ContextFull \/ ShiftContext \/ BatchSampled \/ NotBatched
    \/ EmptyPrompt \/ PromptTooLarge \/ StartPrompt
    \/ ReuseChunk \/ SkipCached \/ ReuseDone \/ FillBatch
    \/ DecodeView \/ DecodeFails \/ Sample \/ NoRow
    \/ DecodeDraft \/ AcceptDraft \/ SkipSpeculation \/ NextView

Next == Client \/ update_slots

Spec == Init /\ [][Next]_vars

\* The main loop calls update_slots again as long as a slot is at work.
FairSpec == Spec /\ WF_vars(update_slots)

-----------------------------------------------------------------------------
(* Properties.                                                             *)

slot_state == {"IDLE", "STARTED", "PROCESSING_PROMPT", "DONE_PROMPT", "GENERATING"}
Cell == [pos : 0..(N_CTX - 1), tok : Token]
server_slot ==
    [state : slot_state, params : RequestShape, n_past : 0..N_CTX, n_decoded : Nat,
     n_remaining : Int, row : BOOLEAN, sampled : Token, truncated : BOOLEAN,
     stop : {"none", "word", "limit", "eos"}, generated : Seq(Token)]

\* Types; in particular no cell and no batched token lies outside the n_ctx positions
\* of the slot, speculated tokens included.
SlotTypeOK ==
    /\ params_base \in Servers
    /\ slot \in server_slot
    /\ prompt_tokens \in Seq(Token) /\ cache_tokens \in Seq(Token)
    /\ kv \subseteq Cell /\ batch \in Seq(Cell) /\ draft \in Seq(Token)
    /\ head \in [c : 0..N_CTX, p : 0..N_CTX]
    /\ phase \in {"top", "batch", "reuse", "fill", "decode", "results", "speculate", "drafted",
                 "viewed"}
    /\ clean_kv_cache \in BOOLEAN
    /\ outcome \in {"none", "final", "error", "rejected", "cancelled"}
    /\ saved.tokens \in Seq(Token) /\ saved.cells \subseteq Cell
    /\ n_tasks \in 0..params_base.max_tasks

\* Between two updates, every token that cache_tokens claims is in the KV cache, at
\* its position: what get_common_prefix finds for the next prompt may be reused.
\* (After a failed decode cache_tokens lists tokens that never reached the KV cache.)
CachedInKv ==
    phase = "top" /\ ~params_base.decode_may_fail => Cells(cache_tokens) \subseteq kv

\* A token is sampled from a context that holds cache_tokens and nothing else, and
\* these are the request's prompt and all that was generated for it, without a gap
\* unless the response will say truncated, and then with one gap only, behind the
\* tokens to be kept.  No reused chunk, context shift, discarded draft or view cut
\* puts a token of another request, a stale cell or a wrong position before the model.
\* (With failing decodes excepted, as for CachedInKv.)
SamplesTranscript ==
    phase = "results" /\ HasRow /\ ~params_base.decode_may_fail =>
        LET said == slot.params.prompt \o slot.generated
            keep == slot.params.n_keep + AddBos
        IN  /\ kv = Cells(cache_tokens)
            /\ IF slot.truncated
               THEN \E j \in (keep + 1)..Len(said) :
                       cache_tokens = SubSeq(said, 1, keep) \o SubSeq(said, j, Len(said))
               ELSE cache_tokens = said

\* The first n_keep tokens of the request's prompt, and its BOS token, stay in the
\* context of a generating slot, however often tokens are discarded.
RetainsKeep ==
    slot.state = "GENERATING" =>
        LET keep == Smaller(slot.params.n_keep + AddBos, Len(slot.params.prompt))
        IN  keep_first(cache_tokens, keep) = keep_first(slot.params.prompt, keep)

\* The GGML_ASSERTs on the way of a prompt into the batch: the truncated prompt is
\* shorter than the context, keep_first keeps no more than there is, and a prompt
\* that ends in this batch has put a token into it, whose logits are sampled.
AssertionsHold ==
    phase = "fill" \/ (phase = "top" /\ slot.state = "PROCESSING_PROMPT") =>
        /\ Len(prompt_tokens) < N_CTX
        /\ slot.n_past <= Len(cache_tokens)
        /\ slot.n_past < Len(prompt_tokens)

\* How many tokens the request, or else the server, allows to predict.
Budget == IF slot.params.n_predict # -1 THEN slot.params.n_predict ELSE N_PREDICT

\* A response that stopped by the limit, and is not truncated, has n_predict tokens, as
\* the server's README says of stop_type.  All accepted tokens of a draft are counted
\* before the first is processed, so that it may have fewer: draft_limit refutes it.
LimitMeansBudget ==
    outcome = "final" /\ slot.stop = "limit" /\ ~slot.truncated =>
        Len(slot.generated) = Budget

\* No response ever has more tokens than that, however many tokens of a draft are
\* accepted at once, and without drafts the limit does mean n_predict tokens.
BudgetKept ==
    /\ ~Limitless(slot) => Len(slot.generated) <= Budget
    /\ ~can_speculate => LimitMeansBudget

\* Every task that a slot takes up ends: the chunks to reuse are exhausted, the
\* prompt gets through the batches, and without an end-of-generation token the
\* budget, or the length of the training context, ends the generation.
\* (With other slots, that this one gets its turn is for LlamaServer to show.)
GenerationEnds == slot.state # "IDLE" /\ ~OtherSlots ~> slot.state = "IDLE"

=============================================================================

------------------------- MODULE SlotContextProofs -------------------------
(***************************************************************************)
(* Proofs about SlotContext, for every size of the context, every prompt   *)
(* and every setting of a server.                                          *)
(*                                                                         *)
(* CInv    the counters: what is kept fits the context, no list of cached  *)
(*         tokens is longer than it, and where n_past is in each phase of  *)
(*         update_slots.  SlotTypeOK alone is not kept by a step: that the *)
(*         next token has a position depends on what earlier phases did.   *)
(* KInv    the KV cache: cache_tokens is in its cells or in the batch, part *)
(*         by part while chunks are moved, and nothing lies behind n_past. *)
(* LInv    the budget: n_decoded counts the tokens of the response.        *)
(* TInv    the transcript: the context is the prompt and what was          *)
(*         generated, but for one gap behind the tokens to be kept, however *)
(*         often it was truncated and shifted.                             *)
(*                                                                         *)
(* KInv, LInv and TInv rest on CInv, not on each other.                    *)
(***************************************************************************)
EXTENDS SlotContext, SequenceTheorems, TLAPS

AtWork == {"PROCESSING_PROMPT", "DONE_PROMPT", "GENERATING"}

\* What a slot keeps leaves room in the context, and so does what it discards by
\* request, if requests see to it.
KeepFits ==
    /\ slot.state \in AtWork => slot.params.n_keep \in 0..(N_CTX - 4)
    /\ DiscardsFit =>
          /\ slot.state = "STARTED" =>
                Kept(slot.params.n_keep, Len(prompt_tokens)) + slot.params.n_discard <= N_CTX - 2
          /\ slot.state \in AtWork =>
                slot.params.n_keep + slot.params.n_discard <= N_CTX - 2

\* No list of cached tokens is longer than the context.
CacheFits == Len(cache_tokens) <= N_CTX /\ Len(saved.tokens) <= N_CTX

\* A prompt is reused from its beginning on, from places further on in the cache.
Reusing ==
    /\ slot.state = "PROCESSING_PROMPT"
    /\ Len(prompt_tokens) \in 1..(N_CTX - 1)
    /\ slot.n_past = head.p /\ head.p <= head.c
    /\ head.p <= Len(prompt_tokens) /\ head.c <= Len(cache_tokens)

\* Part of the prompt is evaluated, and not all of it.
Unfinished == /\ Len(prompt_tokens) < N_CTX
              /\ slot.n_past < Len(prompt_tokens)

\* Where n_past is, for each state and phase.
PastOK ==
    /\ slot.state = "STARTED" => slot.n_past = 0 /\ phase \notin {"batch", "reuse", "fill", "drafted"}
    /\ slot.state = "IDLE" => phase \notin {"batch", "reuse", "fill", "drafted"}
    /\ phase = "batch" => slot.state = "GENERATING" /\ slot.n_past <= N_CTX - 2
    /\ phase = "reuse" => Reusing
    /\ phase = "fill" => /\ slot.state = "PROCESSING_PROMPT"
                         /\ Unfinished /\ slot.n_past <= Len(cache_tokens)
    /\ phase = "drafted" => /\ slot.state = "GENERATING"
                            /\ slot.n_past + Len(draft) < N_CTX
    /\ slot.state = "PROCESSING_PROMPT" /\ phase \notin {"reuse", "fill"} =>
          Unfinished /\ slot.n_past = Len(cache_tokens)
    /\ slot.state \in {"DONE_PROMPT", "GENERATING"} =>
          slot.n_past = Len(cache_tokens) /\ slot.n_past < N_CTX
    /\ slot.state = "DONE_PROMPT" =>
          /\ phase \in {"decode", "results", "speculate", "viewed"}
          /\ slot.row
          /\ phase # "results" => batch # <<>>

CInv == SlotTypeOK /\ KeepFits /\ CacheFits /\ PastOK

-----------------------------------------------------------------------------
(* Sequences, division and truncation.                                     *)

\* The part of a sequence between two of its positions.
LEMMA Part ==
    ASSUME NEW S, NEW s \in Seq(S), NEW m \in 1..(Len(s) + 1), NEW n \in (m - 1)..Len(s)
    PROVE  /\ SubSeq(s, m, n) \in Seq(S)
           /\ Len(SubSeq(s, m, n)) = n - m + 1
           /\ \A i \in 1..(n - m + 1) : SubSeq(s, m, n)[i] = s[m + i - 1]
    OBVIOUS

\* Two sequences put together.
LEMMA Joined ==
    ASSUME NEW S, NEW s \in Seq(S), NEW t \in Seq(S)
    PROVE  /\ s \o t \in Seq(S)
           /\ Len(s \o t) = Len(s) + Len(t)
           /\ \A i \in 1..Len(s) : (s \o t)[i] = s[i]
           /\ \A i \in 1..Len(t) : (s \o t)[Len(s) + i] = t[i]
    OBVIOUS

\* A sequence with one more element.
LEMMA Appended ==
    ASSUME NEW S, NEW s \in Seq(S), NEW e \in S
    PROVE  /\ Append(s, e) \in Seq(S)
           /\ Len(Append(s, e)) = Len(s) + 1
           /\ \A i \in 1..Len(s) : Append(s, e)[i] = s[i]
           /\ Append(s, e)[Len(s) + 1] = e
    OBVIOUS

\* Sequences with the same elements in the same order are the same.
LEMMA SameSequence ==
    ASSUME NEW S, NEW s \in Seq(S), NEW t \in Seq(S), Len(s) = Len(t),
           \A i \in 1..Len(s) : s[i] = t[i]
    PROVE  s = t
    BY SeqEqual

\* The first of two sequences put together.
LEMMA FirstOfJoined ==
    ASSUME NEW S, NEW s \in Seq(S), NEW t \in Seq(S)
    PROVE  SubSeq(s \o t, 1, Len(s)) = s
<1>1. Len(s) \in Nat /\ Len(t) \in Nat
    OBVIOUS
<1>2. /\ SubSeq(s \o t, 1, Len(s)) \in Seq(S)
      /\ Len(SubSeq(s \o t, 1, Len(s))) = Len(s)
      /\ \A i \in 1..Len(s) : SubSeq(s \o t, 1, Len(s))[i] = s[i]
    BY <1>1, Part, Joined
<1>. QED
    BY <1>2, SameSequence

\* A function on 1..n is a sequence of length n.
LEMMA IsSequence ==
    ASSUME NEW S, NEW n \in Nat, NEW f \in [1..n -> S]
    PROVE  f \in Seq(S) /\ Len(f) = n /\ DOMAIN f = 1..n
    OBVIOUS

\* Division rounds down.
LEMMA Quotient ==
    ASSUME NEW a \in Nat, NEW b \in Nat \ {0}
    PROVE  /\ a \div b \in Nat
           /\ (a \div b) * b <= a
           /\ a < (a \div b) * b + b
    OBVIOUS

\* Half of a number.
LEMMA Half ==
    ASSUME NEW a \in Nat
    PROVE  /\ a \div 2 \in Nat
           /\ 2 * (a \div 2) <= a /\ a <= 2 * (a \div 2) + 1
    OBVIOUS

\* What is kept of a prompt leaves four positions.
LEMMA KeptBounds ==
    ASSUME NEW k \in Int, NEW n \in Nat
    PROVE  Kept(k, n) \in 0..(N_CTX - 4)
    BY ContextAssumption DEF Kept, Smaller

\* A prompt that does not fit, and what is left of it: the tokens to keep, and of
\* the others at least one block, and less than two.  It fits.
LEMMA Truncated ==
    ASSUME NEW p \in Seq(Token), Len(p) >= N_CTX, NEW keep \in 0..(N_CTX - 4)
    PROVE  /\ Truncate(p, keep) \in Seq(Token)
           /\ Len(Truncate(p, keep)) \in (keep + 1)..(N_CTX - 1)
           /\ SubSeq(Truncate(p, keep), 1, keep) = SubSeq(p, 1, keep)
           /\ \E j \in (keep + 1)..Len(p) :
                 Truncate(p, keep) = SubSeq(p, 1, keep) \o SubSeq(p, j, Len(p))
<1> DEFINE n == Len(p)
           b == n_block_size(keep)
           e == erased_blocks(keep, n)
           j == keep + e * b + 1
           left == SubSeq(p, 1, keep)
           right == SubSeq(p, j, n)
<1>1. N_CTX \in Nat /\ N_CTX > 4 /\ n \in Nat /\ keep \in Nat
    BY ContextAssumption
<1>2. b \in Nat /\ b >= 2 /\ 2 * b <= N_CTX - keep
    <2>1. N_CTX - keep \in Nat /\ N_CTX - keep >= 4
        BY <1>1
    <2>. HIDE DEF b
    <2>. QED
        BY <2>1, Half DEF b, n_block_size
<1>. HIDE DEF b
<1>3. e \in Nat /\ e * b <= n - keep - b /\ n - keep - b < e * b + b
    <2>1. n - keep - b \in Nat
        BY <1>1, <1>2
    <2>2. e = (n - keep - b) \div b
        BY DEF erased_blocks, b
    <2>. HIDE DEF e
    <2>. QED
        BY <1>2, <2>1, <2>2, Quotient
<1>4. e * b \in Nat
    BY <1>2, <1>3
<1>. HIDE DEF e
<1>5. j \in (keep + 1)..n /\ n - j + 1 >= b /\ n - j + 1 < 2 * b
    BY <1>1, <1>2, <1>3, <1>4
<1>6. Truncate(p, keep) = left \o right
    BY DEF Truncate, keep_first, b, e
<1>. HIDE DEF j
<1>7. /\ left \in Seq(Token) /\ Len(left) = keep
      /\ right \in Seq(Token) /\ Len(right) = n - j + 1
    BY <1>1, <1>5, Part
<1>. HIDE DEF left, right, n
<1>8. /\ left \o right \in Seq(Token)
      /\ Len(left \o right) = keep + (n - j + 1)
    <2>1. Len(left \o right) = Len(left) + Len(right)
        BY <1>7, Joined
    <2>. QED
        BY <1>7, <2>1
<1>9. SubSeq(left \o right, 1, keep) = left
    BY <1>7, FirstOfJoined
<1>10. \E i \in (keep + 1)..Len(p) :
          Truncate(p, keep) = SubSeq(p, 1, keep) \o SubSeq(p, i, Len(p))
    BY <1>5, <1>6 DEF left, right, n
<1>11. keep + (n - j + 1) \in (keep + 1)..(N_CTX - 1)
    BY <1>1, <1>2, <1>5 DEF n
<1>. QED
    BY <1>6, <1>8, <1>9, <1>10, <1>11 DEF left

-----------------------------------------------------------------------------
(* The KV cache.                                                           *)

\* Removing cells leaves some of them.
LEMMA RmSome ==
    ASSUME NEW cells, NEW p0, NEW p1
    PROVE  /\ llama_kv_self_seq_rm(cells, p0, p1) \subseteq cells
           /\ RmFrom(cells, p0) \subseteq cells
    BY DEF llama_kv_self_seq_rm, RmFrom

\* Moving cells down, by no more than the position where they begin, keeps them
\* in the context.
LEMMA AddInContext ==
    ASSUME NEW cells \in SUBSET Cell, NEW p0 \in Nat, NEW p1 \in Int,
           NEW delta \in Int, delta <= 0, p0 + delta >= 0
    PROVE  llama_kv_self_seq_add(cells, p0, p1, delta) \subseteq Cell
<1>1. SUFFICES ASSUME NEW c \in cells, c.pos >= p0, c.pos < p1
               PROVE  [c EXCEPT !.pos = @ + delta] \in Cell
    BY DEF llama_kv_self_seq_add
<1>2. c \in Cell
    OBVIOUS
<1>. QED
    BY <1>1, <1>2, ContextAssumption DEF Cell

\* The cells of tokens that end inside the context.
LEMMA CellsInContext ==
    ASSUME NEW s \in Seq(Token), NEW p \in Nat, p + Len(s) <= N_CTX
    PROVE  CellsFrom(p, s) \subseteq Cell
    BY ContextAssumption DEF CellsFrom, Cell

-----------------------------------------------------------------------------
(* The slot's fields.                                                      *)

\* The server that was chosen.
LEMMA ServerFacts ==
    ASSUME SlotTypeOK
    PROVE  /\ params_base \in ServerShape
           /\ N_PREDICT \in Int /\ AddBos \in {0, 1}
           /\ params_base.n_batch \in Nat /\ params_base.max_tasks \in Nat
           /\ params_base.requests \subseteq RequestShape
           /\ DiscardsFit => \A r \in params_base.requests :
                 Kept(r.n_keep, Len(r.prompt)) + r.n_discard <= N_CTX - 2
    BY ContextAssumption DEF SlotTypeOK, ServerShape, N_PREDICT, AddBos, DiscardsFit

\* process_token changes what it says, and leaves the state and n_past alone.
LEMMA ProcessToken ==
    ASSUME SlotTypeOK, NEW s \in server_slot, NEW tok \in Token, NEW word \in BOOLEAN
    PROVE  /\ process_token(s, tok, word) \in server_slot
           /\ process_token(s, tok, word).state = s.state
           /\ process_token(s, tok, word).n_past = s.n_past
           /\ process_token(s, tok, word).params = s.params
           /\ process_token(s, tok, word).sampled = tok
           /\ process_token(s, tok, word).row = s.row
           /\ process_token(s, tok, word).n_decoded = s.n_decoded
           /\ process_token(s, tok, word).generated = Append(s.generated, tok)
           /\ ~Stops(s, tok, word) =>
                 /\ process_token(s, tok, word).truncated = s.truncated
                 /\ process_token(s, tok, word).stop = s.stop
           /\ process_token(s, tok, word).stop = "limit" /\ s.stop = "none" =>
                 process_token(s, tok, word).truncated \/ OutOfBudget(s, word)
<1>1. N_PREDICT \in Int
    BY ServerFacts
<1>2. Remaining(s) \in Int
    BY <1>1 DEF Remaining, server_slot, RequestShape
<1> DEFINE stop == process_token(s, tok, word).stop
           rem == IF s.n_decoded > 0 /\ ~word /\ ~Limitless(s) THEN Remaining(s) ELSE s.n_remaining
           trunc == s.truncated \/ OutOfContext(s) \/ OutOfTraining(s)
<1>3. rem \in Int
    BY <1>2 DEF server_slot
<1>4. trunc \in BOOLEAN
    BY DEF server_slot, OutOfContext, OutOfTraining
<1>5. Append(s.generated, tok) \in Seq(Token)
    BY DEF server_slot
<1> DEFINE st == CASE OutOfTraining(s) -> "limit"
                   [] ~OutOfTraining(s) /\ tok \in EOG -> "eos"
                   [] ~OutOfTraining(s) /\ tok \notin EOG
                         /\ (OutOfContext(s) \/ OutOfBudget(s, word)) -> "limit"
                   [] OTHER -> IF word THEN "word" ELSE s.stop
<1>6. st \in {"none", "word", "limit", "eos"}
    BY DEF server_slot
<1>7. process_token(s, tok, word) =
        [s EXCEPT !.sampled = tok, !.generated = Append(s.generated, tok),
                  !.n_remaining = rem, !.truncated = trunc, !.stop = st]
    BY DEF process_token
<1>8. ~Stops(s, tok, word) => trunc = s.truncated /\ st = s.stop
    BY DEF Stops, server_slot
<1>9. st = "limit" /\ s.stop = "none" => trunc \/ OutOfBudget(s, word)
    OBVIOUS
<1>. HIDE DEF rem, trunc, st
<1>. QED
    BY <1>3, <1>4, <1>5, <1>6, <1>7, <1>8, <1>9 DEF server_slot

-----------------------------------------------------------------------------
(* Clients' actions.                                                       *)

\* A slot without a task, with a prompt or without, breaks nothing.
LEMMA IdleKeeps ==
    ASSUME CInv, SlotTypeOK', CacheFits', slot'.state = "IDLE",
           phase' \notin {"batch", "reuse", "fill", "drafted"}
    PROVE  CInv'
    BY DEF CInv, KeepFits, PastOK, AtWork

\* release keeps the fields of the slot.
LEMMA Released ==
    ASSUME NEW s \in server_slot, NEW how, release(s, how)
    PROVE  /\ slot' \in server_slot
           /\ slot'.state = "IDLE" /\ slot'.n_past = s.n_past
           /\ outcome' = how
    BY DEF release, server_slot, slot_state

LEMMA CLaunch ==
    ASSUME CInv, NEW r \in params_base.requests, launch_slot_with_task(r)
    PROVE  CInv'
<1>1. SlotTypeOK
    BY DEF CInv
<1>2. /\ r \in RequestShape
      /\ DiscardsFit => Kept(r.n_keep, Len(r.prompt)) + r.n_discard <= N_CTX - 2
    BY <1>1, ServerFacts
<1>3. slot \in server_slot
    BY <1>1 DEF SlotTypeOK
<1>4. LimitedBy(r) \in RequestShape /\ LimitedBy(r).n_keep = r.n_keep
      /\ LimitedBy(r).n_discard = r.n_discard
    <2>1. N_PREDICT \in Int
        BY <1>1, ServerFacts
    <2>. QED
        BY <1>2, <2>1 DEF LimitedBy, RequestShape
<1>5. 0 \in 0..N_CTX /\ <<>> \in Seq(Token)
    BY ContextAssumption
<1>6. reset(slot) \in server_slot /\ reset(slot).n_past = 0 /\ reset(slot).state = slot.state
    BY <1>3, <1>5 DEF reset, server_slot
<1>7. /\ prompt_tokens' = r.prompt /\ prompt_tokens' \in Seq(Token)
      /\ cache_tokens' \in Seq(Token) /\ Len(cache_tokens') <= N_CTX
      /\ n_tasks' \in 0..params_base.max_tasks
      /\ outcome' \in {"none", "rejected"}
      /\ phase = "top" /\ slot.state = "IDLE"
      /\ UNCHANGED <<params_base, kv, batch, draft, head, phase, clean_kv_cache, saved>>
    <2>1. /\ prompt_tokens' = r.prompt /\ r.prompt \in Seq(Token)
          /\ outcome' \in {"none", "rejected"}
          /\ phase = "top" /\ slot.state = "IDLE"
          /\ UNCHANGED <<params_base, kv, batch, draft, head, phase, clean_kv_cache, saved>>
        BY <1>2 DEF launch_slot_with_task, RequestShape, is_processing
    <2>2. cache_tokens' \in Seq(Token) /\ Len(cache_tokens') <= N_CTX
        BY <1>1, <1>5, ContextAssumption DEF launch_slot_with_task, SlotTypeOK, CInv, CacheFits
    <2>3. n_tasks' \in 0..params_base.max_tasks
        BY <1>1, ServerFacts DEF launch_slot_with_task, SlotTypeOK
    <2>. QED
        BY <2>1, <2>2, <2>3
<1>8. CASE slot' = [reset(slot) EXCEPT !.params = r, !.state = "STARTED", !.params = LimitedBy(r)]
    <2>1. slot' \in server_slot /\ slot'.state = "STARTED" /\ slot'.n_past = 0
          /\ slot'.params = LimitedBy(r)
        BY <1>2, <1>4, <1>6, <1>8 DEF server_slot, slot_state
    <2>2. SlotTypeOK'
        BY <1>1, <1>7, <2>1 DEF SlotTypeOK
    <2>3. KeepFits' /\ CacheFits' /\ PastOK'
        BY <1>2, <1>4, <1>7, <2>1 DEF KeepFits, CacheFits, PastOK, CInv, AtWork
    <2>. QED
        BY <2>2, <2>3 DEF CInv
<1>9. CASE slot' = [reset(slot) EXCEPT !.params = r]
    <2>1. slot' \in server_slot /\ slot'.state = "IDLE"
        BY <1>2, <1>6, <1>7, <1>9 DEF server_slot
    <2>2. SlotTypeOK'
        BY <1>1, <1>7, <2>1 DEF SlotTypeOK
    <2>. QED
        BY <1>7, <2>1, <2>2, IdleKeeps DEF CacheFits, CInv
<1>. QED
    BY <1>8, <1>9 DEF launch_slot_with_task

LEMMA CCancel ==
    ASSUME CInv, Cancel
    PROVE  CInv'
<1>1. slot' \in server_slot /\ slot'.state = "IDLE" /\ outcome' = "cancelled"
    BY Released DEF Cancel, CInv, SlotTypeOK
<1>. QED
    BY <1>1, IdleKeeps DEF Cancel, CInv, SlotTypeOK, CacheFits, serverVars

LEMMA CSlotActions ==
    ASSUME CInv, AllIdle \/ SaveSlot \/ RestoreSlot \/ EraseSlot
    PROVE  CInv'
<1>1. /\ phase' = "top" /\ slot' = slot /\ slot.state = "IDLE"
      /\ UNCHANGED <<params_base, prompt_tokens, batch, draft, head, outcome, n_tasks>>
    BY DEF AllIdle, SaveSlot, RestoreSlot, EraseSlot, ActionOnSlot, is_processing, serverVars
<1>2. /\ kv' \subseteq Cell /\ cache_tokens' \in Seq(Token) /\ Len(cache_tokens') <= N_CTX
      /\ saved'.tokens \in Seq(Token) /\ Len(saved'.tokens) <= N_CTX
      /\ saved'.cells \subseteq Cell /\ clean_kv_cache' \in BOOLEAN
    <2>1. <<>> \in Seq(Token) /\ Len(<<>>) <= N_CTX
        BY ContextAssumption
    <2>2. /\ kv \subseteq Cell /\ cache_tokens \in Seq(Token) /\ Len(cache_tokens) <= N_CTX
          /\ saved.tokens \in Seq(Token) /\ Len(saved.tokens) <= N_CTX
          /\ saved.cells \subseteq Cell /\ clean_kv_cache \in BOOLEAN
        BY DEF CInv, SlotTypeOK, CacheFits
    <2>3. CASE AllIdle
        BY <2>2, <2>3 DEF AllIdle
    <2>4. CASE SaveSlot
        BY <2>2, <2>4 DEF SaveSlot
    <2>5. CASE RestoreSlot
        BY <2>1, <2>2, <2>5 DEF RestoreSlot, serverVars
    <2>6. CASE EraseSlot
        BY <2>1, <2>2, <2>6 DEF EraseSlot, serverVars
    <2>. QED
        BY <2>3, <2>4, <2>5, <2>6
<1>. QED
    BY <1>1, <1>2, IdleKeeps DEF CInv, SlotTypeOK, CacheFits

-----------------------------------------------------------------------------
(* update_slots: room in the context, and the sampled token.               *)

\* The slot is released before its batch is made.
LEMMA CEnds ==
    ASSUME CInv, ContextFull \/ EmptyPrompt \/ PromptTooLarge
    PROVE  CInv'
<1>1. slot' \in server_slot /\ slot'.state = "IDLE" /\ outcome' \in {"final", "error"}
    BY Released DEF ContextFull, EmptyPrompt, PromptTooLarge, CInv, SlotTypeOK
<1>2. phase \in {"top", "batch"} /\ (phase = "batch" => slot.state = "STARTED")
      /\ UNCHANGED <<prompt_tokens, cache_tokens, kv, batch, draft, head, phase, serverVars>>
    BY DEF ContextFull, EmptyPrompt, PromptTooLarge, Batching
<1>3. phase = "top"
    BY <1>2 DEF CInv, PastOK
<1>. QED
    BY <1>1, <1>2, <1>3, IdleKeeps DEF CInv, SlotTypeOK, CacheFits, serverVars

\* How many tokens a context shift discards.
Discarded == IF slot.params.n_discard # 0 THEN slot.params.n_discard
             ELSE (slot.n_past - ShiftKeep) \div 2

\* The context is full of a slot that generates.  What it discards is there, behind
\* what it keeps, if requests see to it.
LEMMA FullContext ==
    ASSUME CInv, phase = "top", Full
    PROVE  /\ slot.state = "GENERATING"
           /\ slot.n_past = N_CTX - 1 /\ Len(cache_tokens) = N_CTX - 1
           /\ ShiftKeep \in Nat /\ Discarded \in Nat /\ Discarded > 0
           /\ ShiftKeep <= slot.n_past
           /\ DiscardsFit => ShiftKeep + Discarded <= slot.n_past
<1>1. SlotTypeOK /\ N_CTX \in Nat /\ N_CTX > 4 /\ slot \in server_slot
      /\ slot.n_past \in Nat /\ slot.state \in slot_state
    BY ContextAssumption DEF CInv, SlotTypeOK, server_slot
<1>2. slot.state # "IDLE" /\ slot.n_past + 1 >= N_CTX
    BY DEF Full, is_processing
<1>3. slot.state = "GENERATING"
    <2>1. slot.state # "STARTED" /\ slot.state # "DONE_PROMPT"
        BY <1>1, <1>2 DEF CInv, PastOK
    <2>2. slot.state # "PROCESSING_PROMPT"
        <3>1. Len(prompt_tokens) \in Nat
            BY <1>1 DEF SlotTypeOK
        <3>. QED
            BY <1>1, <1>2, <3>1 DEF CInv, PastOK, Unfinished
    <2>. QED
        BY <1>1, <1>2, <2>1, <2>2 DEF slot_state
<1>4. slot.n_past = N_CTX - 1 /\ Len(cache_tokens) = N_CTX - 1
    BY <1>1, <1>2, <1>3 DEF CInv, PastOK
<1>5. /\ slot.params.n_keep \in 0..(N_CTX - 4) /\ slot.params.n_discard \in Nat
      /\ DiscardsFit => slot.params.n_keep + slot.params.n_discard <= N_CTX - 2
    BY <1>1, <1>3 DEF CInv, KeepFits, AtWork, server_slot, RequestShape
<1>6. AddBos \in {0, 1}
    BY <1>1, ServerFacts
<1>7. ShiftKeep \in Nat /\ slot.n_past - ShiftKeep \in Nat /\ slot.n_past - ShiftKeep >= 2
    BY <1>1, <1>4, <1>5, <1>6 DEF ShiftKeep
<1>8. DiscardsFit => ShiftKeep + slot.params.n_discard <= slot.n_past
    BY <1>1, <1>4, <1>5, <1>6 DEF ShiftKeep
<1>. HIDE DEF ShiftKeep
<1>9. CASE slot.params.n_discard # 0
    BY <1>3, <1>4, <1>5, <1>7, <1>8, <1>9 DEF Discarded
<1>10. CASE slot.params.n_discard = 0
    <2> DEFINE l == slot.n_past - ShiftKeep
    <2>1. Discarded = l \div 2
        BY <1>10 DEF Discarded
    <2>2. l \in Nat /\ l >= 2
        BY <1>7
    <2>3. l + ShiftKeep = slot.n_past
        BY <1>1, <1>7
    <2>. HIDE DEF l
    <2>4. Discarded \in Nat /\ 2 * Discarded <= l /\ l <= 2 * Discarded + 1
        BY <2>1, <2>2, Half
    <2>. QED
        BY <1>3, <1>4, <1>7, <2>2, <2>3, <2>4
<1>. QED
    BY <1>9, <1>10

\* A shifted context is shorter by what is discarded.
LEMMA ShiftedLength ==
    ASSUME NEW s \in Seq(Token), NEW k \in Nat, NEW d \in Nat, k <= Len(s), d <= Len(s)
    PROVE  Shifted(s, k, d) \in Seq(Token) /\ Len(Shifted(s, k, d)) = Len(s) - d
<1> DEFINE h == Smaller(k, Len(s) - d)
           a == SubSeq(s, 1, h)
           z == SubSeq(s, k + d + 1, Len(s))
<1>1. Len(s) \in Nat /\ h \in 0..Len(s)
    BY DEF Smaller
<1>2. a \in Seq(Token) /\ Len(a) = h
    <2>. HIDE DEF h
    <2>. QED
        BY <1>1, Part
<1>3. Shifted(s, k, d) = a \o z
    BY DEF Shifted, keep_first
<1>4. CASE k + d <= Len(s)
    <2>1. k + d + 1 \in 1..(Len(s) + 1) /\ Len(s) \in (k + d + 1 - 1)..Len(s)
        BY <1>1, <1>4
    <2>2. z \in Seq(Token) /\ Len(z) = Len(s) - (k + d + 1) + 1
        BY <2>1, Part
    <2>3. h = k
        BY <1>1, <1>4 DEF Smaller
    <2>. HIDE DEF a, z, h
    <2>4. a \o z \in Seq(Token) /\ Len(a \o z) = Len(a) + Len(z)
        BY <1>2, <2>2, Joined
    <2>. QED
        BY <1>1, <1>2, <1>3, <2>2, <2>3, <2>4
<1>5. CASE ~(k + d <= Len(s))
    <2>1. z = <<>>
        BY <1>1, <1>5
    <2>2. h = Len(s) - d
        BY <1>1, <1>5 DEF Smaller
    <2>. HIDE DEF a, z, h
    <2>3. a \o z = a
        BY <1>2, <2>1
    <2>. QED
        BY <1>2, <1>3, <2>2, <2>3
<1>. QED
    BY <1>4, <1>5

LEMMA CShift ==
    ASSUME CInv, ShiftContext
    PROVE  CInv'
<1> DEFINE k == ShiftKeep
           d == Discarded
<1>1. /\ phase = "top" /\ Full /\ phase' = "batch"
      /\ kv' = llama_kv_self_seq_add(llama_kv_self_seq_rm(kv, k, k + d),
                                     k + d, slot.n_past, -d)
      /\ cache_tokens' = Shifted(cache_tokens, k, d)
      /\ slot' = [slot EXCEPT !.n_past = @ - d, !.truncated = TRUE]
      /\ d <= Len(cache_tokens)
      /\ UNCHANGED <<prompt_tokens, batch, draft, head, outcome, serverVars>>
    BY DEF ShiftContext, Discarded
<1>2. /\ slot.state = "GENERATING"
      /\ slot.n_past = N_CTX - 1 /\ Len(cache_tokens) = N_CTX - 1
      /\ k \in Nat /\ d \in Nat /\ d > 0
      /\ k <= slot.n_past /\ d <= slot.n_past
    BY <1>1, FullContext
<1>. HIDE DEF k, d
<1>3. SlotTypeOK /\ N_CTX \in Nat /\ N_CTX > 4 /\ slot \in server_slot
      /\ cache_tokens \in Seq(Token) /\ kv \subseteq Cell
    BY ContextAssumption DEF CInv, SlotTypeOK
<1>4. slot.n_past - d \in 0..N_CTX /\ slot.n_past - d <= N_CTX - 2
    BY <1>2, <1>3
<1>5. /\ slot' \in server_slot /\ slot'.state = "GENERATING"
      /\ slot'.n_past = slot.n_past - d /\ slot'.params = slot.params
    BY <1>1, <1>2, <1>3, <1>4 DEF server_slot
<1>6. cache_tokens' \in Seq(Token) /\ Len(cache_tokens') = slot.n_past - d
    <2>1. k <= Len(cache_tokens) /\ d <= Len(cache_tokens)
        BY <1>2
    <2>2. Shifted(cache_tokens, k, d) \in Seq(Token)
          /\ Len(Shifted(cache_tokens, k, d)) = Len(cache_tokens) - d
        BY <1>2, <1>3, <2>1, ShiftedLength
    <2>. QED
        BY <1>1, <1>2, <2>2
<1>7. kv' \subseteq Cell
    <2>1. llama_kv_self_seq_rm(kv, k, k + d) \subseteq Cell
        BY <1>3, RmSome
    <2>2. k + d \in Nat /\ slot.n_past \in Int /\ -d \in Int /\ -d <= 0 /\ k + d + (-d) >= 0
        BY <1>2, <1>3
    <2>. QED
        BY <1>1, <2>1, <2>2, AddInContext
<1>8. SlotTypeOK'
    BY <1>1, <1>3, <1>5, <1>6, <1>7 DEF SlotTypeOK, serverVars
<1>9. KeepFits'
    BY <1>1, <1>2, <1>5 DEF CInv, KeepFits, AtWork
<1>10. CacheFits'
    BY <1>1, <1>3, <1>4, <1>6 DEF CInv, CacheFits, serverVars
<1>11. PastOK'
    BY <1>1, <1>3, <1>4, <1>5, <1>6 DEF PastOK
<1>. QED
    BY <1>8, <1>9, <1>10, <1>11 DEF CInv

\* A slot whose batch is being made has room for one more token.
LEMMA RoomForOne ==
    ASSUME CInv, Batching, slot.state = "GENERATING"
    PROVE  slot.n_past + 1 < N_CTX
<1>1. slot.n_past \in Nat /\ N_CTX \in Nat
    BY ContextAssumption DEF CInv, SlotTypeOK, server_slot
<1>. QED
    BY <1>1 DEF CInv, PastOK, Batching, Full, is_processing

LEMMA CBatchSampled ==
    ASSUME CInv, BatchSampled
    PROVE  CInv'
<1>1. SlotTypeOK /\ N_CTX \in Nat /\ slot \in server_slot /\ slot.n_past \in Nat
      /\ slot.state = "GENERATING" /\ slot.sampled \in Token /\ cache_tokens \in Seq(Token)
    BY ContextAssumption DEF CInv, SlotTypeOK, server_slot, BatchSampled
<1>2. slot.n_past + 1 < N_CTX /\ slot.n_past = Len(cache_tokens)
    BY <1>1, RoomForOne DEF BatchSampled, CInv, PastOK
<1>3. /\ slot' \in server_slot /\ slot'.state = "GENERATING"
      /\ slot'.n_past = slot.n_past + 1 /\ slot'.params = slot.params
    <2>1. slot.n_past + 1 \in 0..N_CTX
        BY <1>1, <1>2
    <2>. QED
        BY <1>1, <2>1 DEF BatchSampled, server_slot
<1>4. cache_tokens' \in Seq(Token) /\ Len(cache_tokens') = slot.n_past + 1
    BY <1>1, <1>2 DEF BatchSampled
<1>5. batch' \in Seq(Cell)
    <2>1. [pos |-> slot.n_past, tok |-> slot.sampled] \in Cell
        BY <1>1, <1>2 DEF Cell
    <2>. QED
        BY <2>1 DEF BatchSampled
<1>6. phase' = "decode"
      /\ UNCHANGED <<prompt_tokens, kv, draft, head, outcome, serverVars>>
    BY DEF BatchSampled
<1>7. SlotTypeOK'
    BY <1>1, <1>3, <1>4, <1>5, <1>6 DEF SlotTypeOK, serverVars
<1>8. KeepFits' /\ CacheFits' /\ PastOK'
    BY <1>1, <1>2, <1>3, <1>4, <1>6 DEF KeepFits, CacheFits, PastOK, CInv, AtWork, serverVars
<1>. QED
    BY <1>7, <1>8 DEF CInv

\* The program counter moves on, and nothing else happens.
LEMMA CPasses ==
    ASSUME CInv, NotBatched \/ NoRow \/ SkipSpeculation \/ NextView
    PROVE  CInv'
<1>1. UNCHANGED <<slot, prompt_tokens, cache_tokens, kv, batch, draft, head, outcome, serverVars>>
    BY DEF NotBatched, NoRow, SkipSpeculation, NextView
<1>2. phase' \in {"decode", "speculate", "viewed", "top"}
    BY DEF NotBatched, NoRow, SkipSpeculation, NextView
<1>3. SlotTypeOK' /\ KeepFits' /\ CacheFits'
    BY <1>1, <1>2 DEF CInv, SlotTypeOK, KeepFits, CacheFits, serverVars
<1>4. phase \notin {"reuse", "fill"}
    BY DEF NotBatched, NoRow, SkipSpeculation, NextView, Batching
<1>5. slot.state = "DONE_PROMPT" =>
          phase' \in {"decode", "speculate", "viewed"} /\ batch # <<>> /\ slot.row
    BY DEF CInv, PastOK, NotBatched, NoRow, SkipSpeculation, NextView, HasRow, Batching
<1>6. PastOK'
    BY <1>1, <1>2, <1>4, <1>5 DEF CInv, PastOK, Unfinished
<1>. QED
    BY <1>3, <1>6 DEF CInv

-----------------------------------------------------------------------------
(* update_slots: a new prompt.                                             *)

\* The prompt as StartPrompt leaves it.
StartedPrompt ==
    IF Len(prompt_tokens) >= N_CTX
    THEN Truncate(prompt_tokens, Kept(slot.params.n_keep, Len(prompt_tokens)))
    ELSE prompt_tokens

LEMMA CStartPrompt ==
    ASSUME CInv, StartPrompt
    PROVE  CInv'
<1> DEFINE keep == Kept(slot.params.n_keep, Len(prompt_tokens))
           p == StartedPrompt
           long == Len(prompt_tokens) >= N_CTX
           s == [slot EXCEPT !.state = "PROCESSING_PROMPT", !.params.n_keep = keep,
                             !.truncated = long]
<1>1. SlotTypeOK /\ N_CTX \in Nat /\ slot \in server_slot /\ slot.params \in RequestShape
      /\ prompt_tokens \in Seq(Token) /\ Len(prompt_tokens) \in Nat
      /\ cache_tokens \in Seq(Token) /\ Len(cache_tokens) \in Nat /\ Len(cache_tokens) <= N_CTX
    BY ContextAssumption DEF CInv, SlotTypeOK, server_slot, CacheFits
<1>0. slot.state = "STARTED" /\ prompt_tokens # <<>>
    BY DEF StartPrompt
<1>2. /\ keep \in 0..(N_CTX - 4)
      /\ DiscardsFit => keep + slot.params.n_discard <= N_CTX - 2
    BY <1>0, <1>1, KeptBounds DEF CInv, KeepFits, RequestShape
<1>3. p \in Seq(Token) /\ Len(p) \in 1..(N_CTX - 1)
    <2>1. CASE long
        BY <1>1, <1>2, <2>1, Truncated DEF StartedPrompt
    <2>2. CASE ~long
        <3>1. Len(prompt_tokens) >= 1 /\ Len(prompt_tokens) <= N_CTX - 1
            BY <1>0, <1>1, <2>2
        <3>. QED
            BY <1>1, <2>2, <3>1 DEF StartedPrompt
    <2>. QED
        BY <2>1, <2>2
<1>4. /\ s \in server_slot /\ s.state = "PROCESSING_PROMPT"
      /\ s.params.n_keep = keep /\ s.params.n_discard = slot.params.n_discard
    <2>1. keep \in Int
        BY <1>1, <1>2
    <2>2. long \in BOOLEAN
        OBVIOUS
    <2>. HIDE DEF long, keep
    <2>5. [slot.params EXCEPT !.n_keep = keep] \in RequestShape
        BY <1>1, <2>1 DEF RequestShape
    <2>3. s = [slot EXCEPT !.state = "PROCESSING_PROMPT",
                           !.params = [slot.params EXCEPT !.n_keep = keep], !.truncated = long]
        BY <1>1 DEF server_slot
    <2>4. /\ [slot.params EXCEPT !.n_keep = keep].n_keep = keep
          /\ [slot.params EXCEPT !.n_keep = keep].n_discard = slot.params.n_discard
        BY <1>1 DEF RequestShape
    <2>. QED
        BY <1>1, <2>2, <2>3, <2>4, <2>5 DEF server_slot, slot_state
<1>5. /\ prompt_tokens' = p /\ phase' = "reuse"
      /\ UNCHANGED <<batch, draft, outcome, serverVars>>
    BY DEF StartPrompt, StartedPrompt
<1>6. \E n \in Nat :
         /\ n <= Len(p) /\ n <= Len(cache_tokens') /\ slot' = [s EXCEPT !.n_past = n]
         /\ head' = [c |-> n, p |-> n]
         /\ cache_tokens' \in {cache_tokens, <<>>} /\ kv' \in {kv, {}}
    <2>1. CASE slot.params.cache_prompt
        <3>1. PICK n \in 0..Len(cache_tokens) :
                 /\ get_common_prefix(cache_tokens, p, n)
                 /\ slot' = [s EXCEPT !.n_past = n]
                 /\ head' = [c |-> n, p |-> n]
            BY <2>1 DEF StartPrompt, StartedPrompt
        <3>2. n <= Len(p) /\ n \in Nat /\ n <= Len(cache_tokens)
            BY <1>1, <1>3, <3>1 DEF get_common_prefix, Matching
        <3>3. UNCHANGED <<cache_tokens, kv>>
            BY <2>1 DEF StartPrompt
        <3>. HIDE DEF p, s
        <3>. QED
            BY <3>1, <3>2, <3>3
    <2>2. CASE ~slot.params.cache_prompt
        <3>1. /\ slot' = [s EXCEPT !.n_past = 0] /\ head' = [c |-> 0, p |-> 0]
              /\ cache_tokens' = <<>> /\ kv' = {}
            BY <2>2 DEF StartPrompt
        <3>2. 0 <= Len(p) /\ 0 <= Len(<<>>)
            BY <1>3
        <3>. HIDE DEF p, s
        <3>. QED
            BY <3>1, <3>2
    <2>. QED
        BY <2>1, <2>2
<1>. HIDE DEF keep, p, s, long
<1>7. PICK n \in Nat :
         /\ n <= Len(p) /\ n <= Len(cache_tokens') /\ slot' = [s EXCEPT !.n_past = n]
         /\ head' = [c |-> n, p |-> n]
         /\ cache_tokens' \in {cache_tokens, <<>>} /\ kv' \in {kv, {}}
    BY <1>6
<1>8. n \in 0..N_CTX
    BY <1>1, <1>3, <1>7
<1>9. /\ slot' \in server_slot /\ slot'.state = "PROCESSING_PROMPT" /\ slot'.n_past = n
      /\ slot'.params = s.params
    BY <1>4, <1>7, <1>8 DEF server_slot
<1>10. /\ cache_tokens' \in Seq(Token) /\ Len(cache_tokens') <= N_CTX
       /\ head' \in [c : 0..N_CTX, p : 0..N_CTX] /\ head'.c = n /\ head'.p = n
    <2>1. <<>> \in Seq(Token) /\ Len(<<>>) <= N_CTX
        BY <1>1
    <2>2. cache_tokens' \in Seq(Token) /\ Len(cache_tokens') <= N_CTX
        BY <1>1, <1>7, <2>1
    <2>. QED
        BY <1>7, <1>8, <2>2
<1>11. SlotTypeOK'
    BY <1>1, <1>3, <1>5, <1>7, <1>9, <1>10 DEF SlotTypeOK, serverVars
<1>12. KeepFits'
    BY <1>2, <1>4, <1>9 DEF KeepFits, AtWork
<1>13. CacheFits'
    BY <1>5, <1>10 DEF CInv, CacheFits, serverVars
<1>14. PastOK'
    BY <1>3, <1>5, <1>7, <1>9, <1>10 DEF PastOK, Reusing
<1>. QED
    BY <1>11, <1>12, <1>13, <1>14 DEF CInv

LEMMA CReuseChunk ==
    ASSUME CInv, ReuseChunk
    PROVE  CInv'
<1>1. SlotTypeOK /\ N_CTX \in Nat /\ slot \in server_slot /\ kv \subseteq Cell
      /\ prompt_tokens \in Seq(Token) /\ Len(prompt_tokens) \in Nat
      /\ cache_tokens \in Seq(Token) /\ Len(cache_tokens) \in Nat /\ Len(cache_tokens) <= N_CTX
      /\ head \in [c : 0..N_CTX, p : 0..N_CTX]
    BY ContextAssumption DEF CInv, SlotTypeOK, CacheFits
<1>2. phase = "reuse" /\ Reusing /\ CanReuse
    BY DEF ReuseChunk, CInv, PastOK
<1>3. PICK n \in 1..Len(cache_tokens) :
          /\ Matching(cache_tokens, head.c, prompt_tokens, head.p, n)
          /\ kv' = ChunkMoved(n)
          /\ cache_tokens' = [i \in DOMAIN cache_tokens |->
                                 IF i > head.p /\ i <= head.p + n
                                 THEN cache_tokens[i - head.p + head.c]
                                 ELSE cache_tokens[i]]
          /\ slot' = [slot EXCEPT !.n_past = @ + n]
          /\ head' = [c |-> head.c + n, p |-> head.p + n]
    BY DEF ReuseChunk
<1>4. /\ phase' = "reuse"
      /\ UNCHANGED <<prompt_tokens, batch, draft, outcome, serverVars>>
    BY <1>2 DEF ReuseChunk
<1>5. /\ head.c \in Nat /\ head.p \in Nat /\ head.p <= head.c /\ slot.n_past = head.p
      /\ head.c + n <= Len(cache_tokens) /\ head.p + n <= Len(prompt_tokens)
      /\ Len(prompt_tokens) <= N_CTX
    BY <1>1, <1>2, <1>3 DEF Reusing, Matching
<1>6. cache_tokens' \in Seq(Token) /\ Len(cache_tokens') = Len(cache_tokens)
    <2>1. \A i \in 1..Len(cache_tokens) :
             i > head.p /\ i <= head.p + n => i - head.p + head.c \in 1..Len(cache_tokens)
        BY <1>1, <1>5
    <2>2. DOMAIN cache_tokens = 1..Len(cache_tokens)
        BY <1>1
    <2>3. cache_tokens' \in [1..Len(cache_tokens) -> Token]
        BY <1>1, <1>3, <2>1, <2>2
    <2>. QED
        BY <1>1, <2>3, IsSequence
<1>7. kv' \subseteq Cell
    <2>1. llama_kv_self_seq_rm(kv, head.p, head.c) \subseteq Cell
        BY <1>1, RmSome
    <2>2. /\ head.c + n \in Int /\ head.p - head.c \in Int /\ head.p - head.c <= 0
          /\ head.c + (head.p - head.c) >= 0
        BY <1>1, <1>5
    <2>. QED
        BY <1>3, <1>5, <2>1, <2>2, AddInContext DEF ChunkMoved
<1>8. head.p + n \in 0..N_CTX /\ head.c + n \in 0..N_CTX
    BY <1>1, <1>5
<1>9. /\ slot' \in server_slot /\ slot'.state = slot.state
      /\ slot'.n_past = head.p + n /\ slot'.params = slot.params
    BY <1>1, <1>3, <1>5, <1>8 DEF server_slot
<1>10. head' \in [c : 0..N_CTX, p : 0..N_CTX] /\ head'.c = head.c + n /\ head'.p = head.p + n
    BY <1>3, <1>8
<1>11. SlotTypeOK'
    BY <1>1, <1>4, <1>6, <1>7, <1>9, <1>10 DEF SlotTypeOK, serverVars
<1>12. KeepFits' /\ CacheFits'
    BY <1>4, <1>6, <1>9 DEF CInv, KeepFits, CacheFits, serverVars
<1>13. Reusing'
    BY <1>1, <1>2, <1>4, <1>5, <1>6, <1>9, <1>10 DEF Reusing
<1>14. PastOK'
    BY <1>4, <1>13 DEF PastOK, Reusing
<1>. QED
    BY <1>11, <1>12, <1>14 DEF CInv

LEMMA CSkipCached ==
    ASSUME CInv, SkipCached
    PROVE  CInv'
<1>1. SlotTypeOK /\ N_CTX \in Nat /\ Len(cache_tokens) \in Nat /\ Len(cache_tokens) <= N_CTX
      /\ head \in [c : 0..N_CTX, p : 0..N_CTX]
    BY ContextAssumption DEF CInv, SlotTypeOK, CacheFits
<1>2. phase = "reuse" /\ Reusing /\ head.c < Len(cache_tokens)
    BY DEF SkipCached, CInv, PastOK, CanReuse
<1>3. /\ phase' = "reuse"
      /\ UNCHANGED <<slot, prompt_tokens, cache_tokens, kv, batch, draft, outcome, serverVars>>
      /\ head' = [head EXCEPT !.c = @ + 1]
    BY <1>2 DEF SkipCached
<1>4. head' \in [c : 0..N_CTX, p : 0..N_CTX] /\ head'.c = head.c + 1 /\ head'.p = head.p
    BY <1>1, <1>2, <1>3
<1>5. SlotTypeOK' /\ KeepFits' /\ CacheFits'
    BY <1>3, <1>4 DEF CInv, SlotTypeOK, KeepFits, CacheFits, serverVars
<1>6. Reusing'
    BY <1>1, <1>2, <1>3, <1>4 DEF Reusing
<1>7. PastOK'
    BY <1>3, <1>6 DEF PastOK, Reusing
<1>. QED
    BY <1>5, <1>7 DEF CInv

LEMMA CReuseDone ==
    ASSUME CInv, ReuseDone
    PROVE  CInv'
<1>1. SlotTypeOK /\ N_CTX \in Nat /\ slot \in server_slot /\ slot.n_past \in 0..N_CTX
      /\ Len(prompt_tokens) \in Nat /\ Len(cache_tokens) \in Nat
      /\ head \in [c : 0..N_CTX, p : 0..N_CTX]
    BY ContextAssumption DEF CInv, SlotTypeOK, server_slot
<1>2. Reusing
    BY DEF ReuseDone, CInv, PastOK
<1> DEFINE n == IF slot.n_past = Len(prompt_tokens) /\ slot.n_past > 0
                THEN slot.n_past - 1 ELSE slot.n_past
<1>3. n \in 0..N_CTX /\ n < Len(prompt_tokens) /\ n <= Len(cache_tokens)
    BY <1>1, <1>2 DEF Reusing
<1>4. /\ slot' = [slot EXCEPT !.n_past = n] /\ phase' = "fill"
      /\ UNCHANGED <<prompt_tokens, cache_tokens, kv, batch, draft, head, outcome, serverVars>>
    BY DEF ReuseDone
<1>. HIDE DEF n
<1>5. /\ slot' \in server_slot /\ slot'.state = "PROCESSING_PROMPT" /\ slot'.n_past = n
      /\ slot'.params = slot.params
    BY <1>1, <1>2, <1>3, <1>4 DEF server_slot, Reusing
<1>6. SlotTypeOK'
    BY <1>1, <1>4, <1>5 DEF SlotTypeOK, serverVars
<1>7. KeepFits' /\ CacheFits'
    BY <1>2, <1>4, <1>5 DEF CInv, KeepFits, CacheFits, serverVars, Reusing
<1>8. Len(prompt_tokens) < N_CTX
    BY <1>1, <1>2 DEF Reusing
<1>9. PastOK'
    BY <1>3, <1>4, <1>5, <1>8 DEF PastOK, Unfinished
<1>. QED
    BY <1>6, <1>7, <1>9 DEF CInv

\* What a slot with a prompt has when its batch is filled.
LEMMA Filling ==
    ASSUME CInv, FillBatch
    PROVE  /\ slot.state = "PROCESSING_PROMPT" /\ phase # "reuse"
           /\ Len(prompt_tokens) < N_CTX
           /\ CommonPart \in Nat /\ CommonPart <= slot.n_past
           /\ CommonPart <= Len(cache_tokens) /\ CommonPart < Len(prompt_tokens)
<1>1. slot.n_past \in Nat /\ Len(prompt_tokens) \in Nat /\ Len(cache_tokens) \in Nat
    BY ContextAssumption DEF CInv, SlotTypeOK, server_slot
<1>2. phase = "fill" \/ (Batching /\ slot.state = "PROCESSING_PROMPT")
    BY DEF FillBatch
<1>3. /\ slot.state = "PROCESSING_PROMPT" /\ phase # "reuse"
      /\ Unfinished /\ slot.n_past <= Len(cache_tokens)
    BY <1>1, <1>2 DEF CInv, PastOK, Batching
<1>. QED
    BY <1>1, <1>3 DEF CommonPart, Unfinished

\* FillBatch evaluates the n tokens of the prompt behind the common part.
Filled(n) ==
    LET base == CommonPart
        new == SubSeq(prompt_tokens, base + 1, base + n)
        s == [slot EXCEPT !.n_past = base + n]
    IN  /\ cache_tokens' = keep_first(cache_tokens, base) \o new
        /\ batch' = [i \in DOMAIN new |-> [pos |-> base + i - 1, tok |-> new[i]]]
        /\ slot' = IF s.n_past = Len(prompt_tokens)
                   THEN [s EXCEPT !.state = "DONE_PROMPT", !.n_decoded = 0, !.row = TRUE]
                   ELSE s

LEMMA FillsSome ==
    ASSUME CInv, FillBatch
    PROVE  \E n \in 0..(Len(prompt_tokens) - CommonPart) : Filled(n)
<1> DEFINE base == CommonPart
           Rooms == IF OtherSlots THEN 0..params_base.n_batch ELSE {params_base.n_batch}
<1>1. base \in Nat /\ base < Len(prompt_tokens) /\ Len(prompt_tokens) \in Nat
    BY Filling DEF CInv, SlotTypeOK
<1>2. params_base.n_batch \in Nat
    BY ServerFacts DEF CInv
<1>3. PICK room \in Rooms : Filled(Smaller(room, Len(prompt_tokens) - base))
    BY DEF FillBatch, Filled
<1>4. room \in Nat
    BY <1>2, <1>3
<1>5. Smaller(room, Len(prompt_tokens) - base) \in 0..(Len(prompt_tokens) - base)
    BY <1>1, <1>4 DEF Smaller
<1>. QED
    BY <1>3, <1>5

\* What is batched, and what the slot becomes.
LEMMA FilledFacts ==
    ASSUME CInv, FillBatch, NEW n \in 0..(Len(prompt_tokens) - CommonPart), Filled(n)
    PROVE  /\ cache_tokens' \in Seq(Token) /\ Len(cache_tokens') = CommonPart + n
           /\ \A i \in 1..CommonPart : cache_tokens'[i] = cache_tokens[i]
           /\ \A i \in 1..n : cache_tokens'[CommonPart + i] = prompt_tokens[CommonPart + i]
           /\ batch' \in Seq(Cell) /\ Len(batch') = n
           /\ \A i \in 1..n : batch'[i] = [pos |-> CommonPart + i - 1,
                                           tok |-> prompt_tokens[CommonPart + i]]
           /\ slot' \in server_slot /\ slot'.n_past = CommonPart + n
           /\ slot'.params = slot.params /\ slot'.generated = slot.generated
           /\ slot'.truncated = slot.truncated
           /\ CommonPart + n < Len(prompt_tokens) => slot'.state = "PROCESSING_PROMPT"
           /\ CommonPart + n = Len(prompt_tokens) => slot'.state = "DONE_PROMPT" /\ slot'.row
<1> DEFINE base == CommonPart
           new == SubSeq(prompt_tokens, base + 1, base + n)
           old == SubSeq(cache_tokens, 1, base)
           s == [slot EXCEPT !.n_past = base + n]
<1>1. /\ slot.state = "PROCESSING_PROMPT" /\ Len(prompt_tokens) < N_CTX
      /\ base \in Nat /\ base <= Len(cache_tokens) /\ base < Len(prompt_tokens)
    BY Filling
<1>2. N_CTX \in Nat /\ slot \in server_slot
      /\ cache_tokens \in Seq(Token) /\ Len(cache_tokens) \in Nat
      /\ prompt_tokens \in Seq(Token) /\ Len(prompt_tokens) \in Nat
    BY ContextAssumption DEF CInv, SlotTypeOK
<1>3. /\ cache_tokens' = old \o new
      /\ batch' = [i \in DOMAIN new |-> [pos |-> base + i - 1, tok |-> new[i]]]
      /\ slot' = IF s.n_past = Len(prompt_tokens)
                 THEN [s EXCEPT !.state = "DONE_PROMPT", !.n_decoded = 0, !.row = TRUE]
                 ELSE s
    BY DEF Filled, keep_first
<1>. HIDE DEF base
<1>4. n \in Nat /\ base + n <= Len(prompt_tokens) /\ base + n < N_CTX
    BY <1>1, <1>2 DEF base
<1>5. /\ new \in Seq(Token) /\ Len(new) = n
      /\ \A i \in 1..n : new[i] = prompt_tokens[base + i]
    <2>1. base + 1 \in 1..(Len(prompt_tokens) + 1)
          /\ base + n \in (base + 1 - 1)..Len(prompt_tokens)
        BY <1>1, <1>2, <1>4
    <2>. QED
        BY <1>1, <1>2, <1>4, <2>1, Part
<1>6. /\ old \in Seq(Token) /\ Len(old) = base
      /\ \A i \in 1..base : old[i] = cache_tokens[i]
    <2>1. base \in (1 - 1)..Len(cache_tokens)
        BY <1>1, <1>2
    <2>. QED
        BY <1>1, <1>2, <2>1, Part
<1>. HIDE DEF new, old
<1>7. /\ old \o new \in Seq(Token) /\ Len(old \o new) = base + n
      /\ \A i \in 1..base : (old \o new)[i] = cache_tokens[i]
      /\ \A i \in 1..n : (old \o new)[base + i] = prompt_tokens[base + i]
    <2>1. /\ old \o new \in Seq(Token) /\ Len(old \o new) = Len(old) + Len(new)
          /\ \A i \in 1..Len(old) : (old \o new)[i] = old[i]
          /\ \A i \in 1..Len(new) : (old \o new)[Len(old) + i] = new[i]
        <3>1. old \in Seq(Token) /\ new \in Seq(Token)
            BY <1>5, <1>6
        <3>. QED
            BY <3>1, Joined
    <2>. QED
        BY <1>5, <1>6, <2>1
<1>8. /\ batch' \in Seq(Cell) /\ Len(batch') = n
      /\ \A i \in 1..n : batch'[i] = [pos |-> base + i - 1, tok |-> prompt_tokens[base + i]]
    <2>1. DOMAIN new = 1..n
        BY <1>4, <1>5
    <2>2. \A i \in 1..n : [pos |-> base + i - 1, tok |-> new[i]] \in Cell
        BY <1>1, <1>2, <1>4, <1>5 DEF Cell
    <2>3. batch' \in [1..n -> Cell]
        BY <1>3, <2>1, <2>2
    <2>4. \A i \in 1..n : batch'[i] = [pos |-> base + i - 1, tok |-> prompt_tokens[base + i]]
        BY <1>3, <1>5, <2>1
    <2>. QED
        BY <1>4, <2>3, <2>4, IsSequence
<1>9. /\ slot' \in server_slot /\ slot'.n_past = base + n
      /\ slot'.params = slot.params /\ slot'.generated = slot.generated
      /\ slot'.truncated = slot.truncated
      /\ base + n < Len(prompt_tokens) => slot'.state = "PROCESSING_PROMPT"
      /\ base + n = Len(prompt_tokens) => slot'.state = "DONE_PROMPT" /\ slot'.row
    <2>1. base + n \in 0..N_CTX
        BY <1>1, <1>2, <1>4
    <2>2. s \in server_slot /\ s.n_past = base + n /\ s.state = "PROCESSING_PROMPT"
          /\ s.params = slot.params /\ s.generated = slot.generated
          /\ s.truncated = slot.truncated
        BY <1>1, <1>2, <2>1 DEF server_slot
    <2>. HIDE DEF s
    <2>3. CASE base + n = Len(prompt_tokens)
        <3>1. slot' = [s EXCEPT !.state = "DONE_PROMPT", !.n_decoded = 0, !.row = TRUE]
            BY <1>3, <2>2, <2>3
        <3>2. /\ slot' \in server_slot /\ slot'.n_past = s.n_past /\ slot'.params = s.params
              /\ slot'.generated = s.generated /\ slot'.truncated = s.truncated
              /\ slot'.state = "DONE_PROMPT" /\ slot'.row
            BY <2>2, <3>1 DEF server_slot, slot_state
        <3>. QED
            BY <1>2, <2>1, <2>2, <2>3, <3>2
    <2>4. CASE base + n # Len(prompt_tokens)
        <3>1. slot' = s
            BY <1>3, <2>2, <2>4
        <3>. QED
            BY <2>2, <2>4, <3>1
    <2>. QED
        BY <2>3, <2>4
<1>. QED
    BY <1>3, <1>7, <1>8, <1>9 DEF base

LEMMA CFillBatch ==
    ASSUME CInv, FillBatch
    PROVE  CInv'
<1> DEFINE base == CommonPart
<1>1. PICK n \in 0..(Len(prompt_tokens) - base) : Filled(n)
    BY FillsSome
<1>2. /\ cache_tokens' \in Seq(Token) /\ Len(cache_tokens') = base + n
      /\ batch' \in Seq(Cell) /\ Len(batch') = n
      /\ slot' \in server_slot /\ slot'.n_past = base + n /\ slot'.params = slot.params
      /\ base + n < Len(prompt_tokens) => slot'.state = "PROCESSING_PROMPT"
      /\ base + n = Len(prompt_tokens) => slot'.state = "DONE_PROMPT" /\ slot'.row
    BY <1>1, FilledFacts
<1>3. /\ slot.state = "PROCESSING_PROMPT" /\ Len(prompt_tokens) < N_CTX
      /\ base \in Nat /\ base < Len(prompt_tokens) /\ Len(prompt_tokens) \in Nat
      /\ N_CTX \in Nat
    BY Filling, ContextAssumption DEF CInv, SlotTypeOK
<1>. HIDE DEF base
<1>4. n \in Nat /\ base + n <= Len(prompt_tokens)
    BY <1>3
<1>5. phase' = "decode" /\ UNCHANGED <<prompt_tokens, draft, head, outcome, serverVars>>
      /\ kv' \subseteq kv
    BY RmSome DEF FillBatch
<1>6. SlotTypeOK'
    BY <1>2, <1>5 DEF CInv, SlotTypeOK, serverVars
<1>7. KeepFits' /\ CacheFits'
    BY <1>2, <1>3, <1>4, <1>5 DEF CInv, KeepFits, CacheFits, AtWork, serverVars
<1>8. CASE base + n < Len(prompt_tokens)
    <2>1. PastOK'
        BY <1>2, <1>3, <1>4, <1>5, <1>8 DEF PastOK, Unfinished
    <2>. QED
        BY <1>6, <1>7, <2>1 DEF CInv
<1>9. CASE base + n = Len(prompt_tokens)
    <2>1. n # 0 /\ batch' # <<>>
        BY <1>2, <1>3, <1>9
    <2>2. PastOK'
        BY <1>2, <1>3, <1>4, <1>5, <1>9, <2>1 DEF PastOK
    <2>. QED
        BY <1>6, <1>7, <2>2 DEF CInv
<1>. QED
    BY <1>3, <1>4, <1>8, <1>9

-----------------------------------------------------------------------------
(* update_slots: decoding, sampling and drafts.                            *)

LEMMA CDecodeView ==
    ASSUME CInv, DecodeView
    PROVE  CInv'
<1>1. /\ phase = "decode" /\ phase' = "results"
      /\ UNCHANGED <<slot, prompt_tokens, cache_tokens, draft, head, outcome, serverVars>>
    BY DEF DecodeView
<1>2. batch \in Seq(Cell) /\ kv \subseteq Cell /\ SlotTypeOK
    BY DEF CInv, SlotTypeOK
<1>3. PICK k \in 0..Len(batch) : /\ kv' = kv \cup {batch[i] : i \in 1..k}
                                 /\ batch' = SubSeq(batch, k + 1, Len(batch))
    BY DEF DecodeView
<1>4. batch' \in Seq(Cell)
    BY <1>2, <1>3, Part
<1>5. kv' \subseteq Cell
    <2>1. \A i \in 1..k : batch[i] \in Cell
        BY <1>2, <1>3
    <2>. QED
        BY <1>2, <1>3, <2>1
<1>6. SlotTypeOK' /\ KeepFits' /\ CacheFits'
    BY <1>1, <1>2, <1>4, <1>5 DEF CInv, SlotTypeOK, KeepFits, CacheFits, serverVars
<1>7. PastOK'
    BY <1>1 DEF CInv, PastOK, Unfinished
<1>. QED
    BY <1>6, <1>7 DEF CInv

LEMMA CDecodeFails ==
    ASSUME CInv, DecodeFails
    PROVE  CInv'
<1>1. slot' \in server_slot /\ slot'.state = "IDLE" /\ outcome' \in {outcome, "error"}
    BY Released DEF DecodeFails, CInv, SlotTypeOK, is_processing
<1>2. /\ phase' = "top" /\ batch' = <<>>
      /\ UNCHANGED <<prompt_tokens, cache_tokens, kv, draft, head, serverVars>>
    BY DEF DecodeFails
<1>3. SlotTypeOK' /\ CacheFits'
    BY <1>1, <1>2 DEF CInv, SlotTypeOK, CacheFits, serverVars
<1>. QED
    BY <1>1, <1>2, <1>3, IdleKeeps

\* The slot goes on, or is released.
LEMMA GoesOn ==
    ASSUME NEW s \in server_slot, NEW ends, GoOnOrEnd(s, ends)
    PROVE  /\ slot' \in server_slot
           /\ slot'.n_past = s.n_past /\ slot'.params = s.params
           /\ slot'.sampled = s.sampled /\ slot'.generated = s.generated
           /\ slot'.truncated = s.truncated /\ slot'.row = s.row
           /\ slot'.n_decoded = s.n_decoded /\ slot'.stop = s.stop
           /\ slot'.state \in {"IDLE", "GENERATING"}
           /\ slot'.state = "GENERATING" => ~ends
           /\ outcome' \in {"final", outcome}
<1>1. CASE ends
    BY <1>1 DEF GoOnOrEnd, release, server_slot, slot_state
<1>2. CASE ~ends
    BY <1>2 DEF GoOnOrEnd, server_slot, slot_state
<1>. QED
    BY <1>1, <1>2

LEMMA CSample ==
    ASSUME CInv, Sample
    PROVE  CInv'
<1> DEFINE s == [slot EXCEPT !.row = FALSE, !.n_decoded = @ + 1]
<1>1. /\ phase = "results" /\ phase' = "speculate" /\ HasRow
      /\ UNCHANGED <<prompt_tokens, cache_tokens, kv, batch, draft, head, serverVars>>
    BY DEF Sample
<1>2. SlotTypeOK /\ slot \in server_slot /\ slot.n_past \in 0..N_CTX /\ N_CTX \in Nat
      /\ slot.state \in {"DONE_PROMPT", "GENERATING"} /\ slot.n_past = Len(cache_tokens)
    BY <1>1, ContextAssumption DEF CInv, SlotTypeOK, PastOK, HasRow, server_slot
<1>3. s \in server_slot /\ s.n_past = slot.n_past /\ s.params = slot.params
    <2>1. slot.n_decoded + 1 \in Nat
        BY <1>2 DEF server_slot
    <2>2. s = [slot EXCEPT !.row = FALSE, !.n_decoded = slot.n_decoded + 1]
        BY <1>2 DEF server_slot
    <2>. HIDE DEF s
    <2>. QED
        BY <1>2, <2>1, <2>2 DEF server_slot
<1>4. PICK tok \in Token, word \in BOOLEAN :
          GoOnOrEnd(process_token(s, tok, word), Stops(s, tok, word))
    BY DEF Sample
<1>. HIDE DEF s
<1>5. /\ process_token(s, tok, word) \in server_slot
      /\ process_token(s, tok, word).n_past = slot.n_past
      /\ process_token(s, tok, word).params = slot.params
    BY <1>2, <1>3, ProcessToken
<1>6. /\ slot' \in server_slot /\ slot'.n_past = slot.n_past /\ slot'.params = slot.params
      /\ slot'.state \in {"IDLE", "GENERATING"}
      /\ slot'.state = "GENERATING" => ~Stops(s, tok, word)
      /\ outcome' \in {"final", outcome}
    BY <1>4, <1>5, GoesOn
<1>7. slot'.state = "GENERATING" => slot.n_past < N_CTX
    BY <1>2, <1>3, <1>6 DEF Stops, OutOfContext
<1>8. SlotTypeOK'
    BY <1>1, <1>2, <1>6 DEF SlotTypeOK, serverVars
<1>9. KeepFits' /\ CacheFits'
    BY <1>1, <1>2, <1>6 DEF CInv, KeepFits, CacheFits, AtWork, serverVars
<1>10. PastOK'
    BY <1>1, <1>2, <1>6, <1>7 DEF PastOK
<1>. QED
    BY <1>8, <1>9, <1>10 DEF CInv

\* A draft, with the token it follows, fits the context.
LEMMA DraftFits ==
    ASSUME SlotTypeOK, WillDraft, NEW d \in DraftSizes
    PROVE  d \in Nat /\ slot.n_past + d < N_CTX
<1>1. /\ slot.params.n_max \in Nat /\ slot.params.n_min \in Nat /\ slot.n_past \in Nat
      /\ slot.n_remaining \in Int /\ N_CTX \in Nat
    <2>1. slot \in server_slot
        BY DEF SlotTypeOK
    <2>2. slot.params \in RequestShape /\ slot.n_past \in 0..N_CTX /\ slot.n_remaining \in Int
        BY <2>1 DEF server_slot
    <2>. QED
        BY <2>2, ContextAssumption DEF RequestShape
<1> DEFINE fits == Smaller(slot.params.n_max, N_CTX - slot.n_past - 2)
<1>2. fits \in Int /\ fits <= N_CTX - slot.n_past - 2
    BY <1>1 DEF Smaller
<1>3. n_draft_max \in Int /\ n_draft_max <= fits
    <2>1. n_draft_max = IF slot.n_remaining > 0 THEN Smaller(fits, slot.n_remaining - 1) ELSE fits
        BY DEF n_draft_max
    <2>. HIDE DEF fits
    <2>. QED
        BY <1>1, <1>2, <2>1 DEF Smaller
<1>. HIDE DEF fits
<1>4. n_draft_max >= 0
    BY <1>1, <1>3 DEF WillDraft
<1>. QED
    BY <1>1, <1>2, <1>3, <1>4 DEF DraftSizes

LEMMA CDecodeDraft ==
    ASSUME CInv, DecodeDraft
    PROVE  CInv'
<1>1. /\ phase = "speculate" /\ WillDraft /\ phase' = "drafted"
      /\ kv' = kv \cup CellsFrom(slot.n_past, <<slot.sampled>> \o draft')
      /\ UNCHANGED <<slot, prompt_tokens, cache_tokens, batch, head, outcome, serverVars>>
    BY DEF DecodeDraft
<1>2. SlotTypeOK /\ slot.n_past \in Nat /\ slot.sampled \in Token /\ kv \subseteq Cell
      /\ N_CTX \in Nat /\ slot.state = "GENERATING"
    BY <1>1, ContextAssumption DEF CInv, SlotTypeOK, server_slot, WillDraft
<1>3. PICK d \in DraftSizes : draft' \in [1..d -> Token]
    BY DEF DecodeDraft
<1>4. d \in Nat /\ slot.n_past + d < N_CTX
    BY <1>1, <1>2, DraftFits
<1>5. draft' \in Seq(Token) /\ Len(draft') = d
    BY <1>3, <1>4, IsSequence
<1>6. kv' \subseteq Cell
    <2>1. <<slot.sampled>> \in Seq(Token) /\ Len(<<slot.sampled>>) = 1
        BY <1>2
    <2>2. /\ <<slot.sampled>> \o draft' \in Seq(Token)
          /\ Len(<<slot.sampled>> \o draft') = Len(<<slot.sampled>>) + Len(draft')
        BY <1>5, <2>1, Joined
    <2>3. slot.n_past + Len(<<slot.sampled>> \o draft') <= N_CTX
        BY <1>2, <1>4, <1>5, <2>1, <2>2
    <2>4. CellsFrom(slot.n_past, <<slot.sampled>> \o draft') \subseteq Cell
        BY <1>2, <2>2, <2>3, CellsInContext
    <2>. QED
        BY <1>1, <1>2, <2>4
<1>7. SlotTypeOK' /\ KeepFits' /\ CacheFits'
    BY <1>1, <1>2, <1>5, <1>6 DEF CInv, SlotTypeOK, KeepFits, CacheFits, serverVars
<1>8. PastOK'
    BY <1>1, <1>2, <1>4, <1>5 DEF CInv, PastOK
<1>. QED
    BY <1>7, <1>8 DEF CInv

\* The accepted tokens: as many as were sampled, the first the one sampled before.
LEMMA AcceptedTokens ==
    ASSUME NEW m \in Nat \ {0}, NEW ids \in [1..m -> Token], slot.sampled \in Token
    PROVE  /\ ids \in Seq(Token) /\ Len(ids) = m
           /\ Accepted(ids) \in Seq(Token) /\ Len(Accepted(ids)) = m
           /\ Accepted(ids)[1] = slot.sampled
           /\ \A i \in 1..(m - 1) : Accepted(ids)[i + 1] = ids[i]
<1> DEFINE a == <<slot.sampled>>
           z == SubSeq(ids, 1, m - 1)
<1>1. ids \in Seq(Token) /\ Len(ids) = m
    BY IsSequence
<1>2. z \in Seq(Token) /\ Len(z) = m - 1 /\ \A i \in 1..(m - 1) : z[i] = ids[i]
    BY <1>1, Part
<1>3. a \in Seq(Token) /\ Len(a) = 1 /\ a[1] = slot.sampled
    OBVIOUS
<1>4. Accepted(ids) = a \o z
    BY <1>1 DEF Accepted
<1>. HIDE DEF a, z
<1>5. a \in Seq(Token) /\ z \in Seq(Token)
    BY <1>2, <1>3
<1>6. /\ a \o z \in Seq(Token) /\ Len(a \o z) = Len(a) + Len(z)
      /\ \A i \in 1..Len(a) : (a \o z)[i] = a[i]
      /\ \A i \in 1..Len(z) : (a \o z)[Len(a) + i] = z[i]
    BY <1>5, Joined
<1>. QED
    BY <1>1, <1>2, <1>3, <1>4, <1>6

\* The response with the first i of the tokens sampled for a draft.
Lengthen(g, ids, i) == Append(g \o SubSeq(ids, 1, i - 1), ids[i])

LEMMA Lengthened ==
    ASSUME NEW g \in Seq(Token), NEW m \in Nat \ {0}, NEW ids \in [1..m -> Token],
           NEW i \in 1..m
    PROVE  /\ Lengthen(g, ids, i) \in Seq(Token) /\ Len(Lengthen(g, ids, i)) = Len(g) + i
           /\ \A k \in 1..Len(g) : Lengthen(g, ids, i)[k] = g[k]
           /\ \A k \in 1..i : Lengthen(g, ids, i)[Len(g) + k] = ids[k]
<1> DEFINE z == SubSeq(ids, 1, i - 1)
           h == g \o z
           t == Append(h, ids[i])
<1>1. ids \in Seq(Token) /\ Len(ids) = m /\ ids[i] \in Token
    BY IsSequence
<1>2. z \in Seq(Token) /\ Len(z) = i - 1 /\ \A k \in 1..(i - 1) : z[k] = ids[k]
    <2>1. i - 1 \in (1 - 1)..Len(ids) /\ 1 \in 1..(Len(ids) + 1)
        BY <1>1
    <2>. QED
        BY <1>1, <2>1, Part
<1>. HIDE DEF z
<1>3. /\ h \in Seq(Token) /\ Len(h) = Len(g) + Len(z)
      /\ \A k \in 1..Len(g) : h[k] = g[k]
      /\ \A k \in 1..Len(z) : h[Len(g) + k] = z[k]
    <2>1. z \in Seq(Token)
        BY <1>2
    <2>. QED
        BY <2>1, Joined
<1>4. Len(g) \in Nat /\ Len(h) \in Nat /\ i \in Nat /\ i >= 1
    BY <1>3
<1>. HIDE DEF h
<1>5. /\ t \in Seq(Token) /\ Len(t) = Len(h) + 1
      /\ \A k \in 1..Len(h) : t[k] = h[k]
      /\ t[Len(h) + 1] = ids[i]
    <2>1. h \in Seq(Token) /\ ids[i] \in Token
        BY <1>1, <1>3
    <2>. QED
        BY <2>1, Appended
<1>. HIDE DEF t
<1>6. Len(t) = Len(g) + i /\ \A k \in 1..Len(g) : t[k] = g[k]
    BY <1>2, <1>3, <1>4, <1>5
<1>7. ASSUME NEW k \in 1..i PROVE t[Len(g) + k] = ids[k]
    <2>1. CASE k = i
        BY <1>2, <1>3, <1>4, <1>5, <2>1
    <2>2. CASE k # i
        <3>1. k \in 1..(i - 1) /\ Len(g) + k \in 1..Len(h)
            BY <1>2, <1>3, <1>4, <2>2
        <3>. QED
            BY <1>2, <1>3, <1>5, <3>1
    <2>. QED
        BY <2>1, <2>2
<1>. QED
    <2>1. t = Lengthen(g, ids, i)
        BY DEF t, h, z, Lengthen
    <2>. QED
        BY <1>5, <1>6, <1>7, <2>1

\* What AcceptDraft does, with m tokens sampled for the draft and i of them processed:
\* all, if the slot goes on, and one only, if there is no budget for m.
LEMMA Accepting ==
    ASSUME CInv, AcceptDraft
    PROVE  \E m \in 1..(Len(draft) + 1) : \E ids \in [1..m -> Token] :
              /\ common_sampler_sample_and_accept_n(ids)
              /\ cache_tokens' = cache_tokens \o Accepted(ids)
              /\ kv' = RmFrom(kv, slot.n_past + m)
              /\ slot.n_past + m \in 0..N_CTX
              /\ slot' \in server_slot
              /\ slot'.n_past = slot.n_past + m /\ slot'.params = slot.params
              /\ slot'.state \in {"IDLE", "GENERATING"}
              /\ slot'.row = slot.row /\ slot'.n_decoded = slot.n_decoded + m
              /\ \E i \in 1..m :
                    /\ slot'.sampled = ids[i]
                    /\ slot'.generated = Lengthen(slot.generated, ids, i)
                    /\ slot'.state = "GENERATING" =>
                          /\ i = m /\ slot'.truncated = slot.truncated
                          /\ slot'.stop = slot.stop /\ has_budget(slot)'
                    /\ i = 1 \/ has_budget(slot)'
              /\ slot'.state = "GENERATING" => slot.n_past + m < N_CTX
              /\ outcome' \in {"final", outcome}
<1>1. SlotTypeOK /\ slot \in server_slot /\ slot.n_past \in 0..N_CTX /\ N_CTX \in Nat
      /\ slot.generated \in Seq(Token) /\ slot.n_decoded \in Nat
    BY ContextAssumption DEF CInv, SlotTypeOK, server_slot
<1>2. slot.n_past + Len(draft) < N_CTX /\ Len(draft) \in Nat
    BY DEF CInv, PastOK, AcceptDraft, SlotTypeOK
<1>3. PICK m \in 1..(Len(draft) + 1) : \E ids \in [1..m -> Token] :
          LET s == [slot EXCEPT !.n_past = @ + m, !.n_decoded = @ + m]
          IN  /\ common_sampler_sample_and_accept_n(ids)
              /\ cache_tokens' = cache_tokens \o Accepted(ids)
              /\ kv' = RmFrom(kv, slot.n_past + m)
              /\ \E i \in 1..m, word \in BOOLEAN :
                    /\ \A j \in 1..(i - 1) : ~Stops(s, ids[j], FALSE)
                    /\ Stops(s, ids[i], word) \/ i = m
                    /\ GoOnOrEnd(
                          process_token([s EXCEPT !.generated = @ \o SubSeq(ids, 1, i - 1)],
                                        ids[i], word),
                          Stops(s, ids[i], word))
    BY DEF AcceptDraft
<1> DEFINE s == [slot EXCEPT !.n_past = @ + m, !.n_decoded = @ + m]
<1>4. PICK ids \in [1..m -> Token] :
              /\ common_sampler_sample_and_accept_n(ids)
              /\ cache_tokens' = cache_tokens \o Accepted(ids)
              /\ kv' = RmFrom(kv, slot.n_past + m)
              /\ \E i \in 1..m, word \in BOOLEAN :
                    /\ \A j \in 1..(i - 1) : ~Stops(s, ids[j], FALSE)
                    /\ Stops(s, ids[i], word) \/ i = m
                    /\ GoOnOrEnd(
                          process_token([s EXCEPT !.generated = @ \o SubSeq(ids, 1, i - 1)],
                                        ids[i], word),
                          Stops(s, ids[i], word))
    BY <1>3
<1>5. slot.n_past + m \in 0..N_CTX /\ m \in Nat \ {0}
    BY <1>1, <1>2
<1>6. s \in server_slot /\ s.n_past = slot.n_past + m /\ s.params = slot.params
      /\ s.generated = slot.generated /\ s.n_decoded = slot.n_decoded + m
      /\ s.truncated = slot.truncated /\ s.stop = slot.stop /\ s.row = slot.row
    <2>1. slot.n_decoded + m \in Nat
        BY <1>1, <1>5
    <2>2. s = [slot EXCEPT !.n_past = slot.n_past + m, !.n_decoded = slot.n_decoded + m]
        BY <1>1 DEF server_slot
    <2>. HIDE DEF s
    <2>. QED
        BY <1>1, <1>5, <2>1, <2>2 DEF server_slot
<1>7. PICK i \in 1..m, word \in BOOLEAN :
          /\ \A j \in 1..(i - 1) : ~Stops(s, ids[j], FALSE)
          /\ Stops(s, ids[i], word) \/ i = m
          /\ GoOnOrEnd(process_token([s EXCEPT !.generated = @ \o SubSeq(ids, 1, i - 1)],
                                     ids[i], word),
                       Stops(s, ids[i], word))
    BY <1>4
<1>. HIDE DEF s
<1> DEFINE g == s.generated \o SubSeq(ids, 1, i - 1)
           t == [s EXCEPT !.generated = g]
<1>8. /\ t \in server_slot /\ t.n_past = slot.n_past + m /\ t.params = slot.params
      /\ t.generated = slot.generated \o SubSeq(ids, 1, i - 1)
      /\ t.n_decoded = slot.n_decoded + m /\ t.truncated = slot.truncated
      /\ t.stop = slot.stop /\ t.row = slot.row
    <2>1. ids \in Seq(Token) /\ Len(ids) = m
        BY <1>5, IsSequence
    <2>2. SubSeq(ids, 1, i - 1) \in Seq(Token)
        <3>1. i - 1 \in (1 - 1)..Len(ids) /\ 1 \in 1..(Len(ids) + 1)
            BY <1>5, <2>1
        <3>. QED
            BY <2>1, <3>1, Part
    <2>3. g \in Seq(Token)
        BY <1>1, <1>6, <2>2, Joined
    <2>4. g = slot.generated \o SubSeq(ids, 1, i - 1)
        BY <1>6
    <2>. HIDE DEF g
    <2>. QED
        BY <1>6, <2>3, <2>4 DEF server_slot
<1>9. [s EXCEPT !.generated = @ \o SubSeq(ids, 1, i - 1)] = t
    BY <1>6 DEF server_slot
<1>. HIDE DEF t
<1>10. GoOnOrEnd(process_token(t, ids[i], word), Stops(s, ids[i], word))
    BY <1>7, <1>9
<1>11. ids[i] \in Token
    OBVIOUS
<1>12. Stops(t, ids[i], word) = Stops(s, ids[i], word) /\ has_budget(t) = has_budget(s)
    BY <1>6, <1>8 DEF Stops, OutOfBudget, OutOfContext, OutOfTraining, has_budget, Limitless,
                      Remaining
<1> DEFINE u == process_token(t, ids[i], word)
<1>13. /\ u \in server_slot
       /\ u.n_past = slot.n_past + m /\ u.params = slot.params /\ u.sampled = ids[i]
       /\ u.row = slot.row /\ u.n_decoded = slot.n_decoded + m
       /\ u.generated = Lengthen(slot.generated, ids, i)
       /\ ~Stops(t, ids[i], word) => u.truncated = slot.truncated /\ u.stop = slot.stop
       /\ u.stop = "limit" /\ slot.stop = "none" => u.truncated \/ OutOfBudget(t, word)
    <2>1. t \in server_slot /\ ids[i] \in Token /\ word \in BOOLEAN
        BY <1>8, <1>11
    <2>2. /\ u \in server_slot
          /\ u.n_past = t.n_past /\ u.params = t.params /\ u.sampled = ids[i]
          /\ u.row = t.row /\ u.n_decoded = t.n_decoded
          /\ u.generated = Append(t.generated, ids[i])
        BY <1>1, <2>1, ProcessToken
    <2>3. ~Stops(t, ids[i], word) => u.truncated = t.truncated /\ u.stop = t.stop
        BY <1>1, <2>1, ProcessToken
    <2>4. u.stop = "limit" /\ t.stop = "none" => u.truncated \/ OutOfBudget(t, word)
        BY <1>1, <2>1, ProcessToken
    <2>. HIDE DEF u
    <2>. QED
        BY <1>8, <2>2, <2>3, <2>4 DEF Lengthen
<1>. HIDE DEF u
<1>14. /\ slot' \in server_slot
       /\ slot'.n_past = u.n_past /\ slot'.params = u.params
       /\ slot'.sampled = u.sampled /\ slot'.generated = u.generated
       /\ slot'.truncated = u.truncated /\ slot'.row = u.row
       /\ slot'.n_decoded = u.n_decoded /\ slot'.stop = u.stop
       /\ slot'.state \in {"IDLE", "GENERATING"}
       /\ slot'.state = "GENERATING" => ~Stops(s, ids[i], word)
       /\ outcome' \in {"final", outcome}
    BY <1>10, <1>13, GoesOn DEF u
<1>15. slot'.state = "GENERATING" => slot.n_past + m < N_CTX
    BY <1>1, <1>5, <1>6, <1>14 DEF Stops, OutOfContext
<1>16. has_budget(slot)' = has_budget(t)
    <2>1. params_base' = params_base
        BY DEF AcceptDraft, serverVars
    <2>. QED
        BY <1>8, <1>13, <1>14, <2>1 DEF has_budget, Limitless, Remaining, N_PREDICT
<1>17. t.n_decoded > 0
    BY <1>1, <1>5, <1>8
<1>18. ASSUME slot'.state = "GENERATING"
       PROVE  /\ i = m /\ slot'.truncated = slot.truncated
              /\ slot'.stop = slot.stop /\ has_budget(slot)'
    BY <1>7, <1>12, <1>13, <1>14, <1>16, <1>17, <1>18 DEF Stops, OutOfBudget
<1>19. i = 1 \/ has_budget(slot)'
    <2>1. SUFFICES ASSUME i # 1 PROVE has_budget(t)
        BY <1>16
    <2>2. 1 \in 1..(i - 1)
        BY <1>5, <2>1
    <2>3. ~Stops(s, ids[1], FALSE)
        BY <1>7, <2>2
    <2>4. s.n_decoded > 0
        BY <1>6, <1>8, <1>17
    <2>. QED
        BY <1>12, <2>3, <2>4 DEF Stops, OutOfBudget
<1>20. \E k \in 1..m :
          /\ slot'.sampled = ids[k]
          /\ slot'.generated = Lengthen(slot.generated, ids, k)
          /\ slot'.state = "GENERATING" =>
                /\ k = m /\ slot'.truncated = slot.truncated
                /\ slot'.stop = slot.stop /\ has_budget(slot)'
          /\ k = 1 \/ has_budget(slot)'
    BY <1>13, <1>14, <1>18, <1>19
<1>. QED
    BY <1>4, <1>5, <1>13, <1>14, <1>15, <1>20

LEMMA CAcceptDraft ==
    ASSUME CInv, AcceptDraft
    PROVE  CInv'
<1>1. SlotTypeOK /\ slot.n_past \in 0..N_CTX /\ N_CTX \in Nat /\ slot.sampled \in Token
      /\ cache_tokens \in Seq(Token) /\ kv \subseteq Cell
    BY ContextAssumption DEF CInv, SlotTypeOK, server_slot
<1>2. /\ phase = "drafted" /\ phase' = "viewed" /\ draft' = <<>>
      /\ UNCHANGED <<prompt_tokens, batch, head, serverVars>>
    BY DEF AcceptDraft
<1>3. slot.state = "GENERATING" /\ slot.n_past = Len(cache_tokens)
    BY <1>2 DEF CInv, PastOK
<1>4. PICK m \in 1..(Len(draft) + 1) : \E ids \in [1..m -> Token] :
              /\ cache_tokens' = cache_tokens \o Accepted(ids)
              /\ kv' = RmFrom(kv, slot.n_past + m)
              /\ slot.n_past + m \in 0..N_CTX
              /\ slot' \in server_slot
              /\ slot'.n_past = slot.n_past + m /\ slot'.params = slot.params
              /\ slot'.state \in {"IDLE", "GENERATING"}
              /\ slot'.state = "GENERATING" => slot.n_past + m < N_CTX
              /\ outcome' \in {"final", outcome}
    BY Accepting
<1>5. PICK ids \in [1..m -> Token] : cache_tokens' = cache_tokens \o Accepted(ids)
    BY <1>4
<1>6. m \in Nat \ {0}
    BY DEF CInv, SlotTypeOK
<1>7. Accepted(ids) \in Seq(Token) /\ Len(Accepted(ids)) = m
    BY <1>1, <1>6, AcceptedTokens
<1>8. cache_tokens' \in Seq(Token) /\ Len(cache_tokens') = slot.n_past + m
    <2>1. cache_tokens \in Seq(Token) /\ Accepted(ids) \in Seq(Token)
        BY <1>1, <1>7
    <2>2. /\ cache_tokens \o Accepted(ids) \in Seq(Token)
          /\ Len(cache_tokens \o Accepted(ids)) = Len(cache_tokens) + Len(Accepted(ids))
        BY <2>1, Joined
    <2>. QED
        BY <1>3, <1>5, <1>7, <2>2
<1>9. kv' \subseteq Cell
    BY <1>1, <1>4, RmSome
<1>10. SlotTypeOK'
    BY <1>1, <1>2, <1>4, <1>8, <1>9 DEF SlotTypeOK, serverVars
<1>11. KeepFits' /\ CacheFits'
    BY <1>1, <1>2, <1>3, <1>4, <1>8 DEF CInv, KeepFits, CacheFits, AtWork, serverVars
<1>12. PastOK'
    BY <1>2, <1>4, <1>8 DEF PastOK
<1>. QED
    BY <1>10, <1>11, <1>12 DEF CInv

-----------------------------------------------------------------------------
\* CInv holds at the start ...
LEMMA CInit == Init => CInv
<1>1. SUFFICES ASSUME Init PROVE CInv
    OBVIOUS
<1>2. NoParams \in RequestShape
    <2>1. <<>> \in Seq(Token) /\ -1 \in Int /\ 0 \in Int /\ 0 \in Nat
        OBVIOUS
    <2>. QED
        BY <2>1 DEF NoParams, RequestShape
<1>3. (CHOOSE t \in Token : TRUE) \in Token
    BY ContextAssumption
<1>4. /\ FreshSlot \in server_slot /\ FreshSlot.state = "IDLE" /\ FreshSlot.n_past = 0
    BY <1>2, <1>3, ContextAssumption DEF FreshSlot, server_slot, slot_state
<1>5. /\ params_base.max_tasks \in Nat /\ 0 \in 0..params_base.max_tasks
    BY <1>1, ContextAssumption DEF Init, ServerShape
<1>6. SlotTypeOK
    BY <1>1, <1>4, <1>5, ContextAssumption DEF Init, SlotTypeOK
<1>. QED
    BY <1>1, <1>4, <1>6, ContextAssumption DEF CInv, Init, KeepFits, CacheFits, PastOK, AtWork

\* ... and every step preserves it.
LEMMA CNext == CInv /\ [Next]_vars => CInv'
<1>1. SUFFICES ASSUME CInv, [Next]_vars PROVE CInv'
    OBVIOUS
<1>2. CASE UNCHANGED vars
    BY <1>1, <1>2 DEF CInv, SlotTypeOK, KeepFits, CacheFits, PastOK, Reusing, Unfinished, vars
<1>3. CASE Client
    BY <1>1, <1>3, CLaunch, CCancel, CSlotActions DEF Client
<1>4. CASE update_slots
    BY <1>1, <1>4, CSlotActions, CEnds, CShift, CBatchSampled, CPasses, CStartPrompt, CReuseChunk,
       CSkipCached, CReuseDone, CFillBatch, CDecodeView, CDecodeFails, CSample, CDecodeDraft,
       CAcceptDraft DEF update_slots
<1>. QED
    BY <1>1, <1>2, <1>3, <1>4 DEF Next

\* The counters of a slot, its prompt and its cache agree, in every state and phase of
\* update_slots.
THEOREM SlotInvariant == Spec => []CInv
    BY CInit, CNext, PTL DEF Spec

\* Whatever is asked of a slot, and however a server is configured, no token is placed
\* outside the n_ctx positions of the slot, by prompts, generation, shifts or drafts: for
\* every n_keep, and for every n_discard that is not negative, also one that reaches into
\* the kept tokens or asks for more than there is (where resize throws).
THEOREM ContextIsKept == Spec => []SlotTypeOK
<1>1. CInv => SlotTypeOK
    BY DEF CInv
<1>. QED
    BY <1>1, SlotInvariant, PTL

\* The GGML_ASSERTs of update_slots never fail: a truncated prompt fits the context for
\* every n_ctx and n_keep, and a prompt that is batched has a token left to evaluate.
THEOREM NoAssertionFails == Spec => []AssertionsHold
<1>1. CInv => AssertionsHold
    <2>1. SUFFICES ASSUME CInv, phase = "fill" \/ (phase = "top" /\ slot.state = "PROCESSING_PROMPT")
                   PROVE  /\ Len(prompt_tokens) < N_CTX
                          /\ slot.n_past <= Len(cache_tokens)
                          /\ slot.n_past < Len(prompt_tokens)
        BY DEF AssertionsHold
    <2>2. slot.n_past \in Nat
        BY <2>1, ContextAssumption DEF CInv, SlotTypeOK, server_slot
    <2>. QED
        BY <2>1, <2>2 DEF CInv, PastOK, Unfinished
<1>. QED
    BY <1>1, SlotInvariant, PTL

-----------------------------------------------------------------------------
(* What the KV cache holds.                                                *)

\* No decode fails, and no request precedes the first idle update: the two cases in
\* which cache_tokens may claim tokens that are not in the KV cache.  And no shift
\* discards kept tokens, which leaves their cells behind n_past.
Quiet == ~params_base.decode_may_fail /\ ~params_base.early_requests /\ DiscardsFit

\* At the positions from a to b - 1, cells holds the tokens and nothing else.
Holding(cells, tokens, a, b) ==
    /\ \A i \in (a + 1)..b : [pos |-> i - 1, tok |-> tokens[i]] \in cells
    /\ \A c \in cells : a <= c.pos /\ c.pos < b => c.tok = tokens[c.pos + 1]

Batched == {batch[i] : i \in 1..Len(batch)}
DraftCells == CellsFrom(slot.n_past, <<slot.sampled>> \o draft)

\* The tokens of cache_tokens are in the KV cache or in the batch.  While chunks are
\* reused that is so of what the prompt has got and of what is not looked at yet.
CacheHeld ==
    /\ phase \notin {"reuse", "fill"} =>
          Holding(kv \cup Batched, cache_tokens, 0, Len(cache_tokens))
    /\ phase = "reuse" => /\ Holding(kv, cache_tokens, 0, head.p)
                          /\ Holding(kv, cache_tokens, head.c, Len(cache_tokens))
    /\ phase = "fill" => Holding(kv, cache_tokens, 0, slot.n_past)

\* The same of the save file; nothing is claimed before the first idle update.
SavedHeld ==
    /\ Holding(saved.cells, saved.tokens, 0, Len(saved.tokens))
    /\ clean_kv_cache => /\ cache_tokens = <<>> /\ saved.tokens = <<>>
                         /\ slot.state = "IDLE" /\ phase = "top"

\* The batch is empty when it is made, and holds no token that the cache does not claim.
BatchHeld ==
    /\ phase \in {"top", "batch", "reuse", "fill"} => batch = <<>>
    /\ \A c \in Batched : c.pos < Len(cache_tokens)

\* Behind n_past the KV cache of a slot at work is empty, but for the draft.
NothingBehind ==
    /\ slot.state \in AtWork /\ phase \notin {"reuse", "fill", "drafted"} =>
          \A c \in kv : c.pos < slot.n_past
    /\ phase = "drafted" =>
          /\ DraftCells \subseteq kv
          /\ \A c \in kv : c.pos >= slot.n_past => c \in DraftCells

KInv == Quiet => CacheHeld /\ SavedHeld /\ BatchHeld /\ NothingBehind

KParts == CacheHeld /\ SavedHeld /\ BatchHeld /\ NothingBehind

\* Nothing to hold.
LEMMA HoldNothing ==
    ASSUME NEW cells \in SUBSET Cell, NEW tokens, NEW a \in Nat
    PROVE  Holding(cells, tokens, a, a)
<1>1. \A c \in cells : c.pos \in Nat
    BY ContextAssumption DEF Cell
<1>. QED
    BY <1>1 DEF Holding

\* What is held up to b is held up to a smaller place.
LEMMA HoldLess ==
    ASSUME NEW cells \in SUBSET Cell, NEW tokens, NEW b \in Nat, NEW b2 \in 0..b,
           Holding(cells, tokens, 0, b)
    PROVE  Holding(cells, tokens, 0, b2)
<1>1. \A c \in cells : c.pos \in Nat
    BY ContextAssumption DEF Cell
<1>. QED
    BY <1>1 DEF Holding

\* Without a batch there is nothing batched.
LEMMA NoneBatched ==
    ASSUME batch = <<>>
    PROVE  Batched = {}
    BY DEF Batched

\* What all the steps use.
LEMMA KTypes ==
    ASSUME CInv
    PROVE  /\ SlotTypeOK /\ N_CTX \in Nat /\ slot \in server_slot /\ slot.n_past \in Nat
           /\ kv \subseteq Cell /\ batch \in Seq(Cell) /\ Batched \subseteq Cell
           /\ cache_tokens \in Seq(Token) /\ Len(cache_tokens) \in Nat
           /\ prompt_tokens \in Seq(Token) /\ Len(prompt_tokens) \in Nat
           /\ saved.tokens \in Seq(Token) /\ saved.cells \subseteq Cell
           /\ head.c \in Nat /\ head.p \in Nat
           /\ \A c \in Cell : c.pos \in Nat /\ c.tok \in Token
                              /\ c = [pos |-> c.pos, tok |-> c.tok]
<1>1. SlotTypeOK /\ N_CTX \in Nat
    BY ContextAssumption DEF CInv
<1>2. slot \in server_slot /\ kv \subseteq Cell /\ batch \in Seq(Cell)
      /\ cache_tokens \in Seq(Token) /\ prompt_tokens \in Seq(Token)
      /\ saved.tokens \in Seq(Token) /\ saved.cells \subseteq Cell
      /\ head \in [c : 0..N_CTX, p : 0..N_CTX]
    BY <1>1 DEF SlotTypeOK
<1>3. slot.n_past \in Nat
    BY <1>1, <1>2 DEF server_slot
<1>4. head.c \in Nat /\ head.p \in Nat
    BY <1>1, <1>2
<1>5. Batched \subseteq Cell
    BY <1>2 DEF Batched
<1>6. \A c \in Cell : c.pos \in Nat /\ c.tok \in Token /\ c = [pos |-> c.pos, tok |-> c.tok]
    BY <1>1 DEF Cell
<1>. QED
    BY <1>1, <1>2, <1>3, <1>4, <1>5, <1>6

LEMMA KLaunch ==
    ASSUME CInv, CInv', KParts, Quiet, NEW r \in params_base.requests, launch_slot_with_task(r)
    PROVE  KParts'
<1>1. /\ phase = "top" /\ phase' = "top" /\ ~clean_kv_cache /\ cache_tokens' \in {cache_tokens, <<>>}
      /\ UNCHANGED <<kv, batch, clean_kv_cache, saved>>
    BY DEF launch_slot_with_task, Quiet
<1>2. batch = <<>> /\ Batched = {} /\ Batched' = {}
    BY <1>1, NoneBatched DEF KParts, BatchHeld, Batched
<1>3. slot'.state \notin AtWork
    <2>1. slot \in server_slot /\ slot.state = "IDLE"
        BY KTypes DEF launch_slot_with_task, is_processing
    <2>2. \/ slot' = [reset(slot) EXCEPT !.params = r, !.state = "STARTED", !.params = LimitedBy(r)]
          \/ slot' = [reset(slot) EXCEPT !.params = r]
        BY DEF launch_slot_with_task
    <2>. QED
        BY <2>1, <2>2 DEF reset, server_slot, AtWork
<1>4. CacheHeld'
    <2>1. Holding(kv, cache_tokens, 0, Len(cache_tokens))
        BY <1>1, <1>2 DEF KParts, CacheHeld
    <2>2. Holding(kv, <<>>, 0, 0)
        BY KTypes, HoldNothing
    <2>. QED
        BY <1>1, <1>2, <2>1, <2>2 DEF CacheHeld
<1>. QED
    BY <1>1, <1>2, <1>3, <1>4 DEF KParts, SavedHeld, BatchHeld, NothingBehind

\* The slot is released between two updates.
LEMMA KReleased ==
    ASSUME CInv, CInv', KParts, Quiet, Cancel \/ ContextFull \/ EmptyPrompt \/ PromptTooLarge
    PROVE  KParts'
<1>1. /\ slot'.state = "IDLE" /\ phase \notin {"reuse", "fill", "drafted"}
      /\ UNCHANGED <<cache_tokens, kv, batch, phase, clean_kv_cache, saved>>
    BY KTypes, Released
       DEF Cancel, ContextFull, EmptyPrompt, PromptTooLarge, Batching, serverVars
<1>2. CacheHeld'
    BY <1>1 DEF KParts, CacheHeld, Batched
<1>. QED
    BY <1>1, <1>2 DEF KParts, SavedHeld, BatchHeld, NothingBehind, Batched, AtWork

LEMMA KSlotActions ==
    ASSUME CInv, CInv', KParts, Quiet, AllIdle \/ SaveSlot \/ RestoreSlot \/ EraseSlot
    PROVE  KParts'
<1>1. /\ phase' = "top" /\ phase = "top" /\ slot' = slot /\ slot.state = "IDLE"
      /\ batch' = batch
    BY DEF AllIdle, SaveSlot, RestoreSlot, EraseSlot, ActionOnSlot, is_processing, serverVars
<1>2. batch = <<>> /\ Batched = {} /\ Batched' = {}
    BY <1>1, NoneBatched DEF KParts, BatchHeld, Batched
<1>3. /\ Holding(kv, cache_tokens, 0, Len(cache_tokens))
      /\ Holding(saved.cells, saved.tokens, 0, Len(saved.tokens))
      /\ clean_kv_cache => cache_tokens = <<>> /\ saved.tokens = <<>>
    BY <1>1, <1>2 DEF KParts, CacheHeld, SavedHeld
<1>4. Holding(kv, <<>>, 0, 0) /\ Holding({}, <<>>, 0, 0) /\ Len(<<>>) = 0
    BY KTypes, HoldNothing
<1>5. /\ Holding(kv', cache_tokens', 0, Len(cache_tokens'))
      /\ Holding(saved'.cells, saved'.tokens, 0, Len(saved'.tokens))
      /\ clean_kv_cache' => cache_tokens' = <<>> /\ saved'.tokens = <<>>
    <2>1. CASE AllIdle
        BY <1>3, <1>4, <2>1 DEF AllIdle
    <2>2. CASE SaveSlot
        BY <1>3, <2>2 DEF SaveSlot
    <2>3. CASE RestoreSlot
        BY <1>3, <1>4, <2>3 DEF RestoreSlot, serverVars
    <2>4. CASE EraseSlot
        BY <1>3, <1>4, <2>4 DEF EraseSlot, serverVars
    <2>. QED
        BY <2>1, <2>2, <2>3, <2>4
<1>. QED
    BY <1>1, <1>2, <1>5 DEF KParts, CacheHeld, SavedHeld, BatchHeld, NothingBehind, AtWork

\* The program counter moves on, and nothing else happens.
LEMMA KPasses ==
    ASSUME CInv, CInv', KParts, Quiet, NotBatched \/ NoRow \/ SkipSpeculation \/ NextView
    PROVE  KParts'
<1>1. UNCHANGED <<slot, cache_tokens, kv, batch, clean_kv_cache, saved>>
    BY DEF NotBatched, NoRow, SkipSpeculation, NextView, serverVars
<1>2. /\ phase \notin {"reuse", "fill", "drafted"}
      /\ phase' \notin {"reuse", "fill", "drafted", "batch"}
      /\ phase' = "top" => batch = <<>>
      /\ phase = "top" => slot.state # "IDLE"
    BY DEF NotBatched, NoRow, SkipSpeculation, NextView, Batching, is_processing
<1>3. ~clean_kv_cache
    BY <1>2 DEF KParts, SavedHeld, NotBatched, NoRow, SkipSpeculation, NextView, Batching
<1>4. CacheHeld' /\ SavedHeld'
    BY <1>1, <1>2, <1>3 DEF KParts, CacheHeld, SavedHeld, Batched
<1>5. BatchHeld' /\ NothingBehind'
    BY <1>1, <1>2 DEF KParts, BatchHeld, NothingBehind, Batched
<1>. QED
    BY <1>4, <1>5 DEF KParts

LEMMA KSample ==
    ASSUME CInv, CInv', KParts, Quiet, Sample
    PROVE  KParts'
<1>1. /\ phase = "results" /\ phase' = "speculate" /\ HasRow
      /\ UNCHANGED <<cache_tokens, kv, batch, clean_kv_cache, saved>>
    BY DEF Sample, serverVars
<1>2. ~clean_kv_cache
    BY <1>1 DEF KParts, SavedHeld
<1>3. \A c \in kv : c.pos < slot.n_past
    BY <1>1 DEF KParts, NothingBehind, HasRow, AtWork
<1>4. slot'.state \in AtWork => slot'.n_past = slot.n_past
    <2>1. slot.n_past = Len(cache_tokens)
        BY <1>1 DEF CInv, PastOK, HasRow
    <2>2. slot'.state \in {"IDLE", "GENERATING"}
        <3> DEFINE s == [slot EXCEPT !.row = FALSE, !.n_decoded = @ + 1]
        <3>1. PICK tok \in Token, word \in BOOLEAN :
                 GoOnOrEnd(process_token(s, tok, word), Stops(s, tok, word))
            BY DEF Sample
        <3>2. \E q : slot' = [q EXCEPT !.state = "IDLE"] \/ slot' = [q EXCEPT !.state = "GENERATING"]
            BY <3>1 DEF GoOnOrEnd, release
        <3>3. slot' \in server_slot
            BY DEF CInv, SlotTypeOK
        <3>. QED
            BY <3>2, <3>3 DEF server_slot
    <2>3. slot'.state = "GENERATING" => slot'.n_past = Len(cache_tokens')
        BY DEF CInv, PastOK
    <2>. QED
        BY <1>1, <2>1, <2>2, <2>3 DEF AtWork
<1>5. CacheHeld' /\ SavedHeld'
    BY <1>1, <1>2 DEF KParts, CacheHeld, SavedHeld, Batched
<1>6. BatchHeld' /\ NothingBehind'
    BY <1>1, <1>3, <1>4 DEF KParts, BatchHeld, NothingBehind, Batched
<1>. QED
    BY <1>5, <1>6 DEF KParts

LEMMA KDecodeView ==
    ASSUME CInv, CInv', KParts, Quiet, DecodeView
    PROVE  KParts'
<1>1. /\ phase = "decode" /\ phase' = "results"
      /\ UNCHANGED <<slot, cache_tokens, clean_kv_cache, saved>>
    BY DEF DecodeView, serverVars
<1>2. PICK k \in 0..Len(batch) : /\ kv' = kv \cup {batch[i] : i \in 1..k}
                                 /\ batch' = SubSeq(batch, k + 1, Len(batch))
    BY DEF DecodeView
<1>3. batch \in Seq(Cell) /\ Len(batch) \in Nat
    BY KTypes
<1>4. /\ batch' \in Seq(Cell) /\ Len(batch') = Len(batch) - k
      /\ \A i \in 1..(Len(batch) - k) : batch'[i] = batch[k + i]
    BY <1>2, <1>3, Part
<1>5. Batched' = {batch[i] : i \in (k + 1)..Len(batch)}
    <2>1. \A i \in (k + 1)..Len(batch) : i - k \in 1..(Len(batch) - k) /\ batch[i] = batch'[i - k]
        BY <1>3, <1>4
    <2>2. \A i \in 1..(Len(batch) - k) : k + i \in (k + 1)..Len(batch)
        BY <1>3
    <2>. QED
        BY <1>4, <2>1, <2>2 DEF Batched
<1>6. Batched' \subseteq Batched /\ kv' \cup Batched' = kv \cup Batched
    <2>1. \A i \in 1..Len(batch) : i \in 1..k \/ i \in (k + 1)..Len(batch)
        BY <1>3
    <2>2. \A i \in 1..k : i \in 1..Len(batch)
        BY <1>3
    <2>3. \A i \in (k + 1)..Len(batch) : i \in 1..Len(batch)
        BY <1>3
    <2>. QED
        BY <1>2, <1>5, <2>1, <2>2, <2>3 DEF Batched
<1>7. CacheHeld'
    BY <1>1, <1>6 DEF KParts, CacheHeld
<1>8. SavedHeld'
    BY <1>1 DEF KParts, SavedHeld
<1>9. BatchHeld'
    BY <1>1, <1>6 DEF KParts, BatchHeld
<1>10. NothingBehind'
    <2>1. slot.state \in AtWork => slot.n_past = Len(cache_tokens)
        BY <1>1 DEF CInv, PastOK, AtWork
    <2>2. kv' \subseteq kv \cup Batched
        BY <1>6
    <2>. QED
        BY <1>1, <2>1, <2>2 DEF KParts, BatchHeld, NothingBehind
<1>. QED
    BY <1>7, <1>8, <1>9, <1>10 DEF KParts

\* Cells q..e-1 move down to p, over those that are dropped: where the tokens were
\* held below p and from q on, the moved tokens are held.  Used for the context shift
\* and for the reuse of a chunk.
LEMMA MoveDown ==
    ASSUME NEW cells \in SUBSET Cell, NEW old, NEW new,
           NEW p \in Nat, NEW q \in Nat, NEW e \in Nat, p <= q, q <= e,
           NEW delta \in Int, delta = p - q,
           Holding(cells, old, 0, p), Holding(cells, old, q, e),
           \A i \in 1..p : new[i] = old[i],
           \A i \in (p + 1)..(p + e - q) : new[i] = old[i - p + q]
    PROVE  LET moved == llama_kv_self_seq_add(llama_kv_self_seq_rm(cells, p, q), q, e, delta)
           IN  /\ Holding(moved, new, 0, p + e - q)
               /\ (\A c \in cells : c.pos < e) => \A c \in moved : c.pos < p + e - q
               /\ \A b \in Nat : /\ Holding(cells, old, e, b)
                                 /\ \A i \in (e + 1)..b : new[i] = old[i]
                                 => Holding(moved, new, e, b)
<1> DEFINE Moved(c) == IF c.pos >= q /\ c.pos < e THEN [c EXCEPT !.pos = @ + delta] ELSE c
           rest == llama_kv_self_seq_rm(cells, p, q)
           moved == llama_kv_self_seq_add(rest, q, e, delta)
<1>1. \A c \in cells : /\ c.pos \in Nat /\ c.tok \in Token
                       /\ c = [pos |-> c.pos, tok |-> c.tok]
    BY ContextAssumption DEF Cell
<1>2. rest = {c \in cells : c.pos < p \/ c.pos >= q}
    BY DEF llama_kv_self_seq_rm
<1>3. moved = {Moved(c) : c \in rest}
    BY DEF llama_kv_self_seq_add
<1>4. \A c \in cells : c.pos >= q /\ c.pos < e =>
          Moved(c).pos = c.pos + delta /\ Moved(c).tok = c.tok
          /\ Moved(c) = [pos |-> c.pos + delta, tok |-> c.tok]
    BY <1>1
<1>5. \A c \in cells : ~(c.pos >= q /\ c.pos < e) => Moved(c) = c
    OBVIOUS
<1>. HIDE DEF rest, moved, Moved
<1>6. \A x \in moved : \E c \in cells : x = Moved(c) /\ (c.pos < p \/ c.pos >= q)
    BY <1>2, <1>3
<1>7. \A c \in cells : c.pos < p \/ c.pos >= q => Moved(c) \in moved
    BY <1>2, <1>3
<1>8. Holding(moved, new, 0, p + e - q)
    <2>1. ASSUME NEW i \in (0 + 1)..(p + e - q)
          PROVE  [pos |-> i - 1, tok |-> new[i]] \in moved
        <3>1. CASE i <= p
            <4>1. [pos |-> i - 1, tok |-> old[i]] \in cells /\ new[i] = old[i]
                BY <3>1 DEF Holding
            <4>2. [pos |-> i - 1, tok |-> old[i]].pos = i - 1
                OBVIOUS
            <4>. QED
                BY <3>1, <4>1, <4>2, <1>5, <1>7
        <3>2. CASE i > p
            <4> DEFINE j == i - p + q
            <4>1. j \in (q + 1)..e /\ i \in (p + 1)..(p + e - q) /\ j - 1 + delta = i - 1
                BY <3>2
            <4>2. [pos |-> j - 1, tok |-> old[j]] \in cells /\ new[i] = old[j]
                BY <4>1 DEF Holding
            <4>. HIDE DEF j
            <4>3. [pos |-> j - 1, tok |-> old[j]].pos = j - 1
                  /\ [pos |-> j - 1, tok |-> old[j]].tok = old[j]
                OBVIOUS
            <4>4. j - 1 >= q /\ j - 1 < e
                BY <4>1
            <4>5. Moved([pos |-> j - 1, tok |-> old[j]]) = [pos |-> j - 1 + delta, tok |-> old[j]]
                BY <1>4, <4>2, <4>3, <4>4
            <4>. QED
                BY <1>7, <4>1, <4>2, <4>3, <4>4, <4>5
        <3>. QED
            BY <3>1, <3>2
    <2>2. ASSUME NEW x \in moved, 0 <= x.pos, x.pos < p + e - q
          PROVE  x.tok = new[x.pos + 1]
        <3>1. PICK c \in cells : x = Moved(c) /\ (c.pos < p \/ c.pos >= q)
            BY <1>6
        <3>2. CASE c.pos < p
            <4>1. x = c /\ c.pos + 1 \in 1..p
                BY <1>1, <1>5, <3>1, <3>2
            <4>2. c.tok = old[c.pos + 1]
                BY <1>1, <3>2 DEF Holding
            <4>. QED
                BY <4>1, <4>2
        <3>3. CASE c.pos >= q /\ c.pos < e
            <4>1. x.pos = c.pos + delta /\ x.tok = c.tok
                BY <1>4, <3>1, <3>3
            <4>2. c.tok = old[c.pos + 1]
                BY <1>1, <3>3 DEF Holding
            <4> DEFINE k == x.pos + 1
            <4>4. k \in (p + 1)..(p + e - q) /\ k - p + q = c.pos + 1
                BY <1>1, <3>3, <4>1
            <4>. HIDE DEF k
            <4>5. new[k] = old[k - p + q]
                BY <4>4
            <4>6. x.tok = new[k]
                BY <4>1, <4>2, <4>4, <4>5
            <4>. QED
                BY <4>6 DEF k
        <3>4. CASE c.pos >= e
            BY <1>1, <1>5, <2>2, <3>1, <3>4
        <3>. QED
            BY <1>1, <3>1, <3>2, <3>3, <3>4
    <2>. QED
        BY <2>1, <2>2 DEF Holding
<1>9. ASSUME \A c \in cells : c.pos < e, NEW x \in moved
      PROVE  x.pos < p + e - q
    <2>1. PICK c \in cells : x = Moved(c) /\ (c.pos < p \/ c.pos >= q)
        BY <1>6
    <2>2. CASE c.pos < p
        BY <1>1, <1>5, <2>1, <2>2
    <2>3. CASE c.pos >= q
        BY <1>1, <1>4, <1>9, <2>1, <2>3
    <2>. QED
        BY <2>1, <2>2, <2>3
<1>10. ASSUME NEW b \in Nat, Holding(cells, old, e, b), \A i \in (e + 1)..b : new[i] = old[i]
       PROVE  Holding(moved, new, e, b)
    <2>1. ASSUME NEW i \in (e + 1)..b
          PROVE  [pos |-> i - 1, tok |-> new[i]] \in moved
        <3>1. [pos |-> i - 1, tok |-> old[i]] \in cells /\ new[i] = old[i]
            BY <1>10 DEF Holding
        <3>2. [pos |-> i - 1, tok |-> old[i]].pos = i - 1 /\ i - 1 >= e
            OBVIOUS
        <3>. QED
            BY <1>5, <1>7, <3>1, <3>2
    <2>2. ASSUME NEW x \in moved, e <= x.pos, x.pos < b
          PROVE  x.tok = new[x.pos + 1]
        <3>1. PICK c \in cells : x = Moved(c) /\ (c.pos < p \/ c.pos >= q)
            BY <1>6
        <3>2. c.pos >= e
            BY <1>1, <1>4, <1>5, <2>2, <3>1
        <3>3. x = c
            BY <1>1, <1>5, <3>1, <3>2
        <3>4. c.tok = old[c.pos + 1] /\ c.pos + 1 \in (e + 1)..b
            BY <1>1, <1>10, <2>2, <3>2, <3>3 DEF Holding
        <3>. QED
            BY <1>10, <3>3, <3>4
    <2>. QED
        BY <2>1, <2>2 DEF Holding
<1>. QED
    BY <1>8, <1>9, <1>10 DEF moved, rest

\* The tokens of a shifted context, one by one.
LEMMA ShiftedTokens ==
    ASSUME NEW s \in Seq(Token), NEW k \in Nat, NEW d \in Nat, k + d <= Len(s)
    PROVE  /\ Shifted(s, k, d) \in Seq(Token) /\ Len(Shifted(s, k, d)) = Len(s) - d
           /\ \A i \in 1..k : Shifted(s, k, d)[i] = s[i]
           /\ \A i \in (k + 1)..(Len(s) - d) : Shifted(s, k, d)[i] = s[i + d]
<1> DEFINE a == SubSeq(s, 1, k)
           z == SubSeq(s, k + d + 1, Len(s))
           r == Len(s) - (k + d)
<1>1. Len(s) \in Nat /\ r \in Nat
    OBVIOUS
<1>2. a \in Seq(Token) /\ Len(a) = k /\ \A i \in 1..k : a[i] = s[i]
    BY Part
<1>3. z \in Seq(Token) /\ Len(z) = r /\ \A i \in 1..r : z[i] = s[k + d + i]
    <2>1. k + d + 1 \in 1..(Len(s) + 1) /\ Len(s) \in (k + d + 1 - 1)..Len(s)
        BY <1>1
    <2>. QED
        BY <1>1, <2>1, Part
<1>4. Shifted(s, k, d) = a \o z
    <2>1. Smaller(k, Len(s) - d) = k
        BY <1>1 DEF Smaller
    <2>. QED
        BY <2>1 DEF Shifted, keep_first
<1>. HIDE DEF a, z
<1>5. a \in Seq(Token) /\ z \in Seq(Token)
    BY <1>2, <1>3
<1>6. /\ a \o z \in Seq(Token) /\ Len(a \o z) = Len(a) + Len(z)
      /\ \A i \in 1..Len(a) : (a \o z)[i] = a[i]
      /\ \A i \in 1..Len(z) : (a \o z)[Len(a) + i] = z[i]
    BY <1>5, Joined
<1>7. \A i \in (k + 1)..(Len(s) - d) : (a \o z)[i] = s[i + d]
    <2>1. SUFFICES ASSUME NEW i \in (k + 1)..(Len(s) - d)
                   PROVE  (a \o z)[i] = s[i + d]
        OBVIOUS
    <2> DEFINE j == i - k
    <2>2. j \in 1..r /\ k + j = i /\ k + d + j = i + d
        BY <1>1
    <2>. HIDE DEF j, r
    <2>3. (a \o z)[k + j] = z[j] /\ z[j] = s[k + d + j]
        BY <1>2, <1>3, <1>6, <2>2
    <2>. QED
        BY <2>2, <2>3
<1>8. Len(a \o z) = Len(s) - d
    BY <1>1, <1>2, <1>3, <1>6
<1>. QED
    BY <1>2, <1>4, <1>6, <1>7, <1>8

LEMMA KShift ==
    ASSUME CInv, CInv', KParts, Quiet, ShiftContext
    PROVE  KParts'
<1> DEFINE k == ShiftKeep
           d == Discarded
<1>1. /\ phase = "top" /\ Full /\ phase' = "batch"
      /\ kv' = llama_kv_self_seq_add(llama_kv_self_seq_rm(kv, k, k + d),
                                     k + d, slot.n_past, -d)
      /\ cache_tokens' = Shifted(cache_tokens, k, d)
      /\ UNCHANGED <<batch, clean_kv_cache, saved>>
    BY DEF ShiftContext, Discarded, serverVars
<1>2. /\ slot.state = "GENERATING"
      /\ slot.n_past = N_CTX - 1 /\ Len(cache_tokens) = slot.n_past
      /\ k \in Nat /\ d \in Nat /\ d > 0
      /\ k + d <= slot.n_past
    BY <1>1, FullContext DEF Quiet
<1>. HIDE DEF k, d
<1>3. N_CTX \in Nat /\ slot.n_past \in Nat /\ cache_tokens \in Seq(Token) /\ kv \in SUBSET Cell
    BY KTypes
<1>4. batch = <<>> /\ Batched = {} /\ Batched' = {}
    BY <1>1, NoneBatched DEF KParts, BatchHeld, Batched
<1>5. /\ Len(cache_tokens') = slot.n_past - d
      /\ \A i \in 1..k : cache_tokens'[i] = cache_tokens[i]
      /\ \A i \in (k + 1)..(slot.n_past - d) : cache_tokens'[i] = cache_tokens[i + d]
    <2>1. k + d <= Len(cache_tokens)
        BY <1>2
    <2>2. LET t == Shifted(cache_tokens, k, d)
          IN  /\ Len(t) = Len(cache_tokens) - d
              /\ \A i \in 1..k : t[i] = cache_tokens[i]
              /\ \A i \in (k + 1)..(Len(cache_tokens) - d) : t[i] = cache_tokens[i + d]
        BY <1>2, <1>3, <2>1, ShiftedTokens
    <2>. QED
        BY <1>1, <1>2, <2>2
<1>6. Holding(kv, cache_tokens, 0, k) /\ Holding(kv, cache_tokens, k + d, slot.n_past)
    <2>1. Holding(kv, cache_tokens, 0, slot.n_past)
        BY <1>1, <1>2, <1>4 DEF KParts, CacheHeld
    <2>2. \A c \in kv : c.pos \in Nat
        BY KTypes
    <2>. QED
        BY <1>2, <1>3, <2>1, <2>2 DEF Holding
<1>7. /\ k <= k + d /\ k + d \in Nat /\ -d \in Int /\ -d = k - (k + d)
      /\ k + slot.n_past - (k + d) = slot.n_past - d
    BY <1>2, <1>3
<1>8. \A i \in (k + 1)..(k + slot.n_past - (k + d)) :
         cache_tokens'[i] = cache_tokens[i - k + (k + d)]
    <2>1. SUFFICES ASSUME NEW i \in (k + 1)..(slot.n_past - d)
                   PROVE  cache_tokens'[i] = cache_tokens[i - k + (k + d)]
        BY <1>7
    <2>2. i - k + (k + d) = i + d
        BY <1>2, <1>3
    <2>. QED
        BY <1>5, <2>2
<1>9. \A c \in kv : c.pos < slot.n_past
    BY <1>1, <1>2 DEF KParts, NothingBehind, AtWork
<1>10. Holding(kv', cache_tokens', 0, slot.n_past - d) /\ \A c \in kv' : c.pos < slot.n_past - d
    <2> DEFINE e == slot.n_past
               q == k + d
               new == cache_tokens'
               moved == llama_kv_self_seq_add(llama_kv_self_seq_rm(kv, k, q), q, e, -d)
    <2>1. k \in Nat /\ q \in Nat /\ e \in Nat /\ k <= q /\ q <= e /\ -d \in Int /\ -d = k - q
        BY <1>2, <1>3, <1>7
    <2>2. Holding(kv, cache_tokens, 0, k) /\ Holding(kv, cache_tokens, q, e)
        BY <1>6
    <2>3. /\ \A i \in 1..k : new[i] = cache_tokens[i]
          /\ \A i \in (k + 1)..(k + e - q) : new[i] = cache_tokens[i - k + q]
        BY <1>5, <1>8
    <2>4. kv' = moved /\ k + e - q = slot.n_past - d
        BY <1>1, <1>7
    <2>5. /\ Holding(moved, new, 0, k + e - q)
          /\ (\A c \in kv : c.pos < e) => \A c \in moved : c.pos < k + e - q
        <3>. HIDE DEF q, e, new
        <3>. QED
            BY <1>3, <2>1, <2>2, <2>3, MoveDown
    <2>. QED
        BY <1>9, <2>4, <2>5
<1>11. CacheHeld'
    BY <1>1, <1>4, <1>5, <1>10 DEF CacheHeld
<1>12. SavedHeld'
    BY <1>1, <1>2 DEF KParts, SavedHeld
<1>13. BatchHeld'
    BY <1>1, <1>4 DEF BatchHeld
<1>14. NothingBehind'
    <2>1. slot'.n_past = Len(cache_tokens')
        BY <1>1 DEF CInv, PastOK
    <2>. QED
        BY <1>1, <1>5, <1>10, <2>1 DEF NothingBehind
<1>. QED
    BY <1>11, <1>12, <1>13, <1>14 DEF KParts

LEMMA KBatchSampled ==
    ASSUME CInv, CInv', KParts, Quiet, BatchSampled
    PROVE  KParts'
<1> DEFINE x == [pos |-> slot.n_past, tok |-> slot.sampled]
           n == Len(cache_tokens)
<1>1. /\ Batching /\ slot.state = "GENERATING" /\ phase' = "decode"
      /\ batch' = <<x>> /\ cache_tokens' = Append(cache_tokens, slot.sampled)
      /\ UNCHANGED <<kv, clean_kv_cache, saved>>
    BY DEF BatchSampled, serverVars
<1>2. phase \in {"top", "batch"} /\ slot.n_past = n /\ n \in Nat
      /\ cache_tokens \in Seq(Token) /\ slot.sampled \in Token
    BY <1>1, KTypes DEF Batching, CInv, PastOK, server_slot
<1>3. batch = <<>> /\ Batched = {} /\ Batched' = {x}
    BY <1>1, <1>2, NoneBatched DEF KParts, BatchHeld, Batched
<1>4. /\ Len(cache_tokens') = n + 1 /\ cache_tokens'[n + 1] = slot.sampled
      /\ \A i \in 1..n : cache_tokens'[i] = cache_tokens[i]
    BY <1>1, <1>2
<1>5. Holding(kv, cache_tokens, 0, n) /\ \A c \in kv : c.pos < n /\ c.pos \in Nat
    BY <1>1, <1>2, <1>3, KTypes DEF KParts, CacheHeld, NothingBehind, AtWork
<1>6. x.pos = n /\ x.tok = slot.sampled
    BY <1>2
<1>7. Holding(kv \cup {x}, cache_tokens', 0, n + 1)
    <2>1. ASSUME NEW i \in (0 + 1)..(n + 1)
          PROVE  [pos |-> i - 1, tok |-> cache_tokens'[i]] \in kv \cup {x}
        <3>1. CASE i = n + 1
            <4>1. i - 1 = slot.n_past
                BY <1>2, <3>1
            <4>. QED
                BY <1>4, <3>1, <4>1
        <3>2. CASE i # n + 1
            <4>1. i \in 1..n
                BY <1>2, <3>2
            <4>. QED
                BY <1>4, <1>5, <4>1 DEF Holding
        <3>. QED
            BY <3>1, <3>2
    <2>2. ASSUME NEW c \in kv \cup {x}, 0 <= c.pos, c.pos < n + 1
          PROVE  c.tok = cache_tokens'[c.pos + 1]
        <3>1. CASE c \in kv
            <4>1. c.tok = cache_tokens[c.pos + 1] /\ c.pos + 1 \in 1..n
                BY <1>2, <1>5, <3>1 DEF Holding
            <4>. QED
                BY <1>4, <4>1
        <3>2. CASE c = x
            BY <1>4, <1>6, <3>2
        <3>. QED
            BY <3>1, <3>2
    <2>. QED
        BY <2>1, <2>2 DEF Holding
<1>. HIDE DEF x
<1>8. CacheHeld'
    BY <1>1, <1>3, <1>4, <1>7 DEF CacheHeld
<1>9. SavedHeld'
    BY <1>1 DEF KParts, SavedHeld
<1>10. BatchHeld'
    BY <1>1, <1>2, <1>3, <1>4, <1>6 DEF BatchHeld
<1>11. NothingBehind'
    <2>1. slot'.state = "GENERATING"
        BY <1>2, KTypes DEF BatchSampled, server_slot
    <2>2. slot'.n_past = n + 1
        BY <1>4, <2>1 DEF CInv, PastOK
    <2>. QED
        BY <1>1, <1>2, <1>5, <2>2 DEF NothingBehind
<1>. QED
    BY <1>8, <1>9, <1>10, <1>11 DEF KParts

LEMMA KStartPrompt ==
    ASSUME CInv, CInv', KParts, Quiet, StartPrompt
    PROVE  KParts'
<1>1. /\ Batching /\ slot.state = "STARTED" /\ phase' = "reuse"
      /\ UNCHANGED <<batch, clean_kv_cache, saved>>
    BY DEF StartPrompt, serverVars
<1>2. phase = "top" /\ batch = <<>> /\ Batched = {} /\ Batched' = {}
    BY <1>1, NoneBatched DEF CInv, PastOK, Batching, KParts, BatchHeld, Batched
<1>3. Holding(kv, cache_tokens, 0, Len(cache_tokens)) /\ ~clean_kv_cache
    BY <1>1, <1>2 DEF KParts, CacheHeld, SavedHeld
<1>4. /\ Holding(kv', cache_tokens', 0, head'.p)
      /\ Holding(kv', cache_tokens', head'.c, Len(cache_tokens'))
    <2>1. CASE slot.params.cache_prompt
        <3>1. PICK n \in 0..Len(cache_tokens) : head' = [c |-> n, p |-> n]
            BY <2>1 DEF StartPrompt
        <3>2. UNCHANGED <<cache_tokens, kv>>
            BY <2>1 DEF StartPrompt
        <3>3. head'.c = n /\ head'.p = n
            BY <3>1
        <3>4. Len(cache_tokens) \in Nat /\ \A c \in kv : c.pos \in Nat
            BY KTypes
        <3>. QED
            BY <1>3, <3>1, <3>2, <3>3, <3>4 DEF Holding
    <2>2. CASE ~slot.params.cache_prompt
        <3>1. head' = [c |-> 0, p |-> 0] /\ cache_tokens' = <<>> /\ kv' = {}
            BY <2>2 DEF StartPrompt
        <3>2. head'.c = 0 /\ head'.p = 0 /\ Len(<<>>) = 0
            BY <3>1
        <3>3. Holding({}, <<>>, 0, 0)
            BY HoldNothing
        <3>. QED
            BY <3>1, <3>2, <3>3
    <2>. QED
        BY <2>1, <2>2
<1>5. CacheHeld' /\ SavedHeld'
    BY <1>1, <1>3, <1>4 DEF KParts, CacheHeld, SavedHeld
<1>6. BatchHeld' /\ NothingBehind'
    BY <1>1, <1>2 DEF BatchHeld, NothingBehind
<1>. QED
    BY <1>5, <1>6 DEF KParts

LEMMA KReuseChunk ==
    ASSUME CInv, CInv', KParts, Quiet, ReuseChunk
    PROVE  KParts'
<1> DEFINE p == head.p
           q == head.c
           new == cache_tokens'
           b == Len(cache_tokens)
<1>1. /\ phase = "reuse" /\ phase' = "reuse"
      /\ UNCHANGED <<batch, clean_kv_cache, saved>>
    BY DEF ReuseChunk, serverVars
<1>2. PICK n \in 1..Len(cache_tokens) :
          /\ Matching(cache_tokens, head.c, prompt_tokens, head.p, n)
          /\ kv' = ChunkMoved(n)
          /\ cache_tokens' = [i \in DOMAIN cache_tokens |->
                                 IF i > head.p /\ i <= head.p + n
                                 THEN cache_tokens[i - head.p + head.c]
                                 ELSE cache_tokens[i]]
          /\ head' = [c |-> head.c + n, p |-> head.p + n]
    BY DEF ReuseChunk
<1> DEFINE e == q + n
           moved == llama_kv_self_seq_add(llama_kv_self_seq_rm(kv, p, q), q, e, p - q)
<1>3. /\ p \in Nat /\ q \in Nat /\ b \in Nat /\ p <= q /\ kv \in SUBSET Cell
      /\ cache_tokens \in Seq(Token)
    BY <1>1, KTypes DEF CInv, PastOK, Reusing
<1>4. e <= b /\ e \in Nat /\ q <= e /\ p + e - q = p + n /\ p - q \in Int /\ p + n <= e
    BY <1>2, <1>3 DEF Matching
<1>5. kv' = moved
    BY <1>2 DEF ChunkMoved
<1>6. DOMAIN cache_tokens = 1..b
    BY <1>3
<1>7. /\ \A i \in 1..p : new[i] = cache_tokens[i]
      /\ \A i \in (p + 1)..(p + e - q) : new[i] = cache_tokens[i - p + q]
      /\ \A i \in (e + 1)..b : new[i] = cache_tokens[i]
    <2>1. \A i \in 1..b : new[i] = IF i > p /\ i <= p + n
                                   THEN cache_tokens[i - p + q] ELSE cache_tokens[i]
        BY <1>2, <1>6
    <2>2. n \in Nat
        OBVIOUS
    <2>. HIDE DEF p, q, b, e, new
    <2>3. \A i \in 1..p : i \in 1..b /\ ~(i > p)
        BY <1>3, <1>4
    <2>4. \A i \in (p + 1)..(p + n) : i \in 1..b /\ i > p /\ i <= p + n
        BY <1>3, <1>4, <2>2
    <2>5. \A i \in (e + 1)..b : i \in 1..b /\ ~(i <= p + n)
        BY <1>3, <1>4, <2>2
    <2>6. \A i \in 1..p : new[i] = cache_tokens[i]
        BY <2>1, <2>3
    <2>7. \A i \in (p + 1)..(p + n) : new[i] = cache_tokens[i - p + q]
        BY <2>1, <2>4
    <2>8. \A i \in (e + 1)..b : new[i] = cache_tokens[i]
        BY <2>1, <2>5
    <2>. QED
        BY <1>4, <2>6, <2>7, <2>8
<1>8. Len(new) = b
    BY <1>3, <1>6, <1>2
<1>9. head'.c = e /\ head'.p = p + n
    BY <1>2
<1>10. /\ Holding(kv, cache_tokens, 0, p) /\ Holding(kv, cache_tokens, q, b)
    BY <1>1 DEF KParts, CacheHeld
<1>11. Holding(kv, cache_tokens, q, e) /\ Holding(kv, cache_tokens, e, b)
    <2>1. \A c \in kv : c.pos \in Nat
        BY KTypes
    <2>. HIDE DEF p, q, b, e
    <2>. QED
        BY <1>3, <1>4, <1>10, <2>1 DEF Holding
<1>12. /\ Holding(moved, new, 0, p + e - q)
       /\ Holding(moved, new, e, b)
    <2>. HIDE DEF p, q, b, e, new
    <2>. QED
        BY <1>3, <1>4, <1>7, <1>10, <1>11, MoveDown
<1>13. CacheHeld'
    BY <1>1, <1>4, <1>5, <1>8, <1>9, <1>12 DEF CacheHeld
<1>14. SavedHeld'
    BY <1>1 DEF KParts, SavedHeld
<1>15. batch = <<>> /\ Batched' = {}
    BY <1>1, NoneBatched DEF KParts, BatchHeld, Batched
<1>16. BatchHeld' /\ NothingBehind'
    BY <1>1, <1>15 DEF BatchHeld, NothingBehind
<1>. QED
    BY <1>13, <1>14, <1>16 DEF KParts

LEMMA KSkipCached ==
    ASSUME CInv, CInv', KParts, Quiet, SkipCached
    PROVE  KParts'
<1>1. /\ phase = "reuse" /\ phase' = "reuse" /\ head' = [head EXCEPT !.c = @ + 1]
      /\ UNCHANGED <<slot, cache_tokens, kv, batch, clean_kv_cache, saved>>
    BY DEF SkipCached, serverVars
<1>2. head \in [c : 0..N_CTX, p : 0..N_CTX]
    BY DEF CInv, SlotTypeOK
<1>3. head'.c = head.c + 1 /\ head'.p = head.p /\ head.c \in Nat
    BY <1>1, <1>2, KTypes
<1>4. Holding(kv, cache_tokens, 0, head.p) /\ Holding(kv, cache_tokens, head.c, Len(cache_tokens))
    BY <1>1 DEF KParts, CacheHeld
<1>5. Holding(kv, cache_tokens, head.c + 1, Len(cache_tokens))
    BY <1>3, <1>4, KTypes DEF Holding
<1>6. CacheHeld' /\ SavedHeld'
    BY <1>1, <1>3, <1>4, <1>5 DEF KParts, CacheHeld, SavedHeld
<1>7. BatchHeld' /\ NothingBehind'
    BY <1>1 DEF KParts, BatchHeld, NothingBehind, Batched
<1>. QED
    BY <1>6, <1>7 DEF KParts

LEMMA KReuseDone ==
    ASSUME CInv, CInv', KParts, Quiet, ReuseDone
    PROVE  KParts'
<1>1. /\ phase = "reuse" /\ phase' = "fill"
      /\ UNCHANGED <<cache_tokens, kv, batch, clean_kv_cache, saved>>
    BY DEF ReuseDone, serverVars
<1>2. Reusing /\ slot \in server_slot /\ slot.n_past \in Nat /\ kv \in SUBSET Cell
    BY <1>1, KTypes DEF CInv, PastOK
<1>3. slot'.n_past \in 0..head.p
    BY <1>2 DEF ReuseDone, Reusing, server_slot
<1>4. Holding(kv, cache_tokens, 0, slot'.n_past)
    <2>1. Holding(kv, cache_tokens, 0, head.p) /\ head.p \in Nat
        BY <1>1, KTypes DEF KParts, CacheHeld
    <2>. QED
        BY <1>2, <1>3, <2>1, HoldLess
<1>5. CacheHeld' /\ SavedHeld'
    BY <1>1, <1>4 DEF KParts, CacheHeld, SavedHeld
<1>6. BatchHeld' /\ NothingBehind'
    BY <1>1 DEF KParts, BatchHeld, NothingBehind, Batched
<1>. QED
    BY <1>5, <1>6 DEF KParts

LEMMA KFillBatch ==
    ASSUME CInv, CInv', KParts, Quiet, FillBatch
    PROVE  KParts'
<1> DEFINE base == CommonPart
           new == cache_tokens'
<1>1. PICK n \in 0..(Len(prompt_tokens) - base) : Filled(n)
    BY FillsSome
<1>2. /\ new \in Seq(Token) /\ Len(new) = base + n
      /\ \A i \in 1..base : new[i] = cache_tokens[i]
      /\ \A i \in 1..n : new[base + i] = prompt_tokens[base + i]
      /\ batch' \in Seq(Cell) /\ Len(batch') = n
      /\ \A i \in 1..n : batch'[i] = [pos |-> base + i - 1, tok |-> prompt_tokens[base + i]]
      /\ slot'.n_past = base + n
    BY <1>1, FilledFacts
<1>3. /\ slot.state = "PROCESSING_PROMPT" /\ phase # "reuse"
      /\ base \in Nat /\ base <= slot.n_past
      /\ base <= Len(cache_tokens) /\ base < Len(prompt_tokens)
      /\ slot.n_past \in Nat /\ Len(prompt_tokens) \in Nat /\ kv \in SUBSET Cell
    BY Filling, KTypes
<1>4. /\ phase' = "decode" /\ UNCHANGED <<clean_kv_cache, saved>>
      /\ kv' = IF CanKeepCommon THEN RmFrom(kv, slot.n_past) ELSE {}
    BY DEF FillBatch, serverVars
<1>5. \A c \in Cell : c.pos \in Nat
    BY KTypes
<1>6. Holding(kv, cache_tokens, 0, slot.n_past)
    <2>1. CASE phase = "fill"
        BY <2>1 DEF KParts, CacheHeld
    <2>2. CASE phase # "fill"
        <3>1. phase \in {"top", "batch"}
            BY <2>2 DEF FillBatch, Batching
        <3>2. Batched = {} /\ slot.n_past = Len(cache_tokens)
            BY <1>3, <3>1, NoneBatched DEF KParts, BatchHeld, CInv, PastOK
        <3>. QED
            BY <1>3, <2>2, <3>2 DEF KParts, CacheHeld
    <2>. QED
        BY <2>1, <2>2
<1>7. /\ \A i \in 1..base : [pos |-> i - 1, tok |-> cache_tokens[i]] \in kv'
      /\ \A c \in kv' : c.pos < base /\ c.tok = cache_tokens[c.pos + 1] /\ c.pos \in Nat
    <2>1. CASE CanKeepCommon
        <3>1. base = slot.n_past /\ kv' = {c \in kv : c.pos < slot.n_past}
            BY <1>4, <2>1 DEF CommonPart, RmFrom
        <3>2. \A i \in 1..base : [pos |-> i - 1, tok |-> cache_tokens[i]] \in kv'
            <4>1. SUFFICES ASSUME NEW i \in 1..base
                           PROVE  [pos |-> i - 1, tok |-> cache_tokens[i]] \in kv'
                OBVIOUS
            <4>2. [pos |-> i - 1, tok |-> cache_tokens[i]] \in kv
                BY <1>6, <3>1 DEF Holding
            <4>3. [pos |-> i - 1, tok |-> cache_tokens[i]].pos < slot.n_past
                BY <1>3, <3>1
            <4>. QED
                BY <3>1, <4>2, <4>3
        <3>. QED
            BY <1>3, <1>5, <1>6, <3>1, <3>2 DEF Holding
    <2>2. CASE ~CanKeepCommon
        BY <1>4, <2>2 DEF CommonPart
    <2>. QED
        BY <2>1, <2>2
<1>. HIDE DEF base, new
<1>8. n \in Nat
    BY <1>3
<1>9. Batched' = {[pos |-> base + i - 1, tok |-> prompt_tokens[base + i]] : i \in 1..n}
    BY <1>2 DEF Batched
<1>10. \A c \in Batched' : \E i \in 1..n : c.pos = base + i - 1 /\ c.tok = new[base + i]
    <2>1. SUFFICES ASSUME NEW c \in Batched'
                   PROVE  \E i \in 1..n : c.pos = base + i - 1 /\ c.tok = new[base + i]
        OBVIOUS
    <2>2. PICK i \in 1..n : c = [pos |-> base + i - 1, tok |-> prompt_tokens[base + i]]
        BY <1>9
    <2>3. c.pos = base + i - 1 /\ c.tok = prompt_tokens[base + i]
        BY <2>2
    <2>4. new[base + i] = prompt_tokens[base + i]
        BY <1>2
    <2>. QED
        BY <2>3, <2>4
<1>11. Holding(kv' \cup Batched', new, 0, base + n)
    <2>1. ASSUME NEW i \in (0 + 1)..(base + n)
          PROVE  [pos |-> i - 1, tok |-> new[i]] \in kv' \cup Batched'
        <3>1. CASE i <= base
            BY <1>2, <1>3, <1>7, <3>1
        <3>2. CASE i > base
            <4> DEFINE j == i - base
            <4>1. j \in 1..n /\ base + j = i
                BY <1>3, <1>8, <3>2
            <4>. HIDE DEF j
            <4>2. new[base + j] = prompt_tokens[base + j]
                BY <1>2, <4>1
            <4>3. [pos |-> base + j - 1, tok |-> prompt_tokens[base + j]] \in Batched'
                BY <1>9, <4>1
            <4>4. base + j - 1 = i - 1 /\ new[i] = prompt_tokens[base + j]
                BY <1>3, <1>8, <4>1, <4>2
            <4>. QED
                BY <4>3, <4>4
        <3>. QED
            BY <1>3, <3>1, <3>2
    <2>2. ASSUME NEW c \in kv' \cup Batched', 0 <= c.pos, c.pos < base + n
          PROVE  c.tok = new[c.pos + 1]
        <3>1. CASE c \in kv'
            <4>1. c.pos + 1 \in 1..base
                BY <1>3, <1>7, <3>1
            <4>. QED
                BY <1>2, <1>7, <3>1, <4>1
        <3>2. CASE c \in Batched'
            <4>1. PICK i \in 1..n : c.pos = base + i - 1 /\ c.tok = new[base + i]
                BY <1>10, <3>2
            <4>2. c.pos + 1 = base + i
                BY <1>3, <1>8, <4>1
            <4>. QED
                BY <4>1, <4>2
        <3>. QED
            BY <3>1, <3>2
    <2>. QED
        BY <2>1, <2>2 DEF Holding
<1>12. CacheHeld'
    BY <1>2, <1>4, <1>11 DEF CacheHeld, new
<1>13. SavedHeld'
    BY <1>3, <1>4 DEF KParts, SavedHeld
<1>14. BatchHeld'
    <2>1. \A c \in Batched' : c.pos < base + n
        BY <1>3, <1>8, <1>10
    <2>. QED
        BY <1>2, <1>4, <2>1 DEF BatchHeld, new
<1>15. NothingBehind'
    <2>1. \A c \in kv' : c.pos < base + n
        BY <1>3, <1>7, <1>8
    <2>. QED
        BY <1>2, <1>4, <2>1 DEF NothingBehind
<1>. QED
    BY <1>12, <1>13, <1>14, <1>15 DEF KParts

\* The sampled token and the draft behind it.
LEMMA Drafted ==
    ASSUME NEW x \in Token, NEW s \in Seq(Token)
    PROVE  LET t == <<x>> \o s
           IN  /\ t \in Seq(Token) /\ Len(t) = Len(s) + 1 /\ DOMAIN t = 1..(Len(s) + 1)
               /\ t[1] = x
               /\ \A i \in 1..Len(s) : t[i + 1] = s[i]
<1> DEFINE a == <<x>>
<1>1. a \in Seq(Token) /\ Len(a) = 1 /\ a[1] = x
    OBVIOUS
<1>. HIDE DEF a
<1>2. /\ a \o s \in Seq(Token) /\ Len(a \o s) = Len(a) + Len(s)
      /\ \A i \in 1..Len(a) : (a \o s)[i] = a[i]
      /\ \A i \in 1..Len(s) : (a \o s)[Len(a) + i] = s[i]
    BY <1>1, Joined
<1>3. Len(a \o s) = Len(s) + 1 /\ (a \o s)[1] = x
    BY <1>1, <1>2
<1>4. \A i \in 1..Len(s) : (a \o s)[i + 1] = s[i]
    <2>1. SUFFICES ASSUME NEW i \in 1..Len(s) PROVE (a \o s)[i + 1] = s[i]
        OBVIOUS
    <2>2. Len(a) + i = i + 1
        BY <1>1
    <2>. QED
        BY <1>2, <2>2
<1>5. DOMAIN (a \o s) = 1..(Len(s) + 1)
    BY <1>2, <1>3
<1>. QED
    BY <1>2, <1>3, <1>4, <1>5 DEF a

LEMMA KDecodeDraft ==
    ASSUME CInv, CInv', KParts, Quiet, DecodeDraft
    PROVE  KParts'
<1> DEFINE new == CellsFrom(slot.n_past, <<slot.sampled>> \o draft')
<1>1. /\ phase = "speculate" /\ phase' = "drafted" /\ slot.state = "GENERATING"
      /\ kv' = kv \cup new
      /\ UNCHANGED <<slot, cache_tokens, batch, clean_kv_cache, saved>>
    BY DEF DecodeDraft, WillDraft, serverVars
<1>2. slot.n_past = Len(cache_tokens) /\ slot.n_past \in Nat
    BY <1>1, KTypes DEF CInv, PastOK
<1>3. \A c \in kv : c.pos < slot.n_past
    BY <1>1 DEF KParts, NothingBehind, AtWork
<1>4. \A c \in new : c.pos >= slot.n_past
    <2> DEFINE t == <<slot.sampled>> \o draft'
    <2>1. slot.sampled \in Token /\ draft' \in Seq(Token)
        BY KTypes DEF server_slot, CInv, SlotTypeOK
    <2>2. DOMAIN t \subseteq Nat \ {0}
        BY <2>1, Drafted
    <2>3. new = {[pos |-> slot.n_past + i - 1, tok |-> t[i]] : i \in DOMAIN t}
        BY DEF CellsFrom
    <2>. HIDE DEF t, new
    <2>. QED
        BY <1>2, <2>2, <2>3
<1>5. DraftCells' = new
    BY <1>1 DEF DraftCells
<1>. HIDE DEF new
<1>6. Batched' = Batched
    BY <1>1 DEF Batched
<1>7. Holding(kv \cup Batched, cache_tokens, 0, Len(cache_tokens))
    BY <1>1 DEF KParts, CacheHeld
<1>8. \A c \in kv \cup Batched : c.pos \in Nat
    BY KTypes
<1>9. Holding(kv' \cup Batched', cache_tokens', 0, Len(cache_tokens'))
    <2>1. \A c \in kv' \cup Batched' : c.pos < Len(cache_tokens) => c \in kv \cup Batched
        <3>1. SUFFICES ASSUME NEW c \in new, c.pos < Len(cache_tokens) PROVE FALSE
            BY <1>1, <1>6
        <3>2. c.pos \in Nat
            <4>1. c \in kv'
                BY <1>1
            <4>2. kv' \subseteq Cell
                BY DEF CInv, SlotTypeOK
            <4>. QED
                BY <4>1, <4>2, KTypes
        <3>. QED
            BY <1>2, <1>4, <3>1, <3>2
    <2>. QED
        BY <1>1, <1>6, <1>7, <2>1 DEF Holding
<1>10. CacheHeld' /\ SavedHeld'
    BY <1>1, <1>9 DEF KParts, CacheHeld, SavedHeld
<1>11. BatchHeld'
    BY <1>1, <1>6 DEF KParts, BatchHeld
<1>12. NothingBehind'
    <2>1. \A c \in kv' : c.pos >= slot.n_past => c \in new
        BY <1>1, <1>2, <1>3, <1>8
    <2>. QED
        BY <1>1, <1>5, <2>1 DEF NothingBehind
<1>. QED
    BY <1>10, <1>11, <1>12 DEF KParts

LEMMA KAcceptDraft ==
    ASSUME CInv, CInv', KParts, Quiet, AcceptDraft
    PROVE  KParts'
<1> DEFINE n == Len(cache_tokens)
           t == <<slot.sampled>> \o draft
           new == cache_tokens'
<1>1. /\ phase = "drafted" /\ phase' = "viewed"
      /\ UNCHANGED <<batch, clean_kv_cache, saved>>
    BY DEF AcceptDraft, serverVars
<1>2. slot.n_past = n /\ n \in Nat /\ slot.sampled \in Token /\ draft \in Seq(Token)
      /\ cache_tokens \in Seq(Token) /\ Len(draft) \in Nat
    <2>1. slot.n_past = n
        BY <1>1 DEF CInv, PastOK
    <2>2. draft \in Seq(Token)
        BY DEF CInv, SlotTypeOK
    <2>3. slot.sampled \in Token /\ cache_tokens \in Seq(Token)
        BY KTypes DEF server_slot
    <2>. QED
        BY <2>1, <2>2, <2>3
<1>3. PICK m \in 1..(Len(draft) + 1) : \E ids \in [1..m -> Token] :
          /\ common_sampler_sample_and_accept_n(ids)
          /\ new = cache_tokens \o Accepted(ids)
          /\ kv' = RmFrom(kv, n + m)
          /\ slot'.n_past = n + m
    BY <1>2, Accepting
<1>4. PICK ids \in [1..m -> Token] :
          /\ common_sampler_sample_and_accept_n(ids)
          /\ new = cache_tokens \o Accepted(ids)
          /\ kv' = RmFrom(kv, n + m)
          /\ slot'.n_past = n + m
    BY <1>3
<1>5. m \in Nat \ {0} /\ m <= Len(draft) + 1
    BY <1>2
<1>6. /\ Len(ids) = m
      /\ Accepted(ids) \in Seq(Token) /\ Len(Accepted(ids)) = m
      /\ Accepted(ids)[1] = slot.sampled
      /\ \A i \in 1..(m - 1) : Accepted(ids)[i + 1] = ids[i]
    BY <1>2, <1>5, AcceptedTokens
<1>7. /\ DOMAIN t = 1..(Len(draft) + 1) /\ t[1] = slot.sampled
      /\ \A i \in 1..Len(draft) : t[i + 1] = draft[i]
    BY <1>2, Drafted
<1>8. \A i \in 1..m : Accepted(ids)[i] = t[i]
    <2>1. SUFFICES ASSUME NEW i \in 1..m, i # 1 PROVE Accepted(ids)[i] = t[i]
        BY <1>6, <1>7
    <2> DEFINE j == i - 1
    <2>2. j \in 1..(m - 1) /\ j \in 1..Len(draft) /\ j + 1 = i
        BY <1>2, <1>5, <2>1
    <2>. HIDE DEF j, t
    <2>3. ids[j] = draft[j]
        BY <1>4, <1>6, <2>2 DEF common_sampler_sample_and_accept_n
    <2>4. Accepted(ids)[j + 1] = ids[j] /\ t[j + 1] = draft[j]
        BY <1>6, <1>7, <2>2
    <2>. QED
        BY <2>2, <2>3, <2>4
<1>9. /\ Len(new) = n + m
      /\ \A i \in 1..n : new[i] = cache_tokens[i]
      /\ \A i \in 1..m : new[n + i] = t[i]
    <2> DEFINE a == Accepted(ids)
    <2>1. a \in Seq(Token) /\ cache_tokens \in Seq(Token) /\ Len(a) = m
        BY <1>2, <1>6
    <2>2. new = cache_tokens \o a
        BY <1>4
    <2>3. \A i \in 1..m : a[i] = t[i]
        BY <1>8
    <2>. HIDE DEF a, t, new
    <2>4. /\ Len(cache_tokens \o a) = Len(cache_tokens) + Len(a)
          /\ \A i \in 1..Len(cache_tokens) : (cache_tokens \o a)[i] = cache_tokens[i]
          /\ \A i \in 1..Len(a) : (cache_tokens \o a)[Len(cache_tokens) + i] = a[i]
        <3>1. a \in Seq(Token) /\ cache_tokens \in Seq(Token)
            BY <2>1
        <3>. QED
            BY <3>1, Joined
    <2>. QED
        BY <2>1, <2>2, <2>3, <2>4
<1>10. DraftCells = {[pos |-> n + i - 1, tok |-> t[i]] : i \in 1..(Len(draft) + 1)}
    BY <1>2, <1>7 DEF DraftCells, CellsFrom
<1>11. /\ DraftCells \subseteq kv
       /\ \A c \in kv : c.pos >= n => c \in DraftCells
    BY <1>1, <1>2 DEF KParts, NothingBehind
<1>12. kv' = {c \in kv : c.pos < n + m}
    BY <1>4 DEF RmFrom
<1>13. Batched' = Batched
    BY <1>1 DEF Batched
<1>14. \A c \in kv \cup Batched : c.pos \in Nat
    BY KTypes
<1>15. Holding(kv \cup Batched, cache_tokens, 0, n) /\ \A c \in Batched : c.pos < n
    BY <1>1 DEF KParts, CacheHeld, BatchHeld
<1>. HIDE DEF n, t, new
<1>16. Holding(kv' \cup Batched', new, 0, n + m)
    <2>1. ASSUME NEW i \in (0 + 1)..(n + m)
          PROVE  [pos |-> i - 1, tok |-> new[i]] \in kv' \cup Batched'
        <3>1. CASE i <= n
            <4>1. [pos |-> i - 1, tok |-> cache_tokens[i]] \in kv \cup Batched
                  /\ new[i] = cache_tokens[i]
                BY <1>2, <1>9, <1>15, <3>1 DEF Holding
            <4>2. [pos |-> i - 1, tok |-> cache_tokens[i]].pos < n + m
                BY <1>2, <1>5
            <4>. QED
                BY <1>12, <1>13, <4>1, <4>2
        <3>2. CASE i > n
            <4> DEFINE j == i - n
            <4>1. j \in 1..m /\ n + j = i /\ j \in 1..(Len(draft) + 1) /\ n + j - 1 = i - 1
                BY <1>2, <1>5, <3>2
            <4>. HIDE DEF j
            <4>2. new[i] = t[j]
                BY <1>9, <4>1
            <4>3. [pos |-> n + j - 1, tok |-> t[j]] \in kv
                BY <1>10, <1>11, <4>1
            <4>4. [pos |-> n + j - 1, tok |-> t[j]].pos < n + m
                BY <1>2, <1>5, <4>1
            <4>5. [pos |-> n + j - 1, tok |-> t[j]] \in kv'
                BY <1>12, <4>3, <4>4
            <4>. QED
                BY <4>1, <4>2, <4>5
        <3>. QED
            BY <1>2, <3>1, <3>2
    <2>2. ASSUME NEW c \in kv' \cup Batched', 0 <= c.pos, c.pos < n + m
          PROVE  c.tok = new[c.pos + 1]
        <3>1. c \in kv \cup Batched /\ c.pos \in Nat
            BY <1>12, <1>13, <1>14
        <3>2. CASE c.pos < n
            <4>1. c.tok = cache_tokens[c.pos + 1] /\ c.pos + 1 \in 1..n
                BY <1>2, <1>15, <3>1, <3>2 DEF Holding
            <4>. QED
                BY <1>9, <4>1
        <3>3. CASE c.pos >= n
            <4>1. c \in DraftCells
                BY <1>2, <1>11, <1>15, <3>1, <3>3
            <4>2. PICK i \in 1..(Len(draft) + 1) : c = [pos |-> n + i - 1, tok |-> t[i]]
                BY <1>10, <4>1
            <4>3. c.pos = n + i - 1 /\ c.tok = t[i]
                BY <4>2
            <4>4. i \in 1..m /\ c.pos + 1 = n + i
                BY <1>2, <1>5, <2>2, <4>3
            <4>. QED
                BY <1>9, <4>3, <4>4
        <3>. QED
            BY <1>2, <3>1, <3>2, <3>3
    <2>. QED
        BY <2>1, <2>2 DEF Holding
<1>17. CacheHeld' /\ SavedHeld'
    BY <1>1, <1>9, <1>16 DEF KParts, CacheHeld, SavedHeld, new
<1>18. BatchHeld'
    <2>1. \A c \in Batched' : c.pos < n + m
        BY <1>2, <1>5, <1>13, <1>14, <1>15
    <2>. QED
        BY <1>1, <1>9, <2>1 DEF BatchHeld, new
<1>19. NothingBehind'
    BY <1>1, <1>4, <1>12 DEF NothingBehind
<1>. QED
    BY <1>17, <1>18, <1>19 DEF KParts

LEMMA KInit == Init => KInv
<1>1. SUFFICES ASSUME Init PROVE KParts
    BY DEF KInv, KParts
<1>2. batch = <<>> /\ Batched = {} /\ phase = "top" /\ FreshSlot.state = "IDLE"
    BY <1>1, NoneBatched DEF Init, FreshSlot
<1>3. Holding({}, <<>>, 0, 0) /\ Len(<<>>) = 0
    BY HoldNothing
<1>4. saved.tokens = <<>> /\ saved.cells = {}
    BY <1>1 DEF Init
<1>5. CacheHeld /\ SavedHeld
    BY <1>1, <1>2, <1>3, <1>4 DEF CacheHeld, SavedHeld, Init
<1>6. BatchHeld /\ NothingBehind
    BY <1>1, <1>2 DEF BatchHeld, NothingBehind, AtWork, Init
<1>. QED
    BY <1>5, <1>6 DEF KParts

LEMMA KNext == CInv /\ CInv' /\ KInv /\ [Next]_vars => KInv'
<1>1. SUFFICES ASSUME CInv, CInv', KInv, [Next]_vars, Quiet' PROVE KParts'
    BY DEF KInv, KParts
<1>2. params_base' = params_base
    BY <1>1 DEF Next, Client, update_slots, vars, serverVars, launch_slot_with_task, Cancel, SaveSlot,
       RestoreSlot, EraseSlot, AllIdle, ContextFull, ShiftContext, BatchSampled, NotBatched, EmptyPrompt,
       PromptTooLarge, StartPrompt, ReuseChunk, SkipCached, ReuseDone, FillBatch, DecodeView,
       DecodeFails, Sample, NoRow, DecodeDraft, AcceptDraft, SkipSpeculation, NextView
<1>3. Quiet /\ KParts
    BY <1>1, <1>2 DEF Quiet, KInv, KParts
<1>4. CASE UNCHANGED vars
    BY <1>3, <1>4 DEF KParts, CacheHeld, SavedHeld, BatchHeld, NothingBehind, Batched, DraftCells, vars
<1>5. CASE Client
    BY <1>1, <1>3, <1>5, KLaunch, KReleased, KSlotActions DEF Client
<1>6. CASE update_slots
    <2>1. ~DecodeFails
        BY <1>3 DEF DecodeFails, Quiet
    <2>. QED
        BY <1>1, <1>3, <1>6, <2>1, KSlotActions, KReleased, KShift, KBatchSampled, KPasses,
           KStartPrompt, KReuseChunk, KSkipCached, KReuseDone, KFillBatch, KDecodeView, KSample,
           KDecodeDraft, KAcceptDraft DEF update_slots
<1>. QED
    BY <1>1, <1>4, <1>5, <1>6 DEF Next

\* What a slot believes to be in its KV cache is there, at its position, and its save
\* file holds what it says, unless decodes fail or requests come too early.
THEOREM CacheInvariant == Spec => [](CInv /\ KInv)
    BY CInit, CNext, KInit, KNext, PTL DEF Spec

\* What get_common_prefix finds for the next prompt is in the KV cache, whatever was
\* shifted, moved, drafted, saved or restored before; on a server that gets no request
\* before its first idle update, and no n_discard that reaches into the kept tokens.
THEOREM CacheIsInKv ==
    ASSUME DiscardsFit
    PROVE  Spec => [](~params_base.early_requests => CachedInKv)
<1>1. CInv /\ KInv => (~params_base.early_requests => CachedInKv)
    <2>1. SUFFICES ASSUME CInv, KInv, ~params_base.early_requests,
                          phase = "top", ~params_base.decode_may_fail
                   PROVE  Cells(cache_tokens) \subseteq kv
        BY DEF CachedInKv
    <2>2. batch = <<>> /\ Batched = {} /\ Holding(kv, cache_tokens, 0, Len(cache_tokens))
        BY <2>1, NoneBatched DEF KInv, Quiet, CacheHeld, BatchHeld
    <2>3. cache_tokens \in Seq(Token)
        BY <2>1, KTypes
    <2>4. \A i \in DOMAIN cache_tokens : [pos |-> 0 + i - 1, tok |-> cache_tokens[i]] \in kv
        <3>1. SUFFICES ASSUME NEW i \in 1..Len(cache_tokens)
                       PROVE  [pos |-> 0 + i - 1, tok |-> cache_tokens[i]] \in kv
            BY <2>3
        <3>2. 0 + i - 1 = i - 1
            OBVIOUS
        <3>. QED
            BY <2>2, <3>2 DEF Holding
    <2>. QED
        BY <2>4 DEF Cells, CellsFrom
<1>. QED
    BY <1>1, CacheInvariant, PTL

-----------------------------------------------------------------------------
(* How many tokens a response has.                                         *)

\* n_predict is -1 or positive, for the server and in every request (0 is not
\* rejected, and one token is generated).
BudgetsGiven ==
    /\ N_PREDICT = -1 \/ N_PREDICT > 0
    /\ \A r \in params_base.requests : r.n_predict = -1 \/ r.n_predict > 0

\* n_decoded counts the tokens of the response, and there is budget left for the next.
Counted ==
    /\ slot.state # "IDLE" =>
          /\ slot.stop = "none"
          /\ slot.params.n_predict = -1 \/ slot.params.n_predict > 0
    /\ slot.state \in {"STARTED", "PROCESSING_PROMPT", "DONE_PROMPT"} => slot.generated = <<>>
    /\ slot.state = "DONE_PROMPT" => slot.n_decoded = 0
    /\ slot.state = "GENERATING" =>
          slot.n_decoded = Len(slot.generated) /\ slot.n_decoded > 0 /\ has_budget(slot)
    /\ phase = "drafted" => can_speculate

\* Where the limit has ended a response, the budget is spent, unless drafts count ahead.
LimitSpent ==
    slot.stop = "limit" /\ ~slot.truncated /\ ~can_speculate => Len(slot.generated) = Budget

WithinBudget == Limitless(slot) \/ Len(slot.generated) <= Budget

LParts == Counted /\ LimitSpent /\ WithinBudget
LInv == BudgetsGiven => LParts

\* What the budget of a slot depends on.
LEMMA BudgetFacts ==
    ASSUME SlotTypeOK
    PROVE  /\ Budget \in Int /\ slot.n_decoded \in Nat /\ Len(slot.generated) \in Nat
           /\ slot.generated \in Seq(Token)
           /\ Remaining(slot) = Budget - slot.n_decoded
<1>1. slot \in server_slot /\ N_PREDICT \in Int
    BY ServerFacts DEF SlotTypeOK
<1>2. slot.n_decoded \in Nat /\ slot.params.n_predict \in Int /\ slot.generated \in Seq(Token)
    BY <1>1 DEF server_slot, RequestShape
<1>3. Budget \in Int
    BY <1>1, <1>2 DEF Budget
<1>4. Remaining(slot) = Budget - slot.n_decoded
    BY DEF Remaining, Budget
<1>. QED
    BY <1>2, <1>3, <1>4

\* Steps that leave the slot alone ...
LEMMA LSame ==
    ASSUME LParts, slot' = slot, params_base' = params_base, phase' = "drafted" => can_speculate
    PROVE  LParts'
<1>1. /\ (can_speculate)' = can_speculate /\ Budget' = Budget
      /\ has_budget(slot)' = has_budget(slot) /\ Limitless(slot)' = Limitless(slot)
    BY DEF can_speculate, Budget, has_budget, Limitless, Remaining, N_PREDICT
<1>. QED
    BY <1>1 DEF LParts, Counted, LimitSpent, WithinBudget

\* ... or move n_past, or end its task, and process no token.
LEMMA LMoves ==
    ASSUME LParts, slot.state # "IDLE", params_base' = params_base, phase' # "drafted",
           slot'.stop = slot.stop, slot'.generated = slot.generated,
           slot'.n_decoded = slot.n_decoded, slot'.params.n_predict = slot.params.n_predict,
           \/ slot'.state \in {slot.state, "IDLE"}
           \/ slot.state = "STARTED" /\ slot'.state = "PROCESSING_PROMPT"
    PROVE  LParts'
<1>1. has_budget(slot)' = has_budget(slot)
    BY DEF has_budget, Limitless, Remaining, N_PREDICT
<1>2. slot'.stop = "none"
    BY DEF LParts, Counted
<1>3. Counted'
    BY <1>1, <1>2 DEF LParts, Counted
<1>4. LimitSpent'
    BY <1>2 DEF LimitSpent
<1>5. WithinBudget'
    BY DEF LParts, WithinBudget, Limitless, Budget, N_PREDICT
<1>. QED
    BY <1>3, <1>4, <1>5 DEF LParts

LEMMA LLaunch ==
    ASSUME CInv, LParts, BudgetsGiven, NEW r \in params_base.requests, launch_slot_with_task(r)
    PROVE  LParts'
<1>1. slot \in server_slot /\ r \in RequestShape /\ N_PREDICT \in Int
    BY ServerFacts DEF CInv, SlotTypeOK
<1>2. reset(slot) \in server_slot /\ reset(slot).state = slot.state
      /\ reset(slot).stop = "none" /\ reset(slot).generated = <<>>
    <2>1. 0 \in 0..N_CTX /\ <<>> \in Seq(Token)
        BY ContextAssumption
    <2>. QED
        BY <1>1, <2>1 DEF reset, server_slot
<1>3. LimitedBy(r) \in RequestShape
      /\ (LimitedBy(r).n_predict = -1 \/ LimitedBy(r).n_predict > 0)
    BY <1>1 DEF LimitedBy, RequestShape, BudgetsGiven
<1>4. phase' = "top" /\ slot.state = "IDLE" /\ params_base' = params_base
    BY DEF launch_slot_with_task, is_processing
<1>5. CASE slot' = [reset(slot) EXCEPT !.params = r, !.state = "STARTED", !.params = LimitedBy(r)]
    <2>1. /\ slot'.state = "STARTED" /\ slot'.stop = "none" /\ slot'.generated = <<>>
          /\ slot'.params = LimitedBy(r)
        BY <1>2, <1>5 DEF server_slot
    <2>2. WithinBudget'
        <3>1. Limitless(slot)' \/ Budget' > 0
            BY <1>1, <1>3, <1>4, <2>1 DEF Limitless, Budget, N_PREDICT, BudgetsGiven
        <3>2. Budget' \in Int /\ Len(slot'.generated) = 0
            BY <1>1, <1>3, <1>4, <2>1 DEF Budget, N_PREDICT, RequestShape
        <3>. QED
            BY <3>1, <3>2 DEF WithinBudget
    <2>. QED
        BY <1>3, <1>4, <2>1, <2>2 DEF LParts, Counted, LimitSpent
<1>6. CASE slot' = [reset(slot) EXCEPT !.params = r]
    <2>1. /\ slot'.state = "IDLE" /\ slot'.stop = "none" /\ slot'.generated = <<>>
          /\ slot'.params = r
        BY <1>2, <1>4, <1>6 DEF server_slot
    <2>2. WithinBudget'
        BY <1>1, <1>4, <2>1 DEF WithinBudget, Limitless, Budget, N_PREDICT, BudgetsGiven,
                                RequestShape
    <2>. QED
        BY <1>4, <2>1, <2>2 DEF LParts, Counted, LimitSpent
<1>. QED
    BY <1>5, <1>6 DEF launch_slot_with_task

\* The task of the slot ends without a token.
LEMMA LReleased ==
    ASSUME CInv, LParts, Cancel \/ ContextFull \/ EmptyPrompt \/ PromptTooLarge \/ DecodeFails
    PROVE  LParts'
<1>1. slot \in server_slot /\ params_base' = params_base
    BY DEF CInv, SlotTypeOK, Cancel, ContextFull, EmptyPrompt, PromptTooLarge, DecodeFails,
           serverVars
<1>2. phase' # "drafted"
    BY DEF CInv, PastOK, Cancel, ContextFull, EmptyPrompt, PromptTooLarge, DecodeFails, Batching
<1>3. CASE slot' = [slot EXCEPT !.state = "IDLE"] /\ slot.state # "IDLE"
    <2>1. /\ slot'.state = "IDLE" /\ slot'.stop = slot.stop /\ slot'.generated = slot.generated
          /\ slot'.n_decoded = slot.n_decoded /\ slot'.params = slot.params
        BY <1>1, <1>3 DEF server_slot
    <2>. QED
        BY <1>1, <1>2, <1>3, <2>1, LMoves
<1>4. CASE slot' = slot
    BY <1>1, <1>2, <1>4, LSame
<1>. QED
    BY <1>3, <1>4 DEF Cancel, ContextFull, EmptyPrompt, PromptTooLarge, DecodeFails, Full,
                      is_processing, release

\* n_past moves, and a new prompt is started.
LEMMA LPast ==
    ASSUME CInv, LParts, ShiftContext \/ BatchSampled \/ StartPrompt \/ ReuseChunk \/ ReuseDone
    PROVE  LParts'
<1>1. slot \in server_slot /\ params_base' = params_base /\ slot.params \in RequestShape
    BY DEF CInv, SlotTypeOK, server_slot, ShiftContext, BatchSampled, StartPrompt, ReuseChunk,
           ReuseDone, serverVars
<1>2. phase' # "drafted"
    BY DEF ShiftContext, BatchSampled, StartPrompt, ReuseChunk, ReuseDone
<1>3. slot.state # "IDLE"
    BY DEF CInv, PastOK, Reusing, ShiftContext, BatchSampled, StartPrompt, ReuseChunk, ReuseDone,
           Full, is_processing
<1>4. /\ slot'.stop = slot.stop /\ slot'.generated = slot.generated
      /\ slot'.n_decoded = slot.n_decoded /\ slot'.params.n_predict = slot.params.n_predict
      /\ \/ slot'.state = slot.state
         \/ slot.state = "STARTED" /\ slot'.state = "PROCESSING_PROMPT"
    <2>1. CASE StartPrompt
        <3> DEFINE k == Kept(slot.params.n_keep, Len(prompt_tokens))
                   l == Len(prompt_tokens) >= N_CTX
        <3>1. PICK n : slot' = [slot EXCEPT !.state = "PROCESSING_PROMPT", !.params.n_keep = k,
                                           !.truncated = l, !.n_past = n]
            BY <2>1 DEF StartPrompt
        <3>2. slot.state = "STARTED"
            BY <2>1 DEF StartPrompt
        <3>. HIDE DEF k, l
        <3>. QED
            BY <1>1, <3>1, <3>2 DEF server_slot, RequestShape
    <2>2. CASE ShiftContext
        <3>1. slot' = [slot EXCEPT !.n_past = @ - Discarded, !.truncated = TRUE]
            BY <2>2 DEF ShiftContext, Discarded
        <3>. QED
            BY <1>1, <3>1 DEF server_slot
    <2>3. CASE BatchSampled
        BY <1>1, <2>3 DEF BatchSampled, server_slot
    <2>4. CASE ReuseChunk
        BY <1>1, <2>4 DEF ReuseChunk, server_slot
    <2>5. CASE ReuseDone
        BY <1>1, <2>5 DEF ReuseDone, server_slot
    <2>. QED
        BY <2>1, <2>2, <2>3, <2>4, <2>5
<1>. QED
    BY <1>1, <1>2, <1>3, <1>4, LMoves

\* Steps that leave the slot alone.
LEMMA LPasses ==
    ASSUME LParts, \/ AllIdle \/ SaveSlot \/ RestoreSlot \/ EraseSlot
                   \/ NotBatched \/ SkipCached \/ DecodeView \/ NoRow
                   \/ DecodeDraft \/ SkipSpeculation \/ NextView
    PROVE  LParts'
<1>1. slot' = slot /\ params_base' = params_base
    BY DEF AllIdle, SaveSlot, RestoreSlot, EraseSlot, NotBatched, SkipCached, DecodeView, NoRow,
           DecodeDraft, SkipSpeculation, NextView, serverVars
<1>2. phase' = "drafted" => can_speculate
    BY DEF AllIdle, SaveSlot, RestoreSlot, EraseSlot, NotBatched, SkipCached, DecodeView, NoRow,
           DecodeDraft, SkipSpeculation, NextView, WillDraft, ActionOnSlot
<1>. QED
    BY <1>1, <1>2, LSame

LEMMA LFillBatch ==
    ASSUME CInv, LParts, FillBatch
    PROVE  LParts'
<1>1. PICK n \in 0..(Len(prompt_tokens) - CommonPart) : Filled(n)
    BY FillsSome
<1>2. slot \in server_slot /\ slot.state = "PROCESSING_PROMPT"
    BY Filling DEF CInv, SlotTypeOK
<1>3. /\ slot'.stop = slot.stop /\ slot'.generated = slot.generated
      /\ slot'.params = slot.params
      /\ \/ slot'.state = "PROCESSING_PROMPT"
         \/ slot'.state = "DONE_PROMPT" /\ slot'.n_decoded = 0
    BY <1>1, <1>2 DEF Filled, server_slot
<1>4. phase' = "decode" /\ params_base' = params_base
    BY DEF FillBatch, serverVars
<1>5. WithinBudget'
    BY <1>3, <1>4 DEF LParts, WithinBudget, Limitless, Budget, N_PREDICT
<1>. QED
    BY <1>2, <1>3, <1>4, <1>5 DEF LParts, Counted, LimitSpent

\* What the slot has decoded and may decode before it samples.
LEMMA LBefore ==
    ASSUME CInv, LParts, BudgetsGiven, slot.state \in {"DONE_PROMPT", "GENERATING"}
    PROVE  /\ slot.n_decoded = Len(slot.generated) /\ slot.stop = "none"
           /\ Limitless(slot) \/ slot.n_decoded < Budget
<1>1. /\ Budget \in Int /\ slot.n_decoded \in Nat /\ Len(slot.generated) \in Nat
      /\ Remaining(slot) = Budget - slot.n_decoded /\ N_PREDICT \in Int
    BY BudgetFacts, ServerFacts DEF CInv
<1>2. CASE slot.state = "GENERATING"
    BY <1>1, <1>2 DEF LParts, Counted, has_budget
<1>3. CASE slot.state = "DONE_PROMPT"
    <2>1. slot.n_decoded = 0 /\ slot.generated = <<>> /\ slot.stop = "none"
          /\ (slot.params.n_predict = -1 \/ slot.params.n_predict > 0)
        BY <1>3 DEF LParts, Counted
    <2>2. Limitless(slot) \/ Budget > 0
        BY <1>1, <2>1 DEF BudgetsGiven, Limitless, Budget
    <2>. QED
        BY <1>1, <2>1, <2>2
<1>. QED
    BY <1>2, <1>3

LEMMA LSample ==
    ASSUME CInv, LParts, BudgetsGiven, Sample
    PROVE  LParts'
<1> DEFINE s == [slot EXCEPT !.row = FALSE, !.n_decoded = @ + 1]
<1>1. /\ phase' = "speculate" /\ params_base' = params_base
      /\ slot.state \in {"DONE_PROMPT", "GENERATING"} /\ SlotTypeOK /\ slot \in server_slot
    BY DEF Sample, HasRow, serverVars, CInv, SlotTypeOK
<1>2. /\ slot.n_decoded = Len(slot.generated) /\ slot.stop = "none"
      /\ Limitless(slot) \/ slot.n_decoded < Budget
    BY <1>1, LBefore
<1>3. /\ Budget \in Int /\ slot.n_decoded \in Nat /\ slot.generated \in Seq(Token)
    BY <1>1, BudgetFacts
<1>4. /\ s \in server_slot /\ s.n_decoded = slot.n_decoded + 1 /\ s.stop = "none"
      /\ s.generated = slot.generated /\ s.params = slot.params
    <2>1. slot.n_decoded + 1 \in Nat
        BY <1>3
    <2>2. s = [slot EXCEPT !.row = FALSE, !.n_decoded = slot.n_decoded + 1]
        BY <1>1 DEF server_slot
    <2>. HIDE DEF s
    <2>. QED
        BY <1>1, <1>2, <2>1, <2>2 DEF server_slot
<1>5. PICK tok \in Token, word \in BOOLEAN :
          GoOnOrEnd(process_token(s, tok, word), Stops(s, tok, word))
    BY DEF Sample
<1>. HIDE DEF s
<1> DEFINE u == process_token(s, tok, word)
<1>6. /\ u \in server_slot
      /\ u.params = slot.params /\ u.n_decoded = slot.n_decoded + 1
      /\ u.generated = Append(slot.generated, tok)
    BY <1>1, <1>4, ProcessToken
<1>7. ~Stops(s, tok, word) => u.stop = "none"
    BY <1>1, <1>4, ProcessToken
<1>8. u.stop = "limit" => u.truncated \/ OutOfBudget(s, word)
    BY <1>1, <1>4, ProcessToken
<1>. HIDE DEF u
<1>9. /\ slot'.params = u.params /\ slot'.generated = u.generated
      /\ slot'.truncated = u.truncated
      /\ slot'.n_decoded = u.n_decoded /\ slot'.stop = u.stop
      /\ slot'.state \in {"IDLE", "GENERATING"}
      /\ slot'.state = "GENERATING" => ~Stops(s, tok, word)
    BY <1>5, <1>6, GoesOn DEF u
<1>10. /\ has_budget(slot)' = has_budget(s) /\ Limitless(s) = Limitless(slot)
       /\ Remaining(s) = Budget - (slot.n_decoded + 1)
       /\ Budget' = Budget /\ (can_speculate)' = can_speculate
    BY <1>1, <1>4, <1>6, <1>9
       DEF has_budget, Limitless, Remaining, N_PREDICT, Budget, can_speculate
<1>11. /\ Len(slot'.generated) = Len(slot.generated) + 1 /\ Len(slot.generated) \in Nat
       /\ slot'.n_decoded = Len(slot'.generated)
    BY <1>2, <1>3, <1>6, <1>9
<1>12. Counted'
    <2>1. slot'.state = "GENERATING" => has_budget(s) /\ slot'.stop = "none"
        BY <1>3, <1>4, <1>7, <1>9 DEF Stops, OutOfBudget
    <2>2. slot.params.n_predict = -1 \/ slot.params.n_predict > 0
        BY <1>1 DEF LParts, Counted
    <2>. QED
        BY <1>1, <1>3, <1>6, <1>9, <1>10, <1>11, <2>1, <2>2 DEF Counted
<1>13. ASSUME slot'.stop = "limit", ~slot'.truncated
       PROVE  Len(slot'.generated) = Budget
    <2>1. ~Limitless(slot) /\ Remaining(s) <= 0
        <3>1. ~has_budget(s)
            BY <1>8, <1>9, <1>13 DEF OutOfBudget
        <3>2. Remaining(s) \in Int
            BY <1>3, <1>10
        <3>. QED
            BY <1>10, <3>1, <3>2 DEF has_budget
    <2>. QED
        BY <1>2, <1>3, <1>10, <1>11, <2>1
<1>14. LimitSpent'
    BY <1>10, <1>13 DEF LimitSpent
<1>15. WithinBudget'
    <2>1. Limitless(slot)' = Limitless(slot)
        BY <1>1, <1>6, <1>9 DEF Limitless, N_PREDICT
    <2>. QED
        BY <1>2, <1>3, <1>10, <1>11, <2>1 DEF WithinBudget
<1>. QED
    BY <1>12, <1>14, <1>15 DEF LParts

LEMMA LAcceptDraft ==
    ASSUME CInv, LParts, BudgetsGiven, AcceptDraft
    PROVE  LParts'
<1>1. /\ phase = "drafted" /\ phase' = "viewed" /\ params_base' = params_base
      /\ slot.state = "GENERATING" /\ SlotTypeOK /\ can_speculate /\ Len(draft) \in Nat
    BY DEF AcceptDraft, serverVars, CInv, PastOK, LParts, Counted, SlotTypeOK
<1>2. /\ slot.n_decoded = Len(slot.generated) /\ slot.stop = "none"
      /\ Limitless(slot) \/ slot.n_decoded < Budget
    BY <1>1, LBefore
<1>3. /\ Budget \in Int /\ slot.n_decoded \in Nat /\ slot.generated \in Seq(Token)
    BY <1>1, BudgetFacts
<1>4. PICK m \in 1..(Len(draft) + 1) : \E ids \in [1..m -> Token] :
          /\ slot'.params = slot.params
          /\ slot'.state \in {"IDLE", "GENERATING"}
          /\ slot'.n_decoded = slot.n_decoded + m
          /\ \E i \in 1..m :
                /\ slot'.generated = Lengthen(slot.generated, ids, i)
                /\ slot'.state = "GENERATING" =>
                      i = m /\ slot'.stop = slot.stop /\ has_budget(slot)'
                /\ i = 1 \/ has_budget(slot)'
    BY Accepting
<1>5. m \in Nat \ {0}
    BY <1>1
<1>6. PICK ids \in [1..m -> Token], i \in 1..m :
          /\ slot'.params = slot.params
          /\ slot'.state \in {"IDLE", "GENERATING"}
          /\ slot'.n_decoded = slot.n_decoded + m
          /\ slot'.generated = Lengthen(slot.generated, ids, i)
          /\ slot'.state = "GENERATING" => i = m /\ slot'.stop = slot.stop /\ has_budget(slot)'
          /\ i = 1 \/ has_budget(slot)'
    BY <1>4
<1>7. Len(slot'.generated) = Len(slot.generated) + i /\ i \in Nat /\ i >= 1
    <2>1. Len(Lengthen(slot.generated, ids, i)) = Len(slot.generated) + i
        BY <1>3, <1>5, Lengthened
    <2>. QED
        BY <1>5, <1>6, <2>1
<1>8. /\ Limitless(slot)' = Limitless(slot) /\ Budget' = Budget
      /\ (can_speculate)' = can_speculate
    BY <1>1, <1>6 DEF Limitless, N_PREDICT, Budget, can_speculate
<1>9. Counted'
    <2>1. slot.params.n_predict = -1 \/ slot.params.n_predict > 0
        BY <1>1 DEF LParts, Counted
    <2>2. slot'.state = "GENERATING" =>
             /\ slot'.n_decoded = Len(slot'.generated) /\ slot'.n_decoded > 0
             /\ has_budget(slot)' /\ slot'.stop = "none"
        BY <1>2, <1>3, <1>5, <1>6, <1>7
    <2>. QED
        BY <1>1, <1>6, <2>1, <2>2 DEF Counted
<1>10. LimitSpent'
    BY <1>1, <1>8 DEF LimitSpent
<1>11. WithinBudget'
    <2>1. SUFFICES ASSUME ~Limitless(slot) PROVE Len(slot'.generated) <= Budget
        BY <1>8 DEF WithinBudget
    <2>2. CASE i = 1
        BY <1>2, <1>3, <1>7, <2>1, <2>2
    <2>3. CASE i # 1
        <3>1. has_budget(slot)'
            BY <1>6, <2>3
        <3>2. Remaining(slot)' = Budget - (slot.n_decoded + m)
            BY <1>1, <1>6 DEF Remaining, Budget, N_PREDICT
        <3>3. Budget - (slot.n_decoded + m) > 0
            BY <1>8, <2>1, <3>1, <3>2 DEF has_budget
        <3>4. i <= m
            BY <1>5
        <3>. QED
            BY <1>2, <1>3, <1>5, <1>7, <3>3, <3>4
    <2>. QED
        BY <2>2, <2>3
<1>. QED
    BY <1>9, <1>10, <1>11 DEF LParts

\* LInv holds at the start ...
LEMMA LInit == Init => LInv
<1>1. SUFFICES ASSUME Init, BudgetsGiven PROVE LParts
    BY DEF LInv
<1>2. slot = FreshSlot /\ phase = "top" /\ N_PREDICT \in Int
    BY <1>1, CInit, ServerFacts DEF Init, CInv
<1>3. /\ slot.state = "IDLE" /\ slot.stop = "none" /\ slot.generated = <<>>
      /\ slot.params.n_predict = -1
    BY <1>2 DEF FreshSlot, NoParams
<1>4. WithinBudget
    BY <1>1, <1>2, <1>3 DEF WithinBudget, Limitless, Budget, BudgetsGiven
<1>. QED
    BY <1>2, <1>3, <1>4 DEF LParts, Counted, LimitSpent

\* ... and every step preserves it.
LEMMA LNext == CInv /\ LInv /\ [Next]_vars => LInv'
<1>1. SUFFICES ASSUME CInv, LInv, [Next]_vars, BudgetsGiven' PROVE LParts'
    BY DEF LInv, LParts
<1>2. params_base' = params_base
    BY <1>1 DEF Next, Client, update_slots, vars, serverVars, launch_slot_with_task, Cancel, AllIdle,
       SaveSlot, RestoreSlot, EraseSlot, ContextFull, ShiftContext, BatchSampled, NotBatched,
       EmptyPrompt, PromptTooLarge, StartPrompt, ReuseChunk, SkipCached, ReuseDone, FillBatch,
       DecodeView, DecodeFails, Sample, NoRow, DecodeDraft, AcceptDraft, SkipSpeculation, NextView
<1>3. BudgetsGiven /\ LParts
    BY <1>1, <1>2 DEF BudgetsGiven, N_PREDICT, LInv, LParts
<1>4. CASE UNCHANGED vars
    <2>1. slot' = slot /\ params_base' = params_base /\ phase' = phase
        BY <1>4 DEF vars
    <2>. QED
        BY <1>3, <2>1, LSame DEF LParts, Counted
<1>5. CASE Client
    BY <1>1, <1>3, <1>5, LLaunch, LReleased, LPasses DEF Client
<1>6. CASE update_slots
    BY <1>1, <1>3, <1>6, LPasses, LReleased, LPast, LFillBatch, LSample, LAcceptDraft
       DEF update_slots
<1>. QED
    BY <1>1, <1>4, <1>5, <1>6 DEF Next

\* No response has more tokens than were allowed, and one that stopped by the limit has
\* exactly as many if no draft counts them ahead: for every n_predict of the server and
\* of the requests but 0, and every draft.
THEOREM BudgetIsKept == Spec => [](BudgetsGiven => BudgetKept)
<1>1. CInv /\ LInv => (BudgetsGiven => BudgetKept)
    BY DEF LInv, LParts, LimitSpent, WithinBudget, LimitMeansBudget, BudgetKept
<1>2. Spec => [](CInv /\ LInv)
    BY CInit, CNext, LInit, LNext, PTL DEF Spec
<1>. QED
    BY <1>1, <1>2, PTL

-----------------------------------------------------------------------------
(* What a token is sampled from.                                           *)

\* A pending row is not overtaken by a draft (speculation runs after every view), and
\* no prompt is truncated behind n_keep tokens where a shift keeps the BOS token too;
\* and no shift discards kept tokens.
Plain ==
    /\ DiscardsFit
    /\ ~(params_base.draft_model /\ params_base.many_views)
    /\ AddBos = 1 /\ CtxShift => \A r \in params_base.requests : Len(r.prompt) < N_CTX

\* The i-th token of the request's prompt and all that was generated for it.
Word(s, i) == IF i <= Len(s.params.prompt) THEN s.params.prompt[i]
              ELSE s.generated[i - Len(s.params.prompt)]
Said(s) == Len(s.params.prompt) + Len(s.generated)

\* The tokens are the first n of these, without a gap g behind the first k.
Says(s, k, tokens, n, least) ==
    \E g \in 0..n :
        /\ Len(tokens) + g = n
        /\ IF s.truncated THEN Len(tokens) >= least ELSE g = 0
        /\ \A i \in 1..Len(tokens) : tokens[i] = Word(s, IF i <= k THEN i ELSE i + g)

\* The prompt, before and while it is processed.
PromptSaid ==
    /\ slot.state = "STARTED" =>
          /\ prompt_tokens = slot.params.prompt
          /\ \E r \in params_base.requests : prompt_tokens = r.prompt
    /\ slot.state \in {"STARTED", "PROCESSING_PROMPT", "DONE_PROMPT"} => slot.generated = <<>>
    /\ slot.state = "PROCESSING_PROMPT" =>
          /\ Says(slot, ShiftKeep, prompt_tokens, Said(slot), ShiftKeep + 1)
          /\ \A i \in 1..slot.n_past : cache_tokens[i] = prompt_tokens[i]

\* The context: the row to be sampled is there, or the token sampled last is missing.
ContextSaid ==
    /\ slot.state = "DONE_PROMPT" \/ (slot.state = "GENERATING" /\ slot.row) =>
          Says(slot, ShiftKeep, cache_tokens, Said(slot), ShiftKeep + 1)
    /\ slot.state = "GENERATING" /\ ~slot.row =>
          /\ slot.generated # <<>> /\ slot.sampled = slot.generated[Len(slot.generated)]
          /\ Says(slot, ShiftKeep, cache_tokens, Said(slot) - 1, ShiftKeep)

\* A row is pending until its view is decoded.
RowPending ==
    /\ slot.state = "GENERATING" /\ slot.row =>
          /\ phase \in {"decode", "results", "speculate", "viewed"}
          /\ phase # "results" => batch # <<>>
    /\ ~params_base.many_views /\ phase \in {"results", "speculate", "drafted", "viewed"} =>
          batch = <<>>

TParts == PromptSaid /\ ContextSaid /\ RowPending
TInv == Plain => TParts

\* More is said: the tokens are still the first n words.
LEMMA SaysMore ==
    ASSUME NEW s, NEW s2, NEW k \in Nat, NEW t \in Seq(Token), NEW n \in Nat,
           NEW l \in Nat, NEW l2 \in 0..l, Says(s, k, t, n, l),
           s2.truncated = s.truncated, \A i \in 1..n : Word(s2, i) = Word(s, i)
    PROVE  Says(s2, k, t, n, l2)
<1>1. PICK g \in 0..n :
          /\ Len(t) + g = n
          /\ IF s.truncated THEN Len(t) >= l ELSE g = 0
          /\ \A i \in 1..Len(t) : t[i] = Word(s, IF i <= k THEN i ELSE i + g)
    BY DEF Says
<1>2. Len(t) \in Nat
    OBVIOUS
<1>3. \A i \in 1..Len(t) : (IF i <= k THEN i ELSE i + g) \in 1..n
    BY <1>1, <1>2
<1>4. \A i \in 1..Len(t) : t[i] = Word(s2, IF i <= k THEN i ELSE i + g)
    BY <1>1, <1>3
<1>5. IF s2.truncated THEN Len(t) >= l2 ELSE g = 0
    BY <1>1, <1>2
<1>. QED
    BY <1>1, <1>4, <1>5 DEF Says

\* Places behind the first l.
LEMMA Offset ==
    ASSUME NEW l \in Nat, NEW m \in Nat, NEW g \in Nat, NEW n \in Nat, l + g = n,
           NEW i \in Nat, i > l, i <= l + m
    PROVE  i - l \in 1..m /\ l + (i - l) = i /\ n + (i - l) = i + g
    OBVIOUS

\* The words that follow are appended to the tokens.
LEMMA SaysNext ==
    ASSUME NEW s, NEW k \in Nat, NEW t \in Seq(Token), NEW n \in Nat,
           NEW a \in Seq(Token), NEW new \in Seq(Token), Says(s, k, t, n, k),
           Len(new) = Len(t) + Len(a), \A i \in 1..Len(t) : new[i] = t[i],
           \A j \in 1..Len(a) : new[Len(t) + j] = a[j] /\ a[j] = Word(s, n + j)
    PROVE  Says(s, k, new, n + Len(a), k + Len(a))
<1>1. PICK g \in 0..n :
          /\ Len(t) + g = n
          /\ IF s.truncated THEN Len(t) >= k ELSE g = 0
          /\ \A i \in 1..Len(t) : t[i] = Word(s, IF i <= k THEN i ELSE i + g)
    BY DEF Says
<1>2. Len(t) \in Nat /\ Len(a) \in Nat /\ Len(new) \in Nat /\ n + Len(a) \in Nat /\ g \in Nat
    OBVIOUS
<1>3. ASSUME NEW i \in 1..Len(new)
      PROVE  new[i] = Word(s, IF i <= k THEN i ELSE i + g)
    <2>1. CASE i <= Len(t)
        BY <1>1, <1>2, <2>1
    <2>2. CASE i > Len(t)
        <3> DEFINE q == i - Len(t)
        <3>1. q \in 1..Len(a) /\ Len(t) + q = i /\ n + q = i + g
            <4> DEFINE l == Len(t)
                       m == Len(a)
            <4>1. i \in Nat /\ i <= l + m /\ l + g = n /\ i > l /\ l \in Nat /\ m \in Nat
                BY <1>1, <1>2, <2>2
            <4>2. i - l \in 1..m /\ l + (i - l) = i /\ n + (i - l) = i + g
                <5>. HIDE DEF l, m
                <5>. QED
                    BY <1>2, <4>1, Offset
            <4>. QED
                BY <4>2
        <3>2. (IF i <= k THEN i ELSE i + g) = n + q
            <4>1. CASE g = 0
                BY <1>2, <3>1, <4>1
            <4>2. CASE g # 0
                BY <1>1, <1>2, <2>2, <3>1, <4>2
            <4>. QED
                BY <4>1, <4>2
        <3>. HIDE DEF q
        <3>3. new[Len(t) + q] = Word(s, n + q)
            BY <3>1
        <3>. QED
            BY <3>1, <3>2, <3>3
    <2>. QED
        BY <1>2, <2>1, <2>2
<1>4. g \in 0..(n + Len(a)) /\ Len(new) + g = n + Len(a)
    BY <1>1, <1>2
<1>5. IF s.truncated THEN Len(new) >= k + Len(a) ELSE g = 0
    BY <1>1, <1>2
<1>. QED
    BY <1>3, <1>4, <1>5 DEF Says

\* Tokens behind the first k are discarded.
LEMMA SaysShifted ==
    ASSUME NEW s, NEW s2, NEW k \in Nat, NEW t \in Seq(Token), NEW n \in Nat, NEW d \in Nat,
           Says(s, k, t, n, k), k + d <= Len(t), s2.truncated,
           \A i \in 1..n : Word(s2, i) = Word(s, i)
    PROVE  Says(s2, k, Shifted(t, k, d), n, k)
<1> DEFINE new == Shifted(t, k, d)
<1>1. PICK g \in 0..n :
          /\ Len(t) + g = n
          /\ \A i \in 1..Len(t) : t[i] = Word(s, IF i <= k THEN i ELSE i + g)
    BY DEF Says
<1>2. /\ Len(new) = Len(t) - d
      /\ \A i \in 1..k : new[i] = t[i]
      /\ \A i \in (k + 1)..(Len(t) - d) : new[i] = t[i + d]
    BY ShiftedTokens
<1>. HIDE DEF new
<1> DEFINE h == g + d
<1>3. Len(t) \in Nat /\ h \in 0..n /\ Len(new) + h = n /\ Len(new) >= k /\ g \in Nat
    BY <1>1, <1>2
<1>4. ASSUME NEW i \in 1..Len(new)
      PROVE  new[i] = Word(s2, IF i <= k THEN i ELSE i + h)
    <2>1. CASE i <= k
        <3>1. i \in 1..Len(t) /\ i \in 1..k /\ i \in 1..n
            BY <1>1, <1>2, <1>3, <2>1
        <3>. QED
            BY <1>1, <1>2, <2>1, <3>1
    <2>2. CASE i > k
        <3> DEFINE j == i + d
        <3>1. i \in (k + 1)..(Len(t) - d) /\ j \in 1..Len(t) /\ ~(j <= k)
              /\ j + g = i + h /\ j + g \in 1..n
            BY <1>1, <1>2, <1>3, <2>2
        <3>2. new[i] = t[j]
            BY <1>2, <3>1
        <3>. HIDE DEF j, h
        <3>3. t[j] = Word(s, j + g) /\ Word(s2, j + g) = Word(s, j + g)
            BY <1>1, <3>1
        <3>. QED
            BY <2>2, <3>1, <3>2, <3>3
    <2>. QED
        BY <2>1, <2>2, <1>3
<1>. HIDE DEF h
<1>. QED
    BY <1>3, <1>4 DEF Says, new

\* What is said before is still said when more is generated.
LEMMA SameWords ==
    ASSUME NEW s, NEW s2, s2.params.prompt = s.params.prompt,
           s.params.prompt \in Seq(Token), s.generated \in Seq(Token),
           \A i \in 1..Len(s.generated) : s2.generated[i] = s.generated[i]
    PROVE  \A i \in 1..Said(s) : Word(s2, i) = Word(s, i)
<1> DEFINE l == Len(s.params.prompt)
           g == Len(s.generated)
<1>1. l \in Nat /\ g \in Nat
    OBVIOUS
<1>2. ASSUME NEW i \in 1..(l + g) PROVE Word(s2, i) = Word(s, i)
    <2>1. CASE i <= l
        BY <2>1 DEF Word
    <2>2. CASE i > l
        <3>1. i - l \in 1..g /\ ~(i <= l)
            <4>. HIDE DEF l, g
            <4>. QED
                BY <1>1, <2>2
        <3>. QED
            BY <3>1 DEF Word
    <2>. QED
        BY <1>1, <2>1, <2>2
<1>. QED
    BY <1>2 DEF Said

\* The types of what is said.
LEMMA SaidFacts ==
    ASSUME CInv
    PROVE  /\ slot \in server_slot /\ slot.params.prompt \in Seq(Token)
           /\ slot.generated \in Seq(Token) /\ slot.sampled \in Token
           /\ Len(slot.params.prompt) \in Nat /\ Len(slot.generated) \in Nat
           /\ Said(slot) \in Nat
           /\ prompt_tokens \in Seq(Token) /\ cache_tokens \in Seq(Token)
           /\ Len(prompt_tokens) \in Nat /\ Len(cache_tokens) \in Nat /\ slot.n_past \in Nat
           /\ slot.state \in AtWork => ShiftKeep \in Nat
<1>1. /\ slot \in server_slot /\ prompt_tokens \in Seq(Token) /\ cache_tokens \in Seq(Token)
      /\ AddBos \in {0, 1} /\ N_CTX \in Nat
    BY ServerFacts, ContextAssumption DEF CInv, SlotTypeOK
<1>2. /\ slot.params \in RequestShape /\ slot.generated \in Seq(Token) /\ slot.sampled \in Token
      /\ slot.n_past \in Nat
    BY <1>1 DEF server_slot
<1>3. slot.params.prompt \in Seq(Token)
    BY <1>2 DEF RequestShape
<1>4. Len(slot.generated) \in Nat /\ Len(slot.params.prompt) \in Nat /\ Said(slot) \in Nat
    <2>1. \A s \in Seq(Token) : Len(s) \in Nat
        OBVIOUS
    <2>2. Len(slot.generated) \in Nat /\ Len(slot.params.prompt) \in Nat
        BY <1>2, <1>3, <2>1
    <2>3. \A a, b \in Nat : a + b \in Nat
        OBVIOUS
    <2>. QED
        BY <2>2, <2>3, Zenon DEF Said
<1>5. slot.state \in AtWork => ShiftKeep \in Nat
    BY <1>1 DEF CInv, KeepFits, ShiftKeep
<1>. QED
    BY <1>1, <1>2, <1>3, <1>4, <1>5

\* A slot without a task says nothing.
LEMMA TIdle ==
    ASSUME slot'.state = "IDLE", phase' = "top"
    PROVE  TParts'
    BY DEF TParts, PromptSaid, ContextSaid, RowPending

LEMMA TReleased ==
    ASSUME CInv, \/ Cancel \/ ContextFull \/ EmptyPrompt \/ PromptTooLarge \/ DecodeFails
                 \/ AllIdle \/ SaveSlot \/ RestoreSlot \/ EraseSlot
    PROVE  TParts'
<1>1. slot \in server_slot
    BY DEF CInv, SlotTypeOK
<1>2. slot'.state = "IDLE"
    BY <1>1 DEF Cancel, ContextFull, EmptyPrompt, PromptTooLarge, DecodeFails, AllIdle, SaveSlot,
       RestoreSlot, EraseSlot, ActionOnSlot, is_processing, release, server_slot
<1>3. phase' = "top"
    BY DEF CInv, PastOK, Cancel, ContextFull, EmptyPrompt, PromptTooLarge, DecodeFails, AllIdle,
       SaveSlot, RestoreSlot, EraseSlot, ActionOnSlot, Batching
<1>. QED
    BY <1>2, <1>3, TIdle

LEMMA TLaunch ==
    ASSUME CInv, NEW r \in params_base.requests, launch_slot_with_task(r)
    PROVE  TParts'
<1>1. slot \in server_slot /\ r \in RequestShape
    BY ServerFacts DEF CInv, SlotTypeOK
<1>2. reset(slot) \in server_slot /\ reset(slot).state = slot.state
      /\ reset(slot).generated = <<>>
    <2>1. 0 \in 0..N_CTX /\ <<>> \in Seq(Token)
        BY ContextAssumption
    <2>. QED
        BY <1>1, <2>1 DEF reset, server_slot
<1>3. LimitedBy(r).prompt = r.prompt
    BY <1>1 DEF LimitedBy, RequestShape
<1>4. phase' = "top" /\ slot.state = "IDLE" /\ params_base' = params_base
      /\ prompt_tokens' = r.prompt
    BY DEF launch_slot_with_task, is_processing
<1>5. CASE slot' = [reset(slot) EXCEPT !.params = r, !.state = "STARTED", !.params = LimitedBy(r)]
    <2>1. slot'.state = "STARTED" /\ slot'.generated = <<>> /\ slot'.params = LimitedBy(r)
        BY <1>2, <1>5 DEF server_slot
    <2>. QED
        BY <1>3, <1>4, <2>1 DEF TParts, PromptSaid, ContextSaid, RowPending
<1>6. CASE slot' = [reset(slot) EXCEPT !.params = r]
    <2>1. slot'.state = "IDLE"
        BY <1>2, <1>4, <1>6 DEF server_slot
    <2>. QED
        BY <1>4, <2>1, TIdle
<1>. QED
    BY <1>5, <1>6 DEF launch_slot_with_task

\* Steps that leave the slot and its lists of tokens alone.
LEMMA TSame ==
    ASSUME TParts, RowPending',
           UNCHANGED <<params_base, slot, prompt_tokens, cache_tokens>>
    PROVE  TParts'
<1>1. Says(slot, ShiftKeep, prompt_tokens, Said(slot), ShiftKeep + 1)' =
          Says(slot, ShiftKeep, prompt_tokens, Said(slot), ShiftKeep + 1)
    BY DEF Says, Word, Said, ShiftKeep, AddBos
<1>2. Says(slot, ShiftKeep, cache_tokens, Said(slot), ShiftKeep + 1)' =
          Says(slot, ShiftKeep, cache_tokens, Said(slot), ShiftKeep + 1)
    BY DEF Says, Word, Said, ShiftKeep, AddBos
<1>3. Says(slot, ShiftKeep, cache_tokens, Said(slot) - 1, ShiftKeep)' =
          Says(slot, ShiftKeep, cache_tokens, Said(slot) - 1, ShiftKeep)
    BY DEF Says, Word, Said, ShiftKeep, AddBos
<1>4. PromptSaid'
    BY <1>1 DEF TParts, PromptSaid
<1>5. ContextSaid'
    BY <1>2, <1>3 DEF TParts, ContextSaid
<1>. QED
    BY <1>4, <1>5 DEF TParts

LEMMA TPasses ==
    ASSUME TParts, NotBatched \/ NoRow \/ SkipSpeculation \/ NextView
    PROVE  TParts'
<1>1. UNCHANGED <<params_base, slot, prompt_tokens, cache_tokens, batch>>
    BY DEF NotBatched, NoRow, SkipSpeculation, NextView, serverVars
<1>2. RowPending'
    <2>1. CASE NotBatched
        BY <1>1, <2>1 DEF TParts, RowPending, NotBatched, Batching
    <2>2. CASE NoRow
        BY <1>1, <2>2 DEF TParts, RowPending, NoRow, HasRow
    <2>3. CASE SkipSpeculation
        BY <1>1, <2>3 DEF TParts, RowPending, SkipSpeculation
    <2>4. CASE NextView
        BY <1>1, <2>4 DEF TParts, RowPending, NextView
    <2>. QED
        BY <2>1, <2>2, <2>3, <2>4
<1>. QED
    BY <1>1, <1>2, TSame

LEMMA TSkipCached ==
    ASSUME CInv, TParts, SkipCached
    PROVE  TParts'
<1>1. /\ UNCHANGED <<params_base, slot, prompt_tokens, cache_tokens, batch>>
      /\ phase' = "reuse" /\ slot.state = "PROCESSING_PROMPT"
    BY DEF SkipCached, serverVars, CInv, PastOK, Reusing
<1>2. RowPending'
    BY <1>1 DEF RowPending
<1>. QED
    BY <1>1, <1>2, TSame

LEMMA TDecodeView ==
    ASSUME CInv, TParts, DecodeView
    PROVE  TParts'
<1>1. /\ UNCHANGED <<params_base, slot, prompt_tokens, cache_tokens>>
      /\ phase = "decode" /\ phase' = "results"
    BY DEF DecodeView, serverVars
<1>2. ~params_base.many_views => batch' = <<>>
    <2>1. batch \in Seq(Cell)
        BY DEF CInv, SlotTypeOK
    <2>2. ~params_base.many_views => batch' = SubSeq(batch, Len(batch) + 1, Len(batch))
        BY DEF DecodeView
    <2>. QED
        BY <2>1, <2>2
<1>3. RowPending'
    BY <1>1, <1>2 DEF TParts, RowPending
<1>. QED
    BY <1>1, <1>3, TSame

\* A draft is made when no row is pending.
LEMMA TDecodeDraft ==
    ASSUME Plain, TParts, DecodeDraft
    PROVE  TParts'
<1>1. /\ UNCHANGED <<params_base, slot, prompt_tokens, cache_tokens, batch>>
      /\ phase = "speculate" /\ phase' = "drafted" /\ params_base.draft_model
    BY DEF DecodeDraft, serverVars, WillDraft, can_speculate
<1>2. batch = <<>>
    BY <1>1 DEF Plain, TParts, RowPending
<1>3. RowPending'
    BY <1>1, <1>2 DEF TParts, RowPending
<1>. QED
    BY <1>1, <1>3, TSame

\* A sampled token is what is said next; it is not in the context yet.
LEMMA TSample ==
    ASSUME CInv, TParts, Sample
    PROVE  TParts'
<1> DEFINE s == [slot EXCEPT !.row = FALSE, !.n_decoded = @ + 1]
           k == ShiftKeep
           n == Said(slot)
<1>1. /\ phase = "results" /\ phase' = "speculate" /\ HasRow
      /\ UNCHANGED <<params_base, prompt_tokens, cache_tokens, batch>>
    BY DEF Sample, serverVars
<1>2. /\ slot \in server_slot /\ slot.state \in {"DONE_PROMPT", "GENERATING"} /\ slot.row
      /\ batch = <<>> /\ SlotTypeOK
    BY <1>1 DEF CInv, SlotTypeOK, HasRow
<1>3. /\ slot.params.prompt \in Seq(Token) /\ slot.generated \in Seq(Token)
      /\ Len(slot.generated) \in Nat /\ Len(slot.params.prompt) \in Nat /\ n \in Nat
      /\ cache_tokens \in Seq(Token) /\ k \in Nat
    BY <1>2, SaidFacts DEF AtWork
<1>4. /\ s \in server_slot /\ s.params = slot.params /\ s.generated = slot.generated
      /\ s.truncated = slot.truncated /\ s.row = FALSE
    <2>1. slot.n_decoded + 1 \in Nat
        BY <1>2 DEF server_slot
    <2>2. s = [slot EXCEPT !.row = FALSE, !.n_decoded = slot.n_decoded + 1]
        BY <1>2 DEF server_slot
    <2>. HIDE DEF s
    <2>. QED
        BY <1>2, <2>1, <2>2 DEF server_slot
<1>5. PICK tok \in Token, word \in BOOLEAN :
          GoOnOrEnd(process_token(s, tok, word), Stops(s, tok, word))
    BY DEF Sample
<1>. HIDE DEF s
<1> DEFINE u == process_token(s, tok, word)
<1>6. /\ u \in server_slot /\ u.params = slot.params /\ u.sampled = tok /\ u.row = FALSE
      /\ u.generated = Append(slot.generated, tok)
    BY <1>2, <1>4, ProcessToken
<1>7. ~Stops(s, tok, word) => u.truncated = slot.truncated
    BY <1>2, <1>4, ProcessToken
<1>. HIDE DEF u
<1>8. /\ slot'.params = u.params /\ slot'.generated = u.generated
      /\ slot'.truncated = u.truncated /\ slot'.sampled = u.sampled /\ slot'.row = u.row
      /\ slot'.state \in {"IDLE", "GENERATING"}
      /\ slot'.state = "GENERATING" => ~Stops(s, tok, word)
    BY <1>5, <1>6, GoesOn DEF u
<1>9. /\ slot'.generated \in Seq(Token) /\ Len(slot'.generated) = Len(slot.generated) + 1
      /\ \A i \in 1..Len(slot.generated) : slot'.generated[i] = slot.generated[i]
      /\ slot'.generated[Len(slot.generated) + 1] = tok
    BY <1>3, <1>6, <1>8, Appended
<1>10. ShiftKeep' = k
    BY <1>1, <1>6, <1>8 DEF ShiftKeep, AddBos
<1>11. Said(slot)' - 1 = n
    <2> DEFINE l == Len(slot.params.prompt)
               g == Len(slot.generated)
    <2>1. Said(slot)' = l + (g + 1) /\ n = l + g
        BY <1>6, <1>8, <1>9 DEF Said
    <2>2. l \in Nat /\ g \in Nat
        BY <1>3
    <2>. HIDE DEF n, l, g
    <2>. QED
        BY <2>1, <2>2
<1>12. ASSUME slot'.state = "GENERATING"
       PROVE  Says(slot', k, cache_tokens, n, k)
    <2>1. Says(slot, k, cache_tokens, n, k + 1)
        BY <1>2 DEF TParts, ContextSaid
    <2>2. \A i \in 1..n : Word(slot', i) = Word(slot, i)
        BY <1>3, <1>6, <1>8, <1>9, SameWords
    <2>3. slot'.truncated = slot.truncated
        BY <1>7, <1>8, <1>12
    <2>. HIDE DEF n, k
    <2>4. k + 1 \in Nat /\ k \in 0..(k + 1)
        BY <1>3
    <2>. QED
        BY <1>3, <2>1, <2>2, <2>3, <2>4, SaysMore
<1>13. ContextSaid'
    <2>1. slot'.generated # <<>> /\ slot'.sampled = slot'.generated[Len(slot'.generated)]
        BY <1>3, <1>6, <1>8, <1>9
    <2>2. slot'.state # "DONE_PROMPT" /\ ~slot'.row
        BY <1>6, <1>8
    <2>3. cache_tokens' = cache_tokens
        BY <1>1
    <2>. HIDE DEF n, k
    <2>. QED
        BY <1>10, <1>11, <1>12, <2>1, <2>2, <2>3 DEF ContextSaid
<1>14. PromptSaid'
    BY <1>8 DEF PromptSaid
<1>15. RowPending'
    BY <1>1, <1>2, <1>6, <1>8 DEF RowPending
<1>. QED
    BY <1>13, <1>14, <1>15 DEF TParts

\* Between two updates no row is pending: the sampled token is missing.
LEMMA TBetween ==
    ASSUME CInv, TParts, slot.state = "GENERATING", phase \in {"top", "batch", "drafted"}
    PROVE  /\ ~slot.row /\ slot.generated # <<>>
           /\ slot.sampled = slot.generated[Len(slot.generated)]
           /\ Says(slot, ShiftKeep, cache_tokens, Said(slot) - 1, ShiftKeep)
           /\ ShiftKeep \in Nat /\ Said(slot) - 1 \in Nat
           /\ slot.sampled = Word(slot, Said(slot))
<1>1. ~slot.row
    BY DEF TParts, RowPending
<1>2. /\ slot.generated # <<>> /\ slot.sampled = slot.generated[Len(slot.generated)]
      /\ Says(slot, ShiftKeep, cache_tokens, Said(slot) - 1, ShiftKeep)
    BY <1>1 DEF TParts, ContextSaid
<1>3. ShiftKeep \in Nat /\ slot.generated \in Seq(Token)
      /\ Len(slot.generated) \in Nat /\ Len(slot.params.prompt) \in Nat
    BY SaidFacts DEF AtWork
<1> DEFINE l == Len(slot.params.prompt)
           g == Len(slot.generated)
<1>4. l \in Nat /\ g \in Nat /\ g >= 1
    BY <1>2, <1>3
<1>5. Said(slot) = l + g /\ slot.sampled = slot.generated[g]
    BY <1>2 DEF Said
<1>6. l + g - 1 \in Nat /\ ~(l + g <= l) /\ (l + g) - l = g
    <2>. HIDE DEF l, g
    <2>. QED
        BY <1>4
<1>7. Word(slot, l + g) = slot.generated[(l + g) - l]
    BY <1>6 DEF Word
<1>. HIDE DEF l, g
<1>8. Said(slot) - 1 \in Nat
    BY <1>4, <1>5, <1>6
<1>9. slot.sampled = Word(slot, Said(slot))
    BY <1>4, <1>5, <1>6, <1>7
<1>. QED
    BY <1>1, <1>2, <1>3, <1>8, <1>9

LEMMA TBatchSampled ==
    ASSUME CInv, TParts, BatchSampled
    PROVE  TParts'
<1> DEFINE k == ShiftKeep
           n == Said(slot) - 1
<1>1. /\ phase \in {"top", "batch"} /\ phase' = "decode" /\ slot.state = "GENERATING"
      /\ batch' # <<>>
      /\ cache_tokens' = Append(cache_tokens, slot.sampled)
      /\ slot' = [slot EXCEPT !.n_past = @ + 1, !.row = TRUE]
      /\ UNCHANGED <<params_base, prompt_tokens>>
    BY DEF BatchSampled, Batching, serverVars
<1>2. /\ Says(slot, k, cache_tokens, n, k) /\ k \in Nat /\ n \in Nat
      /\ slot.sampled = Word(slot, Said(slot))
    BY <1>1, TBetween
<1>3. /\ slot \in server_slot /\ slot.sampled \in Token /\ cache_tokens \in Seq(Token)
      /\ slot.generated \in Seq(Token) /\ slot.params.prompt \in Seq(Token) /\ Said(slot) \in Nat
    BY SaidFacts
<1>4. /\ slot'.state = "GENERATING" /\ slot'.row /\ slot'.params = slot.params
      /\ slot'.generated = slot.generated /\ slot'.truncated = slot.truncated
    BY <1>1, <1>3 DEF server_slot
<1>5. /\ cache_tokens' \in Seq(Token) /\ Len(cache_tokens') = Len(cache_tokens) + 1
      /\ \A i \in 1..Len(cache_tokens) : cache_tokens'[i] = cache_tokens[i]
      /\ cache_tokens'[Len(cache_tokens) + 1] = slot.sampled
    BY <1>1, <1>3, Appended
<1> DEFINE a == <<slot.sampled>>
<1>6. a \in Seq(Token) /\ Len(a) = 1 /\ a[1] = slot.sampled
    BY <1>3
<1>7. n + 1 = Said(slot)
    BY <1>3
<1>. HIDE DEF a, n, k
<1>8. \A j \in 1..Len(a) : cache_tokens'[Len(cache_tokens) + j] = a[j] /\ a[j] = Word(slot, n + j)
    <2>1. \A j \in 1..Len(a) : j = 1
        BY <1>6
    <2>. QED
        BY <1>2, <1>5, <1>6, <1>7, <2>1
<1>9. Says(slot, k, cache_tokens', n + Len(a), k + Len(a))
    BY <1>2, <1>3, <1>5, <1>6, <1>8, SaysNext
<1>10. \A i \in 1..Said(slot) : Word(slot', i) = Word(slot, i)
    BY <1>3, <1>4, SameWords
<1>11. Says(slot', k, cache_tokens', Said(slot), k + 1)
    <2>1. Says(slot, k, cache_tokens', Said(slot), k + 1)
        BY <1>6, <1>7, <1>9
    <2>2. k + 1 \in Nat /\ k + 1 \in 0..(k + 1)
        BY <1>2
    <2>. QED
        BY <1>2, <1>3, <1>4, <1>5, <1>10, <2>1, <2>2, SaysMore
<1>12. ShiftKeep' = k /\ Said(slot)' = Said(slot)
    BY <1>1, <1>4 DEF ShiftKeep, AddBos, Said, k
<1>13. ContextSaid'
    BY <1>4, <1>11, <1>12 DEF ContextSaid
<1>14. PromptSaid' /\ RowPending'
    BY <1>1, <1>4 DEF PromptSaid, RowPending
<1>. QED
    BY <1>13, <1>14 DEF TParts

\* Discarded tokens leave the one gap.
LEMMA TShift ==
    ASSUME CInv, Plain, TParts, ShiftContext
    PROVE  TParts'
<1> DEFINE k == ShiftKeep
           n == Said(slot) - 1
           d == Discarded
<1>1. /\ phase = "top" /\ Full /\ phase' = "batch"
      /\ cache_tokens' = Shifted(cache_tokens, k, d)
      /\ slot' = [slot EXCEPT !.n_past = @ - d, !.truncated = TRUE]
      /\ UNCHANGED <<params_base, prompt_tokens>>
    BY DEF ShiftContext, Discarded, serverVars
<1>2. /\ slot.state = "GENERATING" /\ slot.n_past = Len(cache_tokens)
      /\ d \in Nat /\ k + d <= Len(cache_tokens)
    BY <1>1, FullContext DEF Plain
<1>3. /\ Says(slot, k, cache_tokens, n, k) /\ k \in Nat /\ n \in Nat
      /\ ~slot.row /\ slot.generated # <<>>
      /\ slot.sampled = slot.generated[Len(slot.generated)]
    BY <1>1, <1>2, TBetween
<1>4. /\ slot \in server_slot /\ cache_tokens \in Seq(Token)
      /\ slot.generated \in Seq(Token) /\ slot.params.prompt \in Seq(Token) /\ Said(slot) \in Nat
    BY SaidFacts
<1>5. /\ slot'.state = "GENERATING" /\ ~slot'.row /\ slot'.params = slot.params
      /\ slot'.generated = slot.generated /\ slot'.truncated /\ slot'.sampled = slot.sampled
    BY <1>1, <1>2, <1>3, <1>4 DEF server_slot
<1>6. \A i \in 1..Said(slot) : Word(slot', i) = Word(slot, i)
    BY <1>4, <1>5, SameWords
<1>7. \A i \in 1..n : i \in 1..Said(slot)
    BY <1>4
<1>8. ShiftKeep' = k /\ Said(slot)' - 1 = n
    BY <1>1, <1>5 DEF ShiftKeep, AddBos, Said
<1>. HIDE DEF k, n, d
<1>9. Says(slot', k, cache_tokens', n, k)
    BY <1>1, <1>2, <1>3, <1>4, <1>5, <1>6, <1>7, SaysShifted
<1>10. ContextSaid'
    BY <1>3, <1>5, <1>8, <1>9 DEF ContextSaid
<1>11. PromptSaid' /\ RowPending'
    BY <1>1, <1>5 DEF PromptSaid, RowPending
<1>. QED
    BY <1>10, <1>11 DEF TParts

\* A prompt that fits says itself ...
LEMMA SaysPrompt ==
    ASSUME NEW s, s.params.prompt \in Seq(Token), ~s.truncated, NEW k \in Nat, NEW l
    PROVE  Says(s, k, s.params.prompt, Len(s.params.prompt), l)
<1> DEFINE p == s.params.prompt
<1>1. Len(p) \in Nat /\ 0 \in 0..Len(p) /\ Len(p) + 0 = Len(p)
    OBVIOUS
<1>2. \A i \in 1..Len(p) : p[i] = Word(s, IF i <= k THEN i ELSE i + 0)
    <2>1. \A i \in 1..Len(p) : (IF i <= k THEN i ELSE i + 0) = i /\ i <= Len(p)
        BY <1>1
    <2>2. \A i \in 1..Len(p) : Word(s, i) = p[i]
        BY <2>1 DEF Word
    <2>. QED
        BY <2>1, <2>2
<1>. QED
    BY <1>1, <1>2 DEF Says

\* ... and one that was cut has one gap.
LEMMA SaysCut ==
    ASSUME NEW s, NEW p \in Seq(Token), s.params.prompt = p, s.truncated,
           NEW k \in Nat, NEW j \in (k + 1)..Len(p)
    PROVE  Says(s, k, SubSeq(p, 1, k) \o SubSeq(p, j, Len(p)), Len(p), k + 1)
<1> DEFINE a == SubSeq(p, 1, k)
           z == SubSeq(p, j, Len(p))
           t == a \o z
           n == Len(p)
           g == j - k - 1
<1>1. n \in Nat /\ j \in Nat /\ k + 1 <= j /\ j <= n
    OBVIOUS
<1>2. a \in Seq(Token) /\ Len(a) = k /\ \A i \in 1..k : a[i] = p[i]
    <2>1. 1 \in 1..(Len(p) + 1) /\ k \in (1 - 1)..Len(p)
        BY <1>1
    <2>. QED
        BY <1>1, <2>1, Part
<1>3. z \in Seq(Token) /\ Len(z) = n - j + 1 /\ \A i \in 1..(n - j + 1) : z[i] = p[j + i - 1]
    <2>1. j \in 1..(Len(p) + 1) /\ Len(p) \in (j - 1)..Len(p)
        BY <1>1
    <2>. QED
        BY <1>1, <2>1, Part
<1>. HIDE DEF a, z
<1>4. /\ t \in Seq(Token) /\ Len(t) = Len(a) + Len(z)
      /\ \A i \in 1..Len(a) : t[i] = a[i]
      /\ \A i \in 1..Len(z) : t[Len(a) + i] = z[i]
    <2>1. a \in Seq(Token) /\ z \in Seq(Token)
        BY <1>2, <1>3
    <2>. QED
        BY <2>1, Joined
<1>. HIDE DEF t
<1>5. Len(t) = k + (n - j + 1) /\ Len(t) + g = n /\ g \in 0..n /\ Len(t) >= k + 1
    <2>. HIDE DEF n
    <2>. QED
        BY <1>1, <1>2, <1>3, <1>4
<1>6. ASSUME NEW i \in 1..Len(t) PROVE t[i] = Word(s, IF i <= k THEN i ELSE i + g)
    <2>1. i \in Nat /\ i >= 1 /\ i <= k + (n - j + 1)
        BY <1>1, <1>5
    <2>2. CASE i <= k
        <3>1. t[i] = p[i] /\ i <= Len(p)
            BY <1>1, <1>2, <1>4, <2>1, <2>2
        <3>. QED
            BY <2>2, <3>1 DEF Word
    <2>3. CASE i > k
        <3> DEFINE q == i - k
        <3>1. q \in 1..(n - j + 1) /\ k + q = i /\ j + q - 1 = i + g /\ i + g <= n /\ ~(i <= k)
            <4>. HIDE DEF n
            <4>. QED
                BY <1>1, <2>1, <2>3
        <3>. HIDE DEF q, g
        <3>2. t[k + q] = p[j + q - 1]
            BY <1>2, <1>3, <1>4, <3>1
        <3>. QED
            BY <3>1, <3>2 DEF Word
    <2>. QED
        BY <1>1, <2>1, <2>2, <2>3
<1>. QED
    BY <1>5, <1>6 DEF Says, t, a, z

LEMMA TStartPrompt ==
    ASSUME CInv, Plain, TParts, StartPrompt
    PROVE  TParts'
<1> DEFINE keep == Kept(slot.params.n_keep, Len(prompt_tokens))
           p == StartedPrompt
           long == Len(prompt_tokens) >= N_CTX
<1>1. /\ slot.state = "STARTED" /\ phase' = "reuse" /\ params_base' = params_base
      /\ prompt_tokens' = p /\ (long => CtxShift)
    BY DEF StartPrompt, StartedPrompt, serverVars
<1>2. /\ prompt_tokens = slot.params.prompt /\ slot.generated = <<>>
      /\ \E r \in params_base.requests : prompt_tokens = r.prompt
    BY <1>1 DEF TParts, PromptSaid
<1>3. /\ slot \in server_slot /\ slot.params \in RequestShape
      /\ prompt_tokens \in Seq(Token) /\ Len(prompt_tokens) \in Nat /\ cache_tokens \in Seq(Token)
      /\ AddBos \in {0, 1} /\ N_CTX \in Nat
    BY SaidFacts, ServerFacts, ContextAssumption DEF CInv, server_slot
<1>4. keep \in 0..(N_CTX - 4) /\ keep \in Nat
    <2>1. slot.params.n_keep \in Int
        BY <1>3 DEF RequestShape
    <2>2. keep \in 0..(N_CTX - 4)
        BY <1>3, <2>1, KeptBounds
    <2>. HIDE DEF keep
    <2>. QED
        BY <1>3, <2>2
<1>5. PICK n \in Nat :
          /\ slot' = [slot EXCEPT !.state = "PROCESSING_PROMPT", !.params.n_keep = keep,
                                 !.truncated = long, !.n_past = n]
          /\ \A i \in 1..n : cache_tokens'[i] = p[i]
    <2>1. CASE slot.params.cache_prompt
        <3>1. PICK n \in 0..Len(cache_tokens) :
                  /\ get_common_prefix(cache_tokens, p, n)
                  /\ slot' = [slot EXCEPT !.state = "PROCESSING_PROMPT", !.params.n_keep = keep,
                                         !.truncated = long, !.n_past = n]
            BY <2>1 DEF StartPrompt, StartedPrompt
        <3>2. cache_tokens' = cache_tokens
            BY <2>1 DEF StartPrompt
        <3>3. n \in Nat
            BY <1>3
        <3>4. \A i \in 1..n : 0 + i = i
            BY <3>3
        <3>5. \A i \in 1..n : cache_tokens[0 + i] = p[0 + i]
            BY <3>1 DEF get_common_prefix, Matching
        <3>. HIDE DEF p, keep, long
        <3>6. \A i \in 1..n : cache_tokens'[i] = p[i]
            BY <3>2, <3>4, <3>5
        <3>. QED
            BY <3>1, <3>3, <3>6
    <2>2. CASE ~slot.params.cache_prompt
        <3>1. slot' = [slot EXCEPT !.state = "PROCESSING_PROMPT", !.params.n_keep = keep,
                                   !.truncated = long, !.n_past = 0]
            BY <2>2 DEF StartPrompt
        <3>2. \A i \in 1..0 : cache_tokens'[i] = p[i]
            OBVIOUS
        <3>. HIDE DEF p, keep, long
        <3>. QED
            BY <3>1, <3>2
    <2>. QED
        BY <2>1, <2>2
<1>6. /\ slot'.state = "PROCESSING_PROMPT" /\ slot'.params.n_keep = keep
      /\ slot'.params.prompt = slot.params.prompt /\ slot'.generated = <<>>
      /\ slot'.truncated = long /\ slot'.n_past = n
    <2>. HIDE DEF keep, long
    <2>. QED
        BY <1>2, <1>3, <1>5 DEF server_slot, RequestShape
<1> DEFINE k == keep + AddBos
<1>7. ShiftKeep' = k /\ k \in Nat
    BY <1>1, <1>3, <1>4, <1>6 DEF ShiftKeep, AddBos
<1>8. Said(slot)' = Len(prompt_tokens)
    <2>1. Said(slot)' = Len(prompt_tokens) + 0
        BY <1>2, <1>6 DEF Said
    <2>. QED
        BY <1>3, <2>1
<1>9. CASE ~long
    <2>1. p = prompt_tokens /\ ~slot'.truncated
        BY <1>6, <1>9 DEF StartedPrompt
    <2>2. slot'.params.prompt = prompt_tokens
        BY <1>2, <1>6
    <2>. HIDE DEF k, p, long
    <2>3. Says(slot', k, prompt_tokens, Len(prompt_tokens), k + 1)
        BY <1>3, <1>7, <2>1, <2>2, SaysPrompt
    <2>4. Says(slot', k, p, Len(prompt_tokens), k + 1)
        BY <2>1, <2>3
    <2>5. PromptSaid'
        BY <1>1, <1>5, <1>6, <1>7, <1>8, <2>4 DEF PromptSaid
    <2>. QED
        BY <1>1, <1>6, <2>5 DEF TParts, ContextSaid, RowPending
<1>10. CASE long
    <2>1. AddBos = 0
        <3>1. PICK r \in params_base.requests : prompt_tokens = r.prompt
            BY <1>2
        <3>2. ~(Len(prompt_tokens) < N_CTX)
            BY <1>3, <1>10
        <3>3. ~(AddBos = 1)
            BY <1>1, <1>10, <3>1, <3>2 DEF Plain
        <3>. QED
            BY <1>3, <3>3
    <2>2. k = keep
        BY <1>4, <2>1
    <2>3. PICK j \in (keep + 1)..Len(prompt_tokens) :
              p = SubSeq(prompt_tokens, 1, keep) \o SubSeq(prompt_tokens, j, Len(prompt_tokens))
        BY <1>3, <1>4, <1>10, Truncated DEF StartedPrompt
    <2>4. slot'.params.prompt = prompt_tokens /\ slot'.truncated
        BY <1>2, <1>6, <1>10
    <2>. HIDE DEF k, p, long, keep
    <2>5. Says(slot', keep,
               SubSeq(prompt_tokens, 1, keep) \o SubSeq(prompt_tokens, j, Len(prompt_tokens)),
               Len(prompt_tokens), keep + 1)
        BY <1>3, <1>4, <2>3, <2>4, SaysCut
    <2>6. Says(slot', k, p, Len(prompt_tokens), k + 1)
        BY <2>2, <2>3, <2>5
    <2>7. PromptSaid'
        BY <1>1, <1>5, <1>6, <1>7, <1>8, <2>6 DEF PromptSaid
    <2>. QED
        BY <1>1, <1>6, <2>7 DEF TParts, ContextSaid, RowPending
<1>. QED
    BY <1>9, <1>10

\* While a prompt is reused, it is said as before.
LEMMA TPrompt ==
    ASSUME CInv, TParts, slot.state = "PROCESSING_PROMPT",
           slot'.state = "PROCESSING_PROMPT", slot'.params = slot.params,
           slot'.generated = slot.generated, slot'.truncated = slot.truncated,
           UNCHANGED <<params_base, prompt_tokens>>, phase' \in {"reuse", "fill", "decode"},
           \A i \in 1..slot'.n_past : cache_tokens'[i] = prompt_tokens[i]
    PROVE  TParts'
<1> DEFINE k == ShiftKeep
           n == Said(slot)
<1>1. /\ slot.params.prompt \in Seq(Token) /\ slot.generated \in Seq(Token) /\ n \in Nat
      /\ prompt_tokens \in Seq(Token) /\ k \in Nat
    BY SaidFacts DEF AtWork
<1>2. Says(slot, k, prompt_tokens, n, k + 1) /\ slot.generated = <<>>
    BY DEF TParts, PromptSaid
<1>3. \A i \in 1..n : Word(slot', i) = Word(slot, i)
    BY <1>1, SameWords
<1>4. ShiftKeep' = k /\ Said(slot)' = n
    BY DEF ShiftKeep, AddBos, Said
<1>. HIDE DEF k, n
<1>5. Says(slot', k, prompt_tokens, n, k + 1)
    <2>1. k + 1 \in Nat /\ k + 1 \in 0..(k + 1)
        BY <1>1
    <2>. QED
        BY <1>1, <1>2, <1>3, <2>1, SaysMore
<1>6. PromptSaid'
    BY <1>2, <1>4, <1>5 DEF PromptSaid
<1>. QED
    BY <1>6 DEF TParts, ContextSaid, RowPending

LEMMA TReuseChunk ==
    ASSUME CInv, TParts, ReuseChunk
    PROVE  TParts'
<1>1. /\ phase' = "reuse" /\ Reusing /\ UNCHANGED <<params_base, prompt_tokens>>
    BY DEF ReuseChunk, CInv, PastOK, serverVars
<1>2. PICK m \in 1..Len(cache_tokens) :
          /\ Matching(cache_tokens, head.c, prompt_tokens, head.p, m)
          /\ cache_tokens' = [i \in DOMAIN cache_tokens |->
                                 IF i > head.p /\ i <= head.p + m
                                 THEN cache_tokens[i - head.p + head.c]
                                 ELSE cache_tokens[i]]
          /\ slot' = [slot EXCEPT !.n_past = @ + m]
    BY DEF ReuseChunk
<1>3. /\ slot \in server_slot /\ cache_tokens \in Seq(Token) /\ Len(cache_tokens) \in Nat
      /\ slot.n_past \in Nat
    BY SaidFacts
<1>4. head.p \in Nat /\ head.c \in Nat /\ m \in Nat /\ slot.n_past = head.p /\ head.p <= head.c
      /\ head.c + m <= Len(cache_tokens) /\ slot.state = "PROCESSING_PROMPT"
    <2>1. head \in [c : 0..N_CTX, p : 0..N_CTX] /\ N_CTX \in Nat
        BY ContextAssumption DEF CInv, SlotTypeOK
    <2>. QED
        BY <1>1, <1>2, <1>3, <2>1 DEF Reusing, Matching
<1>5. /\ slot'.state = "PROCESSING_PROMPT" /\ slot'.params = slot.params
      /\ slot'.generated = slot.generated /\ slot'.truncated = slot.truncated
      /\ slot'.n_past = head.p + m
    BY <1>2, <1>3, <1>4 DEF server_slot
<1>6. \A i \in 1..head.p : cache_tokens[i] = prompt_tokens[i]
    BY <1>4 DEF TParts, PromptSaid
<1>7. ASSUME NEW i \in 1..(head.p + m)
      PROVE  cache_tokens'[i] = prompt_tokens[i]
    <2>1. i \in DOMAIN cache_tokens /\ i \in Nat /\ i >= 1
        BY <1>3, <1>4
    <2>2. CASE i <= head.p
        BY <1>2, <1>4, <1>6, <2>1, <2>2
    <2>3. CASE i > head.p
        <3> DEFINE q == i - head.p
        <3>1. q \in 1..m /\ head.p + q = i /\ head.c + q = i - head.p + head.c
              /\ i <= head.p + m
            BY <1>4, <2>1, <2>3
        <3>. HIDE DEF q
        <3>2. cache_tokens[head.c + q] = prompt_tokens[head.p + q]
            BY <1>2, <3>1 DEF Matching
        <3>3. cache_tokens'[i] = cache_tokens[i - head.p + head.c]
            BY <1>2, <2>1, <2>3, <3>1
        <3>. QED
            BY <3>1, <3>2, <3>3
    <2>. QED
        BY <1>4, <2>1, <2>2, <2>3
<1>. QED
    BY <1>1, <1>4, <1>5, <1>7, TPrompt

LEMMA TReuseDone ==
    ASSUME CInv, TParts, ReuseDone
    PROVE  TParts'
<1>1. /\ phase' = "fill" /\ slot.state = "PROCESSING_PROMPT"
      /\ UNCHANGED <<params_base, prompt_tokens, cache_tokens>>
    BY DEF ReuseDone, CInv, PastOK, Reusing, serverVars
<1>2. slot \in server_slot /\ slot.n_past \in Nat
    BY SaidFacts
<1> DEFINE n == IF slot.n_past = Len(prompt_tokens) /\ slot.n_past > 0
                THEN slot.n_past - 1 ELSE slot.n_past
<1>3. slot' = [slot EXCEPT !.n_past = n]
    BY DEF ReuseDone
<1>4. \A i \in 1..n : i \in 1..slot.n_past
    BY <1>2
<1>5. \A i \in 1..slot.n_past : cache_tokens[i] = prompt_tokens[i]
    BY <1>1 DEF TParts, PromptSaid
<1>. HIDE DEF n
<1>6. /\ slot'.state = "PROCESSING_PROMPT" /\ slot'.params = slot.params
      /\ slot'.generated = slot.generated /\ slot'.truncated = slot.truncated
      /\ slot'.n_past = n
    BY <1>1, <1>2, <1>3 DEF server_slot
<1>7. \A i \in 1..slot'.n_past : cache_tokens'[i] = prompt_tokens[i]
    BY <1>1, <1>4, <1>5, <1>6
<1>. QED
    BY <1>1, <1>6, <1>7, TPrompt

\* A prompt that is all in the batch is all of the context.
LEMMA TFillBatch ==
    ASSUME CInv, TParts, FillBatch
    PROVE  TParts'
<1> DEFINE base == CommonPart
<1>1. PICK n \in 0..(Len(prompt_tokens) - base) : Filled(n)
    BY FillsSome
<1>2. /\ cache_tokens' \in Seq(Token) /\ Len(cache_tokens') = base + n
      /\ \A i \in 1..base : cache_tokens'[i] = cache_tokens[i]
      /\ \A i \in 1..n : cache_tokens'[base + i] = prompt_tokens[base + i]
      /\ slot'.n_past = base + n
      /\ slot'.params = slot.params /\ slot'.generated = slot.generated
      /\ slot'.truncated = slot.truncated
      /\ base + n < Len(prompt_tokens) => slot'.state = "PROCESSING_PROMPT"
      /\ base + n = Len(prompt_tokens) => slot'.state = "DONE_PROMPT" /\ slot'.row
    BY <1>1, FilledFacts
<1>3. /\ slot.state = "PROCESSING_PROMPT" /\ base \in Nat /\ base <= slot.n_past
      /\ base < Len(prompt_tokens)
    BY Filling
<1>4. phase' = "decode" /\ UNCHANGED <<params_base, prompt_tokens>>
    BY DEF FillBatch, serverVars
<1>5. /\ slot.params.prompt \in Seq(Token) /\ slot.generated \in Seq(Token)
      /\ Said(slot) \in Nat /\ slot.n_past \in Nat
      /\ prompt_tokens \in Seq(Token) /\ Len(prompt_tokens) \in Nat /\ ShiftKeep \in Nat
    BY <1>3, SaidFacts DEF AtWork
<1>6. \A i \in 1..slot.n_past : cache_tokens[i] = prompt_tokens[i]
    BY <1>3 DEF TParts, PromptSaid
<1>. HIDE DEF base
<1>7. n \in Nat /\ base + n <= Len(prompt_tokens)
    BY <1>3, <1>5
<1>8. ASSUME NEW i \in 1..(base + n) PROVE cache_tokens'[i] = prompt_tokens[i]
    <2>1. CASE i <= base
        BY <1>2, <1>3, <1>5, <1>6, <1>7, <2>1
    <2>2. CASE i > base
        <3> DEFINE q == i - base
        <3>1. q \in 1..n /\ base + q = i
            BY <1>3, <1>7, <2>2
        <3>. HIDE DEF q
        <3>. QED
            BY <1>2, <3>1
    <2>. QED
        BY <1>3, <1>7, <2>1, <2>2
<1>9. CASE base + n < Len(prompt_tokens)
    BY <1>2, <1>3, <1>4, <1>8, <1>9, TPrompt
<1>10. CASE base + n = Len(prompt_tokens)
    <2> DEFINE k == ShiftKeep
               w == Said(slot)
    <2>1. cache_tokens' = prompt_tokens
        BY <1>2, <1>5, <1>8, <1>10, SameSequence
    <2>2. Says(slot, k, prompt_tokens, w, k + 1) /\ slot.generated = <<>>
        BY <1>3 DEF TParts, PromptSaid
    <2>3. \A i \in 1..w : Word(slot', i) = Word(slot, i)
        BY <1>2, <1>5, SameWords
    <2>4. ShiftKeep' = k /\ Said(slot)' = w
        BY <1>2, <1>4 DEF ShiftKeep, AddBos, Said
    <2>5. k \in Nat /\ w \in Nat /\ k + 1 \in Nat /\ k + 1 \in 0..(k + 1)
        BY <1>5
    <2>. HIDE DEF k, w
    <2>6. Says(slot', k, prompt_tokens, w, k + 1)
        BY <1>2, <1>5, <2>2, <2>3, <2>5, SaysMore
    <2>7. ContextSaid'
        BY <1>2, <1>10, <2>1, <2>4, <2>6 DEF ContextSaid
    <2>8. PromptSaid' /\ RowPending'
        BY <1>2, <1>4, <1>10, <2>2 DEF PromptSaid, RowPending
    <2>. QED
        BY <2>7, <2>8 DEF TParts
<1>. QED
    BY <1>3, <1>5, <1>7, <1>9, <1>10

\* The accepted tokens are what was said: the token the draft began with, and all that
\* were sampled but the last.
LEMMA TAcceptDraft ==
    ASSUME CInv, Plain, TParts, AcceptDraft
    PROVE  TParts'
<1> DEFINE k == ShiftKeep
           w == Said(slot)
           g == Len(slot.generated)
           l == Len(slot.params.prompt)
<1>1. /\ phase = "drafted" /\ phase' = "viewed" /\ slot.state = "GENERATING"
      /\ UNCHANGED <<params_base, prompt_tokens, batch>> /\ Len(draft) \in Nat
    BY DEF AcceptDraft, CInv, PastOK, serverVars, SlotTypeOK
<1>2. /\ ~slot.row /\ slot.sampled = Word(slot, w)
      /\ Says(slot, k, cache_tokens, w - 1, k) /\ k \in Nat /\ w - 1 \in Nat
    BY <1>1, TBetween
<1>3. /\ slot.sampled \in Token /\ slot.generated \in Seq(Token)
      /\ slot.params.prompt \in Seq(Token) /\ cache_tokens \in Seq(Token)
      /\ w \in Nat /\ g \in Nat /\ l \in Nat
    BY SaidFacts
<1>4. PICK m \in 1..(Len(draft) + 1) : \E ids \in [1..m -> Token] :
          /\ cache_tokens' = cache_tokens \o Accepted(ids)
          /\ slot'.params = slot.params
          /\ slot'.state \in {"IDLE", "GENERATING"} /\ slot'.row = slot.row
          /\ \E i \in 1..m :
                /\ slot'.sampled = ids[i]
                /\ slot'.generated = Lengthen(slot.generated, ids, i)
                /\ slot'.state = "GENERATING" => i = m /\ slot'.truncated = slot.truncated
    BY Accepting
<1>5. m \in Nat \ {0}
    BY <1>1
<1>6. PICK ids \in [1..m -> Token], i \in 1..m :
          /\ cache_tokens' = cache_tokens \o Accepted(ids)
          /\ slot'.params = slot.params
          /\ slot'.state \in {"IDLE", "GENERATING"} /\ slot'.row = slot.row
          /\ slot'.sampled = ids[i]
          /\ slot'.generated = Lengthen(slot.generated, ids, i)
          /\ slot'.state = "GENERATING" => i = m /\ slot'.truncated = slot.truncated
    BY <1>4
<1>7. CASE slot'.state = "IDLE"
    BY <1>1, <1>7 DEF TParts, PromptSaid, ContextSaid, RowPending
<1>8. CASE slot'.state = "GENERATING"
    <2>1. /\ slot'.sampled = ids[m] /\ slot'.truncated = slot.truncated
          /\ slot'.generated = Lengthen(slot.generated, ids, m)
        BY <1>6, <1>8
    <2>2. /\ slot'.generated \in Seq(Token) /\ Len(slot'.generated) = g + m
          /\ \A j \in 1..g : slot'.generated[j] = slot.generated[j]
          /\ \A j \in 1..m : slot'.generated[g + j] = ids[j]
        <3>1. m \in 1..m
            BY <1>5
        <3>2. slot.generated \in Seq(Token)
            BY <1>3
        <3> DEFINE t == Lengthen(slot.generated, ids, m)
        <3>3. /\ t \in Seq(Token) /\ Len(t) = Len(slot.generated) + m
              /\ \A j \in 1..Len(slot.generated) : t[j] = slot.generated[j]
              /\ \A j \in 1..m : t[Len(slot.generated) + j] = ids[j]
            BY <1>5, <3>1, <3>2, Lengthened
        <3>. HIDE DEF t
        <3>4. slot'.generated = t
            BY <2>1 DEF t
        <3>. QED
            BY <3>3, <3>4
    <2>3. \A j \in 1..w : Word(slot', j) = Word(slot, j)
        BY <1>3, <1>6, <2>2, SameWords
    <2> DEFINE a == Accepted(ids)
    <2>4. /\ a \in Seq(Token) /\ Len(a) = m /\ a[1] = slot.sampled
          /\ \A j \in 1..(m - 1) : a[j + 1] = ids[j]
        BY <1>3, <1>5, AcceptedTokens
    <2>5. /\ cache_tokens' \in Seq(Token) /\ Len(cache_tokens') = Len(cache_tokens) + Len(a)
          /\ \A j \in 1..Len(cache_tokens) : cache_tokens'[j] = cache_tokens[j]
          /\ \A j \in 1..Len(a) : cache_tokens'[Len(cache_tokens) + j] = a[j]
        <3>1. cache_tokens \in Seq(Token) /\ a \in Seq(Token)
            BY <1>3, <2>4
        <3>. QED
            BY <1>6, <3>1, Joined
    <2>6. w = l + g /\ Said(slot)' = l + (g + m)
        BY <1>6, <2>2 DEF Said
    <2>7. ShiftKeep' = k
        BY <1>1, <1>6 DEF ShiftKeep, AddBos
    <2>8. \A x : Word(slot', x) = IF x <= l THEN slot.params.prompt[x] ELSE slot'.generated[x - l]
        BY <1>6 DEF Word
    <2>9. slot'.generated # <<>> /\ slot'.sampled = slot'.generated[Len(slot'.generated)]
        <3>1. m \in 1..m /\ g + m > 0
            <4>. HIDE DEF g
            <4>. QED
                BY <1>3, <1>5
        <3>2. slot'.sampled = slot'.generated[g + m]
            BY <2>1, <2>2, <3>1
        <3>. HIDE DEF g
        <3>. QED
            BY <2>2, <3>1, <3>2
    <2>. HIDE DEF a, k, w, g, l
    <2>10. ASSUME NEW j \in 1..m PROVE a[j] = Word(slot', (w - 1) + j)
        <3>1. CASE j = 1
            <4>1. (w - 1) + j = w /\ w \in 1..w
                BY <1>2, <1>3, <3>1
            <4>. QED
                BY <1>2, <2>3, <2>4, <3>1, <4>1
        <3>2. CASE j # 1
            <4> DEFINE q == j - 1
            <4>1. /\ q \in 1..(m - 1) /\ q \in 1..m /\ q + 1 = j
                  /\ (w - 1) + j = l + (g + q) /\ ~(l + (g + q) <= l)
                  /\ (l + (g + q)) - l = g + q
                BY <1>3, <1>5, <2>6, <3>2
            <4>. HIDE DEF q
            <4>2. a[j] = ids[q]
                BY <2>4, <4>1
            <4>3. Word(slot', l + (g + q)) = slot'.generated[g + q]
                BY <2>8, <4>1
            <4>4. slot'.generated[g + q] = ids[q]
                BY <2>2, <4>1
            <4>. QED
                BY <4>1, <4>2, <4>3, <4>4
        <3>. QED
            BY <3>1, <3>2
    <2>11. Says(slot', k, cache_tokens, w - 1, k)
        <3>1. \A j \in 1..(w - 1) : Word(slot', j) = Word(slot, j)
            BY <1>2, <1>3, <2>3
        <3>2. k \in 0..k
            BY <1>2
        <3>. QED
            BY <1>2, <1>3, <2>1, <3>1, <3>2, SaysMore
    <2>12. Says(slot', k, cache_tokens', (w - 1) + Len(a), k + Len(a))
        <3>1. \A j \in 1..Len(a) : cache_tokens'[Len(cache_tokens) + j] = a[j]
                                   /\ a[j] = Word(slot', (w - 1) + j)
            BY <2>4, <2>5, <2>10
        <3>. QED
            BY <1>2, <1>3, <2>4, <2>5, <2>11, <3>1, SaysNext
    <2>13. Said(slot)' - 1 = (w - 1) + Len(a) /\ (w - 1) + Len(a) \in Nat
           /\ k + Len(a) \in Nat /\ k \in 0..(k + Len(a))
        BY <1>2, <1>3, <1>5, <2>4, <2>6
    <2>14. Says(slot', k, cache_tokens', Said(slot)' - 1, k)
        <3> DEFINE x == (w - 1) + Len(a)
                   y == k + Len(a)
        <3>1. Says(slot', k, cache_tokens', x, y) /\ x \in Nat /\ y \in Nat /\ k \in 0..y
              /\ Said(slot)' - 1 = x
            BY <2>12, <2>13
        <3>. HIDE DEF x, y
        <3>2. Says(slot', k, cache_tokens', x, k)
            BY <1>2, <2>5, <3>1, SaysMore
        <3>. QED
            BY <3>1, <3>2
    <2>15. ContextSaid'
        BY <1>2, <1>6, <1>8, <2>7, <2>9, <2>14 DEF ContextSaid
    <2>16. PromptSaid' /\ RowPending'
        BY <1>1, <1>2, <1>6, <1>8 DEF PromptSaid, RowPending, TParts
    <2>. QED
        BY <2>15, <2>16 DEF TParts
<1>. QED
    BY <1>6, <1>7, <1>8

\* TInv holds at the start ...
LEMMA TInit == Init => TInv
    BY DEF Init, TInv, TParts, PromptSaid, ContextSaid, RowPending, FreshSlot

\* ... and every step preserves it.
LEMMA TNext == CInv /\ TInv /\ [Next]_vars => TInv'
<1>1. SUFFICES ASSUME CInv, TInv, [Next]_vars, Plain' PROVE TParts'
    BY DEF TInv
<1>2. params_base' = params_base
    BY <1>1 DEF Next, Client, update_slots, vars, serverVars, launch_slot_with_task, Cancel, AllIdle,
       SaveSlot, RestoreSlot, EraseSlot, ContextFull, ShiftContext, BatchSampled, NotBatched,
       EmptyPrompt, PromptTooLarge, StartPrompt, ReuseChunk, SkipCached, ReuseDone, FillBatch,
       DecodeView, DecodeFails, Sample, NoRow, DecodeDraft, AcceptDraft, SkipSpeculation, NextView
<1>3. Plain /\ TParts
    BY <1>1, <1>2 DEF Plain, TInv, AddBos, CtxShift
<1>4. CASE UNCHANGED vars
    <2>1. UNCHANGED <<params_base, slot, prompt_tokens, cache_tokens, batch, phase>>
        BY <1>4 DEF vars
    <2>2. RowPending'
        BY <1>3, <2>1 DEF TParts, RowPending
    <2>. QED
        BY <1>3, <2>1, <2>2, TSame
<1>5. CASE Client
    BY <1>1, <1>3, <1>5, TLaunch, TReleased DEF Client
<1>6. CASE update_slots
    BY <1>1, <1>3, <1>6, TReleased, TShift, TBatchSampled, TPasses, TStartPrompt, TReuseChunk,
       TSkipCached, TReuseDone, TFillBatch, TDecodeView, TSample, TDecodeDraft, TAcceptDraft
       DEF update_slots
<1>. QED
    BY <1>1, <1>4, <1>5, <1>6 DEF Next

\* The context of a slot is the request's transcript, but for one gap behind the tokens
\* to be kept, at every point of update_slots.
THEOREM TranscriptInvariant == Spec => [](CInv /\ TInv)
    BY CInit, CNext, TInit, TNext, PTL DEF Spec

\* The words of a transcript.
LEMMA Transcript ==
    ASSUME NEW s, s.params.prompt \in Seq(Token), s.generated \in Seq(Token)
    PROVE  /\ s.params.prompt \o s.generated \in Seq(Token)
           /\ Len(s.params.prompt \o s.generated) = Said(s)
           /\ \A i \in 1..Said(s) : (s.params.prompt \o s.generated)[i] = Word(s, i)
<1> DEFINE p == s.params.prompt
           z == s.generated
           l == Len(p)
           g == Len(z)
<1>1. p \in Seq(Token) /\ z \in Seq(Token)
    OBVIOUS
<1>2. l \in Nat /\ g \in Nat
    OBVIOUS
<1>3. Said(s) = l + g
    BY DEF Said
<1>4. \A i : Word(s, i) = IF i <= l THEN p[i] ELSE z[i - l]
    BY DEF Word
<1>. HIDE DEF p, z
<1>0. /\ p \o z \in Seq(Token) /\ Len(p \o z) = l + g
      /\ \A i \in 1..l : (p \o z)[i] = p[i]
      /\ \A i \in 1..g : (p \o z)[l + i] = z[i]
    BY <1>1, Joined
<1>. HIDE DEF l, g
<1>5. ASSUME NEW i \in 1..(l + g) PROVE (p \o z)[i] = Word(s, i)
    <2>1. CASE i <= l
        BY <1>0, <1>2, <1>4, <2>1
    <2>2. CASE ~(i <= l)
        <3> DEFINE q == i - l
        <3>1. q \in 1..g /\ l + q = i /\ ~(i <= l)
            BY <1>2, <2>2
        <3>2. Word(s, i) = z[q]
            BY <1>4, <3>1
        <3>. HIDE DEF q
        <3>. QED
            BY <1>0, <3>1, <3>2
    <2>. QED
        BY <2>1, <2>2
<1>. QED
    BY <1>0, <1>3, <1>5 DEF p, z

\* Tokens that say all of a transcript, as SamplesTranscript puts it.
LEMMA SaysAll ==
    ASSUME NEW s, s.params.prompt \in Seq(Token), s.generated \in Seq(Token),
           NEW k \in Nat, NEW t \in Seq(Token), Says(s, k, t, Said(s), k + 1)
    PROVE  LET said == s.params.prompt \o s.generated
           IN  IF s.truncated
               THEN \E j \in (k + 1)..Len(said) :
                       t = SubSeq(said, 1, k) \o SubSeq(said, j, Len(said))
               ELSE t = said
<1> DEFINE said == s.params.prompt \o s.generated
           n == Said(s)
<1>1. said \in Seq(Token) /\ Len(said) = n /\ \A i \in 1..n : said[i] = Word(s, i)
    BY Transcript
<1>. HIDE DEF said, n
<1>2. n \in Nat
    BY <1>1
<1>3. PICK g \in 0..n :
          /\ Len(t) + g = n
          /\ IF s.truncated THEN Len(t) >= k + 1 ELSE g = 0
          /\ \A i \in 1..Len(t) : t[i] = Word(s, IF i <= k THEN i ELSE i + g)
    BY DEF Says, n
<1> DEFINE l == Len(t)
<1>4. l \in Nat /\ g \in Nat /\ l + g = n
    BY <1>2, <1>3
<1>5. ASSUME NEW i \in 1..l PROVE t[i] = said[IF i <= k THEN i ELSE i + g]
    <2>1. (IF i <= k THEN i ELSE i + g) \in 1..n
        <3>. HIDE DEF l
        <3>. QED
            BY <1>4
    <2>2. t[i] = Word(s, IF i <= k THEN i ELSE i + g)
        BY <1>3
    <2>. QED
        BY <1>1, <2>1, <2>2
<1>6. CASE ~s.truncated
    <2>1. g = 0 /\ l = n
        BY <1>3, <1>4, <1>6
    <2>2. \A i \in 1..l : (IF i <= k THEN i ELSE i + g) = i
        BY <1>4, <2>1
    <2>3. t = said
        BY <1>1, <1>5, <2>1, <2>2, SameSequence
    <2>. QED
        BY <1>6, <2>3 DEF said
<1>7. CASE s.truncated
    <2> DEFINE j == k + 1 + g
               a == SubSeq(said, 1, k)
               z == SubSeq(said, j, n)
    <2>1. l >= k + 1
        BY <1>3, <1>7
    <2>2. j \in (k + 1)..n /\ j \in 1..(n + 1) /\ n \in (j - 1)..n /\ k \in (1 - 1)..n
          /\ n - j + 1 = l - k /\ 1 \in 1..(n + 1)
        <3>. HIDE DEF l
        <3>. QED
            BY <1>2, <1>4, <2>1
    <2>3. a \in Seq(Token) /\ Len(a) = k /\ \A i \in 1..k : a[i] = said[i]
        BY <1>1, <2>2, Part
    <2>. HIDE DEF j
    <2>4. z \in Seq(Token) /\ Len(z) = n - j + 1 /\ \A i \in 1..(n - j + 1) : z[i] = said[j + i - 1]
        BY <1>1, <2>2, Part
    <2>. HIDE DEF a, z
    <2>5. /\ a \o z \in Seq(Token) /\ Len(a \o z) = Len(a) + Len(z)
          /\ \A i \in 1..Len(a) : (a \o z)[i] = a[i]
          /\ \A i \in 1..Len(z) : (a \o z)[Len(a) + i] = z[i]
        <3>1. a \in Seq(Token) /\ z \in Seq(Token)
            BY <2>3, <2>4
        <3>. QED
            BY <3>1, Joined
    <2>6. Len(a \o z) = l
        <3>. HIDE DEF l
        <3>. QED
            BY <1>4, <2>2, <2>3, <2>4, <2>5
    <2>7. ASSUME NEW i \in 1..l PROVE t[i] = (a \o z)[i]
        <3>1. CASE i <= k
            <4>1. i \in 1..k
                BY <3>1
            <4>. QED
                BY <1>5, <2>3, <2>5, <3>1, <4>1
        <3>2. CASE ~(i <= k)
            <4> DEFINE q == i - k
            <4>1. q \in 1..(n - j + 1) /\ k + q = i /\ j + q - 1 = i + g /\ ~(i <= k)
                <5>. HIDE DEF l
                <5>. QED
                    BY <1>2, <1>4, <2>2, <3>2 DEF j
            <4>2. t[i] = said[i + g]
                BY <1>5, <4>1
            <4>. HIDE DEF q
            <4>3. (a \o z)[k + q] = said[j + q - 1]
                BY <2>3, <2>4, <2>5, <4>1
            <4>. QED
                BY <4>1, <4>2, <4>3
        <3>. QED
            BY <3>1, <3>2
    <2>8. t = a \o z
        BY <2>5, <2>6, <2>7, SameSequence
    <2>9. \E x \in (k + 1)..Len(said) : t = SubSeq(said, 1, k) \o SubSeq(said, x, Len(said))
        BY <1>1, <2>2, <2>8 DEF a, z
    <2>. QED
        BY <1>7, <2>9 DEF said
<1>. QED
    BY <1>6, <1>7 DEF said

\* The kept tokens are those of the prompt.
LEMMA SaysKeeps ==
    ASSUME NEW s, NEW p \in Seq(Token), s.params.prompt = p, NEW k \in Nat, NEW t \in Seq(Token),
           NEW n \in Nat, NEW l \in Nat, Says(s, k, t, n, l), k <= l, Len(p) <= n
    PROVE  keep_first(t, Smaller(k, Len(p))) = keep_first(p, Smaller(k, Len(p)))
<1> DEFINE m == Smaller(k, Len(p))
           a == SubSeq(t, 1, m)
           z == SubSeq(p, 1, m)
<1>1. Len(p) \in Nat /\ Len(t) \in Nat
    OBVIOUS
<1>2. m \in Nat /\ m <= k /\ m <= Len(p)
    BY <1>1 DEF Smaller
<1>. HIDE DEF m
<1>3. PICK g \in 0..n :
          /\ Len(t) + g = n
          /\ IF s.truncated THEN Len(t) >= l ELSE g = 0
          /\ \A i \in 1..Len(t) : t[i] = Word(s, IF i <= k THEN i ELSE i + g)
    BY DEF Says
<1>4. m <= Len(t)
    <2>1. CASE s.truncated
        BY <1>1, <1>2, <1>3, <2>1
    <2>2. CASE ~s.truncated
        BY <1>1, <1>2, <1>3, <2>2
    <2>. QED
        BY <2>1, <2>2
<1>5. \A i \in 1..m : t[i] = p[i]
    <2>1. SUFFICES ASSUME NEW i \in 1..m PROVE t[i] = p[i]
        OBVIOUS
    <2>2. i \in 1..Len(t) /\ i <= k /\ i <= Len(p)
        BY <1>1, <1>2, <1>4
    <2>3. t[i] = Word(s, i)
        BY <1>3, <2>2
    <2>. QED
        BY <2>2, <2>3 DEF Word
<1>6. a \in Seq(Token) /\ Len(a) = m /\ \A i \in 1..m : a[i] = t[i]
    <2>1. 1 \in 1..(Len(t) + 1) /\ m \in (1 - 1)..Len(t)
        BY <1>1, <1>2, <1>4
    <2>. QED
        BY <1>2, <2>1, Part
<1>7. z \in Seq(Token) /\ Len(z) = m /\ \A i \in 1..m : z[i] = p[i]
    <2>1. 1 \in 1..(Len(p) + 1) /\ m \in (1 - 1)..Len(p)
        BY <1>1, <1>2
    <2>. QED
        BY <1>2, <2>1, Part
<1>. HIDE DEF a, z
<1>8. a = z
    BY <1>5, <1>6, <1>7, SameSequence
<1>. QED
    BY <1>8 DEF keep_first, a, z, m

\* With the row of the slot decoded, its KV cache is cache_tokens and nothing else.
LEMMA ContextIsCache ==
    ASSUME CInv, KInv, Quiet, phase = "results", HasRow
    PROVE  kv = Cells(cache_tokens)
<1>1. /\ batch = <<>> /\ Batched = {} /\ slot.state \in AtWork
      /\ Holding(kv, cache_tokens, 0, Len(cache_tokens))
    BY NoneBatched DEF KInv, CacheHeld, HasRow, AtWork
<1>2. cache_tokens \in Seq(Token) /\ kv \subseteq Cell /\ Len(cache_tokens) \in Nat
      /\ DOMAIN cache_tokens = 1..Len(cache_tokens)
    BY DEF CInv, SlotTypeOK
<1>3. \A c \in kv : c.pos < Len(cache_tokens)
    BY DEF KInv, NothingBehind, CInv, PastOK, HasRow, AtWork
<1>4. \A i \in 1..Len(cache_tokens) : 0 + i - 1 = i - 1
    BY <1>2
<1>5. Cells(cache_tokens) = {[pos |-> i - 1, tok |-> cache_tokens[i]] : i \in 1..Len(cache_tokens)}
    BY <1>2, <1>4 DEF Cells, CellsFrom
<1>6. ASSUME NEW c \in kv PROVE c \in Cells(cache_tokens)
    <2>1. c \in [pos : 0..(N_CTX - 1), tok : Token] /\ N_CTX \in Nat
        BY <1>2, ContextAssumption DEF Cell
    <2>2. c.pos \in Nat /\ c.pos < Len(cache_tokens)
        BY <1>3, <2>1
    <2>3. c.tok = cache_tokens[c.pos + 1]
        BY <1>1, <2>2 DEF Holding
    <2> DEFINE i == c.pos + 1
    <2>4. i \in 1..Len(cache_tokens) /\ i - 1 = c.pos
        BY <1>2, <2>2
    <2>. HIDE DEF i
    <2>5. c = [pos |-> i - 1, tok |-> cache_tokens[i]]
        BY <2>1, <2>3, <2>4 DEF i
    <2>. QED
        BY <1>5, <2>4, <2>5
<1>7. ASSUME NEW c \in Cells(cache_tokens) PROVE c \in kv
    <2>1. PICK i \in 1..Len(cache_tokens) : c = [pos |-> i - 1, tok |-> cache_tokens[i]]
        BY <1>5
    <2>2. i \in (0 + 1)..Len(cache_tokens)
        OBVIOUS
    <2>. QED
        BY <1>1, <2>1, <2>2 DEF Holding
<1>. QED
    BY <1>6, <1>7

\* A token is sampled from the request's own transcript, and from nothing else: for every
\* size of the context, every prompt, chunk reuse, context shift, batch, view and draft.
\* (On a server that gets no request before its first idle update and no n_discard that
\* reaches into the kept tokens, does not speculate while a row is pending in another
\* view, and does not cut a prompt behind n_keep tokens when a shift keeps the BOS token
\* too.)
THEOREM SamplesFromTranscript ==
    Spec => [](Plain /\ ~params_base.early_requests => SamplesTranscript)
<1>1. CInv /\ KInv /\ TInv => (Plain /\ ~params_base.early_requests => SamplesTranscript)
    <2>1. SUFFICES ASSUME CInv, KInv, TInv, Plain, ~params_base.early_requests,
                          phase = "results", HasRow, ~params_base.decode_may_fail
                   PROVE  LET said == slot.params.prompt \o slot.generated
                              keep == slot.params.n_keep + AddBos
                          IN  /\ kv = Cells(cache_tokens)
                              /\ IF slot.truncated
                                 THEN \E j \in (keep + 1)..Len(said) :
                                         cache_tokens = SubSeq(said, 1, keep)
                                                        \o SubSeq(said, j, Len(said))
                                 ELSE cache_tokens = said
        BY DEF SamplesTranscript
    <2>2. kv = Cells(cache_tokens)
        BY <2>1, ContextIsCache DEF Quiet, Plain
    <2>3. slot.state \in AtWork
        BY <2>1 DEF HasRow, AtWork
    <2>4. Says(slot, ShiftKeep, cache_tokens, Said(slot), ShiftKeep + 1)
        BY <2>1 DEF TInv, TParts, ContextSaid, HasRow
    <2>5. /\ slot.params.prompt \in Seq(Token) /\ slot.generated \in Seq(Token)
          /\ ShiftKeep \in Nat /\ cache_tokens \in Seq(Token)
        BY <2>1, <2>3, SaidFacts
    <2>6. LET said == slot.params.prompt \o slot.generated
          IN  IF slot.truncated
              THEN \E j \in (ShiftKeep + 1)..Len(said) :
                      cache_tokens = SubSeq(said, 1, ShiftKeep) \o SubSeq(said, j, Len(said))
              ELSE cache_tokens = said
        BY <2>4, <2>5, SaysAll
    <2>. QED
        BY <2>2, <2>6 DEF ShiftKeep
<1>2. Spec => [](CInv /\ KInv /\ TInv)
    BY CacheInvariant, TranscriptInvariant, PTL
<1>. QED
    BY <1>1, <1>2, PTL

\* However often a context is shifted, the tokens to be kept are still its first.
THEOREM KeepIsRetained == Spec => [](Plain => RetainsKeep)
<1>1. CInv /\ TInv => (Plain => RetainsKeep)
    <2> DEFINE p == slot.params.prompt
               n == IF slot.row THEN Said(slot) ELSE Said(slot) - 1
               l == IF slot.row THEN ShiftKeep + 1 ELSE ShiftKeep
    <2>1. SUFFICES ASSUME CInv, TInv, Plain, slot.state = "GENERATING"
                   PROVE  keep_first(cache_tokens, Smaller(ShiftKeep, Len(p))) =
                              keep_first(p, Smaller(ShiftKeep, Len(p)))
        BY DEF RetainsKeep, ShiftKeep
    <2>2. Says(slot, ShiftKeep, cache_tokens, n, l) /\ (~slot.row => slot.generated # <<>>)
        BY <2>1 DEF TInv, TParts, ContextSaid
    <2>3. /\ p \in Seq(Token) /\ Len(p) \in Nat /\ slot.generated \in Seq(Token)
          /\ Len(slot.generated) \in Nat
          /\ ShiftKeep \in Nat /\ cache_tokens \in Seq(Token) /\ Said(slot) \in Nat
        BY <2>1, SaidFacts DEF AtWork
    <2>4. n \in Nat /\ Len(p) <= n
        <3> DEFINE x == Len(p)
                   g == Len(slot.generated)
        <3>1. x \in Nat /\ g \in Nat /\ (~slot.row => g >= 1)
            BY <2>2, <2>3
        <3>2. Said(slot) = x + g
            BY DEF Said
        <3>3. n = IF slot.row THEN x + g ELSE (x + g) - 1
            BY <3>2
        <3>. HIDE DEF x, g, n
        <3>4. n \in Nat /\ x <= n
            BY <3>1, <3>3
        <3>. QED
            BY <3>4 DEF x
    <2>5. l \in Nat /\ ShiftKeep <= l
        BY <2>3
    <2>. HIDE DEF n, l
    <2>6. slot.params.prompt = p
        OBVIOUS
    <2>. HIDE DEF p
    <2>. QED
        BY <2>2, <2>3, <2>4, <2>5, <2>6, SaysKeeps
<1>. QED
    BY <1>1, TranscriptInvariant, PTL
=============================================================================

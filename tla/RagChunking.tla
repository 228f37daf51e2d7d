---------------------------- MODULE RagChunking ----------------------------
(***************************************************************************)
(* handle_chunking once its parameters are read: the tokenized prompts are *)
(* cut into streams of at most IDEAL tokens, one embedding task is posted  *)
(* for each, and as the results arrive their rows are averaged over        *)
(* windows of CHUNK tokens, which advance by STEP, and stored with the     *)
(* text of the window.                                                     *)
(*                                                                         *)
(* A token is its place, <<prompt, position>>; the embedding of a token,   *)
(* one row per token as without pooling, is written as the token itself,   *)
(* so that a stored vector shows which tokens it was computed from.  The   *)
(* server answers tasks as TaskService says, in any order, with one slot   *)
(* too: a deferred task is popped to the back of queue_tasks, and deferred *)
(* again, behind the tasks posted after it, when the task of another       *)
(* client takes the slot first.                                            *)
(***************************************************************************)
EXTENDS Integers, Sequences, SequencesExt

CONSTANTS
    Inputs,         \* the inputs: for each prompt its number of tokens
    IDEAL,          \* ideal_stream_size
    CHUNK,          \* internal_rag_chunk_size
    TaskMayFail,    \* an embedding task may end with an error
    InsertMayFail,  \* insertRagEntry may throw
    MayDisconnect   \* the client may close the connection

OVERLAP == CHUNK \div 3
STEP == CHUNK - OVERLAP

ASSUME ChunkingAssumption ==
    /\ Inputs \subseteq Seq(Nat \ {0}) \ {<<>>}
    /\ {CHUNK, IDEAL} \subseteq Nat \ {0}
    /\ OVERLAP > 0 /\ CHUNK <= IDEAL
    /\ {TaskMayFail, InsertMayFail, MayDisconnect} \subseteq BOOLEAN

VARIABLES
    input,              \* the sizes of original_tokenized_prompts
    pc,                 \* where the handler is
    n_split,            \* prompts that were cut into streams
    last_chunk_pos,     \* tokens of the current prompt not cut yet
    current_chunks,     \* its streams so far, the last one first
    embedding_chunks,   \* all streams, in order
    pending,            \* tasks the handler has no result of
    all_prompt,         \* tokens of the first prompt not passed yet
    all_embedding,      \* rows received and not passed yet
    position,           \* of the window
    entries,            \* what was stored: rows averaged and contents
    responses,          \* the "chunks" of the response: position and size
    error,              \* whether an error was answered
    closed,             \* whether the client closed the connection
    overtaken           \* history: a result came before that of an earlier task

splitVars == <<n_split, last_chunk_pos, current_chunks, embedding_chunks>>
windowVars == <<all_prompt, all_embedding, position, entries, responses>>
vars == <<input, pc, splitVars, pending, windowVars, error, closed, overtaken>>

\* Tokens from..to-1 of prompt p, counted from 0.
Span(p, from, to) == [i \in 1..(to - from) |-> <<p, from + i - 1>>]
Prompt(p) == Span(p, 0, input[p])

Init ==
    /\ input \in Inputs
    /\ pc = "split"
    /\ n_split = 0
    /\ last_chunk_pos = 0
    /\ current_chunks = <<>>
    /\ embedding_chunks = <<>>
    /\ pending = {}
    /\ all_prompt = Prompt(1)
    /\ all_embedding = <<>>
    /\ position = 0
    /\ entries = <<>>
    /\ responses = <<>>
    /\ error = FALSE
    /\ closed = FALSE
    /\ overtaken = FALSE

-----------------------------------------------------------------------------
(* Cutting a prompt into streams, from its end.                            *)

NextPrompt == n_split + 1
Splitting == pc = "split" /\ UNCHANGED <<input, pending, windowVars, error, closed, overtaken>>

\* A prompt that fits is one stream.
ShortPrompt ==
    /\ Splitting
    /\ last_chunk_pos = 0 /\ n_split < Len(input)
    /\ input[NextPrompt] <= IDEAL
    /\ embedding_chunks' = Append(embedding_chunks, Prompt(NextPrompt))
    /\ n_split' = NextPrompt
    /\ UNCHANGED <<pc, last_chunk_pos, current_chunks>>

\* A longer one first loses what is over a multiple of the overlap.
CutTail ==
    LET n == input[NextPrompt]
        last_chunk_size == (n - CHUNK) % OVERLAP
    IN  /\ Splitting
        /\ last_chunk_pos = 0 /\ n_split < Len(input)
        /\ n > IDEAL
        /\ current_chunks' = IF last_chunk_size = 0 THEN <<>>
                             ELSE <<Span(NextPrompt, n - last_chunk_size, n)>>
        /\ last_chunk_pos' = n - last_chunk_size
        /\ UNCHANGED <<pc, n_split, embedding_chunks>>

\* Plausible bug: the streams are as long as the window, and overlap.
CutStepWhole ==
    /\ Splitting
    /\ last_chunk_pos > IDEAL
    /\ current_chunks' = Append(current_chunks,
                                Span(NextPrompt, last_chunk_pos - CHUNK, last_chunk_pos))
    /\ last_chunk_pos' = last_chunk_pos - STEP
    /\ UNCHANGED <<pc, n_split, embedding_chunks>>

CutStep ==
    /\ Splitting
    /\ last_chunk_pos > IDEAL
    /\ current_chunks' = Append(current_chunks,
                                Span(NextPrompt, last_chunk_pos - STEP, last_chunk_pos))
    /\ last_chunk_pos' = last_chunk_pos - STEP
    /\ UNCHANGED <<pc, n_split, embedding_chunks>>

\* What is left is the first stream; the streams are put in order.
CutHead ==
    /\ Splitting
    /\ last_chunk_pos \in 1..IDEAL
    /\ embedding_chunks' = embedding_chunks \o
           Reverse(Append(current_chunks, Span(NextPrompt, 0, last_chunk_pos)))
    /\ current_chunks' = <<>>
    /\ last_chunk_pos' = 0
    /\ n_split' = NextPrompt
    /\ UNCHANGED pc

\* The ids are announced and the tasks posted, one for each stream.
PostTasks ==
    /\ Splitting
    /\ n_split = Len(input)
    /\ pc' = "post"
    /\ UNCHANGED splitVars

Posted ==
    /\ pc = "post"
    /\ pending' = DOMAIN embedding_chunks
    /\ pc' = "receive"
    /\ UNCHANGED <<input, splitVars, windowVars, error, closed, overtaken>>

-----------------------------------------------------------------------------
(* receive_streamed_results and the handler of one result.                 *)

\* Plausible bug: the last rows are left when they just fill the window.
chunk_sz_above(rows) ==
    IF Len(rows) > CHUNK THEN CHUNK
    ELSE IF Len(embedding_chunks) = 1 THEN Len(rows) ELSE 0

\* The rows of the next entry: a full window, or all that is left if there was
\* but one task (task_n stays 0); 0 when the handler waits for more rows.
chunk_sz(rows) ==
    IF Len(rows) >= CHUNK THEN CHUNK
    ELSE IF Len(embedding_chunks) = 1 THEN Len(rows) ELSE 0
is_last_block == Len(all_embedding) < CHUNK

\* Plausible bug: after an error a result is not counted as received.
ReceiveRowsUncounted(t) ==
    LET rows == all_embedding \o embedding_chunks[t]
    IN  /\ pc = "receive" /\ t \in pending /\ ~closed
        /\ pending' = IF error THEN pending ELSE pending \ {t}
        /\ all_embedding' = IF error THEN all_embedding ELSE rows
        /\ pc' = IF error \/ Len(rows) > Len(all_prompt) \/ chunk_sz(rows) = 0
                 THEN "receive" ELSE "store"
        /\ overtaken' = (overtaken \/ \E u \in pending : u < t)
        /\ UNCHANGED <<input, splitVars, all_prompt, position, entries, responses, error, closed>>

\* A result is appended to the rows.  After an error, with more rows than the
\* first prompt has tokens left, or with too few for an entry, that is all.
ReceiveRows(t) ==
    LET rows == all_embedding \o embedding_chunks[t]
    IN  /\ pc = "receive" /\ t \in pending /\ ~closed
        /\ pending' = pending \ {t}
        /\ all_embedding' = IF error THEN all_embedding ELSE rows
        /\ pc' = IF error \/ Len(rows) > Len(all_prompt) \/ chunk_sz(rows) = 0
                 THEN "receive" ELSE "store"
        /\ overtaken' = (overtaken \/ \E u \in pending : u < t)
        /\ UNCHANGED <<input, splitVars, all_prompt, position, entries, responses, error, closed>>

\* An error result is answered, and the tasks are cancelled.
ReceiveError(t) ==
    /\ TaskMayFail
    /\ pc = "receive" /\ t \in pending /\ ~closed
    /\ error' = TRUE
    /\ pending' = {}
    /\ pc' = "done"
    /\ UNCHANGED <<input, splitVars, windowVars, closed, overtaken>>

\* The connection is found closed: the result is dropped, the tasks cancelled.
ReceiveClosed ==
    /\ pc = "receive" /\ pending # {} /\ closed
    /\ pending' = {}
    /\ pc' = "done"
    /\ UNCHANGED <<input, splitVars, windowVars, error, closed, overtaken>>

Entry == [vector |-> SubSeq(all_embedding, 1, chunk_sz(all_embedding)),
          contents |-> SubSeq(all_prompt, 1, chunk_sz(all_embedding))]
Stored ==
    /\ entries' = Append(entries, Entry)
    /\ responses' = Append(responses, <<position, chunk_sz(all_embedding)>>)

\* Plausible bug: the tokens are not moved along with the rows.
AdvanceRowsOnly ==
    /\ position' = position + STEP
    /\ all_embedding' = SubSeq(all_embedding, STEP + 1, Len(all_embedding))
    /\ UNCHANGED all_prompt

\* Plausible bug: the window moves by its whole size and one more.
AdvanceTooFar ==
    /\ position' = position + CHUNK + 1
    /\ all_embedding' = SubSeq(all_embedding, CHUNK + 2, Len(all_embedding))
    /\ all_prompt' = SubSeq(all_prompt, CHUNK + 2, Len(all_prompt))

Advance ==
    /\ position' = position + STEP
    /\ all_embedding' = SubSeq(all_embedding, STEP + 1, Len(all_embedding))
    /\ all_prompt' = SubSeq(all_prompt, STEP + 1, Len(all_prompt))

\* One turn of the loop that stores entries.
InsertEntry ==
    /\ pc = "store"
    /\ Stored
    /\ \/ /\ is_last_block
          /\ pc' = "receive"
          /\ UNCHANGED <<all_prompt, all_embedding, position>>
       \/ /\ ~is_last_block
          /\ Advance
          /\ pc' = IF chunk_sz(all_embedding') = 0 THEN "receive" ELSE "store"
    /\ UNCHANGED <<input, splitVars, pending, error, closed, overtaken>>

\* insertRagEntry throws: an error is answered, and the results still to come
\* are received and ignored.
InsertFails ==
    /\ InsertMayFail
    /\ pc = "store"
    /\ error' = TRUE
    /\ pc' = "receive"
    /\ UNCHANGED <<input, splitVars, pending, windowVars, closed, overtaken>>

\* All results are in: the ids are removed and the response is written.
Respond ==
    /\ pc = "receive" /\ pending = {}
    /\ pc' = "done"
    /\ UNCHANGED <<input, splitVars, pending, windowVars, error, closed, overtaken>>

Disconnect ==
    /\ MayDisconnect /\ ~closed
    /\ pc \in {"receive", "store"}
    /\ closed' = TRUE
    /\ UNCHANGED <<input, pc, splitVars, pending, windowVars, error, overtaken>>

Finished == pc = "done" /\ UNCHANGED vars

Work ==
    \/ ShortPrompt \/ CutTail \/ CutStep \/ CutHead \/ PostTasks \/ Posted
    \/ \E t \in pending : ReceiveRows(t)
    \/ ReceiveClosed \/ InsertEntry \/ Respond

Faults ==
    \/ \E t \in pending : ReceiveError(t)
    \/ InsertFails
    \/ Disconnect

Next == Work \/ Faults \/ Finished

Spec == Init /\ [][Next]_vars

\* The handler is a thread of the process, and the server answers every task.
FairSpec == Spec /\ WF_vars(Work)

-----------------------------------------------------------------------------
(* Properties.                                                             *)

\* The streams are the prompts: put together they give every token once and in
\* order, none is empty and none longer than what one task may embed.
StreamsArePrompts ==
    pc \notin {"split"} =>
        /\ FlattenSeq(embedding_chunks) =
              FlattenSeq([p \in DOMAIN input |-> Prompt(p)])
        /\ \A i \in DOMAIN embedding_chunks : Len(embedding_chunks[i]) \in 1..IDEAL

\* A stored vector was computed from the tokens it is stored with.  The handler
\* matches rows and tokens by nothing but the order in which results arrive, and
\* results of later tasks may arrive first: chunk_order refutes it.
VectorOfContents ==
    \A i \in DOMAIN entries : entries[i].vector = entries[i].contents

\* The order of arrival is all that can go wrong: as long as no result overtook that
\* of an earlier task, rows and tokens advance together through cutting, windows
\* across several streams and errors, and every vector is that of its contents.
VectorsInOrder == ~overtaken => VectorOfContents

\* The windows leave no gap: each begins inside or right behind the one before.
WindowsOverlap ==
    \A i \in DOMAIN entries :
        /\ entries[i].contents # <<>>
        /\ i > 1 => Head(entries[i].contents)[2] \in
               (Head(entries[i - 1].contents)[2] + 1)..
                   (Last(entries[i - 1].contents)[2] + 1)

\* How many tokens of the first prompt were stored.
Covered == IF entries = <<>> THEN 0 ELSE Last(Last(entries).contents)[2] + 1

\* An ingestion that is answered without an error stored the prompt: all of it if
\* it was embedded by one task, and otherwise all but an end shorter than STEP.  The
\* response lists what was stored: the same windows, in the same order.
PromptStored ==
    pc = "done" /\ ~error /\ ~closed =>
        /\ responses = [i \in DOMAIN entries |->
                           <<Head(entries[i].contents)[2], Len(entries[i].contents)>>]
        /\ Len(input) = 1 =>
              IF input[1] <= IDEAL THEN Covered = input[1]
              ELSE Covered \in (input[1] - STEP + 1)..input[1]

\* The handler comes to an end: the loop that stores entries always returns, and
\* an error does not keep the handler from receiving the remaining results.
IngestionEnds == <>(pc = "done")
=============================================================================

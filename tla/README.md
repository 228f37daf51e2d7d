# Verification of the llama server with RAG

This directory holds TLA+ models of the HTTP server in `src/tools/server`
(`server.cpp`, a fork of llama.cpp's server extended with retrieval-augmented
generation), the TLC configurations that check them on small instances, and
TLAPS proofs of what matters most for instances of any size. Line numbers below
are those of `src/tools/server/server.cpp` unless a file is named.

## 1. The system

One process. The **main loop** thread owns the model context and the *slots*
(parallel sequences). Each HTTP request is served by a **thread** of the HTTP
library. The two sides share two monitors:

| part | state it keeps | operations | lines |
|---|---|---|---|
| `server_queue` | `queue_tasks`, `queue_tasks_deferred` | `post`, `defer`, `pop_deferred_task`, `cleanup_pending_task`, `start_loop`, `terminate` | 1665-1828 |
| `server_response` | `waiting_task_ids`, `queue_results` | `add_waiting_tasks`, `remove_waiting_task_id(s)`, `recv`, `recv_with_timeout`, `send`, `terminate` | 1830-1960 |
| `server_slot` | state, task, prompt, counters, cached tokens | `reset`, `release`, `has_budget`, `is_processing`, `can_batch_with` | 1356-1600 |
| `server_context` | slots, batch, model | `get_available_slot`, `launch_slot_with_task`, `process_token`, `process_single_task`, `update_slots`, `cancel_tasks`, `receive_*` | 1962-3690 |
| completion, embedding, rerank, slot, metrics, LoRA handlers | ids of their tasks, results so far | create tasks, announce, post, receive, answer | 3914-5956 |
| RAG handlers | chunks, embeddings, documents | ingest, chunk, retrieve, rerank, augment | 4394-4800, 5121-5691 |
| RAG database client | one connection, a schema | `rag_core/postgres_client.cpp` | 133-724 |
| model list and model change | the model, the slots | `handle_model_*` | 5694-5796 |
| start and shutdown | flags, signal handler | `main` | 6040-6135 |
| ACME client, self-signed certificates, crypto helpers | - | `acme_lw`, `self_signed_cert`, `rag_core/*_utils.cpp` | - |

How they interact. A handler announces the ids of its tasks
(`add_waiting_tasks`), posts the tasks and polls for results; when the
connection is found closed or an error arrives it withdraws the ids and posts
`CANCEL` tasks to the front of the queue. The main loop takes tasks until the
queue is empty, handing completions, embeddings and rerankings to idle slots and
*deferring* those that find none; then `update_slots` builds one batch from all
compatible slots, decodes it in views, samples, and sends results.  Releasing a
slot pops one deferred task. While any slot is busy `update_slots` posts a
`NEXT_RESPONSE` task, which is all that brings the loop back.

The RAG handlers are further clients of the two queues, and of a database that
they reach through one connection object (45-54) which all threads share without
a lock: one thread's `disconnect` (4650) closes the connection of the others. A
change of model (5738) runs on an HTTP thread and replaces the model and the
slots under the main loop. `SIGINT` and `SIGTERM` run `signal_handler` (3705) on
top of whatever thread they meet; it locks `mutex_tasks`.

What is hard in it: tasks move between two queues, a local variable and the
slots while other threads post and cancel; results are dropped unless their id
is announced; a slot keeps the id of its task after it was released; the batch
is cut into views whose size halves on failure; capacity is passed on by
callbacks; the methods of the database client are several statements without a
transaction; embeddings are matched with text by the order they arrive in; the
model, the flags and the connection are changed under other threads. `PROJECT.json` lists the hazards with
the lines where they bite and the properties about them. Hazards without a property:
`get_available_slot` (2240) wants an idle slot last used strictly before the current
microsecond; a request for a slot that does not exist (2840) is deferred for ever;
the result of decoding a draft
(3634) is ignored; `n_augmentations` (4625) is compared and never incremented, so
that all reranked chunks are used; `destroySchema` (`postgres_client.cpp` 304) only
logs what fails.

What makes each part correct:

* queues: no task lost or doubled, deferred tasks get their turn, cancelled
  tasks go away, ids and results do not outlive their request;
* slots and loop: a slot at work is not taken over, each task ends once, no
  completed prompt is forgotten, two slots never read the same logits, work
  comes to an end;
* a slot's tokens: the context is never overrun, what `cache_tokens` says is in
  the KV cache, budgets are kept;
* handlers: an answer holds one result for every task, in its place;
* RAG: a vector is stored with the text it was computed from, a document is
  covered without gaps, an ingestion reported as done is found, the answers about
  the schema are true;
* process: the first signal ends it, admitted requests are answered or end with
  it, loading comes to an end.

## 2. Modules

| module | models |
|---|---|
| `Deque` | erase/remove_if on sequences, in a form that can be proved about |
| `ServerQueue` | `server_queue`; every operation is one atomic step, as its mutex makes it |
| `ServerResponse` | `server_response`, likewise |
| `TaskService` | abstract: what the server promises to the threads that post tasks |
| `LlamaServer` | composes the two queues with the main loop, the slots and the request threads; implements `TaskService` |
| `SlotContext` | the tokens of one slot: prompt, counters, `cache_tokens`, the cells of the KV cache |
| `StreamText` | the text of a generation: what is held back, passed on and cut off |
| `RagChunking` | `handle_chunking`: streams, windows, vectors and texts |
| `RagStore` | abstract: documents and the chunks a search finds |
| `PostgresClient` | the connection and the statements of `postgres_client.cpp` |
| `RagServer` | composes `TaskService` and `PostgresClient` with the threads of the RAG endpoints; implements `RagStore` |
| `ServerLifecycle` | start, signals, shutdown and change of model |
| `MC...` | instances of these for TLC |
| `DequeTheorems` | lemmas about sequences |
| `TaskServiceProofs`, `LlamaServerProofs`, `ServiceProofs`, `SlotContextProofs`, `StreamTextProofs`, `RagChunkingProofs`, `RagServerProofs` | proofs |

### LlamaServer: state and actions

`slots` holds for each slot what decides control: its state, the id of its task
(which outlives `release`), the prompt tokens still to be batched (`n_left`),
`n_decoded`, and the row `i_batch` it will sample. `loop` is the main loop's
program counter, `cur` its local task, `batch` the locals of `update_slots`.
`http` is the program counter of each request's thread.

| action | code |
|---|---|
| `TakeNext`, `TasksDrained`, `Wake` | `start_loop` 1763-1813 |
| `DeferTask`, `launch_slot_with_task` | `process_single_task` 2831-2857, 2254-2308 |
| `CancelRunning`, `ProcessNextResponse`, `ProcessQuery`, `ProcessSlotAction` | the other cases, 2858-3035 |
| `AllIdle`, `PostNextResponse`, `ContextFull`, `BatchSampled` | head of `update_slots` 3047-3162 |
| `SkipNoPrompt`, `SkipIncompatible`, `RejectPrompt`, `BatchPrompt`, `PromptsBatched` | the loop over prompts 3162-3458 |
| `DecodeOk`, `DecodeRetry`, `DecodeFails`, `FailSlot`, `AllFailed` | decoding one view 3460-3502 |
| `SendEmbedding`, `SampleToken`, `ViewDone` | results of a view 3504-3568 |
| `Register`, `Submit`, `Receive`, `TimeoutRetry`, `FoundClosed` | handlers and receiving loops, e.g. 4303-4389, 2710-2823 |
| `StopWaiting`, `CancelTasks`, `Leave` | `cancel_tasks` 2695-2708 and the end of a handler |

Steps are as fine as the shared state needs: an HTTP thread and the main loop
meet only in the queues, so each action performs at most one operation on each
queue, and everything between two of them, which only its own thread sees, is
one step. `release` and the `send` next to it touch different queues, which no
thread reads together.

Abstractions. Text and tokens are left out. A choice stands for what depends on
them: the slot picked by longest prefix or by age, whether a token ends the
generation (end of text, stop word, time or line limit), whether a partial result is
held back, whether the context is full with context shift off, and whether
`llama_decode` succeeds. Task ids are constants; `get_new_id` gives out fresh
ones under the mutex. Speculative decoding, context shift and prompt reuse
change only token data and are in `SlotContext`. METRICS, SET_LORA and slot
actions are answered with one result, as in the code.

### SlotContext: state and actions

`LlamaServer` has many slots without tokens; `SlotContext` has the tokens of one
slot without the queues. `slot` holds the fields of `server_slot` that count
(`n_past`, `n_decoded`, `n_remaining`, `truncated`, `stop`, the parameters of the
request) and, for the properties, every token given to `process_token`.
`cache_tokens` is what the server believes of the KV cache, `kv` the cells
(position, token) that are in it, `batch` the slot's tokens not yet decoded,
`draft` a draft not yet judged, `phase` the place within `update_slots`.

| action | code |
|---|---|
| `launch_slot_with_task`, `Cancel`, `SaveSlot`, `RestoreSlot`, `EraseSlot` | tasks, between two updates: 2254-2308, 2858-2867, 2921-3035 |
| `AllIdle`, `ContextFull`, `ShiftContext` | 3048-3121 |
| `BatchSampled`, `NotBatched` | 3133-3171 |
| `EmptyPrompt`, `PromptTooLarge`, `StartPrompt` | a new prompt, its truncation and its cached prefix, 3178-3332 |
| `ReuseChunk`, `SkipCached`, `ReuseDone` | the loop that moves cached chunks down, 3278-3342 |
| `FillBatch` | removal of what is not common, prompt tokens into the batch, 3352-3438 |
| `DecodeView`, `DecodeFails`, `Sample`, `NoRow`, `NextView` | 3461-3568 |
| `DecodeDraft`, `AcceptDraft`, `SkipSpeculation` | speculative decoding, 3570-3670, `common/speculative.cpp` |

`params_base` is the server a behaviour is about, chosen at the start among
`Servers`: its options, and what may happen to it. `other_slots` lets other slots
take any part of the room in a batch or keep the slot out of it, `many_views` lets a
view end anywhere in the slot's tokens (as after a retry with a smaller view). What the model generates,
how long a draft is and whether the text completes a stop word are choices. The KV
cache functions (`src/src/llama-kv-cache.cpp`) are modelled by what they do to the
cells of one sequence;
`partial_rm = FALSE` is a recurrent model, whose cache cannot be cut, for which
`common_init_from_params` switches context shift off. Left out: images, the limits
on time and indentation, and a negative `n_discard`. `n_discard` is not validated (265,
3098): one that reaches into the kept tokens is modelled by what the shift does then,
and one that is larger than `cache_tokens`, where `resize` throws, is the end of the
server.

### StreamText: the bytes of an answer

`process_token` (2318-2460) has one action, for a piece of text of any bytes.
`Searched` is its first half: nothing is done with a text that ends within a
character (`validate_utf8`); else a stop word is searched for in what was not sent
yet and what the last piece can have completed (`find_stopping_strings`) and cut
off; else the text is held back if a stop word may have begun in it
(`find_partial_stop`). The second half cuts a line with too little indentation and
looks for the next line. When the budget, the time, the context or an
end-of-generation token end the generation is a choice. `said` and `sent` are
histories: all pieces, and the text of the partial results.

### TaskService: the promise between the two sides

A task is `fresh`, then `posted`, then answered (a final result or an error, perhaps
with a last partial one before it) or, when nobody waits for its id any more,
dropped. Results travel through `ServerResponse`. `LlamaServer` implements it with
`posted` being the tasks in either queue, in the loop's hand or in a slot
(`InHand`), and `fresh` those of requests that have not submitted (`Unposted`).
`RagServer` uses `TaskService` where `LlamaServer` would be too large.

### RagChunking: state and actions

A token is its place, and the embedding of a token is the token: what is stored
shows which rows were averaged. All of `handle_chunking` behind its parameters is
there: cutting a long prompt from its end (`CutTail`, `CutStep`, `CutHead`,
5411-5431), short prompts (5405), posting (5433-5450), each result's rows
(`ReceiveRows`, 5470-5502), the windows (`InsertEntry`, `Advance`, 5503-5532), a
failing insertion, an error result and a client that leaves. Results arrive in any
order, whatever the number of slots: a deferred task that is popped goes to the back of
the queue (1750) and, when another request's task takes the slot, behind its successors
(1725). The history `overtaken` says whether that has happened. The lengths 2048, 300, 100 and 200 become 13, 6, 2 and 4.

### PostgresClient and RagServer: state and actions

A method of the client is a sequence of statements, and each statement is a step;
`todo` is what of `createSchema`, `destroySchema` or `hasSchema` is left. A
statement has a condition (foreign keys, primary keys, tables that must exist) and
an effect. `conn` is `conn_`: null, open, or lost without the client's knowing.
Two threads at a statement at once are inside libpq without a lock, which is
undefined: the statement may be done or not, the answer may be the other's
(`Outcome`, recorded in `raced`), or the process dies (`Crash`). Rows hold what the
properties tell apart: an entry its ingestion and place, its document and content.

| action | code |
|---|---|
| `Connect`, `Dial`, `DialFails` | `postgres_client::connect` 133-161; a failure ends the request |
| `SelectDocument`, `InsertDoc` | `createOrRetrieveDocument` 340-424 |
| `StoreContent`, `StoreEntry` | `insertRagEntry` 466-587 |
| `CreateObject`, `DestroySchema`, `DropObject`, `CheckTable`, `DeleteDocument` | 193-338, 426-453, called by `handle_rag_db_admin` |
| `Submit`, `Receive...`, `CancelTasks`, `Leave` | the stages of `handle_completions_impl_with_rag` (embedding, reranking, completion) and `handle_chunking` |
| `Search`, `Disconnect` | 4518-4597, 4650 |

### ServerLifecycle: state and actions

`main` is where `main()` is, from loading the model (6079) over `start_loop` to the
join of the HTTP threads (6132). `mutex_tasks` is a lock here and not an atomic
step, because a signal handler may sit on its holder; likewise a thread in `recv`
is "testing" or "blocked". A request is one task; the slots are the set of requests
at work. `Signal` puts the handler on any thread, `Shutdown` is the rest of it. A
change of model frees and loads the model (`ChangeBegin`, `ChangeLoad`) and clears
the slots (`ChangeEnd`); a `Decode` while there is no model is the end of the
process (undefined behaviour, with the crash as its outcome).

## 3. Runs

The runs about tasks use module `MCLlamaServer`. Two slots are the least for which slots
compete and block each other; `N_BATCH = 2` with prompts of one and two tokens makes
prompts span updates and a batch overflow; two predicted tokens make a slot
enter the batch both as a prompt and as a generating slot.

| run | instance | checks |
|---|---|---|
| `core` | a streaming request of two prompts whose client may disconnect, and one with an adapter of its own of which one prompt is too large; fair threads | `NoTaskLost`, `OnePlace`, `AnswerComplete`, `DistinctRows`, `NoneStranded`, `NoResultLeft`, `EndsOnce`, `SlotKeepsTask`, `ImplementsService`, `EveryRequestServed`, `AbandonedWorkEnds`, `ServiceAnswers` |
| `faults` | a rerank request, a streaming one of which one prompt is invalid, and one of: an action on an existing slot, one on a missing slot, a METRICS query; decode may fail, context may be full | `TypeOK`, `NoTaskLost`, `AnswerComplete`, `NoPromptForgotten` |

`faults` begins one of the last three requests only (`MaxSingle`, a state constraint):
they differ in how the main loop treats them, and need not meet each other for that. It
switches deadlock checking off because the system really can stop there: see the
`stranded` run. In `core` the only state without another step is the one `Quiescent`
names.

The runs about tokens use `MCSlotContext`: a context of six positions (room for
two kept tokens, as `n_ctx - 4` is the most that can be kept), three tokens of
which one ends the generation, prompts that share a beginning or a middle or are
longer than the context, and two or three tasks one after the other, so that a
task meets what two earlier ones left in the cache. `n_ctx_train` ends unlimited
generations after the context was shifted at least once. `Servers` are
four, two of them with a draft model.

| run | instance | checks |
|---|---|---|
| `context` | context shift, truncation, prefix and chunk reuse, an adapter change, batches cut anywhere; a cache that cannot be cut, no shift, save, restore, erase, prompts that do not fit; drafts of up to two tokens, BOS token, context shift; unlimited requests, drafts, chunk reuse, failing decodes, fair main loop | `SlotTypeOK`, `CachedInKv`, `SamplesTranscript`, `AssertionsHold`, `BudgetKept`, `RetainsKeep`, `GenerationEnds` |
| `stream` (`MCStreamText`) | all texts of up to four pieces out of twelve: letters, spaces, newlines, characters of two and three bytes whole and in parts; stop words that overlap each other and themselves, one of them ending in such a character; indentation of two | `StopsAtFirst`, `StreamedText` |

Four pieces are enough for a stop word of three bytes in three tokens, behind text
that was already sent, and for a line, the one behind it, and its first character.

The runs about RAG and the process:

| run | instance | checks |
|---|---|---|
| `chunking` | every prompt of up to 27 tokens, that is up to five streams with every remainder, and inputs of several prompts; results in any order; failures and a disconnect | `StreamsArePrompts`, `VectorsInOrder`, `WindowsOverlap`, `PromptStored`, `IngestionEnds` |
| `rag` | seven mixes of two and three requests that can get in each other's way, two chunks to an ingestion, failing tasks, a database that refuses or loses connections, a disconnect | `IngestedOnSuccess`, `NoOrphanContents`, `NothingLeft`, `SchemaAnswersTrue`, `ImplementsRagStore`, `RequestEnds` |
| `lifecycle` | a completion, a metrics query and a change of model, up to two signals at any moment on any thread | `ShutdownEnds`, `AdmittedEnds`, `LoadingEnds` |

`PromptStored` bounds what `handle_chunking` may leave out of a prompt embedded by
more than one task: an end shorter than the step of the windows, because `task_n` is
never incremented (5496). It is about inputs of one prompt; of several, the texts of
the first are stored (5466).
`lifecycle` switches deadlock checking off because a process ends.

Disagreements between the code and its comments or its documentation
(`tools/server/README.md`), each shown by a run that TLC refutes:

| run | property | what happens |
|---|---|---|
| `cancel_pending` | `CancelledNotPending` | cleaning up pending tasks on cancel compares `id_target` (1819), so pending tasks survive and are computed for nobody |
| `stranded` | `NoneStranded` | a deferred task that proves invalid when popped breaks the chain: the next one waits while all slots are idle |
| `chunk_order` | `VectorOfContents` | embeddings arrive out of order, with one slot too, and are appended as they come (5484): vectors are stored with other text |
| `draft_limit` | `LimitMeansBudget` | with a draft model accepted tokens are counted before they are processed (3640): the rest of the budget is dropped, and the response says `limit` with fewer than `n_predict` tokens |
| `stream_end` | `ContentSent` | text held back for a stop word or an incomplete character when a limit or an end-of-generation token ends the answer never reaches a stream: `has_next_token` was just set (2327), so that its test at 2345 is always true, the limits come after it, and the final result of a stream has no content (692) |

The passing runs rest on assumptions, and some properties name exceptions, without
which they fail. Each is a limitation of the code:

* `core` has no failing decode: with `DecodeMayFail` a failed decode (3488) sends
  an error also for slots that were released before, and `EndsOnce`, `NoResultLeft`
  and `ImplementsService` fail, because `remove_waiting_task_ids` does not purge
  results. In `faults` the second end is there, and `AnswerComplete` says that it is
  not counted as the result of another task.
* `handle_rerank` (5889) never removes its ids from the waiting list; nor does the rerank
  stage of a RAG completion (4594), which `NothingLeft` excepts.
* `core` has no invalid prompt (run `stranded`) and names no slot: a request for a slot the server does not have (2841) is
  deferred for ever (`EveryRequestServed`).
* `CachedInKv` and `SamplesTranscript` except servers whose decodes may fail: tokens
  of a failed batch stay in `cache_tokens` and are later reused. There is no early
  request: the server says it is ready (6090) before the main loop starts; a request
  queued then precedes the first idle update, which clears the KV cache (3061)
  behind `cache_tokens` (`CachedInKv`, with `early_requests`).
* No server of `context` has a BOS token, context shift and prompts that are too
  long: prompt truncation (3256) counts it
  among `n_keep`, the context shift (3096) does not, and the server's README says
  `n_keep` excludes it. Requests predict at least one token: with
  `n_predict = 0` the server generates one token, where its README says none.
* Without context shift a generation ends in an error (3080) one position before
  `process_token` would end it as truncated, although the comment at 3083 says this
  point is never reached.
* `BudgetKept` says of a server with a draft model only that no response exceeds its
  budget: see `draft_limit`.
* The requests of `context` discard no kept token: nothing in the code keeps `n_discard`
  from reaching into them (`SamplesTranscript`, `RetainsKeep`).
* `VectorsInOrder` is about ingestions of which no result has overtaken another: see
  `chunk_order`.
* The servers with a draft model have one view: speculation runs after every view (3571) and doubles
  a token that waits in a later one (`SamplesTranscript`, with `many_views`).
* In `stream` the pieces make well-formed UTF-8, and no piece ends a stop word and
  begins a character that it does not complete: the word is not searched for then,
  and with the next piece only from a position behind its beginning (1543), so that
  it is missed (`StopsAtFirst`).
* `StreamedText` says that a stream withholds only what `stream_end` shows it to
  withhold, and `StopsAtFirst` says nothing of a line that is cut for its indentation:
  it may have been sent.
* `IngestedOnSuccess`, `NoOrphanContents` and `SchemaAnswersTrue` speak of
  behaviours in which no two threads were inside the connection at once, where
  nothing holds.
* `destroySchema` logs a `DROP` that fails and goes on, and the administrator is
  told of success (5617): a completion's `disconnect` in between is enough.
* `ShutdownEnds` names three races: a signal on a thread that holds `mutex_tasks`
  (1757), one handled before `start_loop` sets `running` (1771), and a thread in
  `recv` that misses the notification, sent without its mutex (1957). A second
  signal ends the process in any case.
* A change of model forgets the tasks in its slots (5779, `AdmittedEnds`), and one
  that fails leaves the server answering 503 for ever (5774, `LoadingEnds`), which
  its README explains as the model still being loaded.

Fairness (`FairSpec`): the main loop and the threads of submitted requests are
operating-system threads that keep running, so each is weakly fair; nothing is
assumed of clients, who need not send a request, disconnect, or send a signal.
`TimeoutRetry` is a polling step that changes nothing and gets no fairness. In
`SlotContext` the main loop is weakly fair: while a slot is at work `update_slots`
brings itself back (`NEXT_RESPONSE`, checked in `core`). `GenerationEnds` speaks of
servers with one slot: nothing in the code bounds how long slots with other adapters
may keep one out of the batch if new tasks keep arriving for them. `RagServer`
assumes that the task server answers, which is `ServiceAnswers`. `ServerLifecycle`
assumes strong fairness of finishing the work in the slots: the loop passes through
`Decode` again and again, and a generation has an end by `GenerationEnds`.

## 4. Proofs

All theorems hold for every value of the constants that satisfies the named
assumptions, which TLC evaluates on every run: `TasksAssumption` and
`ServerAssumption` (ids are distinct naturals, requests share no task, a request
that is not a batch has one task, non-causal prompts that are not rejected fit a
batch), `RagAssumption` (a task is a request, a stage and a place; at least one
chunk and one retrieval), `DocumentsAssumption` (there is a document to name) and
`ContextAssumption` (more than four positions and at least one token; no `n_discard` is
negative; `n_min` is at most `n_max`; a cache that cannot be cut
has no context shift, no draft model and no chunk reuse, as
`common_init_from_params` sees to), `ChunkingAssumption` (prompts that are not empty,
a window that fits a stream, an overlap) and `TextAssumption` (stop words are not empty
and, as strings of a JSON request, well-formed UTF-8; 464-470).

| module | theorem | states |
|---|---|---|
| `LlamaServerProofs` | `TypeCorrect` | `Spec => []TypeOK` |
| | `TasksAreKept` | `Spec => []NoTaskLost` |
| | `SlotsAreKept` | `Spec => SlotKeepsTask` |
| | `RowsAreDistinct`, `PromptsAreSampled` | `Spec => []DistinctRows`, `[]NoPromptForgotten` |
| | `NoneAreStranded` | `Spec => []NoneStranded`, if every task occupies its slot |
| `ServiceProofs` | `TasksInOnePlace` | `Spec => []OnePlace` |
| | `ServerImplementsService` | `Spec => ImplementsService`, if `~DecodeMayFail` |
| | `AnswersAreComplete` | `Spec => []AnswerComplete` |
| | `TasksEndOnce`, `NoResultStays` | `Spec => []EndsOnce`, `[]NoResultLeft`, if `~DecodeMayFail` |
| `SlotContextProofs` | `ContextIsKept`, `NoAssertionFails` | `Spec => []SlotTypeOK`, `[]AssertionsHold` |
| | `CacheIsInKv` | `Spec => [](~early_requests => CachedInKv)`, if `DiscardsFit` |
| | `BudgetIsKept` | `Spec => [](BudgetsGiven => BudgetKept)` |
| | `SamplesFromTranscript` | `Spec => [](Plain /\ ~early_requests => SamplesTranscript)` |
| | `KeepIsRetained` | `Spec => [](Plain => RetainsKeep)` |
| `StreamTextProofs` | `AnswerStopsAtFirst`, `StreamIsAnswer` | `Spec => []StopsAtFirst`, `[]StreamedText`, if `NoneRunPast` |
| `RagChunkingProofs` | `StreamsCoverPrompts`, `WindowsLeaveNoGap` | `Spec => []StreamsArePrompts`, `[]WindowsOverlap` |
| | `WholePromptStored` | `Spec => []PromptStored` |
| | `VectorsMatchContents` | `Spec => []VectorsInOrder` |
| `TaskServiceProofs` | `ServiceAnswersOnce` | `ServiceSpec => []AnsweredOnce` |
| `RagServerProofs` | `IngestionIsComplete`, `ContentsAreAccounted` | `Spec => []IngestedOnSuccess`, `[]NoOrphanContents` |
| | `EndedRequestsLeaveNothing` | `Spec => []NothingLeft` |
| | `SchemaAnswersAreTrue` | `Spec => SchemaAnswersTrue` |
| | `DatabaseIsRagStore` | `Spec => ImplementsRagStore` |

Hypotheses. Three theorems assume that no decode fails, because with a failing
decode they are false: `update_slots` sends an error for the last task of every slot
(3488), also of one that was released. `NoneAreStranded` assumes of every task that it is not
rejected at launch, names no missing slot and is no slot action: run `stranded` shows
what a rejected one does. The theorems of `SlotContextProofs` name four conditions on
a server: no request before the first idle update (`early_requests`); `BudgetsGiven`,
no `n_predict` of 0; `DiscardsFit`, no `n_discard` that reaches into the kept tokens;
and `Plain`, `DiscardsFit`, no speculation while a row is pending in another
view, and no truncated prompt where there are both a BOS token and context shift.
`ContextIsKept` and `NoAssertionFails` need none of them: they hold for every
`n_keep` and every `n_discard` that is not negative. TLC
finds a counterexample without each of them; section 3 says what the code does then.
Only for `CacheIsInKv` is `DiscardsFit` a condition of the proof: TLC found no violation
of `CachedInKv` with an `n_discard` that reaches into the kept tokens.
`NoneRunPast` (`StreamTextProofs`) is what section 3 says of the pieces of `stream`: none
ends a stop word and begins a character that it does not complete.
The instances of the passing runs satisfy all hypotheses.

The inductive invariants, each checked by TLC before it was proved:

* `IInv` (`LlamaServerProofs`). `NoTaskLost` is not inductive: that a task is kept
  when a result is sent needs to know that its id is announced, and that a CANCEL
  does not take a task away from a waiting request needs to know whose CANCELs there
  are. `IInv` adds to `TypeOK`: the main loop holds a task only while it processes it
  (`CurClear`); the ids of a request are announced from its registration until it
  stops receiving (`AnnouncedFor`); a CANCEL targets a task of a request that has
  posted its cancellation (`CancelsOwned`); where each task of a receiving request is
  (`KeptFor`).
* `PInv` (`ServiceProofs`) adds to `IInv` that the places a task can be in are
  separate, that no task is in the server's hands before its request submits it, and
  that ids targeted by a CANCEL are no longer announced. The refinement then goes
  action by action: what each does to the set of tasks in hand (`Hand`) and to the
  result queue is a step of `TaskService` or leaves both alone.
* `AInv` (also `ServiceProofs`) adds that what ends a task is the last thing sent for it
  (`Closed`) and relates the number of results a thread has counted to the tasks
  that have ended: a thread never looks at ids, so its count is right only because no
  second final result can be on its way.
* `BInv` (`LlamaServerProofs`): while a batch is at work the rows that slots wait for are
  distinct, below `n_tokens` and not behind the current view; outside there are none.
  `SInv` (for `NoneStranded`): every deferred task needs a slot, and while tasks are
  deferred either no slot is idle or somebody is about to look (the queue, the loop's
  hand).
* `CInv` (`SlotContextProofs`). That no token is placed outside the context depends on
  what earlier phases of `update_slots` did, so `CInv` says for each phase where
  `n_past` is, relative to the prompt, to `cache_tokens` and to `n_ctx`. It needs that
  truncation (3256) leaves a prompt shorter than the context for every `n_ctx` and
  `n_keep` (lemmas on division), and that a shift leaves room for the next token.
  `AssertionsHold` follows from it.
* `KInv`: the tokens of `cache_tokens` are in cells of the KV cache or in the batch.
  While chunks are reused that holds of two parts only, the prompt's beginning up to
  `head_p` and the cache from `head_c` on, and `head_p <= head_c`. Behind `n_past`
  there is nothing, so that a batch meets no cell of another token, except for the
  draft that is being judged.
* `LInv`: `n_decoded` is the number of tokens in the response, a slot that goes on
  generating has budget left, and while a draft is being processed, when `n_decoded`
  runs ahead, the response is still within the budget (`WithinBudget`).
* `TInv`: the context is the transcript (prompt and generated tokens) without one gap
  behind the tokens to be kept. Truncation and every shift only widen that gap
  (`Says`), which is why one gap is enough. With `KInv` it gives `SamplesTranscript`.
* `TextInv` (`StreamTextProofs`). `StopsAtFirst` is about all that was said, and the code
  searches only what was not sent yet, and there only what the last token can have
  completed. `Running` says why that is enough: no stop word is in what was said, and
  none begins in what was sent, also none of which only the beginning has been said
  (`BeginsAt`). That a stop word is not searched for while a character is incomplete
  does no harm because no stop word is in such a text (`NoneInIncomplete`).
* `RagChunkingProofs` has four invariants. `SplitInv`: the streams are the prompts up to
  `n_split` and the end of the next one behind `last_chunk_pos`. `WindowInv`:
  `all_prompt` is the prompt from `position` on, and the windows stored so far are
  `STEP` apart and end where `position` says, in any order of arrival. `CountInv`: the
  rows received are those of the tasks no longer pending, passed or in
  `all_embedding`, and none that makes a window waits there, which gives
  `PromptStored`. `OrderInv`, as long as no result has overtaken another: the rows in
  `all_embedding` are those of the tokens from `position` on.
* `ServiceInv` (`TaskServiceProofs`): `AnsweredOnce` does not say that a posted task
  is no longer fresh. Results taken or purged from the middle of the queue leave the
  others in their order (`KeepAtOrdered`), and what is sent for a task goes to the
  end while the task is in the server's hands.
* `RInv` (`RagServerProofs`) has four parts. `DbInv`: the RAG table exists only with
  all others, and its rows refer to rows that exist, whatever is dropped or deleted
  in between. `ThreadsOK`: which request can be where in its handler, in which stage
  and with which results to come. `TaskSide`: a receiving thread's `n` is the number
  of its tasks that are posted or have a result (`Expects`), no other task of it can
  get a result (`Settled`), tasks of later stages are new (`NewTasks`). `StoreSide`:
  an ingestion that has seen no error has stored exactly the chunks it has counted
  (`Progress`), and each content belongs to an entry or to an ingestion that failed
  or is about to store it (`Accounted`). A step is either local to one thread and the
  database (`LocalStep`) or passes tasks and results, and then touches no task of
  another thread (`Untouched`).

What an operation does to the set of pending tasks and of results is stated once in
`LlamaServerProofs`, which rests on the facts about `KeepAt` in `DequeTheorems` (what is
kept, once each and in its order, and that the result is a sequence over the same
set).

What is concatenated (`FlattenSeq`) is a recursive function of the length. Its
laws (of an appended and of a prepended sequence, of an equality up to a place) are
proved without an induction theorem: `SmallestElement` of `DequeTheorems` gives a smallest
counterexample, and the step from the one before refutes it.

Only model-checked: `ServerLifecycle`, whose three properties are all about what
eventually happens, and the other liveness (`EveryRequestServed`, `AbandonedWorkEnds`,
`ServiceAnswers`, `GenerationEnds`, `RequestEnds`, `IngestionEnds`), which is outside what
this prover does.

## 5. Plan

`handle_ingest` and `handle_chunk_vector` as further kinds of `RagServer`, and the choice
of the documents that augment a prompt (4598-4648).

## 6. Not modelled

Parsing and formatting of JSON, chat templates, grammars, logging, metrics values,
the web UI, cryptographic helpers and certificate handling: pure conversions or
external services with no control of their own that these properties could tell
apart. The llama.cpp library, ggml, `common` and the other tools and examples, which
are most of the repository's lines, are the upstream libraries this server is built
on: numerical kernels, model formats and hardware back ends without concurrency or
protocol of the server's kind. Where the server relies on them (the KV cache,
speculative sampling) they are modelled by how it uses them.

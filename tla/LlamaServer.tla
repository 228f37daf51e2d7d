---------------------------- MODULE LlamaServer ----------------------------
(***************************************************************************)
(* server_context at work: HTTP threads register and post the tasks of     *)
(* their request and wait for the results; the one main-loop thread takes  *)
(* tasks, gives them to slots, and advances all slots batch by batch       *)
(* (process_single_task, update_slots).  The two sides meet in the task    *)
(* queue (ServerQueue) and in the result queue (ServerResponse).           *)
(*                                                                         *)
(* Only the main loop touches the slots, so a step of it is atomic up to   *)
(* the one queue operation it performs; release and the send that goes     *)
(* with it are one step because an HTTP thread sees the two effects in     *)
(* different queues only.                                                  *)
(*                                                                         *)
(* Data the control does not depend on is left out: text, tokens, KV       *)
(* cells.  What depends on it is a choice: which idle slot a prompt goes   *)
(* to, whether a sampled token ends the generation, whether the context    *)
(* is full, whether a decode succeeds.                                     *)
(***************************************************************************)
EXTENDS ServerQueue, ServerResponse

CONSTANTS
    Requests,       \* the HTTP requests, each served by a thread of its own
    ReqTasks,       \* the tasks each request creates, in the order it posts them
    Mode,           \* how its results are received: "multi", "stream", "single"
    N_SLOTS,        \* n_parallel
    SlotOf,         \* id_selected_slot or slot_action.slot_id of a task, -1 for any
    NPrompt,        \* how many prompt tokens of a task have to be evaluated
    NPredict,       \* n_predict of a task
    Lora,           \* the adapters a task asks for
    Invalid,        \* tasks that launch_slot_with_task rejects
    Oversized,      \* tasks whose prompt update_slots rejects as too large
    N_BATCH,        \* llama_n_batch(ctx)
    ContBatching,   \* params_base.cont_batching
    ContextLimit,   \* ctx_shift is off and generation may reach the context size
    DecodeMayFail,  \* llama_decode may return an error
    MayDisconnect   \* requests whose client may close the connection

Slots == 0..(N_SLOTS - 1)
TasksOf(r) == {ReqTasks[r][i] : i \in DOMAIN ReqTasks[r]}

ASSUME ServerAssumption ==
    /\ ReqTasks \in [Requests -> Seq(Tasks)]
    /\ \A r \in Requests : \A i, j \in DOMAIN ReqTasks[r] :
           ReqTasks[r][i] = ReqTasks[r][j] => i = j
    /\ \A q, r \in Requests : q # r => TasksOf(q) \cap TasksOf(r) = {}
    /\ Mode \in [Requests -> {"multi", "stream", "single"}]
    \* recv(id) waits for one task: such a handler creates no more
    /\ \A r \in Requests : Mode[r] = "single" => Len(ReqTasks[r]) = 1
    /\ N_SLOTS \in Nat \ {0}
    /\ N_BATCH \in Nat \ {0}
    /\ SlotOf \in [Tasks -> Int]
    /\ NPrompt \in [Tasks -> Nat]
    /\ NPredict \in [Tasks -> Nat]
    /\ Invalid \subseteq Tasks /\ Oversized \subseteq Tasks
    /\ MayDisconnect \subseteq Requests
    /\ {ContBatching, ContextLimit, DecodeMayFail} \subseteq BOOLEAN
    \* n_ubatch <= n_batch, and a non-causal prompt above n_ubatch is rejected
    /\ \A t \in Tasks \ Oversized :
           TypeOf[t] \in {"EMBEDDING", "RERANK"} => NPrompt[t] <= N_BATCH

VARIABLES
    slots,        \* the slots of the server, by id
    loop,         \* where the main loop is
    cur,          \* the task the main loop took; a NEXT_RESPONSE when there is none
    batch,        \* update_slots: the batch being built and decoded
    http,         \* where the thread of each request is
    received,     \* the tasks whose final result a request has
    n_finished,   \* how many results the receiving loop of a request counted
    closed        \* requests whose client closed the connection

loopVars == <<slots, loop, cur, batch>>
httpVars == <<http, received, n_finished, closed>>
vars == <<queueVars, responseVars, loopVars, httpVars>>

-----------------------------------------------------------------------------
(* Slots.                                                                  *)

slot_state == {"IDLE", "STARTED", "PROCESSING_PROMPT", "DONE_PROMPT", "GENERATING"}

\* n_left: prompt tokens not yet put into a batch; i_batch: the row of the
\* batch whose logits the slot samples from, -1 for none.
server_slot == [state : slot_state,
                id_task : Tasks \cup {-1},
                n_left : Nat,
                n_decoded : Nat,
                i_batch : Nat \cup {-1}]

FreshSlot == [state |-> "IDLE", id_task |-> -1, n_left |-> 0,
              n_decoded |-> 0, i_batch |-> -1]

\* Plausible bug: a slot that has not begun its prompt looks free.
is_processing_late(s) == slots[s].state \notin {"IDLE", "STARTED"}
is_processing(s) == slots[s].state # "IDLE"
Idle == {s \in Slots : ~is_processing(s)}

is_non_causal(s) ==
    slots[s].id_task \in Tasks /\ TypeOf[slots[s].id_task] \in {"EMBEDDING", "RERANK"}

\* The adapters of a slot are those of the last task launched on it.
LoraOf(s) == IF slots[s].id_task \in Tasks THEN Lora[slots[s].id_task] ELSE "none"

can_batch_with(s, u) ==
    /\ is_non_causal(s) = is_non_causal(u)
    /\ LoraOf(s) = LoraOf(u)

\* Plausible bug: the release callback is not called.
release_silently(s, slot) ==
    IF is_processing(s)
    THEN /\ slots' = [slots EXCEPT ![s] = [slot EXCEPT !.state = "IDLE"]]
         /\ UNCHANGED queueVars
    ELSE UNCHANGED <<slots, queueVars>>

\* release, of a slot whose other fields are now those of slot: it keeps the
\* id of its task, and the callback pops one deferred task.  A slot that is not
\* processing is left alone.
release(s, slot) ==
    IF is_processing(s)
    THEN /\ slots' = [slots EXCEPT ![s] = [slot EXCEPT !.state = "IDLE"]]
         /\ PopDeferred
    ELSE UNCHANGED <<slots, queueVars>>

\* The results a slot or a task ends with.
send_error(id)          == Send(<<Result(id, "error")>>)
send_final_response(id) == Send(<<Result(id, "final")>>)
send_embedding(id)      == Send(<<Result(id, "final")>>)

-----------------------------------------------------------------------------
(* The main loop: start_loop takes tasks while there are any, ...          *)

\* What update_slots keeps between the steps of one call: the tokens in the
\* batch, the slot the others must be compatible with (-1: none yet), the slot
\* a loop over all slots has reached, the first token of the view being decoded
\* and the current size of a view.
EmptyBatch == [n_tokens |-> 0, slot_batched |-> -1, k |-> 0, i |-> 0,
               n_batch |-> N_BATCH]

TakeNext ==
    /\ loop = "next"
    /\ TakeTask
    /\ cur' = Head(queue_tasks)
    /\ loop' = "process"
    /\ UNCHANGED <<responseVars, slots, batch, httpVars>>

TasksDrained ==
    /\ loop = "next"
    /\ queue_tasks = <<>>
    /\ loop' = "update"
    /\ UNCHANGED <<queueVars, responseVars, slots, cur, batch, httpVars>>

(* ... process_single_task handles each by its type, ...                   *)

Processed == loop' = "next" /\ cur' = NextResponse /\ UNCHANGED <<batch, httpVars>>

\* The slots a task may be given: the one it names, if there is one, or
\* whichever idle slot get_available_slot finds best.
Candidates(t) ==
    IF SlotOf[t] # -1 THEN Slots \cap {SlotOf[t]} ELSE Idle

\* No slot, or the slot asked for is busy: the task is deferred.
DeferTask ==
    /\ loop = "process"
    /\ cur.type \in SlotTasks
    /\ Candidates(cur.id) \cap Idle = {}
    /\ Defer(cur)
    /\ Processed
    /\ UNCHANGED <<responseVars, slots>>

\* launch_slot_with_task: the slot takes the id of the task before it knows
\* whether the task is valid; an invalid one gets an error and the slot is idle.
launch_slot_with_task(s) ==
    LET t == cur.id
        slot == [slots[s] EXCEPT !.id_task = t, !.n_left = NPrompt[t]]
    IN  /\ loop = "process"
        /\ cur.type \in SlotTasks
        /\ s \in Candidates(t) \cap Idle
        /\ \/ /\ t \in Invalid
              /\ slots' = [slots EXCEPT ![s] = slot]
              /\ send_error(t)
           \/ /\ t \notin Invalid
              /\ slots' = [slots EXCEPT ![s] = [slot EXCEPT !.state = "STARTED"]]
              /\ UNCHANGED responseVars
        /\ Processed
        /\ UNCHANGED queueVars

\* CANCEL releases the first slot with the target's id, if there is one.
HasTask(s, t) == slots[s].id_task = t
CancelRunning ==
    /\ loop = "process"
    /\ cur.type = "CANCEL"
    /\ IF \E s \in Slots : HasTask(s, cur.id_target)
       THEN \E s \in Slots :
               /\ HasTask(s, cur.id_target)
               /\ \A u \in Slots : HasTask(u, cur.id_target) => s <= u
               /\ release(s, slots[s])
       ELSE UNCHANGED <<slots, queueVars>>
    /\ Processed
    /\ UNCHANGED responseVars

ProcessNextResponse ==
    /\ loop = "process"
    /\ cur.type = "NEXT_RESPONSE"
    /\ Processed
    /\ UNCHANGED <<queueVars, responseVars, slots>>

\* METRICS and SET_LORA are answered at once.
ProcessQuery ==
    /\ loop = "process"
    /\ cur.type \in {"METRICS", "SET_LORA"}
    /\ Send(<<Result(cur.id, "final")>>)
    /\ Processed
    /\ UNCHANGED <<queueVars, slots>>

\* SLOT_SAVE, SLOT_RESTORE, SLOT_ERASE: an unknown slot is an error, a busy one
\* defers the task, an idle one is worked on; a restore may fail.
ProcessSlotAction ==
    /\ loop = "process"
    /\ cur.type \in SlotActions
    /\ \/ /\ SlotOf[cur.id] \notin Slots
          /\ send_error(cur.id)
          /\ UNCHANGED queueVars
       \/ /\ SlotOf[cur.id] \in Slots \ Idle
          /\ Defer(cur)
          /\ UNCHANGED responseVars
       \/ /\ SlotOf[cur.id] \in Idle
          /\ \/ Send(<<Result(cur.id, "final")>>)
             \/ cur.type = "SLOT_RESTORE" /\ send_error(cur.id)
          /\ UNCHANGED queueVars
    /\ Processed
    /\ UNCHANGED slots

-----------------------------------------------------------------------------
(* ... and, once the queue is drained, update_slots advances the slots.    *)

InUpdate(phase) == loop = phase /\ UNCHANGED <<cur, httpVars>>

\* update_slots goes on in another phase, or returns and its locals are gone.
GoTo(phase, b) ==
    /\ loop' = phase
    /\ batch' = IF phase = "wait" THEN EmptyBatch ELSE b

AllIdle ==
    /\ InUpdate("update")
    /\ Idle = Slots
    /\ GoTo("wait", batch)
    /\ UNCHANGED <<queueVars, responseVars, slots>>

\* Plausible bug: nothing makes the loop come back to the busy slots.
UpdateWithoutNextResponse ==
    /\ InUpdate("update")
    /\ Idle # Slots
    /\ GoTo("shift", batch)
    /\ UNCHANGED <<queueVars, responseVars, slots>>

\* Some slot is at work: NEXT_RESPONSE makes the loop come back here.
PostNextResponse ==
    /\ InUpdate("update")
    /\ Idle # Slots
    /\ Post(<<NextResponse>>, FALSE)
    /\ GoTo("shift", batch)
    /\ UNCHANGED <<responseVars, slots>>

\* The context is full and may not be shifted: the generation ends with an error.
ContextFull(s) ==
    /\ InUpdate("shift")
    /\ ContextLimit
    /\ slots[s].state = "GENERATING"
    /\ release(s, slots[s])
    /\ send_error(slots[s].id_task)
    /\ UNCHANGED <<loop, batch>>

\* The tokens sampled last go into the batch, one per generating slot that is
\* compatible with the first of them.
Generating == {s \in Slots : slots[s].state = "GENERATING"}
Batchable  == {s \in Generating :
                  \A f \in Generating : (\A g \in Generating : f <= g) => can_batch_with(f, s)}
\* Plausible bug: the row is noted after the token was added to the batch.
BatchSampledRowAfter ==
    LET row(s) == Cardinality({u \in Batchable : u <= s})
        n == Cardinality(Batchable)
        first == IF Batchable = {} THEN -1
                 ELSE CHOOSE f \in Batchable : \A g \in Batchable : f <= g
    IN  /\ InUpdate("shift")
        /\ slots' = [s \in Slots |-> IF s \in Batchable
                                     THEN [slots[s] EXCEPT !.i_batch = row(s)]
                                     ELSE slots[s]]
        /\ GoTo(IF ContBatching \/ n = 0 THEN "prompt" ELSE "decode",
                [EmptyBatch EXCEPT !.n_tokens = n, !.slot_batched = first])
        /\ UNCHANGED <<queueVars, responseVars>>
BatchSampled ==
    LET row(s) == Cardinality({u \in Batchable : u < s})
        n == Cardinality(Batchable)
        first == IF Batchable = {} THEN -1
                 ELSE CHOOSE f \in Batchable : \A g \in Batchable : f <= g
    IN  /\ InUpdate("shift")
        /\ slots' = [s \in Slots |-> IF s \in Batchable
                                     THEN [slots[s] EXCEPT !.i_batch = row(s)]
                                     ELSE slots[s]]
        /\ GoTo(IF ContBatching \/ n = 0 THEN "prompt" ELSE "decode",
                [EmptyBatch EXCEPT !.n_tokens = n, !.slot_batched = first])
        /\ UNCHANGED <<queueVars, responseVars>>

\* The loop over all slots that batches their prompts is at slot s.
AtPrompt(s) == InUpdate("prompt") /\ batch.k = s /\ s \in Slots

\* A slot that is compatible with the batch, or is the first one in it.
Compatible(s) ==
    batch.slot_batched # -1 => can_batch_with(batch.slot_batched, s)

HasPrompt(s) == slots[s].state \in {"STARTED", "PROCESSING_PROMPT"}

BatchedWith(s) == IF batch.slot_batched = -1 THEN s ELSE batch.slot_batched

\* Plausible bug: the loop over the prompts ends after the first slot.
NextPromptNone(b) == N_SLOTS

\* The next slot, unless the batch is full.
NextPrompt(b) == IF b.n_tokens >= N_BATCH THEN N_SLOTS ELSE b.k + 1

\* Nothing to do for an idle slot or one that is generating (which finds
\* slot_batched set, by itself or by the generating slot before it).
SkipNoPrompt(s) ==
    /\ AtPrompt(s)
    /\ ~HasPrompt(s)
    /\ is_processing(s) => Compatible(s)
    /\ batch' = [batch EXCEPT !.k = NextPrompt(batch)]
    /\ UNCHANGED <<queueVars, responseVars, slots, loop>>

SkipIncompatible(s) ==
    /\ AtPrompt(s)
    /\ is_processing(s)
    /\ ~Compatible(s)
    /\ batch' = [batch EXCEPT !.k = @ + 1]
    /\ UNCHANGED <<queueVars, responseVars, slots, loop>>

\* Plausible bug: a rejected prompt keeps its slot.
RejectKeepsSlot(s) ==
    LET t == slots[s].id_task
    IN  /\ AtPrompt(s)
        /\ slots[s].state = "STARTED"
        /\ Compatible(s)
        /\ NPrompt[t] = 0 \/ t \in Oversized
        /\ IF NPrompt[t] = 0 THEN send_final_response(t) ELSE send_error(t)
        /\ batch' = [batch EXCEPT !.k = @ + 1, !.slot_batched = BatchedWith(s)]
        /\ UNCHANGED <<loop, slots, queueVars>>

\* A new prompt that is empty gets an empty response, one that is too large an
\* error; either way the slot is free again.
RejectPrompt(s) ==
    LET t == slots[s].id_task
    IN  /\ AtPrompt(s)
        /\ slots[s].state = "STARTED"
        /\ Compatible(s)
        /\ NPrompt[t] = 0 \/ t \in Oversized
        /\ release(s, slots[s])
        /\ IF NPrompt[t] = 0 THEN send_final_response(t) ELSE send_error(t)
        /\ batch' = [batch EXCEPT !.k = @ + 1, !.slot_batched = BatchedWith(s)]
        /\ UNCHANGED loop

\* As much of the prompt as fits goes into the batch.  A non-causal one is all
\* or nothing.  When the prompt is complete its last token gives the logits.
BatchPrompt(s) ==
    LET t == slots[s].id_task
        room == N_BATCH - batch.n_tokens
        left == slots[s].n_left
        fits == ~is_non_causal(s) \/ left <= room
        n == IF ~fits \/ room <= 0 THEN 0 ELSE IF left <= room THEN left ELSE room
        b == [batch EXCEPT !.n_tokens = @ + n, !.slot_batched = BatchedWith(s)]
    IN  /\ AtPrompt(s)
        /\ HasPrompt(s)
        /\ Compatible(s)
        /\ slots[s].state = "STARTED" => NPrompt[t] # 0 /\ t \notin Oversized
        /\ slots' = [slots EXCEPT
              ![s] = IF n = left
                     THEN [@ EXCEPT !.state = "DONE_PROMPT", !.n_left = 0,
                                    !.n_decoded = 0, !.i_batch = b.n_tokens - 1]
                     ELSE [@ EXCEPT !.state = "PROCESSING_PROMPT", !.n_left = left - n]]
        /\ batch' = [b EXCEPT !.k = IF fits THEN NextPrompt(b) ELSE b.k + 1]
        /\ UNCHANGED <<queueVars, responseVars, loop>>

\* All prompts are visited: decode what is in the batch, if anything.
PromptsBatched ==
    /\ InUpdate("prompt")
    /\ batch.k \notin Slots
    /\ GoTo(IF batch.n_tokens = 0 THEN "wait" ELSE "decode", batch)
    /\ UNCHANGED <<queueVars, responseVars, slots>>

\* The tokens [i, ViewEnd) of the batch are decoded next.
ViewEnd == IF batch.i + batch.n_batch <= batch.n_tokens
           THEN batch.i + batch.n_batch ELSE batch.n_tokens
InView(s) == batch.i <= slots[s].i_batch /\ slots[s].i_batch < ViewEnd

DecodeOk ==
    /\ InUpdate("decode")
    /\ GoTo("results", batch)
    /\ UNCHANGED <<queueVars, responseVars, slots>>

\* Plausible bug: a view of one token is halved, too.
DecodeRetryForever ==
    /\ InUpdate("decode")
    /\ DecodeMayFail
    /\ batch' = [batch EXCEPT !.n_batch = @ \div 2]
    /\ UNCHANGED <<queueVars, responseVars, slots, loop>>

\* No room in the KV cache (ret > 0): try again with half the view.
DecodeRetry ==
    /\ InUpdate("decode")
    /\ DecodeMayFail
    /\ batch.n_batch > 1
    /\ batch' = [batch EXCEPT !.n_batch = @ \div 2]
    /\ UNCHANGED <<queueVars, responseVars, slots, loop>>

\* A real error, or no room for a single token: every slot will be failed.
DecodeFails ==
    /\ InUpdate("decode")
    /\ DecodeMayFail
    /\ GoTo("failing", [batch EXCEPT !.k = 0])
    /\ UNCHANGED <<queueVars, responseVars, slots>>

\* Plausible bug: the slots are released and nobody is told.
FailSilently(s) ==
    /\ InUpdate("failing")
    /\ batch.k = s
    /\ release(s, slots[s])
    /\ batch' = [batch EXCEPT !.k = s + 1]
    /\ UNCHANGED <<loop, responseVars>>

\* ... slot by slot, whether it is processing or not.
FailSlot(s) ==
    /\ InUpdate("failing")
    /\ batch.k = s
    /\ release(s, slots[s])
    /\ send_error(slots[s].id_task)
    /\ batch' = [batch EXCEPT !.k = s + 1]
    /\ UNCHANGED loop

AllFailed ==
    /\ InUpdate("failing")
    /\ batch.k = N_SLOTS
    /\ GoTo("wait", batch)
    /\ UNCHANGED <<queueVars, responseVars, slots>>

\* The slots whose logits the decoded view holds, visited in order.
Sampling == {s \in Slots : /\ InView(s)
                           /\ slots[s].state \in {"DONE_PROMPT", "GENERATING"}}
NextToSample(s) == s \in Sampling /\ \A u \in Sampling : s <= u

\* An embedding or a rerank score is the whole result.
SendEmbedding(s) ==
    /\ InUpdate("results")
    /\ NextToSample(s)
    /\ slots[s].state = "DONE_PROMPT"
    /\ is_non_causal(s)
    /\ send_embedding(slots[s].id_task)
    /\ release(s, [slots[s] EXCEPT !.i_batch = -1])
    /\ UNCHANGED <<loop, batch>>

\* The request a slot's task belongs to streams its results.
Streams(s) == \E r \in Requests : Mode[r] = "stream" /\ slots[s].id_task \in TasksOf(r)

\* There is budget for another token.
has_budget(slot) == slot.n_decoded < NPredict[slot.id_task]

\* What process_token may do with a sampled token: its text is sent if the
\* request streams, unless a character is incomplete; an end-of-text token, a stop
\* word or a limit may end the generation, and a spent budget does.
process_token(s, slot) ==
    [text : {<<>>} \cup (IF Streams(s) THEN {<<Result(slot.id_task, "partial")>>} ELSE {}),
     has_next_token : IF has_budget(slot) THEN BOOLEAN ELSE {FALSE}]

\* A token is sampled; the slot goes on or is released with the final response.
SampleToken(s) ==
    LET slot == [slots[s] EXCEPT !.state = "GENERATING", !.i_batch = -1,
                                 !.n_decoded = @ + 1]
    IN  /\ InUpdate("results")
        /\ NextToSample(s)
        /\ ~(slots[s].state = "DONE_PROMPT" /\ is_non_causal(s))
        /\ \E out \in process_token(s, slot) :
              \/ /\ out.has_next_token
                 /\ slots' = [slots EXCEPT ![s] = slot]
                 /\ Send(out.text)
                 /\ UNCHANGED queueVars
              \/ /\ ~out.has_next_token
                 /\ release(s, slot)
                 /\ Send(out.text \o <<Result(slot.id_task, "final")>>)
        /\ UNCHANGED <<loop, batch>>

\* Plausible bug: the next view is sought as far away as if none had been halved.
ViewDoneFullStep ==
    /\ InUpdate("results")
    /\ Sampling = {}
    /\ LET next == batch.i + N_BATCH
       IN  GoTo(IF next < batch.n_tokens THEN "decode" ELSE "wait",
                [batch EXCEPT !.i = next])
    /\ UNCHANGED <<queueVars, responseVars, slots>>

\* The view is done: go on with the next one, or the update is complete.
ViewDone ==
    /\ InUpdate("results")
    /\ Sampling = {}
    /\ LET next == batch.i + batch.n_batch
       IN  GoTo(IF next < batch.n_tokens THEN "decode" ELSE "wait",
                [batch EXCEPT !.i = next])
    /\ UNCHANGED <<queueVars, responseVars, slots>>

\* The loop sleeps until there is a task.
Wake ==
    /\ loop = "wait"
    /\ queue_tasks # <<>>
    /\ loop' = "next"
    /\ UNCHANGED <<queueVars, responseVars, slots, cur, batch, httpVars>>

-----------------------------------------------------------------------------
(* The thread of an HTTP request.                                          *)

Thread(r, from, to) ==
    /\ http[r] = from
    /\ http' = [http EXCEPT ![r] = to]

\* The ids are announced first, ...
Register(r) ==
    /\ Thread(r, "new", "registered")
    /\ AddWaiting(TasksOf(r))
    /\ UNCHANGED <<queueVars, loopVars, received, n_finished, closed>>

\* ... then the tasks are posted, METRICS ahead of everything else.
Submit(r) ==
    /\ Thread(r, "registered", "receiving")
    /\ Post([i \in DOMAIN ReqTasks[r] |-> ClientTask(ReqTasks[r][i])],
            \E t \in TasksOf(r) : TypeOf[t] = "METRICS")
    /\ UNCHANGED <<responseVars, loopVars, received, n_finished, closed>>

\* The client goes away while its request is being served.
Disconnect(r) ==
    /\ r \in MayDisconnect \ closed
    /\ http[r] = "receiving"
    /\ closed' = closed \cup {r}
    /\ UNCHANGED <<queueVars, responseVars, loopVars, http, received, n_finished>>

\* Plausible bug: an error counts as a result.
ReceiveCountsErrors(r) ==
    /\ http[r] = "receiving"
    /\ Mode[r] # "single" => r \notin closed
    /\ \E i \in DOMAIN queue_results :
          LET res == queue_results[i]
              n == n_finished[r] + (IF res.kind = "partial" THEN 0 ELSE 1)
          IN  /\ IsFirstFor(i, TasksOf(r))
              /\ TakeResult(i)
              /\ received' = IF res.kind = "partial" THEN received
                             ELSE [received EXCEPT ![r] = @ \cup {res.id}]
              /\ n_finished' = [n_finished EXCEPT ![r] = n]
              /\ http' = IF n = Len(ReqTasks[r]) \/ Mode[r] = "single"
                         THEN [http EXCEPT ![r] = "answered"] ELSE http
    /\ UNCHANGED <<queueVars, loopVars, closed>>

\* recv_with_timeout returned a result, which is counted, kept and, if it was
\* the last one expected, answers the request.  An error ends the request.
Receive(r) ==
    /\ http[r] = "receiving"
    /\ Mode[r] # "single" => r \notin closed
    /\ \E i \in DOMAIN queue_results :
          LET res == queue_results[i]
              n == n_finished[r] + (IF res.kind = "final" THEN 1 ELSE 0)
          IN  /\ IsFirstFor(i, TasksOf(r))
              /\ TakeResult(i)
              /\ \/ /\ res.kind = "error" /\ Mode[r] # "single"
                    /\ http' = [http EXCEPT ![r] = "cancelling"]
                    /\ UNCHANGED <<received, n_finished>>
                 \/ /\ res.kind # "error" \/ Mode[r] = "single"
                    /\ received' = IF res.kind = "partial" THEN received
                                   ELSE [received EXCEPT ![r] = @ \cup {res.id}]
                    /\ n_finished' = [n_finished EXCEPT ![r] = n]
                    /\ http' = IF n = Len(ReqTasks[r]) \/ Mode[r] = "single"
                               THEN [http EXCEPT ![r] = "answered"] ELSE http
    /\ UNCHANGED <<queueVars, loopVars, closed>>

\* Plausible bug: a timeout counts as a result.
TimeoutCounts(r) ==
    /\ http[r] = "receiving"
    /\ Mode[r] # "single"
    /\ r \notin closed
    /\ Matches(TasksOf(r)) = {}
    /\ n_finished' = [n_finished EXCEPT ![r] = @ + 1]
    /\ http' = IF n_finished[r] + 1 = Len(ReqTasks[r])
               THEN [http EXCEPT ![r] = "answered"] ELSE http
    /\ UNCHANGED <<queueVars, responseVars, loopVars, received, closed>>

\* recv_with_timeout timed out and the client is still there: try again.
TimeoutRetry(r) ==
    /\ http[r] = "receiving"
    /\ Mode[r] # "single"
    /\ r \notin closed
    /\ Matches(TasksOf(r)) = {}
    /\ UNCHANGED vars

\* recv_with_timeout returned, with a result or without, and the connection is
\* found closed: the result is dropped and the tasks are cancelled.
FoundClosed(r) ==
    /\ Thread(r, "receiving", "cancelling")
    /\ Mode[r] # "single"
    /\ r \in closed
    /\ \/ /\ Matches(TasksOf(r)) = {}
          /\ UNCHANGED responseVars
       \/ \E i \in DOMAIN queue_results :
             IsFirstFor(i, TasksOf(r)) /\ TakeResult(i)
    /\ UNCHANGED <<queueVars, loopVars, received, n_finished, closed>>

\* cancel_tasks: nobody waits for the tasks any more, and then a CANCEL for each
\* goes to the front of the queue.
StopWaiting(r) ==
    /\ Thread(r, "cancelling", "unregistered")
    /\ RemoveAndPurge(TasksOf(r))
    /\ UNCHANGED <<queueVars, loopVars, received, n_finished, closed>>

CancelTasks(r) ==
    /\ Thread(r, "unregistered", "cancelled")
    /\ PostCancels(ReqTasks[r])
    /\ UNCHANGED <<responseVars, loopVars, received, n_finished, closed>>

\* The handler is done with the request and forgets its tasks; the rerank
\* handler returns without doing so.
Reranks(r) == \E t \in TasksOf(r) : TypeOf[t] = "RERANK"
Leave(r) ==
    /\ http[r] \in {"answered", "cancelled"}
    /\ http' = [http EXCEPT ![r] = "done"]
    /\ IF Mode[r] = "single" THEN RemoveAndPurge(TasksOf(r))
       ELSE IF Reranks(r) THEN UNCHANGED responseVars
       ELSE RemoveWaiting(TasksOf(r))
    /\ UNCHANGED <<queueVars, loopVars, received, n_finished, closed>>

-----------------------------------------------------------------------------
Init ==
    /\ QueueInit
    /\ ResponseInit
    /\ slots = [s \in Slots |-> FreshSlot]
    /\ loop = "next"
    /\ cur = NextResponse
    /\ batch = EmptyBatch
    /\ http = [r \in Requests |-> "new"]
    /\ received = [r \in Requests |-> {}]
    /\ n_finished = [r \in Requests |-> 0]
    /\ closed = {}

process_single_task ==
    \/ DeferTask \/ (\E s \in Slots : launch_slot_with_task(s))
    \/ CancelRunning \/ ProcessNextResponse \/ ProcessQuery \/ ProcessSlotAction

update_slots ==
    \/ AllIdle \/ PostNextResponse \/ BatchSampled \/ PromptsBatched
    \/ DecodeOk \/ DecodeRetry \/ DecodeFails \/ AllFailed \/ ViewDone
    \/ \E s \in Slots : \/ ContextFull(s)
                        \/ SkipNoPrompt(s) \/ SkipIncompatible(s)
                        \/ RejectPrompt(s) \/ BatchPrompt(s)
                        \/ FailSlot(s) \/ SendEmbedding(s) \/ SampleToken(s)

start_loop == TakeNext \/ TasksDrained \/ Wake \/ process_single_task \/ update_slots

Handle(r) ==
    \/ Register(r) \/ Submit(r) \/ Receive(r) \/ TimeoutRetry(r)
    \/ FoundClosed(r) \/ StopWaiting(r) \/ CancelTasks(r) \/ Leave(r)

\* All requests are served and the server is idle.
Quiescent ==
    /\ loop = "wait" /\ queue_tasks = <<>>
    /\ \A r \in Requests : http[r] = "done"
    /\ UNCHANGED vars

Next ==
    \/ start_loop
    \/ \E r \in Requests : Handle(r) \/ Disconnect(r)
    \/ Quiescent

Spec == Init /\ [][Next]_vars

\* The main loop and the HTTP threads are threads of the process and keep
\* running; a client need neither send a request nor close its connection.
Fairness ==
    /\ WF_vars(start_loop)
    /\ \A r \in Requests :
          /\ WF_vars(http[r] # "new" /\ (Submit(r) \/ Receive(r) \/ FoundClosed(r)))
          /\ WF_vars(StopWaiting(r) \/ CancelTasks(r) \/ Leave(r))

FairSpec == Spec /\ Fairness
-----------------------------------------------------------------------------
(* Properties.                                                             *)

Phases == {"next", "process", "update", "shift", "prompt", "decode", "failing",
           "results", "wait"}
HttpStates == {"new", "registered", "receiving", "answered", "cancelling",
               "unregistered", "cancelled", "done"}

ResponseTypeOK ==
    /\ waiting_task_ids \in SUBSET Tasks
    /\ queue_results \in Seq([id : Tasks, kind : ResultKinds])

LoopTypeOK ==
    /\ slots \in [Slots -> server_slot]
    /\ loop \in Phases
    /\ cur \in server_task
    /\ batch \in [n_tokens : Nat, slot_batched : Slots \cup {-1}, k : 0..N_SLOTS,
                  i : Nat, n_batch : Nat \ {0}]

HttpTypeOK ==
    /\ http \in [Requests -> HttpStates]
    /\ received \in [Requests -> SUBSET Tasks]
    /\ n_finished \in [Requests -> Nat]
    /\ closed \in SUBSET Requests

\* Every variable of the server keeps its type: the queues hold tasks, results
\* are for tasks of requests, update_slots stays within the slots, and halving
\* the view on a failed decode never makes it empty.
TypeOK == QueueTypeOK /\ ResponseTypeOK /\ LoopTypeOK /\ HttpTypeOK

Queued(t)   == \E i \in DOMAIN queue_tasks : queue_tasks[i].id = t
Deferred(t) == \E i \in DOMAIN queue_tasks_deferred : queue_tasks_deferred[i].id = t
Running(t)  == \E s \in Slots : is_processing(s) /\ slots[s].id_task = t
Ended(t)    == \E i \in DOMAIN queue_results :
                  queue_results[i].id = t /\ queue_results[i].kind # "partial"

\* The tasks in the hands of the server, and those no handler has posted yet.
InHand == {t \in Tasks : Queued(t) \/ Deferred(t) \/ cur.id = t \/ Running(t)}
Unposted == {t \in Tasks : \A r \in Requests :
                t \in TasksOf(r) => http[r] \in {"new", "registered"}}

Service == INSTANCE TaskService WITH fresh <- Unposted, posted <- InHand

\* The server implements its promise: through all moves of a task between queues,
\* loop and slots the rest of the program sees it posted once, answered once or,
\* when nobody waits for it any more, dropped.
ImplementsService == Service!ServiceSpec

\* Whatever is in the hands of the server leaves them in the end.
ServiceAnswers == \A t \in Tasks : t \in InHand ~> t \notin InHand

\* No task is lost: while a request waits for results, each of its tasks has
\* its final result delivered or in the result queue, or is still in the hands
\* of the server: queued, deferred, being processed or running in a slot.  A
\* task the main loop drops between its queues and its slots, or a result sent
\* before its id is announced, would leave recv waiting for ever.
NoTaskLost ==
    \A r \in Requests : http[r] = "receiving" =>
        \A t \in TasksOf(r) :
            \/ t \in received[r] \/ Ended(t)
            \/ Queued(t) \/ Deferred(t) \/ cur.id = t \/ Running(t)

\* A task is in the hands of the server once: it never is in two places of the
\* two queues, or both queued and running, so that it cannot run twice.
OnePlace ==
    \A t \in Tasks :
        Cardinality({<<"queue", i>> : i \in {j \in DOMAIN queue_tasks : queue_tasks[j].id = t}}
              \cup {<<"deferred", i>> : i \in {j \in DOMAIN queue_tasks_deferred :
                                                   queue_tasks_deferred[j].id = t}}
              \cup {<<"slot", s>> : s \in {u \in Slots : is_processing(u) /\ slots[u].id_task = t}}
              \cup {<<"cur", 0>> : x \in {y \in {0} : cur.id = t}}) <= 1

\* A request is answered with a result for each of its tasks: the receiving
\* loop counts results, and the count must not stand for a missing one.
AnswerComplete ==
    \A r \in Requests : http[r] = "answered" => received[r] = TasksOf(r)

\* No two slots sample from the same row of a decoded batch.
DistinctRows ==
    loop \in {"decode", "results"} =>
        \A s, u \in Slots :
            /\ s # u
            /\ slots[s].i_batch # -1 /\ slots[s].i_batch = slots[u].i_batch
            => \E v \in {s, u} : slots[v].state \notin {"DONE_PROMPT", "GENERATING"}

\* No prompt is forgotten: when update_slots has returned no slot is left with a
\* completed prompt that was not sampled, however often the view was halved; no
\* later call would look at such a slot again.
NoPromptForgotten ==
    loop \in {"wait", "next", "process", "update"} =>
        \A s \in Slots : slots[s].state # "DONE_PROMPT"

\* The server never sleeps on deferred tasks: when the main loop waits for a new
\* task and no slot is at work, no task is deferred.
NoneStranded ==
    loop = "wait" /\ queue_tasks = <<>> /\ Idle = Slots => queue_tasks_deferred = <<>>

\* A task ends once: no second final result or error is on its way for a task
\* that has one, delivered or not.
EndsOnce ==
    \A i \in DOMAIN queue_results : queue_results[i].kind # "partial" =>
        /\ \A r \in Requests : queue_results[i].id \notin received[r]
        /\ ~Running(queue_results[i].id)
        /\ \A j \in DOMAIN queue_results :
              queue_results[j].id = queue_results[i].id => j <= i

\* A request that is over leaves no result behind in the result queue.
NoResultLeft ==
    \A r \in Requests : http[r] = "done" => Matches(TasksOf(r)) = {}

\* Once a request posted its CANCELs none of its tasks is still pending.
CancelledNotPending ==
    \A r \in Requests : http[r] = "cancelled" =>
        \A t \in TasksOf(r) : ~Queued(t) /\ ~Deferred(t)

\* A slot that is at work is not taken over: its task changes only when the slot
\* is launched from idle, and it leaves work only to be idle.
TaskOfSlotKept ==
    \A s \in Slots : slots[s].state # "IDLE" =>
        /\ slots'[s].id_task = slots[s].id_task
        /\ slots'[s].state = "STARTED" => slots[s].state = "STARTED"
SlotKeepsTask == [][TaskOfSlotKept]_vars

\* Every request that is submitted is eventually answered or cancelled.
EveryRequestServed ==
    \A r \in Requests : http[r] = "receiving" ~> http[r] = "done"

\* Work nobody waits for comes to an end: when all requests are over the slots
\* become idle, although cancelled tasks may still have been queued or deferred.
AbandonedWorkEnds ==
    (\A r \in Requests : http[r] = "done") ~> (Idle = Slots /\ loop = "wait")
=============================================================================

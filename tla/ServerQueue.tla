---------------------------- MODULE ServerQueue ----------------------------
(***************************************************************************)
(* server_queue: the task queue between the HTTP threads, which post, and  *)
(* the main loop, which takes tasks, defers them and pops deferred ones.   *)
(* Every operation holds mutex_tasks from its first to its last statement, *)
(* so each is one atomic state change here.                                *)
(*                                                                         *)
(* A task is what the server distinguishes about it: the id that its       *)
(* results carry, its type, and for a CANCEL the id it targets.  Ids are   *)
(* taken from one counter under the mutex (get_new_id, post), so they are  *)
(* unique; only the ids of tasks somebody waits for are ever looked up,    *)
(* and the server's own tasks (CANCEL, NEXT_RESPONSE) carry -1 here.       *)
(***************************************************************************)
EXTENDS Deque

CONSTANTS Tasks,    \* ids of the tasks that HTTP handlers create
          TypeOf    \* the server_task_type of each

SlotTasks    == {"COMPLETION", "EMBEDDING", "RERANK"}
SlotActions  == {"SLOT_SAVE", "SLOT_RESTORE", "SLOT_ERASE"}
ClientTypes  == SlotTasks \cup SlotActions \cup {"METRICS", "SET_LORA"}

ASSUME TasksAssumption ==
    /\ Tasks \subseteq Nat
    /\ TypeOf \in [Tasks -> ClientTypes]

VARIABLES queue_tasks,           \* tasks waiting for the main loop
          queue_tasks_deferred   \* tasks waiting for a slot

queueVars == <<queue_tasks, queue_tasks_deferred>>

-----------------------------------------------------------------------------
ClientTask(t) == [type |-> TypeOf[t], id |-> t, id_target |-> -1]
CancelTask(t) == [type |-> "CANCEL", id |-> -1, id_target |-> t]
NextResponse  == [type |-> "NEXT_RESPONSE", id |-> -1, id_target |-> -1]

server_task == {ClientTask(t) : t \in Tasks} \cup {CancelTask(t) : t \in Tasks}
                   \cup {NextResponse}

QueueInit ==
    /\ queue_tasks = <<>>
    /\ queue_tasks_deferred = <<>>

\* post(task, front) and post(tasks, front) of tasks that are no CANCEL.  A
\* front post pushes one after the other, so the last one ends up first.
Post(new, front) ==
    /\ queue_tasks' = IF front
                      THEN [i \in DOMAIN new |-> new[Len(new) + 1 - i]] \o queue_tasks
                      ELSE queue_tasks \o new
    /\ UNCHANGED queue_tasks_deferred

\* The queue q once cleanup_pending_task ran for every id of ids: it drops
\* the tasks whose id_target, not whose id, is the target of the cancel.
cleanup_pending_task(q, ids) ==
    KeepAt(q, {i \in DOMAIN q : q[i].id_target \notin ids})

\* post(cancel_tasks, true): clean up for each target, then push to the front.
PostCancels(targets) ==
    LET ids == {targets[i] : i \in DOMAIN targets}
        cancels == [i \in DOMAIN targets |->
                       CancelTask(targets[Len(targets) + 1 - i])]
    IN  /\ queue_tasks' = cancels \o cleanup_pending_task(queue_tasks, ids)
        /\ queue_tasks_deferred' = cleanup_pending_task(queue_tasks_deferred, ids)

\* Variants of pop_deferred_task with a plausible bug, which the properties catch:
\* the task is not erased from the deferred queue, or not moved out of it.
PopDeferredCopies ==
    IF queue_tasks_deferred = <<>>
    THEN UNCHANGED queueVars
    ELSE /\ queue_tasks' = Append(queue_tasks, Head(queue_tasks_deferred))
         /\ UNCHANGED queue_tasks_deferred
PopDeferredDrops ==
    IF queue_tasks_deferred = <<>>
    THEN UNCHANGED queueVars
    ELSE /\ queue_tasks_deferred' = Tail(queue_tasks_deferred)
         /\ UNCHANGED queue_tasks

Defer(task) ==
    /\ queue_tasks_deferred' = Append(queue_tasks_deferred, task)
    /\ UNCHANGED queue_tasks

\* pop_deferred_task: at most one deferred task goes to the back of the queue.
PopDeferred ==
    IF queue_tasks_deferred = <<>>
    THEN UNCHANGED queueVars
    ELSE /\ queue_tasks' = Append(queue_tasks, Head(queue_tasks_deferred))
         /\ queue_tasks_deferred' = Tail(queue_tasks_deferred)

\* The main loop moves the first task out of the queue.
TakeTask ==
    /\ queue_tasks # <<>>
    /\ queue_tasks' = Tail(queue_tasks)
    /\ UNCHANGED queue_tasks_deferred

\* The queues hold tasks.
QueueTypeOK ==
    /\ queue_tasks \in Seq(server_task)
    /\ queue_tasks_deferred \in Seq(server_task)
=============================================================================
